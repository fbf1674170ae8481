# Verification of seriezer-trader-view

TLA+ models, TLC configurations and TLAPS proofs for the trader-view back end: a
NestJS program that serves candles and indicators from MongoDB over NATS. All
paths below are relative to the repository root, where the code is `src/...`.

## 1. The system

Two processes run under pm2 (`ecosystem.config.js`, one instance each,
`autorestart`):

| part | state | operations | talks to |
| --- | --- | --- | --- |
| **Notifier** (`src/notifier.ts`, `candles.service.ts:22-31,53-79`, `indicators.service.ts:23-27,132-158`) | per loop: its position in the iteration, the slots of the running `Promise.all`, the reads in flight | `bootstrap`, `sendLatestCandle`, `sendLatestIndicator`, the loops `sendLatestCandleByInterval` (8 intervals) and `sendLatestIndicatorByCode` (18 codes) | MongoDB (reads), NATS (emit) |
| **Latest-document queries** (`candles.repository.ts:29-57`, `indicators.repository.ts:29-57`) | none (the collections, one per pair) | `latestByInterval`, `latestByCode` | MongoDB |
| **Request side** (`src/main.ts`, both controllers, `indexCandle`, `indexIndicator`, `indexFREQIndicator`) | none | three NATS request handlers | MongoDB, the interceptor and filter below |
| **Interceptor, filters, exceptions** (`shares/interceptors`, `shares/filters`, `shares/exceptions`) | none | compress and log an answer, turn an exception into an error shape | every handler |
| **HTTP log middleware** (`src/middlewares/app-logger.middleware.ts`) | per request: correlation id, recorded chunks, body | `use`, wrapped `write` and `end`, the `finish` listener | Express, Node, handlers, the filters |
| **Cron lock** (`modules/cron/base.cron.ts`) | `lockKey`, `holdingLock`; the entry in the shared cache | `run`, `init`, `process` (abstract), `endSucceeded`, `endFailed`, `tryToLock`, `tryToUnlock` | cache-manager store shared by all hosts |
| **BaseRepository** (`shares/mongoose/base-repository.ts`) | the `isDeleted` flags | CRUD with soft deletion, `withTransaction`, `aggregate` | MongoDB |
| **Pagination** (`shares/pagination`, `createPagination` in `shares/helpers/utils.ts`) | none (the client: the page it is on) | `createPagination`, `getHeaders`, `setPaginationResponseHeader` | a list that changes between requests |
| **Utilities** (`shares/helpers/utils.ts`) | none | day and month lists, entity ids, duplicates; formats and conversions | the clock and the time zone of the process |
| **Logger, Bull queue, config, database and NATS modules** | none of their own | wiring and logging | - |

An ingestion process outside this repository writes the collections.

What is hard, part by part:

* *Notifier*: 26 endless asynchronous loops that nobody supervises. The reads of an
  iteration run concurrently; the first rejection abandons the iteration, and the
  reads left behind settle at any later time. Documents arrive between the reads of
  one iteration. `emit` is fire and forget. pm2 may restart the process anywhere.
  Correct means: a broadcast is never staler than the moment its round began,
  subscribers never go back in time, only documents of the right code and alignment
  are broadcast, every round ends, and an error delays a loop but does not end it.
* *Cron lock*: check-then-act over a shared store whose calls may fail before or
  after they took effect, an unconditional delete, no expiry, crashes, and a key
  fixed at construction while days pass. Correct means: no two hosts work under the
  same lock, and no lock outlives the job that wrote it.
* *Request side*: handlers keep no state, but the collection is written while their
  cursor reads it; an error swallowed after the query, a limit that keeps the earliest
  documents, and per-code versus per-list treatment of predictions. Correct means: an
  answer has no gaps, the newest documents and only they keep their predictions, and
  every request is replied to.
* *BaseRepository*: reads, writes and aggregations that must agree about which
  documents are deleted, with copies of documents that outlive changes by others and
  failures of their own saves; a transaction callback that the driver may repeat, and
  commits whose answer is lost. Correct means: a soft deletion reported is a soft
  deletion done, stale copies bring nothing back, the value returned from a transaction
  belongs to the writes that were applied, and no session is leaked.
* *HTTP side*: a response is wrapped by the middleware, written by a handler and perhaps
  by a filter, and logged when an event says it is out; the calls come in any order,
  each may throw, and what a filter throws ends the process for all requests. Correct
  means: the log says what was sent under the right id, exceptions are answered with
  their status, and it is known what can end the process.
* *Pagination and utilities*: pages are offsets into a list that moves, and calendar
  steps are taken in one time zone and printed in another. Correct means: a client that
  follows the headers sees everything and comes to an end, no day or month is lost, and
  ids collide only where they must.

`PROJECT.json` lists every component and every hazard with its line.

## 2. Modules

| module | models | status |
| --- | --- | --- |
| `LatestFeed` | the contract of the broadcasts: windows, what is due, what is published | done |
| `LatestFeedProofs` | the contract implies a monotone feed | done |
| `Notifier` | the notifier process with MongoDB, NATS, ingestion and pm2 as environment; composes with `LatestFeed` by refinement | done |
| `NotifierProofs` | its safety properties and the refinement | done |
| `MCNotifier` | instances for TLC | done |
| `DayLock` | the day lock as its users may picture it: checked and taken at once, broken by two mishaps only | done |
| `CronLock`, `MCCronLock`, `CronLockProofs` | the day lock as coded; implements `DayLock` | done |
| `WindowQuery` | what a client of the three requests may rely on: an answer made at one moment | done |
| `IndexRequests`, `MCIndexRequests`, `IndexRequestsProofs` | the three request handlers with interceptor and filter: what a caller receives, over a collection that is being written; implements `WindowQuery` | done |
| `SoftDelete`, `MCSoftDelete`, `SoftDeleteProofs` | `BaseRepository` over one collection: the flag as stored and in the copies callers hold | done |
| `AtomicCall` | what a caller of `withTransaction` may rely on: one atomic call | done |
| `Transaction`, `TransactionProofs` | `withTransaction`: repeated callbacks, error path, session life; implements `AtomicCall` | done |
| `HttpExchange`, `MCHttpExchange`, `HttpExchangeProofs` | the logging middleware, both exception filters and the page response, under arbitrary handlers | done |
| `PageWalk` | page arithmetic, and a client that follows `x-next-page` through a changing list | done |
| `Calendar` | `getDates`, `getMonths` | done |
| `EntityIds` | `generateEntityId`, `findDuplicatesBy` | done |
| `HelperProofs` | proofs about the three modules before | done |
| `MCHelpers` | instance of these three modules and `Transaction` | done |
| `NotifierTimed` | bounds on staleness with the two sleeps as durations | open |

The runs are kept few: one question each, several properties where they share an
instance. `PageWalk`, `Calendar`, `EntityIds` and `Transaction` share one run, in which a
behaviour uses one of them. `SoftDelete` has no abstract specification: a set of live documents from
which a deletion takes one for good is what the code does not give, and with the
exceptions it has, such a specification would only repeat `DeletedStaysHidden`.

### 2.1 Notifier

| variable | code |
| --- | --- |
| `mode` | life of the process; `stuck`: `bootstrap` failed, the error was printed, and the database connection keeps the process alive |
| `pc[l]` | position of loop `l`: inside `Promise.all`, or in one of the two sleeps |
| `flight` | outstanding `findOne` calls; `orphan` once the `Promise.all` they belong to has rejected |
| `answer[l][p]` | the slots of the running `Promise.all` |
| `store[p]` | the documents of the collection of pair `p`, reduced to interval or code, `start`, and the kind of `calcDetail` |
| `wire[l]`, `seen[l]` | broadcasts handed to NATS, and what a subscriber last received |
| `pub`, `floor` | history: last broadcast; what was findable when the running round began |

| action | code |
| --- | --- |
| `Launch`, `Crash` | pm2 |
| `ListenSucceeds`, `ListenFails` | `bootstrap`, `bootstrap().catch` |
| `Serve`, `ReadResolves` | MongoDB evaluates the `findOne`; later its promise resolves through `latestByInterval` or `latestByCode` |
| `ReadThrows`, `ReadFails` | `delete result?.calcDetail['nweValues']` throws, or the query rejects: `Promise.all` rejects, catch block, `sleep(interval.sleepTime)` |
| `OrphanSettles` | a read of an abandoned round settles, unheard |
| `Emit` | `Promise.all` resolved: `emit`, then `sleep(interval.refresh)` |
| `WakeUp` | the sleep is over, the next iteration issues its reads |
| `Deliver`, `Lose`, `Insert`, `Amend` | NATS and ingestion |

What is assumed of the environment, because the code does not show it:

* ingestion adds documents and rewrites `calcDetail` but never removes a document or
  changes its `start`. `SubscriberMonotone` and `BroadcastFresh` need this;
* NATS delivers the messages of one publisher in order and at most once, across a
  restart of the notifier as well (messages of the old process are in the server
  before the new process connects). `wire[l]` is the projection of one subject on loop
  `l`. Candle messages carry neither interval nor symbol, so a real subscriber cannot
  make that projection; the model credits it with knowing the loop;
* of several newest documents `findOne` may return any: no index is unique.

Orphans with equal fields are one element of the set `flight`: nothing looks at how
many there are.

### 2.2 LatestFeed

The abstract specification knows four things per loop: what is `visible`, whether a
window is `open`, what was `due` when it opened, and the last batch (`feed`). A batch
must be visible now and cover what was due. `Notifier` implements it under the
mapping `visible <- Visible`, `due <- floor`, `open <- pc = "reading"`,
`feed <- start of pub`; `ListenSucceeds` opens the windows of all loops in one step
and `Crash` closes them in one step, hence `Open` and `Close` take a set.

### 2.3 CronLock

One process per element of `Jobs`, all on `Hosts`, `HostOf` many to one. The two calls
of `tryToLock` and the call of `tryToUnlock` are split at the instant they take effect
in the store and the instant their answer arrives, and each may fail on either side.
`Del` in `failing` after `succeeding` is the retry of the deletion: `endSucceeded`
rejects inside the `try` of `run`, so `endFailed` runs and deletes again. `rejected` is
a process whose `run()` promise rejected, before `process.exit`; `createCronContext`
prints such rejections and goes on. Its object may still have `holdingLock`, and may be run
again: if that run is denied the lock, `endFailed` deletes the entry of whoever has it,
which is an `earlyDelete` like any other.

`leaked` and `breach` are history. `breach[k]` records, for the lock of day `k`, the two
mishaps: a job wrote the lock although it had become another host's since the job read it
(`staleRead`), or a job deleted an entry another job was working under (`earlyDelete`). It
is never reset: it says what has happened to the lock of this day, and
`ExclusionUnlessBreached` says that overlap has no other cause. `locked` is the local
variable of `tryToLock` and is forgotten when that returns or throws.

`DayLock` is the lock in three steps: `Take` looks at the entry and writes it, `Leave` ends
the work of a job and leaves the entry, `Clear` removes it. A lock is broken by a `Take`
over another host's entry and by a `Clear` over the heads of workers. `CronLock` implements
it with `entry <- cache`, `under` the key of each job that is between its write and the end
of `process()`, and `broken` the days with a mishap: `Set` is `Take`, `Del` is `Clear`, a
failing write, the end of `process()` and a crash are `Leave`, and everything else is no
step at all. So failing calls, lost answers, crashes, entries left behind and midnights
break no lock.

The cache is shared by all hosts and has no default expiry (none is configured in the
repository; `set` passes none). A call of a process that has died takes effect before
its death or never.

### 2.4 IndexRequests

| variable | code |
| --- | --- |
| `store` | the documents of one pair: the indicator collection and, with type and code `Candle`, the candle collection |
| `pc[c]`, `request[c]` | the last request of client `c`: being handled, or replied |
| `read[c]` | `queryResult` as far as the cursor has filled it |
| `reply[c]`, `items[c]` | what the caller received: an answer with its documents, a blank, an error |
| `begun[c]` | history: the keys that matched when the find began |

| action | code |
| --- | --- |
| `Ask` | controller and service up to the `find` |
| `Fetch` | the cursor returns its next document (`sort`, `limit`) |
| `Respond` | the `find` resolves, the handler post-processes, the interceptor compresses: an answer, or a blank if the handler swallowed an error (`indicators.service.ts:86`) |
| `Refuse`, `FindFails` | `ValidationPipe` or the query rejects; `AllExceptionsFilter` |
| `Insert`, `Amend` | ingestion |

Handlers share nothing but the collections they only read, so a handler is one process
per client and pairs are independent. `Matches` holds the three conditions; the interval
of a FREQ request is a condition on start times (`$mod`) and not on the field.

A find is no snapshot. `Ahead` and `InTurn` say what MongoDB promises of a cursor over a
collection that is being written, for documents whose sort key never changes: what was
there when the find began is returned in its turn, what has been written since may be
met (in order) or missed. A rewritten document is returned as it is when the cursor
passes it.

Assumed of ingestion: one document per type, interval, code and start, none removed.
No index says so (`indicators.schema.ts` declares none), but the program has no other
way to tell documents apart. With duplicates `BlankNeedsSuccessor` would hold with `<=`
instead of `<`.

A blank is `undefined`: the caller cannot tell it from an answer by its status. The
exception filter calls `response.status` on what the RPC context has instead of an HTTP
response and throws; the framework turns that into an error reply, so callers receive
errors without the content `createGeneralExceptionError` made. The order of the groups
in an INDICATOR answer (insertion order of the codes) is abstracted: `items` is a set.

`WindowQuery` tells the same story without cursors: collections grow, a request is asked,
and is answered in one step with documents that are there and match, at most `Limit` of
them, with no gap towards what was there when it was asked; or it is blank, or an error.
In the mapping a request is pending while it is being handled, `answer` holds the keys of
`items`, `due` is `begun`, and `held` the keys of `store`: `Respond` is `Answer` or `Blank`, `Fetch`
and `Amend` are no steps. Keys stand for documents: with which `calcDetail` one is answered
is not part of this contract.

### 2.5 SoftDelete

`flag[i]` is `isDeleted` of document `i` in the collection, `doc[c]` the Mongoose
document caller `c` holds: its copy of the flag and what Mongoose remembers of the path
(`clean`, `modified`, or `default`, when the document was stored without the flag and
hydration supplied it). Callers of the repository do not exist in this program yet; the
model's callers do anything the methods allow, through repositories with and without
`isSupportSoftDeleted` over the same model.

| action | code |
| --- | --- |
| `Create`, `InsertMany`, `Update`, `Delete` | one call to the model each, in the moment MongoDB applies it; the seven update methods differ in their conditions only |
| `Find` | the finds; the caller keeps the document |
| `SoftDelete` | `softDeleteOneByDoc` up to `doc.save()`, or to its end if it does not save |
| `Save` | `save`, with changes to other fields |
| `Write`, `SaveResolves`, `SaveRejects` | `doc.save()`: takes effect and returns, or fails before or after its effect, or finds no document |

Of Mongoose (8.4) it is assumed that `save` writes the paths that are not clean,
defaulted ones included, that a failed `save` leaves them so, and that `lean` in
`insertMany` skips defaults. `hidden`, `bare`, `seen` and `failed` are history.

Two things the properties carve out are worth knowing. A soft deletion that failed
reports success when it is tried again on the same copy, because the copy is flagged
already (`base-repository.ts:300`). And a copy of a document inserted without a flag
holds the default `false`: saved after somebody else's deletion, it undoes it.

### 2.6 Transaction

The driver's `withTransaction` (6.7) is modelled as far as the repository depends on
it: `CallFn` starts a transaction and calls the closure; a transient error of `fn` or of
the commit starts over; a commit with unknown outcome is repeated (no state changes)
or given up; a transaction that `fn` has aborted is not committed. `ServerCommits` and
`ServerAborts` are the server; a commit that was given up may still take effect
(`doubt`). That `fn` commits the transaction itself is excluded. `Throw` and `Return`
include the `finally` block, which does not wait for `endSession`: `EndSession` comes
later, possibly after the caller has its result.

`AtomicCall` has one call with an outcome, a value and the set of runs of `fn` whose writes
are there. Runs apply at most once; a call returns the value of the run that applied, or of
one that gave its writes up (`Withdraw`), or fails with nothing written, or fails in doubt:
only then may writes come after the end. The mapping reads the outcome off `pc`, `withdrawn`
and `doubt`. `EndedIsFinal` is a consequence about the caller's side of it.

### 2.7 HttpExchange

No module of the repository mounts `AppLoggerMiddleware`, `HttpExceptionFilter` or
`setPaginationResponseHeader` yet: they are the toolkit for HTTP handlers that do not
exist. The model's handlers therefore do whatever Node and Nest allow. (`main.ts` and
`notifier.ts` mount `AllExceptionsFilter` over NATS, where it always throws: that is `Fail` of
`IndexRequests`.)

| variable | code |
| --- | --- |
| `stage[r]`, `exception[r]` | the handler of request `r` and what it threw |
| `res[r]` | the response: its status, what of it was sent, and the closure of `_writeLog` (`chunks`, `responseBody`) |
| `id[r]` | `correlationId` in that closure; `correlated` is the next one |
| `closing[r]` | whether the response was finished or the client left before |
| `log` | what the middleware logged: kind, id, status, body |
| `alive` | the process has met neither an unhandled rejection nor an unhandled error event |

| action | code |
| --- | --- |
| `Arrive` | `use`: the request entry, and wrapping `write` and `end` |
| `Write`, `End` | a handler calls them on the wrapped response, `End` with or without a chunk, before or after the response was ended |
| `SetStatus` | a handler sets a status, before or after the headers are sent |
| `Reply`, `ReplyPage` | the framework answers with what the handler returned (nothing, a value, or what cannot be stringified), or the handler calls `setPaginationResponseHeader`, with the headers of a page or with none (`getHeaders` returns none without a pagination) |
| `Return`, `Throw` | the handler returns without an answer, or throws |
| `Catch` | the filter in use |
| `Finish`, `Leave` | the `finish` event, or the client closes the connection |
| `EmitError` | the `error` event of a response that was given a chunk after its end |

Assumed of Express (4) and Node: headers cannot be set once the first are sent; a second
`end` changes nothing; a chunk for a response that was ended, by `write` or by `end`, is
dropped and followed by an `error` event, unless the connection has already finished with
the response; a status that is undefined throws when headers are sent; with 204, 304 and 1xx
no body is sent, and with 204, 205 and 304 Express makes none; bodies that Express makes are
buffers. A text chunk (a string, which Node itself accepts) makes `Buffer.concat` throw. What a
filter throws is an unhandled rejection, and nobody listens to `error` of a response: with
either, Node exits. Other steps may come before it does, and nothing is assumed about when.

Statuses that handlers set, or put into the response of an exception, are statuses of HTTP;
with others Node throws as for an undefined one (`unsendable` among the exceptions). The calls of
a handler come before it returns or throws. Left out: answers without a body to `HEAD` requests
and to conditional requests, which Express decides about after the handler.

`LogMatchesBody` names what can make the log untrue. A second `end` replaces the recorded
body and sends nothing (`again`). The `finish` listener reads `res.statusCode` when the event
comes, so a status set when the headers are gone is logged and not sent (`late`). And a body for
a status without one is logged and not sent. `CrashHasCulprit` lists the four ways
one request can take the process down: what it throws cannot be answered, part of the
response was sent when it throws, a text is among the chunks, or a chunk came after the end.
`StatusOfException` has one exception too: `createGeneralExceptionError` returns the response
object of an `HttpException` as it is (`errors.ts:19`), and if that has a `statusCode` of its
own, `AllExceptionsFilter` answers with it, whatever `getStatus()` says; `HttpExceptionFilter`
asks `getStatus()`.

### 2.8 PageWalk, Calendar, EntityIds

`PageWalk` is a client that starts on some page and goes where `x-next-page` sends it until
that is the page it is on; `Insert` and `Remove` change the list between its requests.
`events` is history: which disturbances there were. The properties say exactly which
of them can make the client miss an item (`NothingLost`), get one twice
(`NothingTwice`) or go on for ever (`WalkEnds`: `pagination.helper.ts:21` compares with
`===`, so beyond the last page there is always a next one). `WalkEnds` has the premise that
items stop coming: a list that grows by a page between any two requests keeps the client
going without any of these events. In the instance `MaxItems` makes the premise true of every
behaviour; that it is needed is seen in the code, not by TLC. `GetHeaders` is that of a
pagination; a handler that has none is in `HttpExchange`. Query parameters are natural
numbers; negative ones, which the code lets pass, are left out.

`Calendar` counts instants in hours. `NextDate` and `NextMonth` are the setters of
`Date`, which work on the wall clock of the process; `SgDay` is what is printed. A zone has at
most one period of summer time. The assumptions say what a calendar is: months of
28 to 31 days that follow one another, and dates that lie well inside. The properties
carve out what the code gets wrong: a start on the 29th to 31st may skip a month
(`utils.ts:179`), and one within an hour of midnight may lose or repeat a day when the
clocks change.

`EntityIds` issues ids at any moment of a clock, with any suffix, then looks for
duplicates. 101 suffixes fit into 100 ids per millisecond all but one, so ids of neighbouring
milliseconds may be equal, and no others.

## 3. Runs

| run | instance | shows |
| --- | --- | --- |
| `freq` | 1 FREQ code, 2 pairs, starts {1,2,4} with period 2, 2 documents per pair, 2 undelivered broadcasts | type correctness, `SlotsAwaitReads`, `WireWellFormed`, `BroadcastFresh`, `SubscriberMonotone` |
| `live` | 1 candle interval, 1 DEMA code, 1 pair, documents without `calcDetail` | `ImplementsFeed`, `RoundsEnd`, `CatchUp` |
| `bad_document` | 1 DEMA code, 2 pairs; the newer of two documents has no `calcDetail`, one pair may have the older only | `OneBadDocumentSilencesLoop` |
| `cron` | 3 jobs on 2 hosts, 2 days | `ExclusionUnlessBreached`, `NoOrphanLock`, `ImplementsDayLock` |
| `cron_live` | 3 jobs on 2 hosts, 1 day | `LockEventuallyReleased` |
| `cron_race` | 2 jobs on 2 hosts | violates `MutualExclusion` (finding) |
| `index` | 2 DEMA codes, starts {1,2,3}, 4 documents, limit 3, two windows | `AnswerHasNoGaps`, `PredictionIsCurrent`, `BlankNeedsSuccessor`, `ImplementsWindowQuery` |
| `index_freq` | 2 FREQ codes of different intervals and candles, 4 documents, limit 2, two windows | `PredictionOnNewest`, `EveryRequestReplied` |
| `soft_delete` | 2 callers with and 1 without soft deletion, 1 document | `SoftDeleteTakesEffect`, `DeletedStaysHidden` |
| `aggregate` | 1 caller, 2 documents | violates `AggregateExcludesDeleted` (finding) |
| `http` | 2 requests, 2 writes, ends or statuses set by handlers, both filters | type correctness, `LogMatchesBody`, `LogPairs`, `CrashHasCulprit`, `StatusOfException`, `PageHeadersMatchBody`, `RepliesAreLogged` |
| `helpers` | 4 items on pages of 1 or 2; 4 time zones, 9 months; 4 ids in 4 milliseconds; 2 calls of `withTransaction`, 3 attempts | `NothingLost`, `NothingTwice`, `WalkEnds`, `DatesListed`, `MonthsListed`, `IdsFollowClock`, `DuplicatesExact`, `ReturnMatchesWrites`, `AppliedOnce`, `ErrorMeansNothing`, `ImplementsAtomicCall`, `SessionEnds` |

Bounds: `MaxDocs` (documents per pair), `MaxWire` (undelivered broadcasts per loop: a
loop sleeps a minute after each), `MaxDay`. Two pairs are enough for one read of a
round to fail while another is in flight, two documents for the newest to change during
a round, two loops for one to go on while the other fails; loops share nothing but
`mode` and `store`. Three jobs are the least for a host to have two jobs while another
host interferes. In `IndexRequests` one client is enough because
clients cannot influence each other; the limit is below the number of documents, so it
cuts answers off, and the windows exclude documents on one side. In `SoftDelete`
documents are independent and one is enough; three callers are the least for two copies
and a writer that ignores the flag. `MaxAttempts` stands for the driver's two minutes;
two attempts are enough for a value and writes of different attempts to meet. In
`HttpExchange` `MaxCalls` bounds the calls of all handlers: two are enough for a
chunk before an answer, an error, a second end, a status or a chunk that comes too late, and
two requests for ids to be mixed up. The status that handlers set is 204, which has no body;
that of the exceptions is 404, and their responses carry either. In `helpers` `MaxPage` is beyond any page with items: a walk that gets there was sent
beyond the end. The calendar has summer time that begins and ends within one day list, in two
zones, every hour of the start and of the end, and month lists over a short February.
Deadlock is not checked in these modules: a removed document that nobody holds, and
calls, requests and walks that are over, are ends. Pairs, and the two jobs of a host, are
interchangeable: symmetry is used in runs without liveness only.

The findings. `base.cron.ts:57` says "Avoid race conditional". The check below it reads
the lock in one call and writes it in another, so two hosts can both find it free
(`cron_race`). What the check does give is `ExclusionUnlessBreached`.
`base-repository.ts:310` excludes deleted documents from aggregations by `_deleted`, a
field nobody writes (`aggregate`); the flag of all other methods is `isDeleted`.

`OneBadDocumentSilencesLoop` is not a finding (no document of the repository says
otherwise) but worth knowing: `delete result?.calcDetail['nweValues']`
(`indicators.repository.ts:55`) guards against a missing document and not against a
missing `calcDetail`, and `Promise.all` spreads the error to every pair of the code: in
`bad_document` the other pair has a good document and is not broadcast either.

Fairness (`FairSpec` of `Notifier`): pm2 relaunches, `listen` returns, timers fire,
continuations run, and a read that a round waits for is answered or fails, because the
driver times out. The buffer of NATS empties, by delivery or loss; otherwise `MaxWire`
would stop `Emit`, which the code never does. Nothing is assumed of ingestion or
crashes: `CatchUp` states stability of the process and of the loop's reads as premises.
In `CronLock` a started run goes on: the store answers or fails and `process()` ends.
Crashes, new days and new runs are not fair.

In `IndexRequests` a handler goes on (MongoDB advances the cursor, promises resolve);
writers are not fair and may be as fast as they like: the limit and the finite set of
start times end every find.

In `Transaction` `fn` settles, the driver gives up a commit
after two minutes, and the event loop goes on; `SessionEnds` needs nothing of the server.

In `HttpExchange` one event loop runs the filters and the `finish` listeners and does not rest
before it has run them all (one fairness condition for both and for all requests); handlers
may hang, and an `error` event may be slow. In `PageWalk` the
client goes on asking (`Turn`), while the list may change as often as its bound lets it.

Each property has a mutant in `PROJECT.json`: a definition replaced by a plausible
mistake (the operators whose name begins with `Bug`), which makes the run fail.

## 4. Proofs

Checked by TLAPS for all values of the constants, under the named assumptions of the
modules (loops are intervals or codes, periods are positive, starts and bounds are
natural numbers, sentinels are not documents, `HostOf` is a function to hosts, statuses are
those of HTTP, texts are not buffers, months follow one another).

| theorem | argument |
| --- | --- |
| `NotifierProofs!TypeCorrect` | `TypeOK` is inductive |
| `SlotsAlwaysAwaitReads` | `RoundInv` (`TypeOK`, `SlotsAwaitReads`, and no loop runs without a process) is inductive: reads are issued exactly for the slots `BeginRounds` empties, and rejecting turns the others into orphans in the same step |
| `BroadcastsAreFresh` | `FreshInv`: the floor of a round is contained in what is visible and is covered by every read evaluated since and every answer in a slot; what was broadcast stays visible. `BroadcastFresh` alone is not inductive: it says nothing of reads in flight |
| `SubscribersAreMonotone` | `QueueInv`: `seen`, the queue in order, and `pub` are sorted; with `PublishedDue` of `FreshInv` (what was broadcast belongs to the floor of the running round) the next broadcast cannot be older |
| `NotifierImplementsFeed` | initial states map to initial states, each action maps to `Open`, `Close`, `Publish`, `Appear` or a stutter, using `FreshInv` for `Publish` |
| `FeedsNeverGoBack` | `NotifierImplementsFeed` and `FeedIsMonotone`: a theorem about the contract carried over by the refinement |
| `BroadcastsAreWellFormed` | `ContentInv`: what is in flight, in the slots and on the wire has been filtered by the query and stripped by `latestByCode` |
| `LatestFeedProofs!FeedIsMonotone` | what was published is visible from then on, so it is due in the next window; from the contract alone |
| `CronLockProofs!TypeCorrect` | `TypeOK` is inductive |
| `OverlapNeedsBreach` | `ExclusionInv`: without a breach, the entry of a day is the host name of every job entitled to work under it |
| `CronLockImplementsDayLock` | `SetTakes`, `DelClears`, `OthersLeave`, `OthersStutter`: one lemma per kind of step, from `TypeOK` alone; what `tryToLock` has read is free or its own host when it writes |
| `UnbrokenLockExcludes` | `DayLock!Exclusive` under the mapping, from `ExclusionInv`; stronger than `OverlapNeedsBreach`, as it covers jobs whose write has not been answered |
| `LocksHaveOwners` | `OrphanInv`: jobs that do not exist hold nothing, and an entry has an owner or was leaked |
| `IndexRequestsProofs!TypeCorrect` | `TypeOK` is inductive |
| `NoGaps` | `CursorInv`: what a cursor has read is sorted, without repetitions and of the request, and what matched when the find began is still there and read or not before the last document read. `AnswerInv`: an answer is made of what was read, which is up to the limit or everything that matched |
| `PredictionNewest` | from `CursorInv`, in which every document read is followed by the last one of its code: that one keeps its prediction and, the list being sorted, is a newest |
| `PredictionCurrent` | below the limit everything that matched was read (`AnswerInv`); then as before |
| `BlankSuccessor` | a document that is stripped is not the last of its code; two documents of a code, type and interval differ in their start |
| `HandlersNeverStuck` | of the documents a cursor owes, one has the least start (well-foundedness of the natural numbers): it is next. This is the safety half of `EveryRequestReplied` |
| `IndexRequestsImplementWindowQuery` | from `CursorInv` and `AnswerInv`, and from `ReadStays`: what was read is still in the store under its key when the answer is made, so all of it can be said to be read then |
| `SoftDeleteProofs!TypeCorrect`, `TransactionProofs!TypeCorrect` | `TypeOK` is inductive |
| `DeletionTakesEffect` | `EffectInv`: a flagged copy that is clean, or whose save has been applied, belongs to a document that was hidden since it was loaded; an idle caller's flagged copy was hidden or its save failed |
| `StaysHidden` | `HideInv`: defaults in copies come from documents without a flag only, and a modified flag is a deletion, so nothing else writes `false` |
| `ReturnsWhatIsWritten`, `WrittenOnce`, `ErrorsMeanNothing` | `WrittenInv`: only the running attempt can have written; every attempt before it was aborted; after a doubtful commit no attempt follows |
| `TransactionImplementsAtomicCall` | `WrittenInv`, with what a call has before its first attempt: each server step is `Apply` or nothing, each end of a call one of the four outcomes |
| `EndedCallsAreFinal` | from `WrittenInv`: after an end without doubt no transaction of the call is open or committing |
| `SessionsAreNotLeft` | `SessionWhileUnderWay` is inductive with `TypeOK` |
| `HttpExchangeProofs!HttpTypeCorrect` | `TypeOK` is part of `HttpInv` |
| `LogIsTrue`, `LogIsPaired` | `HttpInv`: what is recorded keeps up with what is sent until the response ends, or a text keeps it from ending (`Recorded`); the body of a response ended once is what was sent or forbidden by its status (`Sound`); the status is the one sent unless set later (`Agrees`, in `Status`); entries belong to requests that arrived and responses that finished (`Entries`), and ids are issued once (`Ids`) |
| `CrashesAreExplained`, `ExceptionsKeepStatus`, `PageHeadersAgree` | from the same invariant, by what `end`, `json` and the filters can make of a sound response; only a filter leaves a response without a status (`Status`), and a chunk after the end sends nothing (`LateChunk` only sets `failing`) |
| `HelperProofs!WalkTypeCorrect`, `WalkLosesNothing`, `WalkRepeatsNothing` | `WalkInv`: undisturbed items up to the frontier `(page - 1) * perPage` were given (`SteadyBehind`, `AllBehind`), and given items are behind it (`GivenBehind`) |
| `CalendarTypeCorrect`, `DaysAreListed` | `CalendarInv`: the k-th step is k days after the start, off by the hour between the two clocks at most (`OnDays`) |
| `MonthsAreListed` | `CalendarInv`: the k-th step is at the same day and hour of the k-th month after (`OnMonths`), which every month has, so Singapore is in the same month too |
| `IdsTypeCorrect`, `IdsKeepClockOrder` | `IdsInv`: an id lies 0 to 100 above a hundred times its millisecond (`Issued`) |
| `CollisionsAreFound` | `DuplicatesExact` is inductive once nothing is listed before the call (`Unscanned`) |

`CursorInv` is what has to be added to make the properties inductive: they speak of
replies, and nothing else keeps a cursor that is still reading in order.

The four refinements are proved as a reader would do them by hand: initial states map to
initial states, and each action to an action of the abstract specification or to none,
under the invariant named in the table.

Proved without being a property of a run: the type invariants of `CronLock`,
`IndexRequests`, `SoftDelete`, `Transaction`, `PageWalk`, `Calendar` and `EntityIds`;
`FeedMonotone`, `DayLock!Exclusive` and `EndedIsFinal`, which follow from refinements or
from invariants already there; `SessionWhileUnderWay`; and `HandlerCanGoOn`.

Model-checked only: the liveness properties `RoundsEnd`, `CatchUp`,
`OneBadDocumentSilencesLoop`, `LockEventuallyReleased`, `EveryRequestReplied`,
`SessionEnds`, `RepliesAreLogged` and `WalkEnds` (TLAPS has no ENABLED or fairness
reasoning here), and the counterexamples of `cron_race` and `aggregate`.

## 5. Not modelled

Payload fields, projections (a candle projection asks for `tbc` where the schema has
`tbv`: data the properties do not tell apart), logging and formatting, the durations of
the sleeps, the libraries themselves.

* *Queue (Bull)*: three queues are registered, but no processor exists and nothing adds a job.
  The hooks of `BaseQueueProcessor` only log.
* *Logger, configuration, database and NATS modules*: options and values read once,
  handed to libraries.
* *Utilities*: conversions of one line (enums, query strings, masks, amounts), distances on
  a sphere (real arithmetic), one-time passwords (a random number) and `execSh` (a callback
  around `exec`) decide nothing the other parts depend on.
* *DTO validation*: the choice between `Ask` and `Refuse`.
* `NotifierTimed` (section 2) is what could come next.
