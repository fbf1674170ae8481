------------------------------ MODULE Notifier ------------------------------
(***************************************************************************)
(* The notifier process (src/notifier.ts): after the microservice listens, *)
(* one endless loop per candle interval and per indicator code reads the   *)
(* newest document of every configured pair, broadcasts the array over     *)
(* NATS and sleeps.  The reads of one iteration run concurrently under     *)
(* Promise.all; the first rejection abandons the iteration while the other *)
(* reads are still in flight.  MongoDB, the process that fills it, NATS    *)
(* and pm2 are the environment.                                            *)
(***************************************************************************)
EXTENDS Integers, Sequences, FiniteSets

CONSTANTS
    Pairs,          \* config tokenPairs
    IntervalLoops,  \* the CandleIntervals sendLatestCandle starts a loop for
    CodeLoops,      \* the codes of IndicatorCodes
    FreqCodes,      \* FreqIndicatorCodes
    Period,         \* Period[l]: intervalMinutes of code l
    Starts,         \* start times of documents
    Ingested,       \* bound: the documents the ingestion process may write
    NoDoc,          \* findOne found nothing (null)
    Unread,         \* a read MongoDB has not evaluated yet
    MaxDocs,        \* bound: documents per pair
    MaxWire         \* bound: broadcasts of one loop not yet delivered

ASSUME LoopsAssumption ==
    /\ IntervalLoops \cap CodeLoops = {}
    /\ FreqCodes \subseteq CodeLoops
    /\ Period \in [CodeLoops -> Nat \ {0}]

ASSUME DocsAssumption ==
    /\ Starts \subseteq Nat
    /\ MaxDocs \in Nat /\ MaxWire \in Nat

Loops == IntervalLoops \cup CodeLoops

\* detail: calcDetail with nweValues, without them, or missing altogether
\* (the schema does not require it); candles have no calcDetail.
Details(l) == IF l \in CodeLoops THEN {"nwe", "plain", "missing"} ELSE {"candle"}

Doc == {d \in [key : Loops, start : Starts,
               detail : {"nwe", "plain", "missing", "candle"}] :
            d.detail \in Details(d.key)}

ASSUME SentinelsAssumption ==
    NoDoc \notin Doc /\ Unread \notin Doc \cup {NoDoc}

ASSUME IngestedAssumption == Ingested \subseteq Doc

VARIABLES
    mode,    \* the process: "down", "booting", "up", or "stuck" (see ListenFails)
    pc,      \* pc[l]: "off", "reading", or asleep: "refresh" or "retry"
    flight,  \* reads in flight; orphan: their Promise.all has already rejected
    answer,  \* answer[l][p]: slot of the current Promise.all, Unread if pending
    store,   \* store[p]: the documents of pair p
    wire,    \* wire[l]: broadcasts of l handed to NATS and not yet delivered
    seen,    \* seen[l][p]: document a subscriber last received
    pub,     \* history: pub[l][p], document last broadcast
    floor    \* history: floor[l][p], starts findable when the running round began

\* Operators whose name begins with Bug are plausible mistakes in the code, used
\* by no specification: each shows that some property would notice it.

vars == <<mode, pc, flight, answer, store, wire, seen, pub, floor>>

Entry == Doc \cup {NoDoc}
Batch == [Pairs -> Entry]

Read == [loop : Loops, pair : Pairs, orphan : BOOLEAN, doc : Entry \cup {Unread}]

TypeOK ==
    /\ mode \in {"down", "booting", "up", "stuck"}
    /\ pc \in [Loops -> {"off", "reading", "refresh", "retry"}]
    /\ flight \subseteq Read
    /\ answer \in [Loops -> [Pairs -> Entry \cup {Unread}]]
    /\ store \in [Pairs -> SUBSET Doc]
    /\ wire \in [Loops -> Seq(Batch)]
    /\ seen \in [Loops -> Batch]
    /\ pub \in [Loops -> Batch]
    /\ floor \in [Loops -> [Pairs -> SUBSET Starts]]

EmptyBatch == [p \in Pairs |-> NoDoc]
NoAnswers == [p \in Pairs |-> Unread]
NoFloor == [p \in Pairs |-> {}]

Init ==
    /\ mode = "down"
    /\ pc = [l \in Loops |-> "off"]
    /\ flight = {}
    /\ answer = [l \in Loops |-> NoAnswers]
    /\ store = [p \in Pairs |-> {}]
    /\ wire = [l \in Loops |-> <<>>]
    /\ seen = [l \in Loops |-> EmptyBatch]
    /\ pub = [l \in Loops |-> EmptyBatch]
    /\ floor = [l \in Loops |-> NoFloor]

-----------------------------------------------------------------------------
(* The two queries.  Neither index is unique, so of several newest          *)
(* documents findOne may return any.                                        *)

StartOf(d) == IF d = NoDoc THEN -1 ELSE d.start

Aligned(l, s) == s % Period[l] = 0

FindableByInterval(p, l) == {d \in store[p] : d.key = l}

\* The $mod condition is left out of the FREQ query.
BugUnaligned(p, l) == {d \in store[p] : d.key = l}

FindableByCode(p, l) ==
    {d \in store[p] : d.key = l /\ (l \in FreqCodes => Aligned(l, d.start))}

Findable(p, l) ==
    IF l \in CodeLoops THEN FindableByCode(p, l) ELSE FindableByInterval(p, l)

\* The sort order is start: 1.
BugOldest(S) ==
    IF S = {} THEN {NoDoc} ELSE {d \in S : \A e \in S : d.start <= e.start}

\* findOne with sort { start: -1 }
FindOne(S) ==
    IF S = {} THEN {NoDoc} ELSE {d \in S : \A e \in S : e.start <= d.start}

Visible(l) == [p \in Pairs |-> {d.start : d \in Findable(p, l)}]

\* delete result?.calcDetail['nweValues'] throws when there is no calcDetail.
Throws(d) == d \in Doc /\ d.detail = "missing"

WithoutNweValues(d) ==
    IF d \in Doc /\ d.detail = "nwe" THEN [d EXCEPT !.detail = "plain"] ELSE d

-----------------------------------------------------------------------------
(* Process life: pm2 (autorestart) and bootstrap().                         *)

Launch ==
    /\ mode = "down"
    /\ mode' = "booting"
    /\ UNCHANGED <<pc, flight, answer, store, wire, seen, pub, floor>>

\* One read per pair is issued, and Promise.all waits for all of them.
BeginRounds(L) ==
    /\ pc' = [l \in Loops |-> IF l \in L THEN "reading" ELSE pc[l]]
    /\ answer' = [l \in Loops |-> IF l \in L THEN NoAnswers ELSE answer[l]]
    /\ flight' = flight \cup {[loop |-> l, pair |-> p, orphan |-> FALSE, doc |-> Unread] :
                                    l \in L, p \in Pairs}
    /\ floor' = [l \in Loops |-> IF l \in L THEN Visible(l) ELSE floor[l]]

\* The loops the two start functions launch, without awaiting them.
SendLatestCandle == IntervalLoops
SendLatestIndicator == CodeLoops

ListenSucceeds ==
    /\ mode = "booting"
    /\ mode' = "up"
    /\ BeginRounds(SendLatestCandle \cup SendLatestIndicator)
    /\ UNCHANGED <<store, wire, seen, pub>>

\* bootstrap().catch only prints: the process ends if nothing keeps it alive,
\* and stays, without a single loop, if the MongoDB connection does.
ListenFails ==
    /\ mode = "booting"
    /\ mode' \in {"down", "stuck"}
    /\ UNCHANGED <<pc, flight, answer, store, wire, seen, pub, floor>>

\* The process dies (or is stopped); what NATS already has stays in order.
Crash ==
    /\ mode # "down"
    /\ mode' = "down"
    /\ pc' = [l \in Loops |-> "off"]
    /\ flight' = {}
    /\ answer' = [l \in Loops |-> NoAnswers]
    /\ floor' = [l \in Loops |-> NoFloor]
    /\ UNCHANGED <<store, wire, seen, pub>>

-----------------------------------------------------------------------------
(* One iteration of a loop.                                                 *)

\* MongoDB evaluates the query; the answer is on its way.  (When it evaluates
\* the query of an orphan makes no difference: see OrphanSettles.)
Serve(f) ==
    /\ ~f.orphan /\ f.doc = Unread
    /\ \E d \in FindOne(Findable(f.pair, f.loop)) :
            flight' = (flight \ {f}) \cup {[f EXCEPT !.doc = d]}
    /\ UNCHANGED <<mode, pc, answer, store, wire, seen, pub, floor>>

\* What latestByInterval and latestByCode make of the document they got.
LatestByInterval(d) == d
LatestByCode(d) == WithoutNweValues(d)

Resolved(f) == IF f.loop \in CodeLoops THEN LatestByCode(f.doc)
                                       ELSE LatestByInterval(f.doc)

ReadResolves(f) ==
    /\ ~f.orphan /\ f.doc # Unread /\ ~Throws(f.doc)
    /\ answer' = [answer EXCEPT ![f.loop][f.pair] = Resolved(f)]
    /\ flight' = flight \ {f}
    /\ UNCHANGED <<mode, pc, store, wire, seen, pub, floor>>

\* Reads of the abandoned round are not told apart from those of the next.
BugStragglersCount(f) ==
    /\ pc' = [pc EXCEPT ![f.loop] = "retry"]
    /\ answer' = [answer EXCEPT ![f.loop] = NoAnswers]
    /\ flight' = flight \ {f}
    /\ floor' = [floor EXCEPT ![f.loop] = NoFloor]
    /\ UNCHANGED <<mode, store, wire, seen, pub>>

\* The try block surrounds the loop: the first error ends it.
BugLoopEnds(f) ==
    /\ pc' = [pc EXCEPT ![f.loop] = "off"]
    /\ answer' = [answer EXCEPT ![f.loop] = NoAnswers]
    /\ flight' = {IF g.loop = f.loop THEN [g EXCEPT !.orphan = TRUE] ELSE g :
                        g \in flight \ {f}}
    /\ floor' = [floor EXCEPT ![f.loop] = NoFloor]
    /\ UNCHANGED <<mode, store, wire, seen, pub>>

\* Promise.all rejects with the read f: the catch block sleeps sleepTime, and
\* the other reads of this round become orphans.
AbandonRound(f) ==
    /\ pc' = [pc EXCEPT ![f.loop] = "retry"]
    /\ answer' = [answer EXCEPT ![f.loop] = NoAnswers]
    /\ flight' = {IF g.loop = f.loop THEN [g EXCEPT !.orphan = TRUE] ELSE g :
                        g \in flight \ {f}}
    /\ floor' = [floor EXCEPT ![f.loop] = NoFloor]
    /\ UNCHANGED <<mode, store, wire, seen, pub>>

\* An error of latestByCode is turned into "no document".
BugErrorIsNull(f) ==
    /\ ~f.orphan
    /\ answer' = [answer EXCEPT ![f.loop][f.pair] = NoDoc]
    /\ flight' = flight \ {f}
    /\ UNCHANGED <<mode, pc, store, wire, seen, pub, floor>>

BugThrowIsNull(f) == Throws(f.doc) /\ BugErrorIsNull(f)

\* The rejection is never passed on: the promise of the read stays pending.
BugPending(f) == FALSE

ReadThrows(f) == ~f.orphan /\ Throws(f.doc) /\ AbandonRound(f)

ReadFails(f) == ~f.orphan /\ AbandonRound(f)

\* The answers are collected in a variable of the loop that outlives a round.
BugStragglerAnswers(f) ==
    /\ f.orphan
    /\ answer' = IF f.doc # Unread /\ pc[f.loop] = "reading"
                 THEN [answer EXCEPT ![f.loop][f.pair] = Resolved(f)]
                 ELSE answer
    /\ flight' = flight \ {f}
    /\ UNCHANGED <<mode, pc, store, wire, seen, pub, floor>>

\* Nobody looks at the answer or the error of an orphan, evaluated or not.
OrphanSettles(f) ==
    /\ f.orphan
    /\ flight' = flight \ {f}
    /\ UNCHANGED <<mode, pc, answer, store, wire, seen, pub, floor>>

Settle(f) == Serve(f) \/ ReadResolves(f) \/ ReadThrows(f)

\* Promise.all is not awaited.
BugEmitEarly(l) ==
    /\ pc[l] = "reading" /\ Len(wire[l]) < MaxWire
    /\ wire' = [wire EXCEPT ![l] = Append(@, answer[l])]
    /\ pub' = [pub EXCEPT ![l] = answer[l]]
    /\ pc' = [pc EXCEPT ![l] = "refresh"]
    /\ answer' = [answer EXCEPT ![l] = NoAnswers]
    /\ floor' = [floor EXCEPT ![l] = NoFloor]
    /\ UNCHANGED <<mode, flight, store, seen>>

\* emit(...).subscribe(...) does not wait for NATS; the loop then sleeps.
Emit(l) ==
    /\ pc[l] = "reading"
    /\ \A p \in Pairs : answer[l][p] # Unread
    /\ Len(wire[l]) < MaxWire
    /\ wire' = [wire EXCEPT ![l] = Append(@, answer[l])]
    /\ pub' = [pub EXCEPT ![l] = answer[l]]
    /\ pc' = [pc EXCEPT ![l] = "refresh"]
    /\ answer' = [answer EXCEPT ![l] = NoAnswers]
    /\ floor' = [floor EXCEPT ![l] = NoFloor]
    /\ UNCHANGED <<mode, flight, store, seen>>

\* sleep(interval.refresh) or sleep(interval.sleepTime) is over.
WakeUp(l) ==
    /\ pc[l] \in {"refresh", "retry"}
    /\ BeginRounds({l})
    /\ UNCHANGED <<mode, store, wire, seen, pub>>

SendLatestCandleByInterval(l) == l \in IntervalLoops /\ (Emit(l) \/ WakeUp(l))
SendLatestIndicatorByCode(l) == l \in CodeLoops /\ (Emit(l) \/ WakeUp(l))

-----------------------------------------------------------------------------
(* NATS: in order per loop, at most once.  The ingestion process adds       *)
(* documents and recomputes calcDetail; it never removes a document.        *)

Deliver(l) ==
    /\ wire[l] # <<>>
    /\ seen' = [seen EXCEPT ![l] = Head(wire[l])]
    /\ wire' = [wire EXCEPT ![l] = Tail(@)]
    /\ UNCHANGED <<mode, pc, flight, answer, store, pub, floor>>

Lose(l) ==
    /\ wire[l] # <<>>
    /\ wire' = [wire EXCEPT ![l] = Tail(@)]
    /\ UNCHANGED <<mode, pc, flight, answer, store, seen, pub, floor>>

Insert(p, d) ==
    /\ Cardinality(store[p]) < MaxDocs
    /\ store' = [store EXCEPT ![p] = @ \cup {d}]
    /\ UNCHANGED <<mode, pc, flight, answer, wire, seen, pub, floor>>

Amend(p, d, e) ==
    /\ d \in store[p] /\ e.key = d.key /\ e.start = d.start
    /\ store' = [store EXCEPT ![p] = (@ \ {d}) \cup {e}]
    /\ UNCHANGED <<mode, pc, flight, answer, wire, seen, pub, floor>>

Next ==
    \/ Launch \/ ListenSucceeds \/ ListenFails \/ Crash
    \/ \E f \in flight : Settle(f) \/ ReadFails(f) \/ OrphanSettles(f)
    \/ \E l \in Loops : \/ SendLatestCandleByInterval(l)
                        \/ SendLatestIndicatorByCode(l)
                        \/ Deliver(l) \/ Lose(l)
    \/ \E p \in Pairs, d \in Ingested : Insert(p, d) \/ \E e \in Ingested : Amend(p, d, e)

Spec == Init /\ [][Next]_vars

\* pm2 relaunches, the event loop runs timers and continuations, and every
\* read somebody waits for is answered or fails.  Nothing is assumed of the
\* ingestion process, of crashes, or of NATS beyond emptying its buffer.
Fairness ==
    /\ WF_vars(Launch)
    /\ WF_vars(ListenSucceeds \/ ListenFails)
    /\ \A l \in Loops :
        /\ WF_vars(Emit(l)) /\ WF_vars(WakeUp(l))
        /\ WF_vars(Deliver(l) \/ Lose(l))
        /\ \A p \in Pairs :
            WF_vars(\E f \in flight : f.loop = l /\ f.pair = p /\ ~f.orphan /\ Settle(f))

FairSpec == Spec /\ Fairness

-----------------------------------------------------------------------------
(* Properties.                                                              *)

\* Every slot a running Promise.all still waits for has exactly one read in
\* flight that will settle it, and no read in flight belongs to a slot that is
\* already settled or to a loop that is not waiting: a round can neither wait
\* for nothing nor be answered twice (the Promise.all of both send loops).
SlotsAwaitReads ==
    /\ \A l \in Loops, p \in Pairs :
        pc[l] = "reading" /\ answer[l][p] = Unread =>
            \E f \in flight : f.loop = l /\ f.pair = p /\ ~f.orphan
    /\ \A f \in flight : ~f.orphan =>
            /\ pc[f.loop] = "reading" /\ answer[f.loop][f.pair] = Unread
            /\ \A g \in flight : ~g.orphan /\ g.loop = f.loop /\ g.pair = f.pair => g = f

\* What is broadcast for an indicator code is a document of that code, aligned
\* to the interval of a FREQ code, and never carries nweValues; the candles of
\* an interval are candles of that interval (latestByCode, latestByInterval).
WellFormed(l, d) ==
    d = NoDoc \/ /\ d.key = l
                 /\ d.detail = (IF l \in CodeLoops THEN "plain" ELSE "candle")
                 /\ l \in FreqCodes => Aligned(l, d.start)

WireWellFormed ==
    \A l \in Loops : \A i \in DOMAIN wire[l] : \A p \in Pairs : WellFormed(l, wire[l][i][p])

Covers(d, S) == \A s \in S : s <= StartOf(d)

\* Each broadcast is, for every pair, at least as recent as everything findable
\* when its round began, whatever was abandoned, delayed or restarted before:
\* a straggler of an earlier round can never supply an answer.
BroadcastFresh ==
    [][\A l \in Loops : wire'[l] = Append(wire[l], pub'[l]) =>
            \A p \in Pairs : Covers(pub'[l][p], floor[l][p])]_vars

\* A subscriber never sees a pair go back in time, across failed rounds,
\* lost broadcasts and restarts of the notifier.
SubscriberMonotone ==
    [][\A l \in Loops, p \in Pairs : StartOf(seen[l][p]) <= StartOf(seen'[l][p])]_seen

\* The broadcasts are a feed in the sense of LatestFeed.
Feed == INSTANCE LatestFeed WITH
    visible <- [l \in Loops |-> Visible(l)],
    due <- floor,
    open <- [l \in Loops |-> pc[l] = "reading"],
    feed <- [l \in Loops |-> [p \in Pairs |-> StartOf(pub[l][p])]]

ImplementsFeed == Feed!Spec

RoundAbandoned(l) == pc[l] = "reading" /\ pc'[l] = "retry"
Broadcast(l) == pc[l] = "reading" /\ pc'[l] = "refresh"

\* A round that began ends: with a broadcast, an error, or the process.
RoundsEnd == \A l \in Loops : pc[l] = "reading" ~> pc[l] # "reading"

\* If the process stays up and the reads of a loop stop failing, whatever
\* becomes findable for it is broadcast, or something at least as recent,
\* whatever happens to the other loops.
CatchUp ==
    \A l \in Loops :
        (<>[](mode = "up") /\ <>[][~RoundAbandoned(l)]_vars) =>
            \A p \in Pairs, s \in Starts :
                s \in Visible(l)[p] ~> s <= StartOf(pub[l][p])

\* The reach of one bad document: as long as the newest document of a code has
\* no calcDetail for one pair, the loop broadcasts that code for no pair at all
\* (delete result?.calcDetail['nweValues'] throws inside Promise.all).
OneBadDocumentSilencesLoop ==
    \A l \in CodeLoops, p \in Pairs :
        <>[](\A d \in FindOne(Findable(p, l)) : Throws(d)) => <>[][~Broadcast(l)]_vars

=============================================================================
