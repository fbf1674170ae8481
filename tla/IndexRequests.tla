---------------------------- MODULE IndexRequests ----------------------------
(***************************************************************************)
(* The request side (src/main.ts): CANDLE.INDEX, INDICATOR.INDEX and       *)
(* INDICATOR.FREQ.INDEX ask for the documents of a time window of one      *)
(* trading pair.  A handler runs one find, sorted by start and limited,    *)
(* and strips the older documents of what only the newest may carry.  The  *)
(* find is a cursor that advances while the ingestion process writes; the  *)
(* interceptor and the exception filter make an answer, a blank answer or  *)
(* an error of the outcome.  Handlers share nothing but the collections,   *)
(* and pairs not even those: one pair is modelled.                         *)
(***************************************************************************)
EXTENDS Integers, Sequences, FiniteSets

CONSTANTS
    Clients,
    Intervals,      \* CandleInterval
    Types,          \* IndicatorType
    FREQ,           \* IndicatorType.FREQ
    Candle,         \* stands for the candle collection, as type and as code
    Codes,
    Starts,         \* start times of documents, and bounds of windows
    Minutes,        \* Minutes[i]: getIntervalNumberMinute(i), in units of Starts
    NoInterval,     \* the optional interval of INDICATOR.FREQ.INDEX is absent
    NoRequest,
    Limit,          \* config response.limit
    Ingested,       \* bound: the documents the ingestion process may write
    Requests,       \* bound: the requests clients send
    MaxDocs         \* bound: documents of the pair

ASSUME KindsAssumption ==
    /\ FREQ \in Types /\ Candle \notin Types \cup Codes
    /\ NoInterval \notin Intervals
    /\ Minutes \in [Intervals -> Nat \ {0}]

ASSUME BoundsAssumption ==
    Starts \subseteq Nat /\ Limit \in Nat \ {0} /\ MaxDocs \in Nat

\* detail: calcDetail with nweValues, without them, or missing altogether (the
\* schema does not require it; candles have none).
Doc == [type : Types \cup {Candle}, interval : Intervals, code : Codes \cup {Candle},
        start : Starts, detail : {"nwe", "plain", "missing"}]

Request == [op : {"candle", "indicator", "freq"}, type : Types,
            interval : Intervals \cup {NoInterval}, from : Starts, to : Starts]

ASSUME WorkloadAssumption ==
    Ingested \subseteq Doc /\ Requests \subseteq Request /\ NoRequest \notin Request

VARIABLES
    store,      \* the documents of the pair
    pc,         \* pc[c]: the last request of c is "none", "reading" or "replied"
    request,    \* request[c]
    read,       \* read[c]: what the cursor has returned, in order
    reply,      \* reply[c]: "none", "answer", "blank" or "error"
    items,      \* items[c]: the documents of an answer
    begun       \* history: begun[c], keys that matched when the find of c began

\* Operators whose name begins with Bug are plausible mistakes in the code, used
\* by no specification: each shows that some property would notice it.

vars == <<store, pc, request, read, reply, items, begun>>

\* What identifies a document: the ingestion process writes one for each.
Key == [type : Types \cup {Candle}, interval : Intervals, code : Codes \cup {Candle},
        start : Starts]

KeyOf(d) == [type |-> d.type, interval |-> d.interval, code |-> d.code, start |-> d.start]

\* A document as it is answered; prediction: valuePrediction is as stored.
Item == [key : Key, nweValues : BOOLEAN, prediction : BOOLEAN]

TypeOK ==
    /\ store \subseteq Doc
    /\ pc \in [Clients -> {"none", "reading", "replied"}]
    /\ request \in [Clients -> Request \cup {NoRequest}]
    /\ \A c \in Clients : pc[c] = "reading" => request[c] \in Request
    /\ read \in [Clients -> Seq(Doc)]
    /\ \A c \in Clients : Len(read[c]) <= Limit
    /\ reply \in [Clients -> {"none", "answer", "blank", "error"}]
    /\ items \in [Clients -> SUBSET Item]
    /\ begun \in [Clients -> SUBSET Key]

Init ==
    /\ store = {}
    /\ pc = [c \in Clients |-> "none"]
    /\ request = [c \in Clients |-> NoRequest]
    /\ read = [c \in Clients |-> <<>>]
    /\ reply = [c \in Clients |-> "none"]
    /\ items = [c \in Clients |-> {}]
    /\ begun = [c \in Clients |-> {}]

-----------------------------------------------------------------------------
(* The three queries.                                                       *)

InWindow(r, k) == r.from <= k.start /\ k.start <= r.to

IndexCandle(r, k) == k.type = Candle /\ k.interval = r.interval

IndexIndicator(r, k) == k.type = r.type /\ k.interval = r.interval

\* The interval is no condition on the documents' interval but on their start.
IndexFREQIndicator(r, k) ==
    /\ k.type = FREQ
    /\ r.interval # NoInterval => k.start % Minutes[r.interval] = 0

Matches(r, k) ==
    /\ InWindow(r, k)
    /\ CASE r.op = "candle"    -> IndexCandle(r, k)
         [] r.op = "indicator" -> IndexIndicator(r, k)
         [] r.op = "freq"      -> IndexFREQIndicator(r, k)

ReadKeys(c) == {KeyOf(read[c][i]) : i \in DOMAIN read[c]}

\* The sort order is start: -1.
BugDescending(c) ==
    {d \in store : /\ Matches(request[c], KeyOf(d))
                   /\ KeyOf(d) \notin ReadKeys(c)
                   /\ \A i \in DOMAIN read[c] : read[c][i].start >= d.start}

\* What the cursor has yet to pass.
Ahead(c) ==
    {d \in store : /\ Matches(request[c], KeyOf(d))
                   /\ KeyOf(d) \notin ReadKeys(c)
                   /\ \A i \in DOMAIN read[c] : read[c][i].start <= d.start}

\* Without a sort the documents come in any order.
BugUnsorted(c, d) == TRUE

\* A document that was there when the find began is met in its turn; one that
\* has been written since may be met or missed.
InTurn(c, d) == \A e \in Ahead(c) : KeyOf(e) \in begun[c] => d.start <= e.start

Exhausted(c) == \A e \in Ahead(c) : KeyOf(e) \notin begun[c]

-----------------------------------------------------------------------------
(* What the handlers make of the documents.                                 *)

\* The last document of its code in the list: the grouping keeps the order.
LastOfCode(s, i) == \A j \in (i + 1)..Len(s) : s[j].code # s[i].code

\* The FREQ list is grouped by code like the other one.
BugKeepsPerCode(op, s) == {i \in DOMAIN s : op = "candle" \/ LastOfCode(s, i)}

Kept(op, s) ==
    {i \in DOMAIN s : CASE op = "candle"    -> TRUE
                        [] op = "indicator" -> LastOfCode(s, i)
                        [] op = "freq"      -> i = Len(s)}

\* The newest documents lose their nweValues too, as in latestByCode.
BugStripsAll(op, s) ==
    op = "indicator" /\ \E i \in DOMAIN s : s[i].detail = "missing"

\* delete item?.calcDetail['nweValues'] throws when there is no calcDetail; the
\* projection of the FREQ query leaves calcDetail out.
StripThrows(op, s) ==
    op = "indicator" /\ \E i \in DOMAIN s \ Kept(op, s) : s[i].detail = "missing"

ItemsOf(op, s) ==
    {[key |-> KeyOf(s[i]),
      nweValues |-> op = "indicator" /\ i \in Kept(op, s) /\ s[i].detail = "nwe",
      prediction |-> i \in Kept(op, s)] : i \in DOMAIN s}

-----------------------------------------------------------------------------
(* One request.                                                             *)

\* The controller hands the validated request to the service, which starts the
\* find.
Ask(c, r) ==
    /\ pc[c] # "reading"
    /\ pc' = [pc EXCEPT ![c] = "reading"]
    /\ request' = [request EXCEPT ![c] = r]
    /\ read' = [read EXCEPT ![c] = <<>>]
    /\ reply' = [reply EXCEPT ![c] = "none"]
    /\ items' = [items EXCEPT ![c] = {}]
    /\ begun' = [begun EXCEPT ![c] = {k \in {KeyOf(d) : d \in store} : Matches(r, k)}]
    /\ UNCHANGED store

\* The exception filter answers through an HTTP response that an RPC context
\* does not have: the caller receives an error without the original's content.
Fail(c) ==
    /\ pc' = [pc EXCEPT ![c] = "replied"]
    /\ reply' = [reply EXCEPT ![c] = "error"]
    /\ items' = [items EXCEPT ![c] = {}]
    /\ UNCHANGED <<store, request, read, begun>>

\* The request does not pass the ValidationPipe.
Refuse(c) == pc[c] # "reading" /\ Fail(c)

FindFails(c) == pc[c] = "reading" /\ Fail(c)

\* The limit is left out.
BugNoLimit(c) ==
    /\ pc[c] = "reading"
    /\ \E d \in Ahead(c) : InTurn(c, d) /\ read' = [read EXCEPT ![c] = Append(@, d)]
    /\ UNCHANGED <<store, pc, request, reply, items, begun>>

Fetch(c) ==
    /\ pc[c] = "reading" /\ Len(read[c]) < Limit
    /\ \E d \in Ahead(c) : InTurn(c, d) /\ read' = [read EXCEPT ![c] = Append(@, d)]
    /\ UNCHANGED <<store, pc, request, reply, items, begun>>

\* An empty list is not answered at all.
BugNoReply(c) ==
    /\ pc[c] = "reading" /\ (Len(read[c]) = Limit \/ Exhausted(c))
    /\ read[c] # <<>> /\ ~StripThrows(request[c].op, read[c])
    /\ pc' = [pc EXCEPT ![c] = "replied"]
    /\ reply' = [reply EXCEPT ![c] = "answer"]
    /\ items' = [items EXCEPT ![c] = ItemsOf(request[c].op, read[c])]
    /\ UNCHANGED <<store, request, read, begun>>

\* The interceptor compresses what the handler returned: the list, or undefined
\* if the handler swallowed an error.
Respond(c) ==
    /\ pc[c] = "reading" /\ (Len(read[c]) = Limit \/ Exhausted(c))
    /\ pc' = [pc EXCEPT ![c] = "replied"]
    /\ LET op == request[c].op
       IN  \/ /\ StripThrows(op, read[c])
              /\ reply' = [reply EXCEPT ![c] = "blank"]
              /\ UNCHANGED items
           \/ /\ ~StripThrows(op, read[c])
              /\ reply' = [reply EXCEPT ![c] = "answer"]
              /\ items' = [items EXCEPT ![c] = ItemsOf(op, read[c])]
    /\ UNCHANGED <<store, request, read, begun>>

-----------------------------------------------------------------------------
(* The ingestion process adds documents and recomputes calcDetail.          *)

Insert(d) ==
    /\ Cardinality(store) < MaxDocs
    /\ \A e \in store : KeyOf(e) # KeyOf(d)
    /\ store' = store \cup {d}
    /\ UNCHANGED <<pc, request, read, reply, items, begun>>

Amend(d, e) ==
    /\ d \in store /\ KeyOf(e) = KeyOf(d)
    /\ store' = (store \ {d}) \cup {e}
    /\ UNCHANGED <<pc, request, read, reply, items, begun>>

Handle(c) == Fetch(c) \/ Respond(c)

Next ==
    \/ \E c \in Clients : \/ \E r \in Requests : Ask(c, r)
                          \/ Refuse(c) \/ FindFails(c) \/ Handle(c)
    \/ \E d \in Ingested : Insert(d) \/ \E e \in Ingested : Amend(d, e)

Spec == Init /\ [][Next]_vars

\* MongoDB goes on with a cursor, and the event loop with a handler.
FairSpec == Spec /\ \A c \in Clients : WF_vars(Handle(c))

-----------------------------------------------------------------------------
(* Properties.                                                              *)

Keys(c) == {i.key : i \in items[c]}

\* Whatever matched when the request arrived is answered, although documents are
\* written meanwhile, or falls victim to response.limit, which then cuts off
\* nothing older than what is answered: an answer has no gaps, but it may lack
\* the newest documents (sort and limit of all three find calls).
AnswerHasNoGaps ==
    \A c \in Clients : reply[c] = "answer" =>
        \A k \in begun[c] \ Keys(c) :
            Cardinality(items[c]) = Limit /\ \A h \in Keys(c) : h.start <= k.start

\* Of an INDICATOR answer exactly the newest document of each code keeps its
\* prediction and nweValues, of a FREQ answer exactly one document its prediction:
\* a newest one of the whole answer, whatever its code (the two maps with
\* index + 1 === length).
PredictionOnNewest ==
    \A c \in Clients : reply[c] = "answer" /\ request[c].op # "candle" =>
        \A k \in Keys(c) :
            LET rivals == {i \in items[c] : request[c].op = "freq" \/ i.key.code = k.code}
                kept == {i \in rivals : i.prediction}
            IN  /\ Cardinality(kept) = 1
                /\ \A i \in kept, j \in rivals : j.key.start <= i.key.start
                /\ \A j \in rivals : j.nweValues => j.prediction

\* An INDICATOR answer shorter than the limit is current: the prediction a code
\* comes with belongs to a document at least as recent as every document of the
\* code that matched when the request arrived (indexIndicator as a whole).
PredictionIsCurrent ==
    \A c \in Clients :
        reply[c] = "answer" /\ request[c].op = "indicator" /\ Cardinality(items[c]) < Limit =>
            \A k \in begun[c] : \E i \in items[c] :
                i.prediction /\ i.key.code = k.code /\ k.start <= i.key.start

\* A caller gets a blank instead of an answer only from INDICATOR.INDEX, and only
\* because of a document without calcDetail that a later one of its code follows:
\* as the newest of its code such a document does no harm (the catch block of
\* indexIndicator).
BlankNeedsSuccessor ==
    \A c \in Clients : reply[c] = "blank" =>
        /\ request[c].op = "indicator"
        /\ \E i, j \in DOMAIN read[c] :
                /\ i < j /\ read[c][i].code = read[c][j].code
                /\ read[c][i].detail = "missing" /\ read[c][i].start < read[c][j].start

\* How the last request of c ended, if it has.
Outcome(c) == IF pc[c] = "reading" THEN "pending" ELSE reply[c]

IngestedKeys == {KeyOf(d) : d \in Ingested}

Query == INSTANCE WindowQuery WITH
    AllKeys <- IngestedKeys, Matches <- Matches, held <- {KeyOf(d) : d \in store},
    asked <- request, due <- begun, outcome <- [c \in Clients |-> Outcome(c)],
    answer <- [c \in Clients |-> Keys(c)]

\* Although a find is a cursor that advances while documents are written and
\* recomputed, each request is answered as if at one moment, within the limit,
\* with documents that are there and match, and is answered once.
ImplementsWindowQuery == Query!Spec

\* Every request is replied to, however fast documents are written: with an
\* answer, a blank or an error.
EveryRequestReplied == \A c \in Clients : pc[c] = "reading" ~> pc[c] = "replied"

=============================================================================
