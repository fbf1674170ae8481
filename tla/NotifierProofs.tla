--------------------------- MODULE NotifierProofs ---------------------------
(***************************************************************************)
(* Theorems about Notifier for every set of pairs, loops and documents.    *)
(***************************************************************************)
EXTENDS Notifier, TLAPS

-----------------------------------------------------------------------------
(* The operators the actions are built from.                               *)

\* A document that findOne returns comes from the set it searched.
LEMMA FindOneFinds ==
  ASSUME NEW S, NEW d \in FindOne(S)
  PROVE  \/ d = NoDoc /\ S = {}
         \/ d \in S /\ \A e \in S : e.start <= d.start
BY DEF FindOne

\* What a query may find is a set of documents of the queried loop, aligned if
\* the loop serves a FREQ code.
LEMMA FindableDocs ==
  ASSUME store \in [Pairs -> SUBSET Doc], NEW l \in Loops, NEW p \in Pairs
  PROVE  /\ Findable(p, l) \subseteq Doc
         /\ Findable(p, l) \subseteq store[p]
         /\ \A d \in Findable(p, l) : d.key = l /\ (l \in FreqCodes => Aligned(l, d.start))
BY LoopsAssumption DEF Findable, FindableByCode, FindableByInterval

\* latestByCode and latestByInterval hand on a document, or nothing.
LEMMA ResolvedEntry ==
  ASSUME NEW f \in Read, f.doc # Unread
  PROVE  Resolved(f) \in Entry /\ StartOf(Resolved(f)) = StartOf(f.doc)
<1>1. f.doc \in Entry
  BY DEF Read
<1>2. CASE Resolved(f) = f.doc
  BY <1>1, <1>2
<1>3. CASE Resolved(f) # f.doc
  <2>1. /\ f.doc \in Doc /\ f.doc.detail = "nwe"
        /\ Resolved(f) = [f.doc EXCEPT !.detail = "plain"]
    BY <1>3 DEF Resolved, LatestByCode, LatestByInterval, WithoutNweValues
  <2>2. "plain" \in Details(f.doc.key)
    BY <2>1 DEF Doc, Details
  <2>3. Resolved(f) \in Doc /\ Resolved(f).start = f.doc.start
    BY <2>1, <2>2 DEF Doc
  <2> QED BY <2>1, <2>3, SentinelsAssumption DEF Entry, StartOf
<1> QED BY <1>2, <1>3

\* The start times a loop can find are start times.
LEMMA VisibleType ==
  ASSUME store \in [Pairs -> SUBSET Doc], NEW l \in Loops
  PROVE  Visible(l) \in [Pairs -> SUBSET Starts]
BY FindableDocs DEF Visible, Doc

-----------------------------------------------------------------------------
(* Type correctness.                                                       *)

LEMMA TypeInit == Init => TypeOK
BY DEF Init, TypeOK, Entry, Batch, EmptyBatch, NoAnswers, NoFloor

LEMMA BeginRoundsType ==
  ASSUME TypeOK, NEW L \in SUBSET Loops, BeginRounds(L)
  PROVE  /\ pc' \in [Loops -> {"off", "reading", "refresh", "retry"}]
         /\ flight' \subseteq Read
         /\ answer' \in [Loops -> [Pairs -> Entry \cup {Unread}]]
         /\ floor' \in [Loops -> [Pairs -> SUBSET Starts]]
<1>1. pc' \in [Loops -> {"off", "reading", "refresh", "retry"}]
  BY DEF TypeOK, BeginRounds
<1>2. ASSUME NEW g \in flight' PROVE g \in Read
  <2>1. CASE g \in flight
    BY <2>1 DEF TypeOK
  <2>2. CASE g \notin flight
    <3>1. PICK l \in L, p \in Pairs :
              g = [loop |-> l, pair |-> p, orphan |-> FALSE, doc |-> Unread]
      BY <2>2 DEF BeginRounds
    <3> QED BY <3>1 DEF Read
  <2> QED BY <2>1, <2>2
<1>3. answer' \in [Loops -> [Pairs -> Entry \cup {Unread}]]
  BY DEF TypeOK, BeginRounds, NoAnswers
<1>4. floor' \in [Loops -> [Pairs -> SUBSET Starts]]
  BY VisibleType DEF TypeOK, BeginRounds
<1> QED BY <1>1, <1>2, <1>3, <1>4

LEMMA TypeStep == TypeOK /\ [Next]_vars => TypeOK'
<1> SUFFICES ASSUME TypeOK, [Next]_vars PROVE TypeOK'
  OBVIOUS
<1>1. CASE Launch
  BY <1>1 DEF Launch, TypeOK
<1>2. CASE ListenSucceeds
  <2>1. SendLatestCandle \cup SendLatestIndicator \in SUBSET Loops
    BY DEF SendLatestCandle, SendLatestIndicator, Loops
  <2> QED BY <1>2, <2>1, BeginRoundsType DEF ListenSucceeds, TypeOK
<1>3. CASE ListenFails
  BY <1>3 DEF ListenFails, TypeOK
<1>4. CASE Crash
  BY <1>4 DEF Crash, TypeOK, NoAnswers, NoFloor
<1>5. ASSUME NEW f \in flight, Serve(f) PROVE TypeOK'
  <2>1. PICK d \in FindOne(Findable(f.pair, f.loop)) :
            flight' = (flight \ {f}) \cup {[f EXCEPT !.doc = d]}
    BY <1>5 DEF Serve
  <2>2. f \in Read /\ f.loop \in Loops /\ f.pair \in Pairs
    BY DEF TypeOK, Read
  <2>3. d \in Entry
    BY <2>2, FindOneFinds, FindableDocs DEF Entry, TypeOK
  <2>4. [f EXCEPT !.doc = d] \in Read
    BY <2>2, <2>3 DEF Read
  <2> QED BY <1>5, <2>1, <2>4 DEF Serve, TypeOK
<1>6. ASSUME NEW f \in flight, ReadResolves(f) PROVE TypeOK'
  <2>1. f \in Read /\ f.loop \in Loops /\ f.pair \in Pairs
    BY DEF TypeOK, Read
  <2>2. Resolved(f) \in Entry
    BY <1>6, <2>1, ResolvedEntry DEF ReadResolves
  <2>3. answer' \in [Loops -> [Pairs -> Entry \cup {Unread}]]
    BY <1>6, <2>1, <2>2 DEF ReadResolves, TypeOK
  <2> QED BY <1>6, <2>3 DEF ReadResolves, TypeOK
<1>7. ASSUME NEW f \in flight, AbandonRound(f) PROVE TypeOK'
  <2>1. f.loop \in Loops
    BY DEF TypeOK, Read
  <2>2. ASSUME NEW g \in flight PROVE g \in Read /\ [g EXCEPT !.orphan = TRUE] \in Read
    BY DEF TypeOK, Read
  <2>3. flight' \subseteq Read
    BY <1>7, <2>2 DEF AbandonRound
  <2>4. /\ pc' \in [Loops -> {"off", "reading", "refresh", "retry"}]
        /\ answer' \in [Loops -> [Pairs -> Entry \cup {Unread}]]
        /\ floor' \in [Loops -> [Pairs -> SUBSET Starts]]
    BY <1>7, <2>1 DEF AbandonRound, TypeOK, NoAnswers, NoFloor
  <2> QED BY <1>7, <2>3, <2>4 DEF AbandonRound, TypeOK
<1>8. ASSUME NEW f \in flight, OrphanSettles(f) PROVE TypeOK'
  BY <1>8 DEF OrphanSettles, TypeOK
<1>9. ASSUME NEW l \in Loops, Emit(l) PROVE TypeOK'
  <2>1. answer[l] \in Batch
    BY <1>9 DEF Emit, TypeOK, Batch
  <2>2. wire' \in [Loops -> Seq(Batch)]
    BY <1>9, <2>1 DEF Emit, TypeOK
  <2>3. /\ pub' \in [Loops -> Batch]
        /\ pc' \in [Loops -> {"off", "reading", "refresh", "retry"}]
        /\ answer' \in [Loops -> [Pairs -> Entry \cup {Unread}]]
        /\ floor' \in [Loops -> [Pairs -> SUBSET Starts]]
    BY <1>9, <2>1 DEF Emit, TypeOK, NoAnswers, NoFloor
  <2> QED BY <1>9, <2>2, <2>3 DEF Emit, TypeOK
<1>10. ASSUME NEW l \in Loops, WakeUp(l) PROVE TypeOK'
  <2>1. {l} \in SUBSET Loops /\ BeginRounds({l})
    BY <1>10 DEF WakeUp
  <2> QED BY <1>10, <2>1, BeginRoundsType DEF WakeUp, TypeOK
<1>11. ASSUME NEW l \in Loops, Deliver(l) PROVE TypeOK'
  <2>1. Head(wire[l]) \in Batch /\ Tail(wire[l]) \in Seq(Batch)
    BY <1>11 DEF Deliver, TypeOK
  <2> QED BY <1>11, <2>1 DEF Deliver, TypeOK
<1>12. ASSUME NEW l \in Loops, Lose(l) PROVE TypeOK'
  <2>1. Tail(wire[l]) \in Seq(Batch)
    BY <1>12 DEF Lose, TypeOK
  <2> QED BY <1>12, <2>1 DEF Lose, TypeOK
<1>13. ASSUME NEW p \in Pairs, NEW d \in Ingested, Insert(p, d) PROVE TypeOK'
  BY <1>13, IngestedAssumption DEF Insert, TypeOK
<1>14. ASSUME NEW p \in Pairs, NEW d \in Ingested, NEW e \in Ingested, Amend(p, d, e)
       PROVE  TypeOK'
  BY <1>14, IngestedAssumption DEF Amend, TypeOK
<1>15. CASE UNCHANGED vars
  BY <1>15 DEF vars, TypeOK
<1> QED BY <1>1, <1>2, <1>3, <1>4, <1>5, <1>6, <1>7, <1>8, <1>9, <1>10, <1>11, <1>12,
           <1>13, <1>14, <1>15
        DEF Next, Settle, ReadThrows, ReadFails, SendLatestCandleByInterval,
            SendLatestIndicatorByCode

\* Every variable keeps its type, for any loops, pairs and documents: above all,
\* no array that still waits for a read (Unread) is ever handed to NATS.
THEOREM TypeCorrect == Spec => []TypeOK
BY TypeInit, TypeStep, PTL DEF Spec

-----------------------------------------------------------------------------
(* Reads and the slots that await them.                                    *)

\* Loops run only in a process that is up.
LoopsNeedProcess == mode # "up" => \A l \in Loops : pc[l] = "off"

RoundInv == TypeOK /\ LoopsNeedProcess /\ SlotsAwaitReads

LEMMA RoundInit == Init => RoundInv
BY TypeInit DEF Init, RoundInv, LoopsNeedProcess, SlotsAwaitReads

\* Loops that are not in a round may begin one.
LEMMA BeginRoundsSlots ==
  ASSUME TypeOK, SlotsAwaitReads, NEW L \in SUBSET Loops, BeginRounds(L),
         \A l \in L : pc[l] # "reading"
  PROVE  SlotsAwaitReads'
<1> DEFINE fresh(l, p) == [loop |-> l, pair |-> p, orphan |-> FALSE, doc |-> Unread]
<1>1. \A l \in Loops : /\ pc'[l] = IF l \in L THEN "reading" ELSE pc[l]
                       /\ answer'[l] = IF l \in L THEN NoAnswers ELSE answer[l]
  BY DEF BeginRounds
<1>2. \A g : g \in flight' <=> g \in flight \/ \E l \in L, p \in Pairs : g = fresh(l, p)
  BY DEF BeginRounds
<1>3. \A g \in flight : g.loop \in Loops /\ g.pair \in Pairs
  BY DEF TypeOK, Read
<1>4. \A g \in flight : ~g.orphan => g.loop \notin L
  BY DEF SlotsAwaitReads
<1>5. \A l \in L, p \in Pairs : /\ fresh(l, p).loop = l /\ fresh(l, p).pair = p
                                /\ ~fresh(l, p).orphan
  OBVIOUS
<1> HIDE DEF fresh
<1>6. ASSUME NEW l \in Loops, NEW p \in Pairs,
             pc'[l] = "reading", answer'[l][p] = Unread
      PROVE  \E g \in flight' : g.loop = l /\ g.pair = p /\ ~g.orphan
  <2>1. CASE l \in L
    BY <2>1, <1>2, <1>5
  <2>2. CASE l \notin L
    BY <2>2, <1>6, <1>1, <1>2 DEF SlotsAwaitReads
  <2> QED BY <2>1, <2>2
<1>7. ASSUME NEW g \in flight', ~g.orphan
      PROVE  pc'[g.loop] = "reading" /\ answer'[g.loop][g.pair] = Unread
  <2>1. CASE g \in flight
    BY <2>1, <1>7, <1>1, <1>3, <1>4 DEF SlotsAwaitReads
  <2>2. CASE g \notin flight
    BY <2>2, <1>1, <1>2, <1>5 DEF NoAnswers
  <2> QED BY <2>1, <2>2
<1>8. ASSUME NEW g \in flight', NEW h \in flight', ~g.orphan, ~h.orphan,
             h.loop = g.loop, h.pair = g.pair
      PROVE  h = g
  <2>1. CASE g.loop \in L
    BY <2>1, <1>8, <1>2, <1>4, <1>5
  <2>2. CASE g.loop \notin L
    BY <2>2, <1>8, <1>2, <1>5 DEF SlotsAwaitReads
  <2> QED BY <2>1, <2>2
<1> QED BY <1>6, <1>7, <1>8 DEF SlotsAwaitReads

LEMMA RoundStep == RoundInv /\ [Next]_vars => RoundInv'
<1> SUFFICES ASSUME RoundInv, [Next]_vars
             PROVE  LoopsNeedProcess' /\ SlotsAwaitReads'
  BY TypeStep DEF RoundInv
<1> USE DEF RoundInv
<1>0. \A f \in flight : f.loop \in Loops /\ f.pair \in Pairs /\ f \in Read
  BY DEF TypeOK, Read
<1>1. CASE UNCHANGED <<pc, flight, answer>> /\ (mode' = "up" <=> mode = "up")
  BY <1>1 DEF LoopsNeedProcess, SlotsAwaitReads
<1>2. CASE ListenSucceeds
  <2>1. SendLatestCandle \cup SendLatestIndicator \in SUBSET Loops
    BY DEF SendLatestCandle, SendLatestIndicator, Loops
  <2>2. \A l \in Loops : pc[l] # "reading"
    BY <1>2 DEF ListenSucceeds, LoopsNeedProcess
  <2>3. SlotsAwaitReads'
    BY <1>2, <2>1, <2>2, BeginRoundsSlots DEF ListenSucceeds
  <2> QED BY <1>2, <2>3 DEF ListenSucceeds, LoopsNeedProcess
<1>3. CASE Crash
  BY <1>3 DEF Crash, LoopsNeedProcess, SlotsAwaitReads
<1>4. ASSUME NEW f \in flight, Serve(f) PROVE LoopsNeedProcess' /\ SlotsAwaitReads'
  <2>1. PICK d : flight' = (flight \ {f}) \cup {[f EXCEPT !.doc = d]}
    BY <1>4 DEF Serve
  <2> DEFINE h == [f EXCEPT !.doc = d]
  <2>2. h.loop = f.loop /\ h.pair = f.pair /\ h.orphan = f.orphan
    BY <1>0 DEF Read
  <2> HIDE DEF h
  <2>3. flight' = (flight \ {f}) \cup {h}
    BY <2>1 DEF h
  <2>4. UNCHANGED <<mode, pc, answer>> /\ ~f.orphan
    BY <1>4 DEF Serve
  <2>5. SlotsAwaitReads'
    BY <2>2, <2>3, <2>4 DEF SlotsAwaitReads
  <2> QED BY <2>4, <2>5 DEF LoopsNeedProcess
<1>5. ASSUME NEW f \in flight, ReadResolves(f) PROVE LoopsNeedProcess' /\ SlotsAwaitReads'
  <2>1. Resolved(f) # Unread
    BY <1>0, <1>5, ResolvedEntry, SentinelsAssumption DEF ReadResolves, Entry
  <2>2. /\ ~f.orphan
        /\ flight' = flight \ {f}
        /\ UNCHANGED <<mode, pc>>
        /\ \A l \in Loops, p \in Pairs :
              answer'[l][p] = IF l = f.loop /\ p = f.pair THEN Resolved(f) ELSE answer[l][p]
    BY <1>5, <1>0 DEF ReadResolves, TypeOK
  <2>3. SlotsAwaitReads'
    BY <1>0, <2>1, <2>2 DEF SlotsAwaitReads
  <2> QED BY <2>2, <2>3 DEF LoopsNeedProcess
<1>6. ASSUME NEW f \in flight, ~f.orphan, AbandonRound(f)
      PROVE  LoopsNeedProcess' /\ SlotsAwaitReads'
  <2>1. mode = "up"
    BY <1>0, <1>6 DEF SlotsAwaitReads, LoopsNeedProcess
  <2>2. /\ \A l \in Loops : pc'[l] = IF l = f.loop THEN "retry" ELSE pc[l]
        /\ \A l \in Loops : l # f.loop => answer'[l] = answer[l]
        /\ mode' = mode
    BY <1>6, <1>0 DEF AbandonRound, TypeOK
  <2>3. \A g : ~g.orphan /\ g \in flight' => g \in flight /\ g.loop # f.loop
    <3>1. ASSUME NEW g \in flight', ~g.orphan PROVE g \in flight /\ g.loop # f.loop
      <4>1. PICK h \in flight \ {f} : g = IF h.loop = f.loop THEN [h EXCEPT !.orphan = TRUE] ELSE h
        BY <1>6 DEF AbandonRound
      <4> QED BY <4>1, <3>1, <1>0 DEF Read
    <3> QED BY <3>1
  <2>4. \A g \in flight : g.loop # f.loop => g \in flight'
    BY <1>6 DEF AbandonRound
  <2>5. SlotsAwaitReads'
    BY <1>0, <2>2, <2>3, <2>4 DEF SlotsAwaitReads
  <2> QED BY <2>1, <2>2, <2>5 DEF LoopsNeedProcess
<1>7. ASSUME NEW f \in flight, OrphanSettles(f) PROVE LoopsNeedProcess' /\ SlotsAwaitReads'
  BY <1>7 DEF OrphanSettles, LoopsNeedProcess, SlotsAwaitReads
<1>8. ASSUME NEW l \in Loops, Emit(l) PROVE LoopsNeedProcess' /\ SlotsAwaitReads'
  <2>1. mode = "up" /\ mode' = mode /\ flight' = flight
    BY <1>8 DEF Emit, LoopsNeedProcess
  <2>2. \A k \in Loops : /\ pc'[k] = IF k = l THEN "refresh" ELSE pc[k]
                         /\ k # l => answer'[k] = answer[k]
    BY <1>8 DEF Emit, TypeOK
  <2>3. \A f \in flight : ~f.orphan => f.loop # l
    BY <1>0, <1>8 DEF Emit, SlotsAwaitReads
  <2>4. SlotsAwaitReads'
    BY <1>0, <2>1, <2>2, <2>3 DEF SlotsAwaitReads
  <2> QED BY <2>1, <2>4 DEF LoopsNeedProcess
<1>9. ASSUME NEW l \in Loops, WakeUp(l) PROVE LoopsNeedProcess' /\ SlotsAwaitReads'
  <2>1. mode = "up" /\ mode' = mode
    BY <1>9 DEF WakeUp, LoopsNeedProcess
  <2>2. {l} \in SUBSET Loops /\ BeginRounds({l}) /\ \A k \in {l} : pc[k] # "reading"
    BY <1>9 DEF WakeUp
  <2>3. SlotsAwaitReads'
    BY <2>2, BeginRoundsSlots
  <2> QED BY <2>1, <2>3 DEF LoopsNeedProcess
<1>10. \/ UNCHANGED <<pc, flight, answer>> /\ (mode' = "up" <=> mode = "up")
       \/ ListenSucceeds \/ Crash
       \/ \E f \in flight : \/ Serve(f) \/ ReadResolves(f) \/ OrphanSettles(f)
                            \/ ~f.orphan /\ AbandonRound(f)
       \/ \E l \in Loops : Emit(l) \/ WakeUp(l)
  BY DEF Next, vars, Settle, ReadThrows, ReadFails, SendLatestCandleByInterval,
         SendLatestIndicatorByCode, Launch, ListenFails, Deliver, Lose, Insert, Amend
<1> QED BY <1>1, <1>2, <1>3, <1>4, <1>5, <1>6, <1>7, <1>8, <1>9, <1>10

\* No round waits for a read that is not in flight, and none is answered twice
\* for one pair, however rounds fail, stragglers linger and processes restart:
\* the reads nobody waits for are told from those of the running round.
THEOREM SlotsAlwaysAwaitReads == Spec => []SlotsAwaitReads
<1>1. RoundInv => SlotsAwaitReads
  BY DEF RoundInv
<1> QED BY <1>1, RoundInit, RoundStep, PTL DEF Spec

-----------------------------------------------------------------------------
(* Freshness.                                                              *)

\* d may be published for pair p by loop l: nothing, or a document that is
\* visible, and at least as recent as what was visible when the round began.
Recent(l, p, d) ==
    /\ StartOf(d) = -1 \/ StartOf(d) \in Visible(l)[p]
    /\ Covers(d, floor[l][p])

FloorVisible == \A l \in Loops, p \in Pairs : floor[l][p] \subseteq Visible(l)[p]

\* Answers are recent from the moment MongoDB evaluates the query.
ServedRecent ==
    \A f \in flight : ~f.orphan /\ f.doc # Unread => Recent(f.loop, f.pair, f.doc)

AnswersRecent ==
    \A l \in Loops, p \in Pairs :
        pc[l] = "reading" /\ answer[l][p] # Unread => Recent(l, p, answer[l][p])

\* What was broadcast is still visible, and every later round must cover it.
PublishedDue ==
    \A l \in Loops, p \in Pairs : StartOf(pub[l][p]) # -1 =>
        /\ StartOf(pub[l][p]) \in Visible(l)[p]
        /\ pc[l] = "reading" => StartOf(pub[l][p]) \in floor[l][p]

FreshInv ==
    /\ RoundInv
    /\ FloorVisible /\ ServedRecent /\ AnswersRecent /\ PublishedDue

LEMMA FreshInit == Init => FreshInv
BY RoundInit
   DEF Init, FreshInv, FloorVisible, ServedRecent, AnswersRecent, PublishedDue,
       NoFloor, NoAnswers, EmptyBatch, StartOf

\* A start time, once findable, stays findable: documents are added, and their
\* calcDetail recomputed, but never removed.
LEMMA VisibleGrows ==
  ASSUME TypeOK, [Next]_vars, NEW l \in Loops, NEW p \in Pairs
  PROVE  Visible(l)[p] \subseteq Visible(l)'[p]
<1> DEFINE S == {d.start : d \in Findable(p, l)}
<1>1. Visible(l)[p] = S /\ Visible(l)'[p] = S'
  BY DEF Visible
<1>2. CASE store' = store
  BY <1>2 DEF Visible, Findable, FindableByCode, FindableByInterval
<1>3. ASSUME NEW q \in Pairs, NEW d \in Ingested, Insert(q, d) PROVE S \subseteq S'
  <2>1. store[p] \subseteq store'[p]
    BY <1>3 DEF Insert, TypeOK
  <2> QED BY <2>1 DEF Findable, FindableByCode, FindableByInterval
<1>4. ASSUME NEW q \in Pairs, NEW d \in Ingested, NEW e \in Ingested, Amend(q, d, e)
      PROVE  S \subseteq S'
  <2>1. ASSUME NEW x \in Findable(p, l)
        PROVE  \E y \in Findable(p, l)' : y.start = x.start
    <3>1. CASE x \in store'[p]
      BY <3>1 DEF Findable, FindableByCode, FindableByInterval
    <3>2. CASE x \notin store'[p]
      <4>1. q = p /\ x = d /\ e \in store'[p]
        BY <3>2, <1>4, <2>1, FindableDocs DEF Amend, TypeOK
      <4>2. e \in Findable(p, l)'
        BY <4>1, <1>4, <2>1 DEF Amend, Findable, FindableByCode, FindableByInterval
      <4> QED BY <4>1, <4>2, <1>4 DEF Amend
    <3> QED BY <3>1, <3>2
  <2> QED BY <2>1
<1>5. \/ store' = store
      \/ \E q \in Pairs, d \in Ingested : \/ Insert(q, d)
                                          \/ \E e \in Ingested : Amend(q, d, e)
  BY DEF Next, vars, Launch, ListenSucceeds, ListenFails, Crash, Settle, Serve,
         ReadResolves, ReadThrows, ReadFails, AbandonRound, OrphanSettles,
         SendLatestCandleByInterval, SendLatestIndicatorByCode, Emit, WakeUp, Deliver, Lose
<1> QED BY <1>1, <1>2, <1>3, <1>4, <1>5

\* The newest document of what is visible covers all of it.
LEMMA NewestCovers ==
  ASSUME TypeOK, NEW l \in Loops, NEW p \in Pairs, NEW d \in FindOne(Findable(p, l))
  PROVE  /\ StartOf(d) = -1 \/ StartOf(d) \in Visible(l)[p]
         /\ Covers(d, Visible(l)[p])
<1>1. Visible(l)[p] = {x.start : x \in Findable(p, l)}
  BY DEF Visible
<1>2. CASE d = NoDoc /\ Findable(p, l) = {}
  BY <1>1, <1>2 DEF StartOf, Covers
<1>3. CASE d \in Findable(p, l) /\ \A e \in Findable(p, l) : e.start <= d.start
  <2>1. d # NoDoc
    BY <1>3, FindableDocs, SentinelsAssumption DEF TypeOK
  <2> QED BY <1>1, <1>3, <2>1 DEF StartOf, Covers
<1> QED BY <1>2, <1>3, FindOneFinds

\* How one step changes the round of one loop.  It is none of the actions that
\* touch the loop; or it begins a round; or it ends it.
LEMMA RoundCases ==
  ASSUME RoundInv, [Next]_vars, NEW l \in Loops
  PROVE  \/ pc'[l] = pc[l] /\ floor'[l] = floor[l] /\ pub'[l] = pub[l]
         \/ /\ pc[l] # "reading" /\ pc'[l] = "reading" /\ answer'[l] = NoAnswers
            /\ floor'[l] = Visible(l) /\ pub'[l] = pub[l]
         \/ pc'[l] # "reading" /\ floor'[l] = NoFloor /\ pub'[l] = pub[l]
         \/ pc'[l] # "reading" /\ floor'[l] = NoFloor /\ Emit(l)
<1> USE DEF RoundInv, TypeOK
<1>1. CASE UNCHANGED <<pc, floor, pub>>
  BY <1>1
<1>2. ASSUME NEW L \in SUBSET Loops, BeginRounds(L), \A k \in L : pc[k] # "reading"
      PROVE  \/ pc'[l] = pc[l] /\ floor'[l] = floor[l]
             \/ /\ pc[l] # "reading" /\ pc'[l] = "reading" /\ answer'[l] = NoAnswers
                /\ floor'[l] = Visible(l)
  BY <1>2 DEF BeginRounds
<1>3. CASE Crash
  BY <1>3 DEF Crash
<1>4. ASSUME NEW f \in flight, AbandonRound(f)
      PROVE  /\ pub' = pub
             /\ \/ pc'[l] = pc[l] /\ floor'[l] = floor[l]
                \/ pc'[l] # "reading" /\ floor'[l] = NoFloor
  BY <1>4 DEF AbandonRound, Read
<1>5. ASSUME NEW k \in Loops, Emit(k)
      PROVE  \/ pc'[l] = pc[l] /\ floor'[l] = floor[l] /\ pub'[l] = pub[l]
             \/ pc'[l] # "reading" /\ floor'[l] = NoFloor /\ Emit(l)
  BY <1>5 DEF Emit
<1>6. SendLatestCandle \cup SendLatestIndicator \in SUBSET Loops
  BY DEF SendLatestCandle, SendLatestIndicator, Loops
<1>7. \/ UNCHANGED <<pc, floor, pub>> \/ Crash
      \/ \E L \in SUBSET Loops : /\ BeginRounds(L) /\ pub' = pub
                                 /\ \A k \in L : pc[k] # "reading"
      \/ \E f \in flight : AbandonRound(f)
      \/ \E k \in Loops : Emit(k)
  <2>1. ListenSucceeds => \E L \in SUBSET Loops : /\ BeginRounds(L) /\ pub' = pub
                                                 /\ \A k \in L : pc[k] # "reading"
    BY <1>6 DEF ListenSucceeds, LoopsNeedProcess
  <2>2. \A k \in Loops : WakeUp(k) => /\ BeginRounds({k}) /\ {k} \in SUBSET Loops
                                      /\ pub' = pub /\ pc[k] # "reading"
    BY DEF WakeUp
  <2>3. \/ UNCHANGED <<pc, floor, pub>> \/ Crash \/ ListenSucceeds
        \/ \E f \in flight : AbandonRound(f)
        \/ \E k \in Loops : Emit(k) \/ WakeUp(k)
    BY DEF Next, vars, Settle, Serve, ReadResolves, ReadThrows, ReadFails, OrphanSettles,
           SendLatestCandleByInterval, SendLatestIndicatorByCode, Launch, ListenFails,
           Deliver, Lose, Insert, Amend
  <2> QED BY <2>1, <2>2, <2>3
<1> QED BY <1>1, <1>2, <1>3, <1>4, <1>5, <1>7

LEMMA RecentStays ==
  ASSUME TypeOK, [Next]_vars, NEW l \in Loops, NEW p \in Pairs, NEW d,
         Recent(l, p, d), floor'[l] = floor[l]
  PROVE  Recent(l, p, d)'
BY VisibleGrows DEF Recent, Covers

LEMMA FloorVisibleStep == FreshInv /\ [Next]_vars => FloorVisible'
<1> SUFFICES ASSUME FreshInv, [Next]_vars, NEW l \in Loops, NEW p \in Pairs
             PROVE  floor'[l][p] \subseteq Visible(l)'[p]
  BY DEF FloorVisible
<1>1. Visible(l)[p] \subseteq Visible(l)'[p]
  BY VisibleGrows DEF FreshInv, RoundInv
<1>2. floor'[l] \in {floor[l], Visible(l), NoFloor}
  BY RoundCases DEF FreshInv
<1> QED BY <1>1, <1>2 DEF FreshInv, FloorVisible, NoFloor

\* A read that is new, awaited and evaluated has just been served.
LEMMA NewlyServed ==
  ASSUME TypeOK, [Next]_vars, NEW g \in flight', g \notin flight, ~g.orphan, g.doc # Unread
  PROVE  \E f \in flight : /\ Serve(f) /\ g.loop = f.loop /\ g.pair = f.pair
                          /\ g.doc \in FindOne(Findable(g.pair, g.loop))
<1>1. \A L : ~BeginRounds(L)
  BY DEF BeginRounds
<1>2. ASSUME NEW f \in flight, AbandonRound(f) PROVE FALSE
  <2>1. PICK h \in flight : g = IF h.loop = f.loop THEN [h EXCEPT !.orphan = TRUE] ELSE h
    BY <1>2 DEF AbandonRound
  <2> QED BY <2>1 DEF TypeOK, Read
<1>3. \/ flight' \subseteq flight
      \/ \E L : BeginRounds(L)
      \/ \E f \in flight : AbandonRound(f) \/ Serve(f)
  BY DEF Next, vars, Launch, ListenSucceeds, ListenFails, Crash, Settle,
         ReadResolves, ReadThrows, ReadFails, OrphanSettles,
         SendLatestCandleByInterval, SendLatestIndicatorByCode, Emit, WakeUp,
         Deliver, Lose, Insert, Amend
<1>4. PICK f \in flight : Serve(f)
  BY <1>1, <1>2, <1>3
<1>5. PICK d \in FindOne(Findable(f.pair, f.loop)) :
          flight' = (flight \ {f}) \cup {[f EXCEPT !.doc = d]}
  BY <1>4 DEF Serve
<1>6. g.loop = f.loop /\ g.pair = f.pair /\ g.doc = d
  BY <1>5 DEF TypeOK, Read
<1> QED BY <1>4, <1>5, <1>6

\* An answer that is new has just been resolved by the read of its slot.
LEMMA NewlyResolved ==
  ASSUME TypeOK, [Next]_vars, NEW l \in Loops, NEW p \in Pairs,
         answer'[l][p] # Unread, answer'[l][p] # answer[l][p]
  PROVE  \E f \in flight : /\ ReadResolves(f) /\ f.loop = l /\ f.pair = p
                          /\ answer'[l][p] = Resolved(f)
<1>1. \A f \in flight : AbandonRound(f) => answer'[l] \in {answer[l], NoAnswers}
  BY DEF AbandonRound, TypeOK, Read
<1>2. \A k \in Loops : Emit(k) => answer'[l] \in {answer[l], NoAnswers}
  BY DEF Emit, TypeOK
<1>3. \A L : BeginRounds(L) => answer'[l] \in {answer[l], NoAnswers}
  BY DEF BeginRounds
<1>4. Crash => answer'[l] = NoAnswers
  BY DEF Crash
<1>5. answer'[l] \notin {answer[l], NoAnswers}
  BY DEF NoAnswers
<1>6. \/ answer' = answer \/ Crash
      \/ \E L : BeginRounds(L)
      \/ \E f \in flight : AbandonRound(f) \/ ReadResolves(f)
      \/ \E k \in Loops : Emit(k)
  BY DEF Next, vars, Launch, ListenSucceeds, ListenFails, Settle, Serve,
         ReadThrows, ReadFails, OrphanSettles, SendLatestCandleByInterval,
         SendLatestIndicatorByCode, WakeUp, Deliver, Lose, Insert, Amend
<1>7. PICK f \in flight : ReadResolves(f)
  BY <1>1, <1>2, <1>3, <1>4, <1>5, <1>6
<1> QED BY <1>7 DEF ReadResolves, TypeOK, Read

\* An answer or a read of a running round belongs to a round that goes on, is
\* new, or is the read that is served or resolved in this step.
LEMMA ServedRecentStep == FreshInv /\ [Next]_vars => ServedRecent'
<1> SUFFICES ASSUME FreshInv, [Next]_vars,
                    NEW g \in flight', ~g.orphan, g.doc # Unread
             PROVE  Recent(g.loop, g.pair, g.doc)'
  BY DEF ServedRecent
<1>1. RoundInv /\ RoundInv' /\ TypeOK /\ ServedRecent /\ FloorVisible
  BY RoundStep DEF FreshInv, RoundInv
<1>2. g.loop \in Loops /\ g.pair \in Pairs
  BY <1>1 DEF RoundInv, TypeOK, Read
<1>3. pc'[g.loop] = "reading"
  BY <1>1 DEF RoundInv, SlotsAwaitReads
<1>4. CASE g \in flight
  <2>1. pc[g.loop] = "reading"
    BY <1>1, <1>4 DEF RoundInv, SlotsAwaitReads
  <2>2. floor'[g.loop] = floor[g.loop]
    BY <1>1, <1>2, <1>3, <2>1, RoundCases
  <2>3. Recent(g.loop, g.pair, g.doc)
    BY <1>1, <1>4 DEF ServedRecent
  <2> QED BY <1>1, <1>2, <2>2, <2>3, RecentStays
<1>5. CASE g \notin flight
  <2>1. PICK f \in flight : /\ Serve(f) /\ g.loop = f.loop /\ g.pair = f.pair
                           /\ g.doc \in FindOne(Findable(g.pair, g.loop))
    BY <1>1, <1>5, NewlyServed
  <2>2. Recent(g.loop, g.pair, g.doc)
    BY <1>1, <1>2, <2>1, NewestCovers DEF Recent, Covers, FloorVisible
  <2>3. floor'[g.loop] = floor[g.loop]
    BY <2>1 DEF Serve
  <2> QED BY <1>1, <1>2, <2>2, <2>3, RecentStays
<1> QED BY <1>4, <1>5

LEMMA AnswersRecentStep == FreshInv /\ [Next]_vars => AnswersRecent'
<1> SUFFICES ASSUME FreshInv, [Next]_vars, NEW l \in Loops, NEW p \in Pairs,
                    NEW d, d = answer'[l][p], pc'[l] = "reading", d # Unread
             PROVE  Recent(l, p, d)'
  BY DEF AnswersRecent
<1>1. RoundInv /\ TypeOK /\ ServedRecent /\ AnswersRecent
  BY DEF FreshInv, RoundInv
<1>2. pc[l] = "reading" /\ floor'[l] = floor[l]
  BY <1>1, RoundCases DEF NoAnswers
<1>3. CASE d = answer[l][p]
  <2>1. Recent(l, p, d)
    BY <1>1, <1>2, <1>3 DEF AnswersRecent
  <2> QED BY <1>1, <1>2, <2>1, RecentStays
<1>4. CASE d # answer[l][p]
  <2>1. PICK f \in flight : ReadResolves(f) /\ f.loop = l /\ f.pair = p /\ d = Resolved(f)
    BY <1>1, <1>4, NewlyResolved
  <2>2. StartOf(Resolved(f)) = StartOf(f.doc)
    BY <1>1, <2>1, ResolvedEntry DEF ReadResolves, TypeOK
  <2>3. Recent(l, p, f.doc)
    BY <1>1, <2>1 DEF ServedRecent, ReadResolves
  <2>4. Recent(l, p, d)
    BY <2>1, <2>2, <2>3 DEF Recent, Covers
  <2> QED BY <1>1, <1>2, <2>4, RecentStays
<1> QED BY <1>3, <1>4

LEMMA PublishedDueStep == FreshInv /\ [Next]_vars => PublishedDue'
<1> SUFFICES ASSUME FreshInv, [Next]_vars, NEW l \in Loops, NEW p \in Pairs,
                    StartOf(pub'[l][p]) # -1
             PROVE  /\ StartOf(pub'[l][p]) \in Visible(l)'[p]
                    /\ pc'[l] = "reading" => StartOf(pub'[l][p]) \in floor'[l][p]
  BY DEF PublishedDue, StartOf
<1>1. RoundInv /\ TypeOK /\ AnswersRecent /\ PublishedDue
  BY DEF FreshInv, RoundInv
<1>2. Visible(l)[p] \subseteq Visible(l)'[p]
  BY <1>1, VisibleGrows
<1>3. CASE Emit(l)
  <2>1. pub'[l] = answer[l] /\ pc'[l] # "reading" /\ pc[l] = "reading" /\ answer[l][p] # Unread
    BY <1>1, <1>3 DEF Emit, TypeOK
  <2> QED BY <1>1, <1>2, <2>1 DEF AnswersRecent, Recent
<1>4. CASE ~Emit(l)
  <2>1. /\ pub'[l] = pub[l]
        /\ pc'[l] = "reading" =>
              \/ pc[l] = "reading" /\ floor'[l] = floor[l]
              \/ floor'[l] = Visible(l)
    BY <1>1, <1>4, RoundCases
  <2> QED BY <1>1, <1>2, <2>1 DEF PublishedDue
<1> QED BY <1>3, <1>4

LEMMA FreshStep == FreshInv /\ [Next]_vars => FreshInv'
BY RoundStep, FloorVisibleStep, ServedRecentStep, AnswersRecentStep, PublishedDueStep
   DEF FreshInv

\* Only Emit broadcasts.
LEMMA OnlyEmitBroadcasts ==
  ASSUME TypeOK, [Next]_vars, NEW l \in Loops, wire'[l] = Append(wire[l], pub'[l])
  PROVE  Emit(l)
<1>1. Len(wire'[l]) = Len(wire[l]) + 1
  BY DEF TypeOK
<1>2. \A k \in Loops : Deliver(k) \/ Lose(k) => wire'[l] \in {wire[l], Tail(wire[l])}
  BY DEF Deliver, Lose, TypeOK
<1>3. ~(\E k \in Loops : Deliver(k) \/ Lose(k))
  BY <1>1, <1>2 DEF TypeOK, Deliver, Lose
<1>4. wire' # wire
  BY <1>1 DEF TypeOK
<1>5. PICK k \in Loops : Emit(k)
  BY <1>3, <1>4
     DEF Next, vars, Launch, ListenSucceeds, ListenFails, Crash, Settle, Serve,
         ReadResolves, ReadThrows, ReadFails, AbandonRound, OrphanSettles,
         SendLatestCandleByInterval, SendLatestIndicatorByCode, WakeUp, Insert, Amend
<1>6. wire'[l] # wire[l]
  BY <1>1 DEF TypeOK
<1>7. k = l
  BY <1>5, <1>6 DEF Emit, TypeOK
<1> QED BY <1>5, <1>7

\* Each broadcast is, for every pair, at least as recent as everything that was
\* findable when its round began: a straggler of an abandoned round, a retry or
\* a restart can never make a broadcast carry an older answer.
THEOREM BroadcastsAreFresh == Spec => BroadcastFresh
<1>1. ASSUME FreshInv, [Next]_vars, NEW l \in Loops, NEW p \in Pairs,
             wire'[l] = Append(wire[l], pub'[l])
      PROVE  Covers(pub'[l][p], floor[l][p])
  <2>1. TypeOK /\ AnswersRecent
    BY <1>1 DEF FreshInv, RoundInv
  <2>2. Emit(l)
    BY <1>1, <2>1, OnlyEmitBroadcasts
  <2>3. pub'[l] = answer[l] /\ pc[l] = "reading" /\ answer[l][p] # Unread
    BY <2>1, <2>2 DEF Emit, TypeOK
  <2> QED BY <2>1, <2>3 DEF AnswersRecent, Recent, Covers
<1>2. FreshInv /\ [Next]_vars =>
        [\A l \in Loops : wire'[l] = Append(wire[l], pub'[l]) =>
            \A p \in Pairs : Covers(pub'[l][p], floor[l][p])]_vars
  BY <1>1
<1> QED BY <1>2, FreshInit, FreshStep, PTL DEF Spec, BroadcastFresh

-----------------------------------------------------------------------------
(* What a subscriber sees.                                                 *)

\* From the subscriber through the queue to the notifier, documents of a pair
\* only get more recent.
QueueInv ==
    \A l \in Loops, p \in Pairs :
        /\ StartOf(seen[l][p]) <= StartOf(pub[l][p])
        /\ \A i \in 1..Len(wire[l]) :
            /\ StartOf(seen[l][p]) <= StartOf(wire[l][i][p])
            /\ StartOf(wire[l][i][p]) <= StartOf(pub[l][p])
            /\ \A j \in 1..Len(wire[l]) : i <= j => StartOf(wire[l][i][p]) <= StartOf(wire[l][j][p])

LEMMA StartsAreIntegers ==
  ASSUME NEW d \in Entry
  PROVE  StartOf(d) \in Int /\ -1 <= StartOf(d)
<1>1. CASE d = NoDoc
  BY <1>1 DEF StartOf
<1>2. CASE d # NoDoc
  <2>1. d.start \in Starts
    BY <1>2 DEF Entry, Doc
  <2>2. d.start \in Nat
    BY <2>1, DocsAssumption
  <2> QED BY <1>2, <2>2 DEF StartOf
<1> QED BY <1>1, <1>2

\* A broadcast is never older than the one before it.
LEMMA BroadcastCoversLast ==
  ASSUME FreshInv, NEW l \in Loops, NEW p \in Pairs, Emit(l)
  PROVE  /\ answer[l] \in Batch
         /\ StartOf(pub[l][p]) <= StartOf(answer[l][p])
<1>1. TypeOK /\ AnswersRecent /\ PublishedDue
  BY DEF FreshInv, RoundInv
<1>2. answer[l] \in Batch /\ pc[l] = "reading" /\ answer[l][p] # Unread
  BY <1>1 DEF Emit, TypeOK, Batch
<1>3. answer[l][p] \in Entry /\ pub[l][p] \in Entry
  BY <1>1, <1>2 DEF TypeOK, Batch
<1>4. Covers(answer[l][p], floor[l][p])
  BY <1>1, <1>2 DEF AnswersRecent, Recent
<1>5. StartOf(pub[l][p]) = -1 \/ StartOf(pub[l][p]) \in floor[l][p]
  BY <1>1, <1>2 DEF PublishedDue
<1>6. StartOf(pub[l][p]) <= StartOf(answer[l][p])
  BY <1>3, <1>4, <1>5, StartsAreIntegers DEF Covers
<1> QED BY <1>2, <1>6

LEMMA QueueInit == Init => QueueInv
BY DEF Init, QueueInv, EmptyBatch, StartOf

LEMMA QueueStep == FreshInv /\ QueueInv /\ [Next]_vars => QueueInv'
<1> SUFFICES ASSUME FreshInv, QueueInv, [Next]_vars PROVE QueueInv'
  OBVIOUS
<1>1. TypeOK
  BY DEF FreshInv, RoundInv
<1>2. CASE UNCHANGED <<wire, seen, pub>>
  BY <1>2 DEF QueueInv
<1>3. ASSUME NEW k \in Loops, Emit(k) PROVE QueueInv'
  <2> SUFFICES ASSUME NEW l \in Loops, NEW p \in Pairs
               PROVE  /\ StartOf(seen'[l][p]) <= StartOf(pub'[l][p])
                      /\ \A i \in 1..Len(wire'[l]) :
                          /\ StartOf(seen'[l][p]) <= StartOf(wire'[l][i][p])
                          /\ StartOf(wire'[l][i][p]) <= StartOf(pub'[l][p])
                          /\ \A j \in 1..Len(wire'[l]) :
                                i <= j => StartOf(wire'[l][i][p]) <= StartOf(wire'[l][j][p])
    BY DEF QueueInv, StartOf
  <2>1. CASE l # k
    <3>1. wire'[l] = wire[l] /\ pub'[l] = pub[l] /\ seen' = seen
      BY <1>1, <1>3, <2>1 DEF Emit, TypeOK
    <3> QED BY <3>1 DEF QueueInv
  <2>2. CASE l = k
    <3> DEFINE n == Len(wire[l])
    <3>1. answer[l] \in Batch /\ StartOf(pub[l][p]) <= StartOf(answer[l][p])
      BY <1>3, <2>2, BroadcastCoversLast
    <3>2. /\ n \in Nat /\ Len(wire'[l]) = n + 1
          /\ \A i \in 1..n : wire'[l][i] = wire[l][i]
          /\ wire'[l][n + 1] = answer[l]
          /\ pub'[l] = answer[l] /\ seen' = seen
      BY <1>1, <1>3, <2>2, <3>1 DEF Emit, TypeOK
    <3>3. /\ StartOf(answer[l][p]) \in Int /\ StartOf(pub[l][p]) \in Int
          /\ StartOf(seen[l][p]) \in Int
          /\ \A i \in 1..n : StartOf(wire[l][i][p]) \in Int
      BY <1>1, <3>1, StartsAreIntegers DEF TypeOK, Batch
    <3>4. \A i \in 1..(n + 1) : i \in 1..n \/ i = n + 1
      BY <3>2
    <3> HIDE DEF n
    <3>5. /\ StartOf(seen[l][p]) <= StartOf(pub[l][p])
          /\ \A i \in 1..n :
              /\ StartOf(seen[l][p]) <= StartOf(wire[l][i][p])
              /\ StartOf(wire[l][i][p]) <= StartOf(pub[l][p])
              /\ \A j \in 1..n : i <= j => StartOf(wire[l][i][p]) <= StartOf(wire[l][j][p])
      BY DEF QueueInv, n
    <3>6. StartOf(seen'[l][p]) <= StartOf(pub'[l][p])
      BY <3>1, <3>2, <3>3, <3>5
    <3>7. ASSUME NEW i \in 1..(n + 1)
          PROVE  /\ StartOf(seen'[l][p]) <= StartOf(wire'[l][i][p])
                 /\ StartOf(wire'[l][i][p]) <= StartOf(pub'[l][p])
      <4>1. CASE i \in 1..n
        BY <4>1, <3>1, <3>2, <3>3, <3>5
      <4>2. CASE i = n + 1
        BY <4>2, <3>1, <3>2, <3>3, <3>5
      <4> QED BY <3>4, <4>1, <4>2
    <3>8. ASSUME NEW i \in 1..(n + 1), NEW j \in 1..(n + 1), i <= j
          PROVE  StartOf(wire'[l][i][p]) <= StartOf(wire'[l][j][p])
      <4>1. CASE j = n + 1
        BY <4>1, <3>2, <3>7
      <4>2. CASE j \in 1..n
        <5>1. i \in 1..n
          BY <3>2, <3>8, <4>2
        <5> QED BY <5>1, <4>2, <3>2, <3>5, <3>8
      <4> QED BY <3>4, <4>1, <4>2
    <3> QED BY <3>2, <3>6, <3>7, <3>8
  <2> QED BY <2>1, <2>2
<1>4. ASSUME NEW k \in Loops, Deliver(k) \/ Lose(k) PROVE QueueInv'
  <2> SUFFICES ASSUME NEW l \in Loops, NEW p \in Pairs
               PROVE  /\ StartOf(seen'[l][p]) <= StartOf(pub'[l][p])
                      /\ \A i \in 1..Len(wire'[l]) :
                          /\ StartOf(seen'[l][p]) <= StartOf(wire'[l][i][p])
                          /\ StartOf(wire'[l][i][p]) <= StartOf(pub'[l][p])
                          /\ \A j \in 1..Len(wire'[l]) :
                                i <= j => StartOf(wire'[l][i][p]) <= StartOf(wire'[l][j][p])
    BY DEF QueueInv, StartOf
  <2>1. pub' = pub
    BY <1>4 DEF Deliver, Lose
  <2>2. CASE l # k
    <3>1. wire'[l] = wire[l] /\ seen'[l] = seen[l]
      BY <1>1, <1>4, <2>2 DEF Deliver, Lose, TypeOK
    <3> QED BY <2>1, <3>1 DEF QueueInv
  <2>3. CASE l = k
    <3>1. wire[l] \in Seq(Batch) /\ wire[l] # <<>>
      BY <1>1, <1>4, <2>3 DEF Deliver, Lose, TypeOK
    <3>2. wire'[l] = Tail(wire[l]) /\ seen'[l] \in {seen[l], wire[l][1]}
      BY <1>1, <1>4, <2>3, <3>1 DEF Deliver, Lose, TypeOK
    <3>3. /\ Len(wire[l]) \in Nat /\ Len(wire'[l]) = Len(wire[l]) - 1
          /\ \A i \in 1..Len(wire'[l]) : /\ wire'[l][i] = wire[l][i + 1]
                                         /\ i + 1 \in 1..Len(wire[l])
          /\ 1 \in 1..Len(wire[l])
      BY <3>1, <3>2
    <3>4. StartOf(seen'[l][p]) <= StartOf(pub[l][p])
      BY <3>2, <3>3 DEF QueueInv
    <3>5. ASSUME NEW i \in 1..Len(wire'[l])
          PROVE  /\ StartOf(seen'[l][p]) <= StartOf(wire'[l][i][p])
                 /\ StartOf(wire'[l][i][p]) <= StartOf(pub[l][p])
                 /\ \A j \in 1..Len(wire'[l]) :
                        i <= j => StartOf(wire'[l][i][p]) <= StartOf(wire'[l][j][p])
      <4>1. wire'[l][i] = wire[l][i + 1] /\ i + 1 \in 1..Len(wire[l]) /\ 1 <= i + 1
        BY <3>3
      <4>2. StartOf(seen[l][p]) <= StartOf(wire[l][i + 1][p])
        BY <4>1 DEF QueueInv
      <4>3. StartOf(wire[l][1][p]) <= StartOf(wire[l][i + 1][p])
        BY <3>3, <4>1 DEF QueueInv
      <4>4. StartOf(seen'[l][p]) <= StartOf(wire'[l][i][p])
        BY <3>2, <4>1, <4>2, <4>3
      <4>5. StartOf(wire'[l][i][p]) <= StartOf(pub[l][p])
        BY <4>1 DEF QueueInv
      <4>6. ASSUME NEW j \in 1..Len(wire'[l]), i <= j
            PROVE  StartOf(wire'[l][i][p]) <= StartOf(wire'[l][j][p])
        <5>1. wire'[l][j] = wire[l][j + 1] /\ j + 1 \in 1..Len(wire[l]) /\ i + 1 <= j + 1
          BY <3>3, <4>6
        <5> QED BY <4>1, <5>1 DEF QueueInv
      <4> QED BY <4>4, <4>5, <4>6
    <3> QED BY <2>1, <3>4, <3>5
  <2> QED BY <2>2, <2>3
<1>5. \/ UNCHANGED <<wire, seen, pub>>
      \/ \E k \in Loops : Emit(k) \/ Deliver(k) \/ Lose(k)
  BY DEF Next, vars, Launch, ListenSucceeds, ListenFails, Crash, Settle, Serve,
         ReadResolves, ReadThrows, ReadFails, AbandonRound, OrphanSettles,
         SendLatestCandleByInterval, SendLatestIndicatorByCode, WakeUp, Insert, Amend
<1> QED BY <1>2, <1>3, <1>4, <1>5

\* A subscriber never sees a pair go back in time, for any loops, pairs and
\* documents, across failed rounds, lost broadcasts and restarts.
THEOREM SubscribersAreMonotone == Spec => SubscriberMonotone
<1>1. ASSUME FreshInv, QueueInv, [Next]_vars, NEW l \in Loops, NEW p \in Pairs
      PROVE  StartOf(seen[l][p]) <= StartOf(seen'[l][p])
  <2>1. TypeOK /\ StartOf(seen[l][p]) \in Int
    BY <1>1, StartsAreIntegers DEF FreshInv, RoundInv, TypeOK, Batch
  <2>2. CASE seen'[l] = seen[l]
    BY <2>1, <2>2
  <2>3. CASE seen'[l] # seen[l]
    <3>1. Deliver(l)
      <4>1. PICK k \in Loops : Deliver(k)
        BY <1>1, <2>3
           DEF Next, vars, Launch, ListenSucceeds, ListenFails, Crash, Settle, Serve,
               ReadResolves, ReadThrows, ReadFails, AbandonRound, OrphanSettles, Emit,
               SendLatestCandleByInterval, SendLatestIndicatorByCode, WakeUp, Lose,
               Insert, Amend
      <4> QED BY <2>1, <2>3, <4>1 DEF Deliver, TypeOK
    <3>2. seen'[l] = wire[l][1] /\ 1 \in 1..Len(wire[l])
      BY <2>1, <3>1 DEF Deliver, TypeOK
    <3> QED BY <1>1, <3>2 DEF QueueInv
  <2> QED BY <2>2, <2>3
<1>2. FreshInv /\ QueueInv /\ [Next]_vars =>
        [\A l \in Loops, p \in Pairs : StartOf(seen[l][p]) <= StartOf(seen'[l][p])]_seen
  BY <1>1
<1> QED BY <1>2, FreshInit, FreshStep, QueueInit, QueueStep, PTL DEF Spec, SubscriberMonotone

-----------------------------------------------------------------------------
(* The broadcasts are a LatestFeed.  A round is an open window; the window  *)
(* closes with a Publish when the round broadcasts, without one when it is  *)
(* abandoned or the process dies; Insert may make a start time appear.      *)

LEMMA FeedInit == Init => Feed!Init
<1> SUFFICES ASSUME Init PROVE Feed!Init
  OBVIOUS
<1>1. \A l \in Loops, p \in Pairs : Findable(p, l) = {}
  BY DEF Init, Findable, FindableByCode, FindableByInterval
<1>2. \A l \in Loops : Visible(l) = [p \in Pairs |-> {}]
  BY <1>1 DEF Visible
<1>3. \A l \in Loops, p \in Pairs : StartOf(pub[l][p]) = Feed!None
  BY DEF Init, EmptyBatch, StartOf, Feed!None
<1>4. \A l \in Loops : pc[l] # "reading"
  BY DEF Init
<1>5. floor = [l \in Loops |-> Feed!NothingDue]
  BY DEF Init, NoFloor, Feed!NothingDue
<1> QED BY <1>2, <1>3, <1>4, <1>5 DEF Feed!Init

\* Nothing that LatestFeed speaks of changes when these do not.
LEMMA FeedStutters ==
  ASSUME UNCHANGED <<pc, store, pub, floor>>
  PROVE  UNCHANGED Feed!feedVars
BY DEF Feed!feedVars, Visible, Findable, FindableByCode, FindableByInterval

LEMMA SameStoreSameVisible ==
  ASSUME store' = store
  PROVE  [l \in Loops |-> Visible(l)]' = [l \in Loops |-> Visible(l)]
BY DEF Visible, Findable, FindableByCode, FindableByInterval

\* Rounds that begin together open their windows together.
LEMMA BeginRoundsOpens ==
  ASSUME TypeOK, NEW L \in SUBSET Loops, BeginRounds(L), store' = store, pub' = pub
  PROVE  Feed!Open(L)
<1>1. [l \in Loops |-> Visible(l)]' = [l \in Loops |-> Visible(l)]
  BY SameStoreSameVisible
<1>2. [l \in Loops |-> pc[l] = "reading"]'
        = [l \in Loops |-> l \in L \/ [k \in Loops |-> pc[k] = "reading"][l]]
  BY DEF BeginRounds
<1>3. floor' = [l \in Loops |-> IF l \in L THEN [k \in Loops |-> Visible(k)][l] ELSE floor[l]]
  BY DEF BeginRounds
<1>4. [l \in Loops |-> [p \in Pairs |-> StartOf(pub[l][p])]]'
        = [l \in Loops |-> [p \in Pairs |-> StartOf(pub[l][p])]]
  BY DEF StartOf
<1> QED BY <1>1, <1>2, <1>3, <1>4 DEF Feed!Open

\* Rounds that end without a broadcast close their windows.
LEMMA EndedRoundsClose ==
  ASSUME TypeOK, NEW L \in SUBSET Loops, store' = store, pub' = pub,
         \A l \in Loops : pc'[l] = "reading" <=> l \notin L /\ pc[l] = "reading",
         floor' = [l \in Loops |-> IF l \in L THEN NoFloor ELSE floor[l]]
  PROVE  Feed!Close(L)
<1>1. [l \in Loops |-> Visible(l)]' = [l \in Loops |-> Visible(l)]
  BY SameStoreSameVisible
<1>2. [l \in Loops |-> pc[l] = "reading"]'
        = [l \in Loops |-> l \notin L /\ [k \in Loops |-> pc[k] = "reading"][l]]
  OBVIOUS
<1>3. floor' = [l \in Loops |-> IF l \in L THEN Feed!NothingDue ELSE floor[l]]
  BY DEF Feed!NothingDue, NoFloor
<1>4. [l \in Loops |-> [p \in Pairs |-> StartOf(pub[l][p])]]'
        = [l \in Loops |-> [p \in Pairs |-> StartOf(pub[l][p])]]
  BY DEF StartOf
<1> QED BY <1>1, <1>2, <1>3, <1>4 DEF Feed!Close

\* A broadcast publishes a batch that is visible and covers what was due.
LEMMA EmitPublishes ==
  ASSUME FreshInv, NEW l \in Loops, Emit(l)
  PROVE  \E b \in [Pairs -> Starts \cup {Feed!None}] : Feed!Publish(l, b)
<1>0. PICK b : b = [p \in Pairs |-> StartOf(answer[l][p])]
  OBVIOUS
<1>1. TypeOK /\ AnswersRecent
  BY DEF FreshInv, RoundInv
<1>2. pc[l] = "reading" /\ \A p \in Pairs : answer[l][p] # Unread
  BY DEF Emit
<1>3. \A p \in Pairs : Recent(l, p, answer[l][p])
  BY <1>1, <1>2 DEF AnswersRecent
<1>4. Visible(l) \in [Pairs -> SUBSET Starts]
  BY <1>1, VisibleType DEF TypeOK
<1>5. \A p \in Pairs : b[p] \in Visible(l)[p] \cup {Feed!None}
  BY <1>0, <1>3 DEF Recent, Feed!None
<1>6. b \in [Pairs -> Starts \cup {Feed!None}]
  BY <1>0, <1>4, <1>5
<1>7. \A p \in Pairs : Feed!Covers(b[p], floor[l][p])
  BY <1>0, <1>3 DEF Recent, Covers, Feed!Covers
<1>8. [k \in Loops |-> Visible(k)]' = [k \in Loops |-> Visible(k)]
  BY SameStoreSameVisible DEF Emit
<1>9. [k \in Loops |-> [p \in Pairs |-> StartOf(pub[k][p])]]'
        = [[k \in Loops |-> [p \in Pairs |-> StartOf(pub[k][p])]] EXCEPT ![l] = b]
  BY <1>0, <1>1 DEF Emit, TypeOK, StartOf
<1>10. [k \in Loops |-> pc[k] = "reading"]'
        = [[k \in Loops |-> pc[k] = "reading"] EXCEPT ![l] = FALSE]
  BY <1>1 DEF Emit, TypeOK
<1>11. floor' = [floor EXCEPT ![l] = Feed!NothingDue]
  BY DEF Emit, Feed!NothingDue, NoFloor
<1>12. Feed!Publish(l, b)
  BY <1>2, <1>5, <1>7, <1>8, <1>9, <1>10, <1>11 DEF Feed!Publish
<1> QED BY <1>6, <1>12

\* A document that a query of its loop can find makes its start time appear.
LEMMA InsertAppears ==
  ASSUME TypeOK, NEW q \in Pairs, NEW d \in Ingested, Insert(q, d)
  PROVE  UNCHANGED Feed!feedVars \/ Feed!Appear(d.key, q, d.start)
<1>1. d \in Doc /\ d.key \in Loops /\ d.start \in Starts
  BY IngestedAssumption DEF Doc
<1>2. \A p \in Pairs : store'[p] = IF p = q THEN store[p] \cup {d} ELSE store[p]
  BY DEF Insert, TypeOK
<1>3. UNCHANGED <<pc, pub, floor>>
  BY DEF Insert
<1>4. /\ [l \in Loops |-> pc[l] = "reading"]' = [l \in Loops |-> pc[l] = "reading"]
      /\ [l \in Loops |-> [p \in Pairs |-> StartOf(pub[l][p])]]'
            = [l \in Loops |-> [p \in Pairs |-> StartOf(pub[l][p])]]
  BY <1>3 DEF StartOf
<1> DEFINE found == d.key \in CodeLoops /\ d.key \in FreqCodes => Aligned(d.key, d.start)
<1>5. \A l \in Loops, p \in Pairs :
        Findable(p, l)' = IF found /\ p = q /\ l = d.key THEN Findable(p, l) \cup {d}
                                                       ELSE Findable(p, l)
  BY <1>2 DEF Findable, FindableByCode, FindableByInterval, Aligned
<1>6. \A l \in Loops, p \in Pairs :
        Visible(l)'[p] = IF found /\ p = q /\ l = d.key THEN Visible(l)[p] \cup {d.start}
                                                      ELSE Visible(l)[p]
  BY <1>5 DEF Visible
<1>7. \A l \in Loops : Visible(l) = [p \in Pairs |-> Visible(l)[p]]
  BY DEF Visible
<1>8. \A l \in Loops : Visible(l)' = [p \in Pairs |-> Visible(l)'[p]]
  BY DEF Visible
<1>9. CASE found
  <2>1. [l \in Loops |-> Visible(l)]'
          = [[l \in Loops |-> Visible(l)] EXCEPT ![d.key][q] = @ \cup {d.start}]
    <3>1. Visible(d.key)' = [Visible(d.key) EXCEPT ![q] = @ \cup {d.start}]
      BY <1>1, <1>6, <1>7, <1>8, <1>9
    <3>2. \A l \in Loops : l # d.key => Visible(l)' = Visible(l)
      BY <1>6, <1>7, <1>8
    <3> QED BY <1>1, <3>1, <3>2
  <2> QED BY <2>1, <1>3, <1>4 DEF Feed!Appear
<1>10. CASE ~found
  <2>1. [l \in Loops |-> Visible(l)]' = [l \in Loops |-> Visible(l)]
    BY <1>6, <1>7, <1>8, <1>10
  <2> QED BY <2>1, <1>3, <1>4 DEF Feed!feedVars
<1> QED BY <1>9, <1>10

\* Recomputing calcDetail changes nothing a query looks for.
LEMMA AmendStutters ==
  ASSUME TypeOK, NEW q \in Pairs, NEW d \in Ingested, NEW e \in Ingested, Amend(q, d, e)
  PROVE  UNCHANGED Feed!feedVars
<1>1. \A p \in Pairs : store'[p] = IF p = q THEN (store[p] \ {d}) \cup {e} ELSE store[p]
  BY DEF Amend, TypeOK
<1>2. d \in store[q] /\ e.key = d.key /\ e.start = d.start
  BY DEF Amend
<1>3. ASSUME NEW l \in Loops, NEW p \in Pairs
      PROVE  Visible(l)'[p] = Visible(l)[p]
  <2>1. \A x \in Findable(p, l) : \E y \in Findable(p, l)' : y.start = x.start
    BY <1>1, <1>2 DEF Findable, FindableByCode, FindableByInterval
  <2>2. \A y \in Findable(p, l)' : \E x \in Findable(p, l) : x.start = y.start
    BY <1>1, <1>2 DEF Findable, FindableByCode, FindableByInterval
  <2> QED BY <2>1, <2>2 DEF Visible
<1>4. \A l \in Loops : Visible(l)' = Visible(l)
  BY <1>3 DEF Visible
<1> QED BY <1>4 DEF Amend, Feed!feedVars, StartOf

LEMMA FeedStep == FreshInv /\ [Next]_vars => [Feed!Next]_Feed!feedVars
<1> SUFFICES ASSUME FreshInv, [Next]_vars PROVE Feed!Next \/ UNCHANGED Feed!feedVars
  OBVIOUS
<1>0. TypeOK /\ RoundInv
  BY DEF FreshInv, RoundInv
<1>1. CASE UNCHANGED <<pc, store, pub, floor>>
  BY <1>1, FeedStutters
<1>2. CASE ListenSucceeds
  <2> DEFINE L == SendLatestCandle \cup SendLatestIndicator
  <2>1. L \in SUBSET Loops
    BY DEF SendLatestCandle, SendLatestIndicator, Loops
  <2>2. Feed!Open(L)
    BY <1>0, <1>2, <2>1, BeginRoundsOpens DEF ListenSucceeds
  <2> QED BY <2>1, <2>2 DEF Feed!Next
<1>3. CASE Crash
  <2>1. Feed!Close(Loops)
    <3>1. store' = store /\ pub' = pub
      BY <1>3 DEF Crash
    <3>2. \A l \in Loops : pc'[l] = "reading" <=> l \notin Loops /\ pc[l] = "reading"
      BY <1>3 DEF Crash
    <3>3. floor' = [l \in Loops |-> IF l \in Loops THEN NoFloor ELSE floor[l]]
      BY <1>3 DEF Crash
    <3> QED BY <1>0, <3>1, <3>2, <3>3, EndedRoundsClose
  <2> QED BY <2>1 DEF Feed!Next
<1>4. ASSUME NEW f \in flight, AbandonRound(f) PROVE Feed!Next
  <2>1. Feed!Close({f.loop}) /\ {f.loop} \in SUBSET Loops
    <3>1. store' = store /\ pub' = pub /\ f.loop \in Loops
      BY <1>0, <1>4 DEF AbandonRound, TypeOK, Read
    <3>2. \A l \in Loops : pc'[l] = "reading" <=> l \notin {f.loop} /\ pc[l] = "reading"
      BY <1>0, <1>4 DEF AbandonRound, TypeOK
    <3>3. floor' = [l \in Loops |-> IF l \in {f.loop} THEN NoFloor ELSE floor[l]]
      BY <1>0, <1>4 DEF AbandonRound, TypeOK
    <3> QED BY <1>0, <3>1, <3>2, <3>3, EndedRoundsClose
  <2> QED BY <2>1 DEF Feed!Next
<1>5. ASSUME NEW l \in Loops, Emit(l) PROVE Feed!Next
  BY <1>5, EmitPublishes DEF Feed!Next
<1>6. ASSUME NEW l \in Loops, WakeUp(l) PROVE Feed!Next
  <2>1. Feed!Open({l}) /\ {l} \in SUBSET Loops
    BY <1>0, <1>6, BeginRoundsOpens DEF WakeUp
  <2> QED BY <2>1 DEF Feed!Next
<1>7. ASSUME NEW q \in Pairs, NEW d \in Ingested, Insert(q, d)
      PROVE  Feed!Next \/ UNCHANGED Feed!feedVars
  <2>1. d.key \in Loops /\ d.start \in Starts
    BY IngestedAssumption DEF Doc
  <2> QED BY <1>0, <1>7, <2>1, InsertAppears DEF Feed!Next
<1>8. ASSUME NEW q \in Pairs, NEW d \in Ingested, NEW e \in Ingested, Amend(q, d, e)
      PROVE  UNCHANGED Feed!feedVars
  BY <1>0, <1>8, AmendStutters
<1>9. \/ UNCHANGED <<pc, store, pub, floor>> \/ ListenSucceeds \/ Crash
      \/ \E f \in flight : AbandonRound(f)
      \/ \E l \in Loops : Emit(l) \/ WakeUp(l)
      \/ \E q \in Pairs, d \in Ingested :
            Insert(q, d) \/ \E e \in Ingested : Amend(q, d, e)
  BY DEF Next, vars, Launch, ListenFails, Settle, Serve, ReadResolves, ReadThrows,
         ReadFails, OrphanSettles, SendLatestCandleByInterval,
         SendLatestIndicatorByCode, Deliver, Lose
<1> QED BY <1>1, <1>2, <1>3, <1>4, <1>5, <1>6, <1>7, <1>8, <1>9

\* The notifier, with its promises, failures, sleeps and restarts, implements
\* the feed of latest documents that LatestFeed describes.
THEOREM NotifierImplementsFeed == Spec => ImplementsFeed
BY FreshInit, FreshStep, FeedInit, FeedStep, PTL DEF Spec, ImplementsFeed, Feed!Spec

FeedTheory == INSTANCE LatestFeedProofs WITH
    visible <- [l \in Loops |-> Visible(l)],
    due <- floor,
    open <- [l \in Loops |-> pc[l] = "reading"],
    feed <- [l \in Loops |-> [p \in Pairs |-> StartOf(pub[l][p])]]

\* What a loop broadcasts for a pair is never older than what it broadcast for the
\* pair before, whatever failed, was abandoned or was restarted in between: this
\* is true of every feed, and the notifier is one.
THEOREM FeedsNeverGoBack == Spec => Feed!FeedMonotone
<1>1. Feed!Init => FeedTheory!Init
  BY Zenon DEF Feed!Init, FeedTheory!Init, Feed!NothingDue, FeedTheory!NothingDue,
               Feed!None, FeedTheory!None
<1>2. UNCHANGED Feed!feedVars <=> UNCHANGED FeedTheory!feedVars
  BY Zenon DEF Feed!feedVars, FeedTheory!feedVars
<1>3. Feed!Next => FeedTheory!Next
  <2>1. ASSUME NEW l \in Loops, NEW p \in Pairs, NEW s \in Starts, Feed!Appear(l, p, s)
        PROVE  FeedTheory!Appear(l, p, s)
    BY <2>1, Zenon DEF Feed!Appear, FeedTheory!Appear
  <2>2. ASSUME NEW L \in SUBSET Loops, Feed!Open(L) PROVE FeedTheory!Open(L)
    BY <2>2, Zenon DEF Feed!Open, FeedTheory!Open
  <2>3. ASSUME NEW L \in SUBSET Loops, Feed!Close(L) PROVE FeedTheory!Close(L)
    BY <2>3, Zenon DEF Feed!Close, FeedTheory!Close, Feed!NothingDue, FeedTheory!NothingDue
  <2>4. ASSUME NEW l \in Loops, NEW b, Feed!Publish(l, b) PROVE FeedTheory!Publish(l, b)
    BY <2>4, Zenon DEF Feed!Publish, FeedTheory!Publish, Feed!NothingDue, FeedTheory!NothingDue,
        Feed!None, FeedTheory!None, Feed!Covers, FeedTheory!Covers
  <2>5. Feed!None = FeedTheory!None
    BY Zenon DEF Feed!None, FeedTheory!None
  <2> QED BY <2>1, <2>2, <2>3, <2>4, <2>5, Zenon DEF Feed!Next, FeedTheory!Next
<1>4. FeedTheory!Spec => FeedTheory!FeedMonotone
  BY FeedTheory!FeedIsMonotone, DocsAssumption
<1> QED BY <1>1, <1>2, <1>3, <1>4, NotifierImplementsFeed, PTL
        DEF ImplementsFeed, Feed!Spec, FeedTheory!Spec, Feed!FeedMonotone, FeedTheory!FeedMonotone


-----------------------------------------------------------------------------
(* What a broadcast carries.                                               *)

\* What findOne gives a read of loop l.
OfLoop(l, d) ==
    \/ d = NoDoc
    \/ d \in Doc /\ d.key = l /\ (l \in FreqCodes => Aligned(l, d.start))

ServedOfLoop ==
    \A f \in flight : ~f.orphan /\ f.doc # Unread => OfLoop(f.loop, f.doc)

AnswersWellFormed ==
    \A l \in Loops, p \in Pairs : answer[l][p] # Unread => WellFormed(l, answer[l][p])

ContentInv == TypeOK /\ ServedOfLoop /\ AnswersWellFormed /\ WireWellFormed

\* What latestByCode and latestByInterval hand on carries no nweValues.
LEMMA ResolvedWellFormed ==
  ASSUME NEW f \in Read, f.doc # Unread, OfLoop(f.loop, f.doc), ~Throws(f.doc)
  PROVE  WellFormed(f.loop, Resolved(f))
<1>1. f.loop \in Loops
  BY DEF Read
<1>2. CASE f.doc = NoDoc
  BY <1>2, SentinelsAssumption
     DEF Resolved, LatestByCode, LatestByInterval, WithoutNweValues, WellFormed
<1>3. CASE f.doc # NoDoc
  <2>1. /\ f.doc \in Doc /\ f.doc.key = f.loop /\ f.doc.detail # "missing"
        /\ f.loop \in FreqCodes => Aligned(f.loop, f.doc.start)
    BY <1>3 DEF OfLoop, Throws
  <2>2. f.doc.detail \in IF f.loop \in CodeLoops THEN {"nwe", "plain"} ELSE {"candle"}
    BY <2>1 DEF Doc, Details
  <2>3. CASE f.loop \in CodeLoops /\ f.doc.detail = "nwe"
    <3>1. Resolved(f) = [f.doc EXCEPT !.detail = "plain"]
      BY <2>1, <2>3 DEF Resolved, LatestByCode, WithoutNweValues
    <3>2. Resolved(f).key = f.loop /\ Resolved(f).detail = "plain" /\ Resolved(f).start = f.doc.start
      BY <2>1, <3>1 DEF Doc
    <3> QED BY <2>1, <2>3, <3>2 DEF WellFormed
  <2>4. CASE ~(f.loop \in CodeLoops /\ f.doc.detail = "nwe")
    <3>1. Resolved(f) = f.doc
      BY <2>4 DEF Resolved, LatestByCode, LatestByInterval, WithoutNweValues
    <3>2. f.doc.detail = IF f.loop \in CodeLoops THEN "plain" ELSE "candle"
      BY <2>2, <2>4
    <3> QED BY <2>1, <3>1, <3>2 DEF WellFormed
  <2> QED BY <2>3, <2>4
<1> QED BY <1>2, <1>3

LEMMA ContentInit == Init => ContentInv
BY TypeInit DEF Init, ContentInv, ServedOfLoop, AnswersWellFormed, WireWellFormed, NoAnswers

LEMMA ContentStep == ContentInv /\ [Next]_vars => ContentInv'
<1> SUFFICES ASSUME ContentInv, [Next]_vars
             PROVE  ServedOfLoop' /\ AnswersWellFormed' /\ WireWellFormed'
  BY TypeStep DEF ContentInv
<1>1. TypeOK /\ ServedOfLoop /\ AnswersWellFormed /\ WireWellFormed /\ TypeOK'
  BY TypeStep DEF ContentInv
<1>2. ServedOfLoop'
  <2> SUFFICES ASSUME NEW g \in flight', ~g.orphan, g.doc # Unread
               PROVE  OfLoop(g.loop, g.doc)
    BY DEF ServedOfLoop, OfLoop, Aligned
  <2>1. CASE g \in flight
    BY <1>1, <2>1 DEF ServedOfLoop
  <2>2. CASE g \notin flight
    <3>1. g.doc \in FindOne(Findable(g.pair, g.loop))
      BY <1>1, <2>2, NewlyServed
    <3>2. g.loop \in Loops /\ g.pair \in Pairs
      BY <1>1 DEF TypeOK, Read
    <3> QED BY <1>1, <3>1, <3>2, FindOneFinds, FindableDocs DEF OfLoop, TypeOK
  <2> QED BY <2>1, <2>2
<1>3. AnswersWellFormed'
  <2> SUFFICES ASSUME NEW l \in Loops, NEW p \in Pairs, NEW d, d = answer'[l][p], d # Unread
               PROVE  WellFormed(l, d)
    BY DEF AnswersWellFormed, WellFormed, Aligned
  <2>1. CASE d = answer[l][p]
    BY <1>1, <2>1 DEF AnswersWellFormed
  <2>2. CASE d # answer[l][p]
    <3>1. PICK f \in flight : ReadResolves(f) /\ f.loop = l /\ d = Resolved(f)
      BY <1>1, <2>2, NewlyResolved
    <3> QED BY <1>1, <3>1, ResolvedWellFormed DEF ReadResolves, ServedOfLoop, TypeOK
  <2> QED BY <2>1, <2>2
<1>4. WireWellFormed'
  <2> SUFFICES ASSUME NEW l \in Loops, NEW i \in DOMAIN wire'[l], NEW p \in Pairs
               PROVE  WellFormed(l, wire'[l][i][p])
    BY DEF WireWellFormed, WellFormed, Aligned
  <2>1. CASE wire'[l] = wire[l]
    BY <1>1, <2>1 DEF WireWellFormed
  <2>2. CASE Emit(l)
    <3>1. wire[l] \in Seq(Batch) /\ answer[l] \in Batch
      BY <1>1, <2>2 DEF Emit, TypeOK, Batch
    <3>2. wire'[l] = Append(wire[l], answer[l]) /\ answer[l][p] # Unread
      BY <1>1, <2>2 DEF Emit, TypeOK
    <3>3. wire'[l][i] = answer[l] \/ (i \in DOMAIN wire[l] /\ wire'[l][i] = wire[l][i])
      BY <3>1, <3>2
    <3> QED BY <1>1, <3>2, <3>3 DEF AnswersWellFormed, WireWellFormed
  <2>3. CASE wire[l] # <<>> /\ wire'[l] = Tail(wire[l])
    <3>1. wire[l] \in Seq(Batch)
      BY <1>1 DEF TypeOK
    <3>2. i + 1 \in DOMAIN wire[l] /\ wire'[l][i] = wire[l][i + 1]
      BY <2>3, <3>1
    <3> QED BY <1>1, <3>2 DEF WireWellFormed
  <2>4. wire'[l] = wire[l] \/ Emit(l) \/ (wire[l] # <<>> /\ wire'[l] = Tail(wire[l]))
    <3>1. \A k \in Loops : Emit(k) \/ Deliver(k) \/ Lose(k) => k = l \/ wire'[l] = wire[l]
      BY <1>1 DEF Emit, Deliver, Lose, TypeOK
    <3>2. Deliver(l) \/ Lose(l) => wire[l] # <<>> /\ wire'[l] = Tail(wire[l])
      BY <1>1 DEF Deliver, Lose, TypeOK
    <3>3. wire' = wire \/ \E k \in Loops : Emit(k) \/ Deliver(k) \/ Lose(k)
      BY DEF Next, vars, Launch, ListenSucceeds, ListenFails, Crash, Settle, Serve,
             ReadResolves, ReadThrows, ReadFails, AbandonRound, OrphanSettles,
             SendLatestCandleByInterval, SendLatestIndicatorByCode, WakeUp, Insert, Amend
    <3> QED BY <3>1, <3>2, <3>3
  <2> QED BY <2>1, <2>2, <2>3, <2>4
<1> QED BY <1>2, <1>3, <1>4

\* What is broadcast for a loop is a document of that loop, aligned when the
\* loop serves a FREQ code, and never carries nweValues.
THEOREM BroadcastsAreWellFormed == Spec => []WireWellFormed
<1>1. ContentInv => WireWellFormed
  BY DEF ContentInv
<1> QED BY <1>1, ContentInit, ContentStep, PTL DEF Spec

=============================================================================
