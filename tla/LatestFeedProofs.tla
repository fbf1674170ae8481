-------------------------- MODULE LatestFeedProofs --------------------------
(***************************************************************************)
(* The abstract feed never goes back in time.  The argument: what a loop   *)
(* last published is visible, stays visible, and is therefore due whenever *)
(* a window opens; a batch covers what is due.                             *)
(***************************************************************************)
EXTENDS LatestFeed, TLAPS

\* What was published is visible for ever, and due in every open window.
PublishedIsDue ==
    \A l \in Loops, p \in Pairs : feed[l][p] # None =>
        /\ feed[l][p] \in visible[l][p]
        /\ open[l] => feed[l][p] \in due[l][p]

FeedInv == TypeOK /\ PublishedIsDue

\* The invariant holds initially: nothing is published.
LEMMA FeedInvInit == Init => FeedInv
  BY DEF Init, FeedInv, TypeOK, PublishedIsDue, NothingDue, None

\* Every step of the abstract feed keeps the invariant.
LEMMA FeedInvStep == FeedInv /\ [Next]_feedVars => FeedInv'
<1> SUFFICES ASSUME FeedInv, [Next]_feedVars PROVE FeedInv'
  OBVIOUS
<1> USE DEF FeedInv, TypeOK, PublishedIsDue, None
<1>1. ASSUME NEW l \in Loops, NEW p \in Pairs, NEW s \in Starts, Appear(l, p, s)
      PROVE FeedInv'
  BY <1>1 DEF Appear
<1>2. ASSUME NEW L \in SUBSET Loops, Open(L) PROVE FeedInv'
  <2>1. TypeOK'
    BY <1>2 DEF Open
  <2>2. PublishedIsDue'
    BY <1>2 DEF Open
  <2> QED BY <2>1, <2>2
<1>3. ASSUME NEW L \in SUBSET Loops, Close(L) PROVE FeedInv'
  <2>1. TypeOK'
    BY <1>3 DEF Close, NothingDue
  <2>2. PublishedIsDue'
    BY <1>3 DEF Close, NothingDue
  <2> QED BY <2>1, <2>2
<1>4. ASSUME NEW l \in Loops, NEW b \in [Pairs -> Starts \cup {None}], Publish(l, b)
      PROVE FeedInv'
  <2>1. TypeOK'
    BY <1>4 DEF Publish, NothingDue
  <2>2. PublishedIsDue'
    BY <1>4 DEF Publish, NothingDue
  <2> QED BY <2>1, <2>2
<1>5. CASE UNCHANGED feedVars
  BY <1>5 DEF feedVars
<1> QED BY <1>1, <1>2, <1>3, <1>4, <1>5 DEF Next

\* Start times and None are integers, and None is the least.
LEMMA StartsAreIntegers ==
  ASSUME Starts \subseteq Nat, NEW x \in Starts \cup {None}
  PROVE  x \in Int /\ None <= x
BY DEF None

\* Under the invariant no step lets a feed go back.
LEMMA FeedMonotoneStep ==
  Starts \subseteq Nat /\ FeedInv /\ [Next]_feedVars =>
    \A l \in Loops, p \in Pairs : feed[l][p] <= feed'[l][p]
<1> SUFFICES ASSUME Starts \subseteq Nat, FeedInv, [Next]_feedVars,
                    NEW k \in Loops, NEW p \in Pairs
             PROVE  feed[k][p] <= feed'[k][p]
  OBVIOUS
<1>1. feed[k][p] \in Starts \cup {None}
  BY DEF FeedInv, TypeOK
<1>2. feed[k][p] \in Int /\ None <= feed[k][p]
  BY <1>1, StartsAreIntegers
<1>3. ASSUME NEW b \in [Pairs -> Starts \cup {None}], Publish(k, b)
      PROVE  feed[k][p] <= feed'[k][p]
  <2>1. b[p] \in Starts \cup {None}
    OBVIOUS
  <2>2. b[p] \in Int /\ None <= b[p]
    BY <2>1, StartsAreIntegers
  <2>3. feed'[k][p] = b[p]
    BY <1>3 DEF Publish, FeedInv, TypeOK
  <2>4. feed[k][p] = None \/ feed[k][p] \in due[k][p]
    BY <1>3 DEF Publish, FeedInv, PublishedIsDue
  <2>5. feed[k][p] \in due[k][p] => feed[k][p] <= b[p]
    BY <1>3 DEF Publish, Covers
  <2> QED BY <2>2, <2>3, <2>4, <2>5
<1>4. ASSUME NEW l \in Loops, NEW b \in [Pairs -> Starts \cup {None}], Publish(l, b), l # k
      PROVE  feed'[k] = feed[k]
  BY <1>4 DEF Publish, FeedInv, TypeOK
<1>5. \/ feed' = feed
      \/ \E l \in Loops, b \in [Pairs -> Starts \cup {None}] : Publish(l, b)
  BY DEF Next, Appear, Open, Close, feedVars
<1> QED BY <1>2, <1>3, <1>4, <1>5

\* Whatever implements LatestFeed, with natural numbers for start times, never
\* publishes for a pair something older than it published before.
THEOREM FeedIsMonotone ==
  ASSUME Starts \subseteq Nat
  PROVE  Spec => FeedMonotone
<1>1. FeedInv /\ [Next]_feedVars =>
        [\A l \in Loops, p \in Pairs : feed[l][p] <= feed'[l][p]]_feedVars
  BY FeedMonotoneStep
<1> QED BY <1>1, FeedInvInit, FeedInvStep, PTL DEF Spec, FeedMonotone

=============================================================================
