---------------------------- MODULE HelperProofs ----------------------------
(* Proofs of the safety properties of PageWalk, EntityIds and Calendar.     *)
EXTENDS PageWalk, Calendar, EntityIds, SequenceTheorems, FiniteSetTheorems, TLAPS

LEMMA FunctionIsSeq ==
    ASSUME NEW S, NEW n \in Nat, NEW f \in [1..n -> S]
    PROVE  f \in Seq(S) /\ Len(f) = n
<1>1. f \in Seq(S)
    BY SeqDef
<1> QED
    BY <1>1, LenProperties

-----------------------------------------------------------------------------
(* PageWalk: the pages asked for end at the frontier.  Items that were on   *)
(* the list ever since are given when they are behind it, unless a removal  *)
(* drew them there; given items are behind it, unless an insertion pushed   *)
(* them out.                                                                *)

Frontier == (page - 1) * perPage

Event(e) == e \in events

Distinct == \A i, j \in 1..Len(list) : list[i] = list[j] => i = j

Idle == walk = "idle" => got = {} /\ twice = {} /\ events = {}

SteadyBehind ==
    walk = "walking" /\ ~Event("late") /\ ~Event("removed") =>
        \A i \in 1..Len(list) : list[i] \in steady /\ i <= Frontier => list[i] \in got

GivenBehind ==
    walk = "walking" /\ ~Event("inserted") =>
        \A i \in 1..Len(list) : list[i] \in got => i <= Frontier

\* Undisturbed, the walk is on an existing page and has everything before it.
AllBehind ==
    walk = "walking" /\ events = {} =>
        /\ Frontier < Len(list)
        /\ \A i \in 1..Len(list) : i <= Frontier => list[i] \in got

WalkInv ==
    /\ WalkTypeOK /\ Distinct /\ Idle
    /\ steady \subseteq OnList
    /\ SteadyBehind /\ GivenBehind /\ AllBehind
    /\ NothingMissed /\ NothingTwice /\ WalkCompletes

LEMMA WalkInvInit == WalkInit => WalkInv
<1> SUFFICES ASSUME WalkInit PROVE WalkInv
    OBVIOUS
<1>1. WalkTypeOK
    BY PagingAssumption DEF WalkInit, WalkTypeOK
<1> QED
    BY <1>1 DEF WalkInit, WalkInv, Distinct, Idle, OnList, SteadyBehind, GivenBehind, AllBehind,
        NothingMissed, NothingTwice, WalkCompletes

\* The last page is the one that holds the last item.
LEMMA LastPage ==
    ASSUME NEW n \in Nat, NEW p \in Nat \ {0}, NEW g \in Nat \ {0}
    PROVE  /\ PagesCount(n, p) \in Nat
           /\ PagesCount(n, p) = g => n <= g * p
           /\ PagesCount(n, p) # g /\ (g - 1) * p < n => g * p < n
           /\ PagesCount(n, p) >= 1 => n > 0
<1> DEFINE q == (n + p - 1) \div p
           r == (n + p - 1) % p
<1>1. q \in Nat /\ r \in 0..(p - 1) /\ n + p - 1 = p * q + r
    OBVIOUS
<1> HIDE DEF q, r
<1>2. (g - 1) * p = g * p - p /\ g * p \in Nat /\ p * q \in Nat
    BY <1>1
<1>3. q = g => p * q = g * p
    BY <1>1
<1>4. q <= g - 1 => p * q <= g * p - p
    <2> SUFFICES ASSUME q <= g - 1 PROVE p * q <= g * p - p
        OBVIOUS
    <2>1. p * q <= p * (g - 1)
        BY <1>1
    <2> QED
        BY <1>2, <2>1
<1>5. q >= g + 1 => p * q >= g * p + p
    <2> SUFFICES ASSUME q >= g + 1 PROVE p * q >= g * p + p
        OBVIOUS
    <2>1. p * q >= p * (g + 1)
        BY <1>1
    <2> QED
        BY <1>1, <2>1
<1>6. q >= 1 => n > 0
    <2> SUFFICES ASSUME q >= 1 PROVE n > 0
        OBVIOUS
    <2>1. p * q >= p
        BY <1>1
    <2> QED
        BY <1>1, <2>1
<1>7. PagesCount(n, p) = q
    BY DEF PagesCount, q
<1> QED
    BY <1>1, <1>2, <1>3, <1>4, <1>5, <1>6, <1>7

LEMMA BeginStep ==
    ASSUME WalkInv, Begin
    PROVE  WalkInv'
<1>1. PICK p \in PageQuery, size \in SizeQuery :
        LET pagination == CreatePagination(p, size)
            late == pagination.page > 1
            beyond == pagination.page > PagesCount(Len(list), pagination.perPage)
        IN  /\ page' = pagination.page
            /\ perPage' = pagination.perPage
            /\ events' = {e \in {"late", "beyond"} : IF e = "late" THEN late ELSE beyond}
    BY DEF Begin
<1>2. /\ walk = "idle" /\ walk' = "walking" /\ steady' = OnList
      /\ UNCHANGED <<list, made, got, twice, missing>>
    BY DEF Begin
<1>3. /\ WalkTypeOK /\ Distinct /\ got = {} /\ twice = {} /\ events = {}
    BY <1>2 DEF WalkInv, Idle
<1>4. page' \in Nat \ {0} /\ perPage' \in Nat \ {0}
    BY <1>1, PagingAssumption DEF CreatePagination
<1>5. /\ events' \subseteq {"late", "beyond"}
      /\ ~Event("late")' => page' = 1
      /\ ~Event("beyond")' => page' <= PagesCount(Len(list), perPage')
    <2>1. Len(list) \in Nat /\ PagesCount(Len(list), perPage') \in Nat
        BY <1>3, <1>4, LastPage DEF WalkTypeOK
    <2> QED
        BY <1>1, <1>4, <2>1 DEF Event
<1>6. OnList \subseteq 1..made /\ OnList' = OnList
    BY <1>2, <1>3 DEF OnList, WalkTypeOK
<1>7. WalkTypeOK'
    BY <1>2, <1>3, <1>4, <1>5, <1>6 DEF WalkTypeOK
<1>8. page' = 1 => Frontier' = 0
    <2>1. \A n \in Nat : (1 - 1) * n = 0
        OBVIOUS
    <2> QED
        BY <1>4, <2>1 DEF Frontier
<1>9. SteadyBehind'
    BY <1>2, <1>3, <1>5, <1>8 DEF SteadyBehind
<1>10. GivenBehind'
    BY <1>2, <1>3 DEF GivenBehind
<1>11. AllBehind'
    <2> SUFFICES ASSUME events' = {} PROVE Frontier' = 0 /\ Len(list) > 0
        BY <1>2 DEF AllBehind
    <2>1. page' = 1 /\ 1 <= PagesCount(Len(list), perPage')
        BY <1>5 DEF Event
    <2>2. Len(list) \in Nat
        BY <1>3 DEF WalkTypeOK
    <2> QED
        BY <1>4, <1>8, <2>1, <2>2, LastPage
<1>12. NothingMissed' /\ NothingTwice' /\ WalkCompletes'
    BY <1>2, <1>3 DEF NothingMissed, NothingTwice, WalkCompletes
<1> QED
    BY <1>2, <1>3, <1>6, <1>7, <1>9, <1>10, <1>11, <1>12 DEF WalkInv, Distinct, Idle

\* The page given lies between two frontiers.
LEMMA TurnStep ==
    ASSUME WalkInv, Turn
    PROVE  WalkInv'
<1> DEFINE given == Slice(CreatePagination(page, perPage))
           count == PagesCount(Len(list), perPage)
           frontier == page * perPage
<1>1. /\ WalkTypeOK /\ Distinct /\ steady \subseteq OnList /\ walk = "walking"
      /\ SteadyBehind /\ GivenBehind /\ AllBehind /\ NothingTwice
    BY DEF WalkInv, Turn
<1>2. page \in Nat \ {0} /\ perPage \in Nat \ {0} /\ Len(list) \in Nat
    BY <1>1 DEF WalkTypeOK
<1>3. CreatePagination(page, perPage) =
          [page |-> page, perPage |-> perPage,
           startIndex |-> Frontier, endIndex |-> frontier]
    BY <1>2 DEF CreatePagination, Frontier
<1>4. given = {list[i] : i \in {j \in 1..Len(list) : Frontier < j /\ j <= frontier}}
    BY <1>3 DEF Slice
<1>5. /\ got' = got \cup given /\ twice' = twice \cup (got \cap given)
      /\ page' = NextPage(page, count)
      /\ walk' = IF page' = page THEN "ended" ELSE "walking"
      /\ missing' = IF page' = page THEN OnList \ (got \cup given) ELSE missing
      /\ UNCHANGED <<list, made, perPage, steady, events>>
    BY <1>3 DEF Turn, GetHeaders
<1>6. /\ count \in Nat
      /\ count = page => Len(list) <= frontier
      /\ count # page /\ Frontier < Len(list) => frontier < Len(list)
    BY <1>2, LastPage DEF Frontier
<1>7. /\ page' \in Nat \ {0} /\ (page' = page <=> count = page)
      /\ count # page => page' = page + 1
    BY <1>2, <1>5, <1>6 DEF NextPage
<1>8. count # page => Frontier' = frontier
    BY <1>2, <1>5, <1>7 DEF Frontier
<1>9. Frontier \in Nat /\ frontier \in Nat /\ Frontier < frontier
    <2>1. Frontier = frontier - perPage /\ frontier \in Nat
        BY <1>2 DEF Frontier
    <2>2. Frontier \in Nat
        <3>1. page - 1 \in Nat
            BY <1>2
        <3> QED
            BY <1>2, <3>1 DEF Frontier
    <2> QED
        BY <1>2, <2>1, <2>2
<1> HIDE DEF given, count, frontier
<1>10. given \subseteq OnList /\ OnList \subseteq 1..made
    BY <1>1, <1>4 DEF OnList, WalkTypeOK
<1>11. WalkTypeOK'
    BY <1>1, <1>2, <1>5, <1>7, <1>10 DEF WalkTypeOK
<1>12. \A i \in 1..Len(list) : i <= frontier => i <= Frontier \/ list[i] \in given
    BY <1>4, <1>9
<1>13. \A i \in 1..Len(list) : list[i] \in given => Frontier < i /\ i <= frontier
    BY <1>1, <1>4 DEF Distinct
<1>14. SteadyBehind'
    BY <1>1, <1>5, <1>7, <1>8, <1>12 DEF SteadyBehind, Event
<1>15. GivenBehind'
    BY <1>1, <1>2, <1>5, <1>7, <1>8, <1>9, <1>13 DEF GivenBehind, Event
<1>16. AllBehind'
    BY <1>1, <1>5, <1>6, <1>7, <1>8, <1>12 DEF AllBehind
<1>17. NothingTwice'
    <2> SUFFICES ASSUME ~Event("inserted") PROVE got \cap given = {}
        BY <1>1, <1>5 DEF NothingTwice, Event
    <2> SUFFICES ASSUME NEW x \in got, x \in given PROVE FALSE
        OBVIOUS
    <2>1. PICK i \in 1..Len(list) : list[i] = x
        BY <1>4
    <2>2. i <= Frontier /\ Frontier < i
        BY <1>1, <1>13, <2>1 DEF GivenBehind
    <2> QED
        BY <1>9, <2>1, <2>2
<1>18. ASSUME count = page
       PROVE  /\ ~Event("late") /\ ~Event("removed") => steady \subseteq got'
              /\ events = {} => OnList \subseteq got'
    <2>1. \A i \in 1..Len(list) : i <= Frontier \/ list[i] \in given
        <3>1. \A i \in 1..Len(list) : i <= frontier
            BY <1>2, <1>6, <1>9, <1>18
        <3> QED
            BY <1>12, <3>1
    <2> QED
        BY <1>1, <1>5, <2>1 DEF SteadyBehind, AllBehind, OnList
<1>19. NothingMissed'
    BY <1>5, <1>7, <1>18 DEF NothingMissed, Event
<1>20. WalkCompletes'
    BY <1>5, <1>7, <1>18 DEF WalkCompletes
<1> QED
    BY <1>1, <1>5, <1>11, <1>14, <1>15, <1>16, <1>17, <1>19, <1>20
        DEF WalkInv, Distinct, Idle, OnList

LEMMA InsertStep ==
    ASSUME WalkInv, NEW k \in 1..(Len(list) + 1), Insert(k)
    PROVE  WalkInv'
<1> DEFINE n == Len(list)
<1>1. /\ WalkTypeOK /\ Distinct /\ Idle /\ steady \subseteq OnList
      /\ SteadyBehind /\ GivenBehind /\ AllBehind
      /\ NothingMissed /\ NothingTwice /\ WalkCompletes
    BY DEF WalkInv
<1>2. n \in Nat /\ made \in Nat /\ made' = made + 1 /\ k \in 1..(n + 1)
    BY <1>1 DEF WalkTypeOK, Insert
<1>3. \A i \in 1..n : list[i] \in 1..made
    BY <1>1 DEF WalkTypeOK
<1>4. /\ list' = [i \in 1..(n + 1) |->
                    IF i < k THEN list[i] ELSE IF i = k THEN made + 1 ELSE list[i - 1]]
      /\ events' = IF walk = "walking" /\ k <= n THEN events \cup {"inserted"} ELSE events
      /\ UNCHANGED <<walk, page, perPage, got, twice, steady, missing>>
    BY DEF Insert
<1> HIDE DEF n
<1>5. /\ \A i \in 1..(n + 1) : i < k => i \in 1..n /\ list'[i] = list[i]
      /\ \A i \in 1..(n + 1) : i > k => i - 1 \in 1..n /\ list'[i] = list[i - 1]
      /\ list'[k] = made + 1
    BY <1>2, <1>4
<1>6. list' \in Seq(1..made') /\ Len(list') = n + 1
    <2>1. \A i \in 1..(n + 1) : list'[i] \in 1..(made + 1)
        BY <1>2, <1>3, <1>5
    <2>2. list' \in [1..(n + 1) -> 1..(made + 1)]
        BY <1>4, <2>1
    <2> QED
        BY <1>2, <2>2, FunctionIsSeq
<1>7. \A i \in 1..(n + 1) : list'[i] # made + 1 => i # k
    BY <1>5
<1>8. WalkTypeOK'
    <2>1. 1..made \subseteq 1..made'
        BY <1>2
    <2> QED
        BY <1>1, <1>2, <1>4, <1>6, <2>1 DEF WalkTypeOK
<1>9. Distinct'
    <2> DEFINE old(i) == IF i < k THEN i ELSE i - 1
    <2>1. \A i \in 1..(n + 1) : i # k => old(i) \in 1..n /\ list'[i] = list[old(i)]
        BY <1>2, <1>5
    <2>2. \A i, j \in 1..(n + 1) : i # k /\ j # k /\ old(i) = old(j) => i = j
        BY <1>2
    <2> HIDE DEF old
    <2> SUFFICES ASSUME NEW i \in 1..(n + 1), NEW j \in 1..(n + 1), list'[i] = list'[j]
                 PROVE  i = j
        BY <1>6 DEF Distinct
    <2>3. \A l \in 1..(n + 1) : l # k => list'[l] # made + 1
        <3> SUFFICES ASSUME NEW l \in 1..(n + 1), l # k PROVE list'[l] # made + 1
            OBVIOUS
        <3>1. list'[l] \in 1..made
            BY <1>3, <2>1
        <3> QED
            BY <1>2, <3>1
    <2>4. CASE i = k \/ j = k
        BY <1>5, <2>3, <2>4
    <2>5. CASE i # k /\ j # k
        <3>1. old(i) = old(j)
            BY <1>1, <2>1, <2>5 DEF Distinct, n
        <3> QED
            BY <2>2, <2>5, <3>1
    <2> QED
        BY <2>4, <2>5
<1>10. made + 1 \notin got /\ made + 1 \notin steady
    BY <1>1, <1>2 DEF WalkTypeOK
<1>11. steady' \subseteq OnList'
    <2> SUFFICES ASSUME NEW x \in steady PROVE \E i \in 1..(n + 1) : list'[i] = x
        BY <1>4, <1>6 DEF OnList
    <2>1. PICK i \in 1..n : list[i] = x
        BY <1>1 DEF OnList, n
    <2>2. i < k => list'[i] = x /\ i \in 1..(n + 1)
        BY <1>2, <1>5, <2>1
    <2>3. ~(i < k) => list'[i + 1] = x /\ i + 1 \in 1..(n + 1)
        BY <1>2, <1>5, <2>1
    <2> QED
        BY <2>2, <2>3
<1>12. Frontier' = Frontier /\ Frontier \in Int
    BY <1>1, <1>4 DEF Frontier, WalkTypeOK
<1>13. SteadyBehind'
    <2> SUFFICES ASSUME walk = "walking", ~Event("late"), ~Event("removed"),
                        NEW i \in 1..(n + 1), list'[i] \in steady, i <= Frontier
                 PROVE  list'[i] \in got
        BY <1>4, <1>6, <1>12 DEF SteadyBehind, Event
    <2>1. CASE i < k
        BY <1>1, <1>5, <2>1 DEF SteadyBehind, n
    <2>2. CASE i > k
        BY <1>1, <1>2, <1>5, <1>12, <2>2 DEF SteadyBehind, n
    <2>3. CASE i = k
        BY <1>5, <1>10, <2>3
    <2> QED
        BY <1>2, <2>1, <2>2, <2>3
<1>14. ASSUME walk = "walking", k \in 1..n
       PROVE  Event("inserted")'
    BY <1>2, <1>4, <1>14 DEF Event
<1>15. GivenBehind'
    <2> SUFFICES ASSUME walk = "walking", ~Event("inserted")',
                        NEW i \in 1..(n + 1), list'[i] \in got
                 PROVE  i <= Frontier
        BY <1>4, <1>6, <1>12 DEF GivenBehind
    <2>1. k = n + 1 /\ ~Event("inserted")
        BY <1>2, <1>4, <1>14 DEF Event
    <2>2. i # k
        BY <1>5, <1>10
    <2>3. i \in 1..n /\ list'[i] = list[i]
        BY <1>2, <1>5, <2>1, <2>2
    <2> QED
        BY <1>1, <2>1, <2>3 DEF GivenBehind, n
<1>16. AllBehind'
    <2> SUFFICES ASSUME walk = "walking", events' = {}
                 PROVE  /\ Frontier < n + 1
                        /\ \A i \in 1..(n + 1) : i <= Frontier => list'[i] \in got
        BY <1>4, <1>6, <1>12 DEF AllBehind
    <2>1. k = n + 1 /\ events = {}
        BY <1>2, <1>4, <1>14 DEF Event
    <2>2. Frontier < n
        BY <1>1, <2>1 DEF AllBehind, n
    <2>3. \A i \in 1..(n + 1) : i <= Frontier => i \in 1..n /\ list'[i] = list[i]
        BY <1>2, <1>5, <1>12, <2>1, <2>2
    <2> QED
        BY <1>1, <1>2, <1>12, <2>1, <2>2, <2>3 DEF AllBehind, n
<1>17. NothingMissed' /\ NothingTwice' /\ WalkCompletes'
    BY <1>1, <1>4 DEF NothingMissed, NothingTwice, WalkCompletes
<1>18. Idle'
    BY <1>1, <1>4 DEF Idle
<1> QED
    BY <1>8, <1>9, <1>11, <1>13, <1>15, <1>16, <1>17, <1>18 DEF WalkInv

LEMMA RemoveStep ==
    ASSUME WalkInv, NEW k \in 1..Len(list), Remove(k)
    PROVE  WalkInv'
<1> DEFINE n == Len(list)
<1>1. /\ WalkTypeOK /\ Distinct /\ Idle /\ steady \subseteq OnList
      /\ SteadyBehind /\ GivenBehind /\ AllBehind
      /\ NothingMissed /\ NothingTwice /\ WalkCompletes
    BY DEF WalkInv
<1>2. n \in Nat \ {0} /\ k \in 1..n
    BY <1>1 DEF WalkTypeOK
<1>3. \A i \in 1..n : list[i] \in 1..made
    BY <1>1 DEF WalkTypeOK
<1>4. /\ list' = [i \in 1..(n - 1) |-> IF i < k THEN list[i] ELSE list[i + 1]]
      /\ steady' = steady \ {list[k]}
      /\ events' = IF walk = "walking" THEN events \cup {"removed"} ELSE events
      /\ UNCHANGED <<walk, made, page, perPage, got, twice, missing>>
    BY DEF Remove
<1> HIDE DEF n
<1>5. /\ \A i \in 1..(n - 1) : i < k => i \in 1..n /\ list'[i] = list[i]
      /\ \A i \in 1..(n - 1) : i >= k => i + 1 \in 1..n /\ list'[i] = list[i + 1]
    BY <1>2, <1>4
<1>6. list' \in Seq(1..made) /\ Len(list') = n - 1
    <2>1. \A i \in 1..(n - 1) : list'[i] \in 1..made
        BY <1>2, <1>3, <1>5
    <2>2. list' \in [1..(n - 1) -> 1..made] /\ n - 1 \in Nat
        BY <1>2, <1>4, <2>1
    <2> QED
        BY <2>2, FunctionIsSeq
<1>7. WalkTypeOK'
    BY <1>1, <1>4, <1>6 DEF WalkTypeOK
<1>8. Distinct'
    BY <1>1, <1>2, <1>5, <1>6 DEF Distinct, n
<1>9. steady' \subseteq OnList'
    <2> SUFFICES ASSUME NEW x \in steady, x # list[k]
                 PROVE  \E i \in 1..(n - 1) : list'[i] = x
        BY <1>4, <1>6 DEF OnList
    <2>1. PICK i \in 1..n : list[i] = x
        BY <1>1 DEF OnList, n
    <2>2. i < k => list'[i] = x /\ i \in 1..(n - 1)
        BY <1>2, <1>5, <2>1
    <2>3. i > k => list'[i - 1] = x /\ i - 1 \in 1..(n - 1)
        BY <1>2, <1>5, <2>1
    <2>4. i # k
        BY <2>1
    <2> QED
        BY <1>2, <2>2, <2>3, <2>4
<1>10. walk = "walking" => Event("removed")'
    BY <1>4 DEF Event
<1>11. GivenBehind'
    <2> SUFFICES ASSUME walk = "walking", ~Event("inserted"),
                        NEW i \in 1..(n - 1), list'[i] \in got
                 PROVE  i <= Frontier
        BY <1>4, <1>6 DEF GivenBehind, Event, Frontier
    <2>1. Frontier \in Int
        BY <1>1 DEF Frontier, WalkTypeOK
    <2>2. PICK j \in 1..n : i <= j /\ list[j] \in got
        BY <1>2, <1>5
    <2>3. j <= Frontier
        BY <1>1, <2>2 DEF GivenBehind, n
    <2> QED
        BY <1>2, <2>1, <2>2, <2>3
<1>12. SteadyBehind' /\ AllBehind'
    BY <1>4, <1>10 DEF SteadyBehind, AllBehind, Event
<1>13. NothingMissed' /\ NothingTwice' /\ WalkCompletes'
    BY <1>1, <1>4 DEF NothingMissed, NothingTwice, WalkCompletes
<1>14. Idle'
    BY <1>1, <1>4 DEF Idle
<1> QED
    BY <1>7, <1>8, <1>9, <1>11, <1>12, <1>13, <1>14 DEF WalkInv

LEMMA WalkInvNext == WalkInv /\ [WalkNext]_walkVars => WalkInv'
<1> SUFFICES ASSUME WalkInv, [WalkNext]_walkVars PROVE WalkInv'
    OBVIOUS
<1>1. CASE UNCHANGED walkVars
    BY <1>1 DEF walkVars, WalkInv, WalkTypeOK, Distinct, Idle, OnList, SteadyBehind,
        GivenBehind, AllBehind, Event, Frontier, NothingMissed, NothingTwice, WalkCompletes
<1>2. CASE WalkNext
    <2>1. \A k : Remove(k) => k \in 1..Len(list)
        BY DEF Remove
    <2> QED
        BY <1>2, <2>1, BeginStep, TurnStep, InsertStep, RemoveStep DEF WalkNext
<1> QED
    BY <1>1, <1>2

LEMMA WalkInvHolds == WalkSpec => []WalkInv
    BY WalkInvInit, WalkInvNext, PTL DEF WalkSpec

\* For any list, page size and interleaving of requests and changes: variables
\* keep their types.
THEOREM WalkTypeCorrect == WalkSpec => []WalkTypeOK
<1>1. WalkInv => WalkTypeOK
    BY DEF WalkInv
<1> QED
    BY <1>1, WalkInvHolds, PTL

\* Without a removal, a walk from page 1 gives every item that was there all along.
THEOREM WalkMissesNothing == WalkSpec => []NothingMissed
<1>1. WalkInv => NothingMissed
    BY DEF WalkInv
<1> QED
    BY <1>1, WalkInvHolds, PTL

\* Without an insertion, a walk from any page gives no item twice.
THEOREM WalkRepeatsNothing == WalkSpec => []NothingTwice
<1>1. WalkInv => NothingTwice
    BY DEF WalkInv
<1> QED
    BY <1>1, WalkInvHolds, PTL

\* Undisturbed but by appended items, a walk from page 1 gives the whole list.
THEOREM WalkGivesAll == WalkSpec => []WalkCompletes
<1>1. WalkInv => WalkCompletes
    BY DEF WalkInv
<1> QED
    BY <1>1, WalkInvHolds, PTL

\* Following x-next-page loses nothing: the two results before.
THEOREM WalkLosesNothing == WalkSpec => []NothingLost
<1>1. NothingMissed /\ WalkCompletes => NothingLost
    BY DEF NothingLost
<1> QED
    BY <1>1, WalkMissesNothing, WalkGivesAll, PTL

-----------------------------------------------------------------------------
(* EntityIds: an id tells its millisecond within one; the scan has looked   *)
(* at a prefix.                                                             *)

Issued == \A i \in 1..Len(ids) : ids[i] \in (100 * issuedAt[i])..(100 * issuedAt[i] + 100)

Unscanned == scan = 0 => seenIds = {} /\ duplicates = <<>>

\* Positions before n that repeat an id.
Repeated(n) == {j \in 1..(n - 1) : \E i \in 1..(j - 1) : ids[i] = ids[j]}

IdsInv == IdsTypeOK /\ Issued /\ Unscanned /\ DuplicatesExact

LEMMA IdsInvInit == IdsInit => IdsInv
    BY DEF IdsInit, IdsInv, IdsTypeOK, Issued, Unscanned, DuplicatesExact

LEMMA IssueStep ==
    ASSUME IdsInv, Issue
    PROVE  IdsInv'
<1>1. /\ IdsTypeOK /\ Issued /\ scan = 0 /\ seenIds = {} /\ duplicates = <<>>
    BY DEF IdsInv, Unscanned, Issue
<1>2. PICK suffix \in Suffixes : ids' = Append(ids, GenerateEntityId(clock, suffix))
    BY DEF Issue
<1>3. /\ issuedAt' = Append(issuedAt, clock)
      /\ UNCHANGED <<clock, scan, seenIds, duplicates>>
    BY DEF Issue
<1> DEFINE made1 == GenerateEntityId(clock, suffix)
<1>4. made1 \in Nat /\ made1 \in (100 * clock)..(100 * clock + 100)
    BY <1>1, IdsAssumption DEF GenerateEntityId, IdsTypeOK
<1>5. ids' = Append(ids, made1)
    BY <1>2
<1> HIDE DEF made1
<1>6. /\ ids \in Seq(Nat) /\ issuedAt \in Seq(Nat) /\ Len(issuedAt) = Len(ids)
      /\ clock \in Nat /\ Len(ids) \in Nat
    BY <1>1 DEF IdsTypeOK
<1>7. /\ ids' \in Seq(Nat) /\ issuedAt' \in Seq(Nat)
      /\ Len(ids') = Len(ids) + 1 /\ Len(issuedAt') = Len(ids) + 1
    BY <1>3, <1>4, <1>5, <1>6
<1>8. /\ ids'[Len(ids) + 1] = made1 /\ issuedAt'[Len(ids) + 1] = clock
      /\ \A i \in 1..Len(ids) : ids'[i] = ids[i] /\ issuedAt'[i] = issuedAt[i]
    BY <1>3, <1>4, <1>5, <1>6
<1>9. IdsTypeOK'
    <2>1. duplicates' \in Seq({ids'[i] : i \in 1..Len(ids')})
        BY <1>1, <1>3
    <2> QED
        BY <1>1, <1>3, <1>6, <1>7, <2>1 DEF IdsTypeOK
<1>10. Issued'
    <2> SUFFICES ASSUME NEW i \in 1..Len(ids')
                 PROVE  ids'[i] \in (100 * issuedAt'[i])..(100 * issuedAt'[i] + 100)
        BY DEF Issued
    <2>1. CASE i \in 1..Len(ids)
        BY <1>1, <1>8, <2>1 DEF Issued
    <2>2. CASE i = Len(ids) + 1
        BY <1>4, <1>8, <2>2
    <2> QED
        BY <1>6, <1>7, <2>1, <2>2
<1>11. Unscanned' /\ DuplicatesExact'
    BY <1>1, <1>3 DEF Unscanned, DuplicatesExact
<1> QED
    BY <1>9, <1>10, <1>11 DEF IdsInv

LEMMA CallFindStep ==
    ASSUME IdsInv, CallFind
    PROVE  IdsInv'
<1>1. /\ IdsTypeOK /\ Issued /\ scan = 0 /\ scan' = 1 /\ seenIds = {} /\ duplicates = <<>>
      /\ UNCHANGED <<clock, ids, issuedAt, seenIds, duplicates>>
    BY DEF IdsInv, Unscanned, CallFind
<1>2. IdsTypeOK'
    BY <1>1 DEF IdsTypeOK
<1>3. DuplicatesExact'
    <2>1. 1..(1 - 1) = {}
        OBVIOUS
    <2> QED
        BY <1>1, <2>1, FS_EmptySet DEF DuplicatesExact
<1> QED
    BY <1>1, <1>2, <1>3 DEF IdsInv, Issued, Unscanned

LEMMA RepeatedFinite ==
    ASSUME NEW n \in Nat
    PROVE  IsFiniteSet(Repeated(n)) /\ n \notin Repeated(n)
<1>1. IsFiniteSet(1..(n - 1))
    BY FS_Interval
<1>2. Repeated(n) \in SUBSET (1..(n - 1))
    BY DEF Repeated
<1> QED
    BY <1>1, <1>2, FS_Subset

LEMMA ScanStep ==
    ASSUME IdsInv, Scan
    PROVE  IdsInv'
<1> DEFINE Listing(s) == {s[i] : i \in 1..Len(s)}
<1>1. /\ IdsTypeOK /\ Issued /\ scan \in 1..Len(ids) /\ scan' = scan + 1
      /\ UNCHANGED <<clock, ids, issuedAt>>
    BY DEF IdsInv, Scan
<1>2. scan \in Nat \ {0} /\ ids \in Seq(Nat) /\ Len(ids) \in Nat /\ ids[scan] \in Nat
    BY <1>1 DEF IdsTypeOK
<1>3. /\ seenIds = {ids[i] : i \in 1..(scan - 1)}
      /\ Listing(duplicates) = {ids[j] : j \in Repeated(scan)}
      /\ Len(duplicates) = Cardinality(Repeated(scan))
    <2>1. scan > 0 /\ DuplicatesExact
        BY <1>2 DEF IdsInv
    <2> QED
        BY <2>1, Zenon DEF DuplicatesExact, Repeated
<1>4. 1..(scan' - 1) = 1..(scan - 1) \cup {scan}
    BY <1>1, <1>2
<1>5. ids[scan] \in seenIds <=> \E i \in 1..(scan - 1) : ids[i] = ids[scan]
    BY <1>3
<1>6. /\ ids[scan] \in seenIds => Repeated(scan') = Repeated(scan) \cup {scan}
      /\ ids[scan] \notin seenIds => Repeated(scan') = Repeated(scan)
    BY <1>4, <1>5 DEF Repeated
<1>7. IsFiniteSet(Repeated(scan)) /\ scan \notin Repeated(scan)
    BY <1>2, RepeatedFinite
<1>8. /\ seenIds' = seenIds \cup {ids[scan]}
      /\ seenIds' = {ids[i] : i \in 1..(scan' - 1)}
    <2>1. seenIds' = seenIds \cup {ids[scan]}
        BY DEF Scan
    <2> QED
        BY <1>3, <1>4, <2>1
<1> DEFINE values == {ids[i] : i \in 1..Len(ids)}
<1>9. duplicates \in Seq(values) /\ ids[scan] \in values
    BY <1>1 DEF IdsTypeOK
<1>10. /\ duplicates' \in Seq(values)
       /\ Listing(duplicates') = {ids[j] : j \in Repeated(scan')}
       /\ Len(duplicates') = Cardinality(Repeated(scan'))
    <2>1. CASE ids[scan] \in seenIds
        <3>1. duplicates' = Append(duplicates, ids[scan])
            BY <2>1 DEF Scan, ListDuplicate
        <3> HIDE DEF values
        <3>2. /\ duplicates' \in Seq(values) /\ Len(duplicates') = Len(duplicates) + 1
              /\ duplicates'[Len(duplicates) + 1] = ids[scan]
              /\ \A i \in 1..Len(duplicates) : duplicates'[i] = duplicates[i]
            BY <1>9, <3>1
        <3>3. 1..Len(duplicates') = 1..Len(duplicates) \cup {Len(duplicates) + 1}
            BY <1>9, <3>2
        <3>4. Listing(duplicates') = Listing(duplicates) \cup {ids[scan]}
            BY <3>2, <3>3
        <3>5. {ids[j] : j \in Repeated(scan')} = {ids[j] : j \in Repeated(scan)} \cup {ids[scan]}
            BY <1>6, <2>1
        <3>6. Cardinality(Repeated(scan')) = Cardinality(Repeated(scan)) + 1
            BY <1>6, <1>7, <2>1, FS_AddElement
        <3> QED
            BY <1>3, <3>2, <3>4, <3>5, <3>6
    <2>2. CASE ids[scan] \notin seenIds
        <3>1. duplicates' = duplicates
            BY <2>2 DEF Scan
        <3> QED
            BY <1>3, <1>6, <1>9, <2>2, <3>1
    <2> QED
        BY <2>1, <2>2
<1>11. DuplicatesExact'
    BY <1>1, <1>8, <1>10 DEF DuplicatesExact, Repeated
<1>12. IdsTypeOK'
    <2>1. seenIds' \subseteq Nat
        BY <1>1, <1>2, <1>8 DEF IdsTypeOK
    <2>2. scan' \in 0..(Len(ids) + 1)
        BY <1>1, <1>2
    <2> QED
        BY <1>1, <1>10, <2>1, <2>2 DEF IdsTypeOK
<1> QED
    BY <1>1, <1>2, <1>11, <1>12 DEF IdsInv, Issued, Unscanned

LEMMA IdsInvNext == IdsInv /\ [IdsNext]_idsVars => IdsInv'
<1> SUFFICES ASSUME IdsInv, [IdsNext]_idsVars PROVE IdsInv'
    OBVIOUS
<1>1. CASE Tick \/ UNCHANGED idsVars
    <2>1. /\ UNCHANGED <<ids, issuedAt, scan, seenIds, duplicates>>
          /\ clock' = clock \/ clock' = clock + 1
        BY <1>1 DEF Tick, idsVars
    <2>2. IdsTypeOK'
        BY <2>1 DEF IdsInv, IdsTypeOK
    <2>3. Issued' /\ Unscanned'
        BY <2>1 DEF IdsInv, Issued, Unscanned
    <2> DEFINE Exact(list_, seen, listed, n) ==
                  LET looked == 1..(n - 1)
                      repeated == {j \in looked : \E i \in 1..(j - 1) : list_[i] = list_[j]}
                  IN  /\ seen = {list_[i] : i \in looked}
                      /\ {listed[i] : i \in 1..Len(listed)} = {list_[j] : j \in repeated}
                      /\ Len(listed) = Cardinality(repeated)
    <2>4. DuplicatesExact'
        <3>1. scan > 0 => Exact(ids, seenIds, duplicates, scan)
            BY DEF IdsInv, DuplicatesExact
        <3>2. (scan' > 0 => Exact(ids', seenIds', duplicates', scan')) => DuplicatesExact'
            BY DEF DuplicatesExact
        <3> HIDE DEF Exact
        <3> QED
            BY <2>1, <3>1, <3>2
    <2> QED
        BY <2>2, <2>3, <2>4 DEF IdsInv
<1> QED
    BY <1>1, IssueStep, CallFindStep, ScanStep DEF IdsNext

LEMMA IdsInvHolds == IdsSpec => []IdsInv
    BY IdsInvInit, IdsInvNext, PTL DEF IdsSpec

\* For any number of ids and suffixes within 0..100: variables keep their types.
THEOREM IdsTypeCorrect == IdsSpec => []IdsTypeOK
<1>1. IdsInv => IdsTypeOK
    BY DEF IdsInv
<1> QED
    BY <1>1, IdsInvHolds, PTL

\* Only ids of neighbouring milliseconds may collide, and none comes before an
\* id of an earlier one.
THEOREM IdsKeepClockOrder == IdsSpec => []IdsFollowClock
<1>1. IdsInv => IdsFollowClock
    <2> SUFFICES ASSUME IdsInv, NEW i \in 1..Len(ids), NEW j \in 1..Len(ids),
                        issuedAt[i] < issuedAt[j]
                 PROVE  /\ ids[i] <= ids[j]
                        /\ ids[i] = ids[j] => issuedAt[j] = issuedAt[i] + 1
        BY DEF IdsFollowClock
    <2>1. issuedAt[i] \in Nat /\ issuedAt[j] \in Nat
        BY DEF IdsInv, IdsTypeOK
    <2>2. /\ ids[i] \in (100 * issuedAt[i])..(100 * issuedAt[i] + 100)
          /\ ids[j] \in (100 * issuedAt[j])..(100 * issuedAt[j] + 100)
        BY DEF IdsInv, Issued
    <2> QED
        BY <2>1, <2>2
<1> QED
    BY <1>1, IdsInvHolds, PTL

\* findDuplicatesBy lists every repetition, once for each, and nothing else.
THEOREM CollisionsAreFound == IdsSpec => []DuplicatesExact
<1>1. IdsInv => DuplicatesExact
    BY DEF IdsInv
<1> QED
    BY <1>1, IdsInvHolds, PTL

-----------------------------------------------------------------------------
(* Calendar, the days: the k-th date is k days and a drift of at most an    *)
(* hour after the start.                                                    *)

LEMMA ZoneType == \A z \in Zones : z.standard \in -12..14 /\ z.spring \in Int /\ z.autumn \in Int
    BY CalendarAssumption

LEMMA LocalType ==
    ASSUME NEW z \in Zones, NEW t \in Int
    PROVE  Local(z, t) \in Int /\ Local(z, t) \in (t - 12)..(t + 15)
    BY ZoneType DEF Local

\* A step of the loop is a day, less an hour into summer time, more one out of it.
LEMMA NextDateStep ==
    ASSUME NEW z \in Zones, NEW t \in Int
    PROVE  /\ Summer(z, t) /\ Summer(z, t + 24) => NextDate(z, t) = t + 24
           /\ Summer(z, t) /\ ~Summer(z, t + 24) => NextDate(z, t) = t + 25
           /\ ~Summer(z, t) /\ Summer(z, t + 23) => NextDate(z, t) = t + 23
           /\ ~Summer(z, t) /\ ~Summer(z, t + 23) => NextDate(z, t) = t + 24
    BY ZoneType DEF Summer, NextDate, ToInstant, Local

Drift(s, t, k) == t - s - 24 * k

\* The drift is a matter of which clock changes are past.
Drifted(z, s, t, drift) ==
    /\ drift \in {-1, 0, 1}
    /\ Steady(z) \/ t < z.spring \/ z.autumn <= s => drift = 0
    /\ Summer(z, t) => drift # 1
    /\ Summer(z, s) => drift # -1

OnDays(z, s, t, k) == s <= t /\ Drifted(z, s, t, Drift(s, t, k))

InDay(z, s) == Steady(z) \/ SgHour(s) \in 1..22

LEMMA FirstDay ==
    ASSUME NEW z \in Zones, NEW s \in Int
    PROVE  OnDays(z, s, s, 0)
    BY DEF OnDays, Drifted, Drift

LEMMA NextDay ==
    ASSUME NEW z \in Zones, NEW s \in Int, NEW t \in Int, NEW k \in Nat, OnDays(z, s, t, k)
    PROVE  /\ NextDate(z, t) \in Int /\ OnDays(z, s, NextDate(z, t), k + 1)
           /\ Steady(z) => NextDate(z, t) = t + 24
<1>1. z.spring \in Int /\ z.autumn \in Int
    BY ZoneType
<1> DEFINE d == Drift(s, t, k)
           next == NextDate(z, t)
           e == Drift(s, next, k + 1)
<1>2. s <= t /\ d \in {-1, 0, 1} /\ Drifted(z, s, t, d)
    BY DEF OnDays, Drifted
<1>3. next \in {t + 23, t + 24, t + 25}
    BY NextDateStep
<1>4. /\ next = t + 23 => e = d - 1
      /\ next = t + 24 => e = d
      /\ next = t + 25 => e = d + 1
    BY DEF Drift
<1> HIDE DEF d, e
<1>5. Summer(z, t) \/ t < z.spring \/ z.autumn <= t \/ Steady(z)
    BY <1>1 DEF Summer, Steady
<1>6. CASE next = t + 23
    <2>1. ~Summer(z, t) /\ Summer(z, t + 23)
        BY <1>6, NextDateStep
    <2>2. t < z.spring /\ ~Steady(z) /\ s < z.autumn /\ z.spring <= t + 23
        BY <1>1, <1>2, <2>1 DEF Summer, Steady
    <2>3. d = 0 /\ e = -1
        BY <1>2, <1>4, <1>6, <2>2 DEF Drifted
    <2>4. ~Summer(z, s)
        BY <1>1, <1>2, <2>2 DEF Summer
    <2>5. Drifted(z, s, t + 23, -1)
        BY <1>1, <2>1, <2>2, <2>4 DEF Drifted
    <2> QED
        BY <1>2, <1>6, <2>2, <2>3, <2>5 DEF OnDays, e
<1>7. CASE next = t + 25
    <2>1. Summer(z, t) /\ ~Summer(z, t + 24)
        BY <1>7, NextDateStep
    <2>2. z.autumn <= t + 24 /\ z.spring <= t /\ ~Steady(z) /\ s < z.autumn
        BY <1>1, <1>2, <2>1 DEF Summer, Steady
    <2>3. d \in {-1, 0} /\ e = d + 1 /\ (Summer(z, s) => e # -1)
        BY <1>2, <1>4, <1>7, <2>1 DEF Drifted
    <2>4. ~Summer(z, t + 25) /\ ~(t + 25 < z.spring)
        BY <1>1, <2>2 DEF Summer
    <2>5. Drifted(z, s, t + 25, e)
        <3>1. e \in {-1, 0, 1}
            BY <2>3
        <3>2. ~(z.autumn <= s)
            BY <1>1, <2>2
        <3> QED
            BY <2>2, <2>3, <2>4, <3>1, <3>2 DEF Drifted
    <2> QED
        BY <1>2, <1>7, <2>2, <2>5 DEF OnDays, e
<1>8. CASE next = t + 24
    <2>1. e = d
        BY <1>4, <1>8
    <2>2. Summer(z, t + 24) => Summer(z, t) \/ t < z.spring
        BY <1>1 DEF Summer
    <2>3. t + 24 < z.spring => t < z.spring
        BY <1>1
    <2>4. t < z.spring => d # 1
        BY <1>2 DEF Drifted
    <2>5. Drifted(z, s, t + 24, d)
        BY <1>2, <2>2, <2>3, <2>4 DEF Drifted
    <2> QED
        BY <1>2, <1>8, <2>1, <2>5 DEF OnDays, e
<1>9. Steady(z) => next = t + 24
    <2>1. Steady(z) => ~Summer(z, t) /\ ~Summer(z, t + 23)
        BY <1>1 DEF Steady, Summer
    <2> QED
        BY <2>1, NextDateStep
<1> QED
    BY <1>3, <1>6, <1>7, <1>8, <1>9

\* Within the day, k days and the drift later it is the k-th day after.
LEMMA DayOf ==
    ASSUME NEW z \in Zones, NEW s \in Int, NEW t \in Int, NEW k \in Nat,
           OnDays(z, s, t, k), InDay(z, s)
    PROVE  SgDay(t) = SgDay(s) + k
<1> DEFINE d == Drift(s, t, k)
<1>1. d \in {-1, 0, 1} /\ (d = 0 \/ SgHour(s) \in 1..22)
    BY DEF OnDays, Drifted, InDay
<1>2. t = s + 24 * k + d
    BY DEF Drift
<1>3. ASSUME NEW e \in {-1, 0, 1}, e = 0 \/ SgHour(s) \in 1..22
      PROVE  SgDay(s + 24 * k + e) = SgDay(s) + k
    BY <1>3 DEF SgDay, SgHour
<1> QED
    BY <1>1, <1>2, <1>3

-----------------------------------------------------------------------------
(* Calendar, the months: from a start in the middle of a month, the date is *)
(* a whole number of months and at most an hour after it.                   *)

Months == 0..(LastMonth - 1)

In(day, m) == MonthStart[m] <= day /\ day < MonthStart[m + 1]

LEMMA MonthStartType == \A m \in 0..LastMonth : MonthStart[m] \in Int
    BY CalendarAssumption

LEMMA MonthLength == \A m \in Months : MonthStart[m + 1] - MonthStart[m] \in 28..31
    BY CalendarAssumption DEF Months

LEMMA MonthUnique ==
    ASSUME NEW day \in Int, NEW m \in Months, In(day, m)
    PROVE  MonthOf(day) = m
<1>1. ASSUME NEW n \in Months, In(day, n) PROVE n = m
    <2>1. LastMonth \in Nat \ {0} /\ m \in Int /\ n \in Int
        BY CalendarAssumption DEF Months
    <2>2. /\ m + 1 \in 0..LastMonth /\ n + 1 \in 0..LastMonth
          /\ m \in 0..LastMonth /\ n \in 0..LastMonth
        BY <2>1 DEF Months
    <2>3. /\ MonthStart[m] \in Int /\ MonthStart[n] \in Int
          /\ MonthStart[m + 1] \in Int /\ MonthStart[n + 1] \in Int
        BY <2>2, MonthStartType
    <2>4. m + 1 < n \/ m + 1 = n => MonthStart[m + 1] <= MonthStart[n]
        BY <2>2, <2>3, CalendarAssumption
    <2>5. n + 1 < m \/ n + 1 = m => MonthStart[n + 1] <= MonthStart[m]
        BY <2>2, <2>3, CalendarAssumption
    <2> QED
        BY <1>1, <2>1, <2>3, <2>4, <2>5 DEF In
<1> QED
    BY <1>1 DEF MonthOf, In, Months

LEMMA MonthExists ==
    ASSUME NEW day \in MonthStart[0]..(MonthStart[LastMonth - 1] - 1)
    PROVE  /\ MonthOf(day) \in Months /\ In(day, MonthOf(day))
           /\ MonthOf(day) + 1 \in Months
<1>1. LastMonth \in Nat \ {0} /\ LastMonth - 1 \in 0..LastMonth /\ 0 \in 0..LastMonth
    BY CalendarAssumption
<1>2. /\ MonthStart[0] \in Int /\ MonthStart[LastMonth - 1] \in Int
      /\ MonthStart[LastMonth] \in Int /\ MonthStart[LastMonth - 1] < MonthStart[LastMonth]
    BY <1>1, MonthStartType, CalendarAssumption
<1>3. day \in Int /\ day \in MonthStart[0]..(MonthStart[LastMonth] - 1)
    BY <1>2
<1>4. PICK m \in Months : In(day, m)
    BY <1>3, CalendarAssumption DEF In, Months
<1>5. MonthOf(day) = m
    BY <1>3, <1>4, MonthUnique
<1>6. m # LastMonth - 1
    BY <1>2, <1>4 DEF In
<1> QED
    BY <1>1, <1>4, <1>5, <1>6 DEF Months

\* The days that a date of the calendar falls on, in the process and in Singapore,
\* have a month and one after it.
LEMMA DateInCalendar ==
    ASSUME NEW z \in Zones, NEW t \in Int,
           t \div 24 \in (MonthStart[0] + 1)..(MonthStart[LastMonth - 1] - 2)
    PROVE  /\ Local(z, t) \div 24 \in MonthStart[0]..(MonthStart[LastMonth - 1] - 1)
           /\ SgDay(t) \in MonthStart[0]..(MonthStart[LastMonth - 1] - 1)
<1>1. MonthStart[0] \in Int /\ MonthStart[LastMonth - 1] \in Int
    <2>1. LastMonth - 1 \in 0..LastMonth /\ 0 \in 0..LastMonth
        BY CalendarAssumption
    <2> QED
        BY <2>1, MonthStartType
<1>2. t \div 24 \in Int
    OBVIOUS
<1>3. Local(z, t) \in (t - 12)..(t + 15)
    BY ZoneType DEF Local
<1>4. Local(z, t) \div 24 \in (t \div 24 - 1)..(t \div 24 + 1)
    BY <1>3
<1>5. SgDay(t) \in (t \div 24)..(t \div 24 + 1)
    BY DEF SgDay
<1> QED
    BY <1>1, <1>2, <1>4, <1>5

LEMMA ListedDate ==
    ASSUME NEW s \in StartDates, NEW e \in EndDates, NEW t \in Int, s <= t, t <= e
    PROVE  t \div 24 \in (MonthStart[0] + 1)..(MonthStart[LastMonth - 1] - 2)
<1>1. MonthStart[0] \in Int /\ MonthStart[LastMonth - 1] \in Int
    <2>1. LastMonth - 1 \in 0..LastMonth /\ 0 \in 0..LastMonth
        BY CalendarAssumption
    <2> QED
        BY <2>1, MonthStartType
<1>2. /\ s \in Int /\ e \in Int
      /\ s \div 24 >= MonthStart[0] + 1 /\ e \div 24 <= MonthStart[LastMonth - 1] - 2
    BY <1>1, CalendarAssumption
<1>3. t \div 24 >= s \div 24 /\ t \div 24 <= e \div 24 /\ t \div 24 \in Int
    BY <1>2
<1> QED
    BY <1>1, <1>2, <1>3

\* A wall clock time is kept, but for the hour the clock skips.
LEMMA WallKept ==
    ASSUME NEW z \in Zones, NEW w \in Int
    PROVE  LET t == ToInstant(z, w)
           IN  /\ t \in (w - z.standard - 1)..(w - z.standard)
               /\ Local(z, t) # w => Local(z, t) = w + 1 /\ t = z.spring /\ ~Steady(z)
               /\ Steady(z) => t = w - z.standard
    BY ZoneType DEF ToInstant, Local, Summer, Steady

LEMMA NextMonthStep ==
    ASSUME NEW z \in Zones, NEW t \in Int, NEW m \in Months, NEW h \in Int,
           Local(z, t) = 24 * MonthStart[m] + h, MonthOf(Local(z, t) \div 24) = m
    PROVE  /\ NextMonth(z, t) = ToInstant(z, 24 * MonthStart[m + 1] + h)
           /\ NextMonth(z, t) > t
<1>1. m \in 0..LastMonth /\ m + 1 \in 0..LastMonth
    BY CalendarAssumption DEF Months
<1>2. MonthStart[m] \in Int /\ MonthStart[m + 1] \in Int
    BY <1>1, MonthStartType
<1>3. MonthStart[m + 1] - MonthStart[m] >= 28
    BY <1>2, MonthLength
<1>4. Local(z, t) \in Int /\ t \in (Local(z, t) - z.standard - 1)..(Local(z, t) - z.standard)
    BY ZoneType DEF Local
<1> DEFINE w == Local(z, t)
           target == 24 * MonthStart[m + 1] + h
<1>5. NextMonth(z, t) =
          ToInstant(z, 24 * (MonthStart[m + 1] + w \div 24 - MonthStart[m]) + (w % 24))
    BY DEF NextMonth
<1>6. 24 * (MonthStart[m + 1] + w \div 24 - MonthStart[m]) + (w % 24) = target
    <2>1. \A v, a, b \in Int :
              v = 24 * a + h => 24 * (b + v \div 24 - a) + (v % 24) = 24 * b + h
        OBVIOUS
    <2> QED
        BY <1>2, <1>4, <2>1
<1>7. target \in Int /\ target >= Local(z, t) + 24 * 28
    BY <1>2, <1>3
<1>8. ToInstant(z, target) > t
    <2>1. ToInstant(z, target) \in (target - z.standard - 1)..(target - z.standard)
        BY <1>7, WallKept
    <2> HIDE DEF target
    <2> QED
        BY <1>4, <1>7, <2>1, ZoneType
<1> QED
    BY <1>5, <1>6, <1>8

\* In the middle of a month it is the same month in Singapore.
LEMMA SameMonth ==
    ASSUME NEW z \in Zones, NEW t \in Int, NEW m \in Months, NEW h \in 24..648,
           Local(z, t) = 24 * MonthStart[m] + h
    PROVE  MonthOf(Local(z, t) \div 24) = m /\ MonthOf(SgDay(t)) = m
<1>1. m \in 0..LastMonth /\ m + 1 \in 0..LastMonth
    BY CalendarAssumption DEF Months
<1>2. MonthStart[m] \in Int /\ MonthStart[m + 1] \in Int
    BY <1>1, MonthStartType
<1>3. MonthStart[m + 1] >= MonthStart[m] + 28
    BY <1>2, MonthLength
<1>4. In(Local(z, t) \div 24, m) /\ Local(z, t) \div 24 \in Int
    BY <1>2, <1>3 DEF In
<1>5. t + 8 \in (Local(z, t) - 7)..(Local(z, t) + 20)
    BY ZoneType DEF Local
<1>6. In(SgDay(t), m) /\ SgDay(t) \in Int
    BY <1>2, <1>3, <1>5 DEF In, SgDay
<1> QED
    BY <1>4, <1>6, MonthUnique

\* In a zone z, from s on, at t: months are whole but for the hour a clock skipped.
FirstMonth(z, s) == MonthOf(Local(z, s) \div 24)
FirstHour(z, s) == Local(z, s) - 24 * MonthStart[FirstMonth(z, s)]

OnMonths(z, s, t, k) ==
    LET first == FirstMonth(z, s)
        elapsed == Local(z, t) - 24 * MonthStart[first + k] - FirstHour(z, s)
    IN  /\ s <= t
        /\ first \in Months /\ first + k \in Months
        /\ FirstHour(z, s) \in 24..647
        /\ elapsed \in {0, 1}
        /\ elapsed = 1 => z.spring <= t /\ ~Steady(z)

LEMMA FirstOfMonths ==
    ASSUME NEW z \in Zones, NEW s \in StartDates \cup EndDates, FirstHour(z, s) \in 24..647
    PROVE  OnMonths(z, s, s, 0)
<1>1. s \in Int /\ s \div 24 \in (MonthStart[0] + 1)..(MonthStart[LastMonth - 1] - 2)
    BY CalendarAssumption
<1>2. FirstMonth(z, s) \in Months
    BY <1>1, DateInCalendar, MonthExists DEF FirstMonth
<1>3. FirstMonth(z, s) \in 0..LastMonth /\ FirstMonth(z, s) + 0 = FirstMonth(z, s)
    BY <1>2, CalendarAssumption DEF Months
<1>4. MonthStart[FirstMonth(z, s)] \in Int /\ Local(z, s) \in Int
    BY <1>1, <1>3, MonthStartType, LocalType
<1>5. Local(z, s) - 24 * MonthStart[FirstMonth(z, s)] - FirstHour(z, s) = 0
    BY <1>4 DEF FirstHour
<1> QED
    BY <1>1, <1>2, <1>3, <1>5 DEF OnMonths

LEMMA MonthNow ==
    ASSUME NEW z \in Zones, NEW s \in Int, NEW t \in Int, NEW k \in Nat, OnMonths(z, s, t, k)
    PROVE  LET m == FirstMonth(z, s) + k
           IN  /\ MonthOf(Local(z, t) \div 24) = m /\ MonthOf(SgDay(t)) = m
               /\ \E h \in {FirstHour(z, s), FirstHour(z, s) + 1} :
                      /\ Local(z, t) = 24 * MonthStart[m] + h
                      /\ h # FirstHour(z, s) => z.spring <= t /\ ~Steady(z)
<1> DEFINE m == FirstMonth(z, s) + k
           hour == FirstHour(z, s)
           h == Local(z, t) - 24 * MonthStart[m]
<1>1. /\ m \in Months /\ hour \in 24..647 /\ h - hour \in {0, 1}
      /\ h - hour = 1 => z.spring <= t /\ ~Steady(z)
    BY DEF OnMonths
<1>2. m \in 0..LastMonth
    BY <1>1, CalendarAssumption DEF Months
<1>3. MonthStart[m] \in Int /\ Local(z, t) \in Int
    BY <1>2, MonthStartType, LocalType
<1>4. h \in Int /\ Local(z, t) = 24 * MonthStart[m] + h
    BY <1>3
<1> HIDE DEF m, hour, h
<1>5. h \in {hour, hour + 1} /\ h \in 24..648 /\ (h # hour => h - hour = 1)
    BY <1>1, <1>4
<1>6. MonthOf(Local(z, t) \div 24) = m /\ MonthOf(SgDay(t)) = m
    <2>1. \A i \in 24..648 : Local(z, t) = 24 * MonthStart[m] + i
                                 => MonthOf(Local(z, t) \div 24) = m /\ MonthOf(SgDay(t)) = m
        <3> SUFFICES ASSUME NEW i \in 24..648, Local(z, t) = 24 * MonthStart[m] + i
                     PROVE  MonthOf(Local(z, t) \div 24) = m /\ MonthOf(SgDay(t)) = m
            OBVIOUS
        <3>1. m \in Months
            BY <1>1
        <3> QED
            BY <3>1, SameMonth
    <2> QED
        BY <1>4, <1>5, <2>1
<1> QED
    BY <1>1, <1>4, <1>5, <1>6 DEF m, hour

LEMMA NextOfMonths ==
    ASSUME NEW z \in Zones, NEW s \in StartDates, NEW e \in EndDates, NEW t \in Int,
           NEW k \in Nat, OnMonths(z, s, t, k), t <= e
    PROVE  OnMonths(z, s, NextMonth(z, t), k + 1)
<1> DEFINE first == FirstMonth(z, s)
           m == first + k
           hour == FirstHour(z, s)
           next == NextMonth(z, t)
<1>1. s <= t /\ first \in Months /\ m \in Months /\ hour \in 24..647
    BY DEF OnMonths
<1>2. s \in Int
    BY CalendarAssumption
<1>3. PICK h \in {hour, hour + 1} :
          /\ Local(z, t) = 24 * MonthStart[m] + h
          /\ h # hour => z.spring <= t /\ ~Steady(z)
    BY <1>2, MonthNow
<1>4. MonthOf(Local(z, t) \div 24) = m
    BY <1>2, MonthNow
<1>5. m + 1 \in Months
    <2>1. t \div 24 \in (MonthStart[0] + 1)..(MonthStart[LastMonth - 1] - 2)
        BY <1>1, ListedDate
    <2>2. Local(z, t) \div 24 \in MonthStart[0]..(MonthStart[LastMonth - 1] - 1)
        BY <2>1, DateInCalendar
    <2> QED
        BY <1>4, <2>2, MonthExists
<1>6. m + 1 \in 0..LastMonth /\ first \in Int /\ first + (k + 1) = m + 1
    <2>1. LastMonth \in Nat
        BY CalendarAssumption
    <2>2. first \in Int
        BY <1>1, <2>1 DEF Months
    <2>3. first + (k + 1) = m + 1
        BY <2>2
    <2> QED
        BY <1>5, <2>1, <2>2, <2>3 DEF Months
<1>7. MonthStart[m + 1] \in Int /\ hour \in Int /\ h \in Int
    BY <1>1, <1>3, <1>6, MonthStartType
<1> DEFINE w == 24 * MonthStart[m + 1] + h
<1>8. next = ToInstant(z, w) /\ next > t
    BY <1>1, <1>3, <1>4, <1>7, NextMonthStep
<1>9. w \in Int
    BY <1>7
<1> HIDE DEF m, first, hour, next, w
<1>10. /\ next \in Int
       /\ Local(z, next) # w => Local(z, next) = w + 1 /\ next = z.spring /\ ~Steady(z)
    <2>1. next \in (w - z.standard - 1)..(w - z.standard)
        BY <1>8, <1>9, WallKept
    <2>2. next \in Int
        BY <1>9, <2>1, ZoneType
    <2> QED
        BY <1>8, <1>9, <2>2, WallKept
<1> DEFINE elapsed == Local(z, next) - 24 * MonthStart[m + 1] - hour
<1>11. ASSUME Local(z, next) = w
       PROVE  elapsed \in {0, 1} /\ (elapsed = 1 => z.spring <= next /\ ~Steady(z))
    <2>1. elapsed = h - hour
        BY <1>7, <1>11 DEF w
    <2>2. elapsed \in {0, 1} /\ (elapsed = 1 => h # hour)
        BY <1>3, <1>7, <2>1
    <2>3. elapsed = 1 => z.spring <= next /\ ~Steady(z)
        BY <1>3, <1>8, <1>10, <2>2, ZoneType
    <2> QED
        BY <2>2, <2>3
<1>12. ASSUME Local(z, next) # w
       PROVE  elapsed \in {0, 1} /\ (elapsed = 1 => z.spring <= next /\ ~Steady(z))
    <2>1. h = hour
        BY <1>3, <1>8, <1>10, <1>12, ZoneType
    <2>2. Local(z, next) = w + 1 /\ next = z.spring /\ ~Steady(z)
        BY <1>10, <1>12
    <2>3. elapsed = 1
        BY <1>7, <2>1, <2>2 DEF w
    <2> QED
        BY <1>10, <2>2, <2>3
<1>13. elapsed \in {0, 1} /\ (elapsed = 1 => z.spring <= next /\ ~Steady(z)) /\ s <= next
    <2>1. s <= next
        BY <1>1, <1>2, <1>8, <1>10
    <2> HIDE DEF elapsed
    <2> QED
        BY <1>11, <1>12, <2>1
<1> QED
    BY <1>1, <1>5, <1>6, <1>13 DEF OnMonths, m, first, hour, next

-----------------------------------------------------------------------------
(* Calendar, the inductive invariant.                                       *)

\* The dates listed, and where the loop stands.
DatesSoFar ==
    /\ months = <<>>
    /\ OnDays(zone, startDate, currentDate, Len(dates))
    /\ InDay(zone, startDate) =>
           \A i \in 1..Len(dates) : dates[i] = SgDay(startDate) + i - 1

\* The date of the last round was not after the end.
LastDate ==
    \E t \in Int, k \in Nat :
        Len(dates) = k + 1 /\ OnDays(zone, startDate, t, k) /\ t <= endDate

MonthsSoFar ==
    Midmonth(startDate) =>
        /\ OnMonths(zone, startDate, currentDate, Len(months))
        /\ \A i \in 1..Len(months) : months[i] = LocalMonth(startDate) + i - 1

LastMonthOf ==
    \E t \in Int, k \in Nat :
        Len(months) = k + 1 /\ OnMonths(zone, startDate, t, k) /\ t <= endDate

CalendarInv ==
    /\ CalendarTypeOK
    /\ listing = "idle" => dates = <<>> /\ months = <<>>
    /\ listing # "idle" => startDate \in StartDates /\ endDate \in EndDates
    /\ listing \in {"dates", "datesDone"} => DatesSoFar /\ (dates = <<>> \/ LastDate)
    /\ listing \in {"months", "monthsDone"} =>
           /\ dates = <<>> /\ startDate <= currentDate /\ MonthsSoFar
           /\ Midmonth(startDate) => months = <<>> \/ LastMonthOf
    /\ listing \in {"datesDone", "monthsDone"} => endDate < currentDate

LEMMA CalendarInvInit == CalendarInit => CalendarInv
<1> SUFFICES ASSUME CalendarInit PROVE CalendarInv
    OBVIOUS
<1>1. zone \in Zones
    BY CalendarAssumption DEF CalendarInit
<1>2. CalendarTypeOK
    BY <1>1 DEF CalendarInit, CalendarTypeOK
<1> QED
    BY <1>2 DEF CalendarInit, CalendarInv

LEMMA Dated == \A s \in StartDates \cup EndDates : s \in Int
    BY CalendarAssumption

LEMMA MidmonthHour ==
    Midmonth(startDate) <=> FirstHour(zone, startDate) \in 24..647
<1>1. HourOfMonth(startDate) = FirstHour(zone, startDate)
    BY DEF HourOfMonth, LocalMonth, FirstHour, FirstMonth
<1>2. 27 * 24 - 1 = 647
    OBVIOUS
<1> QED
    BY <1>1, <1>2 DEF Midmonth

LEMMA CallStep ==
    ASSUME CalendarInv, CallDates \/ CallMonths
    PROVE  CalendarInv'
<1>1. /\ listing = "idle" /\ zone' \in Zones /\ startDate' \in StartDates
      /\ endDate' \in EndDates /\ currentDate' = startDate'
      /\ dates' = <<>> /\ months' = <<>> /\ listing' \in {"dates", "months"}
    BY DEF CallDates, CallMonths, CalendarInv
<1>2. startDate' \in Int /\ endDate' \in Int
    BY <1>1, Dated
<1>3. CalendarTypeOK'
    BY <1>1, <1>2 DEF CalendarTypeOK
<1>4. Len(dates') = 0 /\ Len(months') = 0
    BY <1>1, EmptySeq
<1>5. OnDays(zone', startDate', currentDate', Len(dates'))
    BY <1>1, <1>2, <1>4, FirstDay
<1>6. Midmonth(startDate)' => OnMonths(zone', startDate', currentDate', Len(months'))
    <2>1. Midmonth(startDate)' => FirstHour(zone', startDate') \in 24..647
        <3>1. HourOfMonth(startDate)' = FirstHour(zone', startDate')
            BY DEF HourOfMonth, LocalMonth, FirstHour, FirstMonth
        <3>2. 27 * 24 - 1 = 647
            OBVIOUS
        <3> QED
            BY <3>1, <3>2 DEF Midmonth
    <2> QED
        BY <1>1, <1>4, <2>1, FirstOfMonths
<1>7. startDate' <= currentDate'
    BY <1>1, <1>2
<1>8. DatesSoFar' /\ MonthsSoFar'
    BY <1>1, <1>4, <1>5, <1>6 DEF DatesSoFar, MonthsSoFar
<1> QED
    BY <1>1, <1>3, <1>7, <1>8 DEF CalendarInv

LEMMA ReturnStep ==
    ASSUME CalendarInv, ReturnDates \/ ReturnMonths
    PROVE  CalendarInv'
<1>1. /\ UNCHANGED <<zone, startDate, endDate, currentDate, dates, months>>
      /\ \/ listing = "dates" /\ listing' = "datesDone"
         \/ listing = "months" /\ listing' = "monthsDone"
      /\ ~(currentDate <= endDate)
    BY DEF ReturnDates, ReturnMonths, Listed
<1>2. CalendarTypeOK'
    BY <1>1 DEF CalendarInv, CalendarTypeOK
<1>3. endDate' < currentDate'
    BY <1>1 DEF CalendarInv, CalendarTypeOK
<1>4. /\ DatesSoFar => DatesSoFar'
      /\ LastDate => LastDate'
      /\ MonthsSoFar => MonthsSoFar'
      /\ LastMonthOf => LastMonthOf'
      /\ Midmonth(startDate)' = Midmonth(startDate)
    BY <1>1 DEF DatesSoFar, LastDate, MonthsSoFar, LastMonthOf, Midmonth, HourOfMonth, LocalMonth
<1> QED
    BY <1>1, <1>2, <1>3, <1>4 DEF CalendarInv

LEMMA ListDateStep ==
    ASSUME CalendarInv, ListDate
    PROVE  CalendarInv'
<1>1. /\ listing = "dates" /\ currentDate <= endDate
      /\ dates' = Append(dates, SgDay(currentDate))
      /\ currentDate' = NextDate(zone, currentDate)
      /\ UNCHANGED <<listing, zone, startDate, endDate, months>>
    BY DEF ListDate, Listed
<1>2. /\ zone \in Zones /\ startDate \in Int /\ endDate \in Int /\ currentDate \in Int
      /\ dates \in Seq(SgDay(startDate)..SgDay(endDate)) /\ Len(dates) \in Nat
    BY DEF CalendarInv, CalendarTypeOK
<1>3. startDate \in StartDates /\ endDate \in EndDates /\ DatesSoFar
    BY <1>1 DEF CalendarInv
<1>4. OnDays(zone, startDate, currentDate, Len(dates)) /\ startDate <= currentDate
    BY <1>3 DEF DatesSoFar, OnDays
<1>5. /\ currentDate' \in Int
      /\ OnDays(zone, startDate, currentDate', Len(dates) + 1)
    BY <1>1, <1>2, <1>4, NextDay
<1>6. SgDay(currentDate) \in SgDay(startDate)..SgDay(endDate)
    BY <1>1, <1>2, <1>4 DEF SgDay
<1> DEFINE days == SgDay(startDate)..SgDay(endDate)
<1> HIDE DEF days
<1>7. /\ dates' \in Seq(days) /\ Len(dates') = Len(dates) + 1 /\ dates' # <<>>
      /\ dates'[Len(dates) + 1] = SgDay(currentDate)
      /\ \A i \in 1..Len(dates) : dates'[i] = dates[i]
    BY <1>1, <1>2, <1>6 DEF days
<1>8. CalendarTypeOK'
    BY <1>1, <1>2, <1>5, <1>7 DEF CalendarInv, CalendarTypeOK, days
<1>9. InDay(zone, startDate) =>
          \A i \in 1..(Len(dates) + 1) : dates'[i] = SgDay(startDate) + i - 1
    <2> SUFFICES ASSUME InDay(zone, startDate), NEW i \in 1..(Len(dates) + 1)
                 PROVE  dates'[i] = SgDay(startDate) + i - 1
        OBVIOUS
    <2>1. SgDay(currentDate) = SgDay(startDate) + Len(dates)
        BY <1>2, <1>4, DayOf
    <2>2. SgDay(startDate) \in Int
        BY <1>2 DEF SgDay
    <2>3. SgDay(startDate) + Len(dates) = SgDay(startDate) + (Len(dates) + 1) - 1
        BY <1>2, <2>2
    <2>4. CASE i = Len(dates) + 1
        BY <1>7, <2>1, <2>3, <2>4
    <2>5. CASE i \in 1..Len(dates)
        BY <1>3, <1>7, <2>5 DEF DatesSoFar
    <2> QED
        BY <1>2, <2>4, <2>5
<1>10. DatesSoFar'
    BY <1>1, <1>3, <1>5, <1>7, <1>9 DEF DatesSoFar
<1>11. LastDate'
    BY <1>1, <1>2, <1>4, <1>7 DEF LastDate
<1> QED
    BY <1>1, <1>3, <1>8, <1>10, <1>11 DEF CalendarInv

LEMMA ListMonthStep ==
    ASSUME CalendarInv, ListMonth
    PROVE  CalendarInv'
<1> DEFINE month == MonthOf(SgDay(currentDate))
           first == LocalMonth(startDate)
<1>1. /\ listing = "months" /\ currentDate <= endDate
      /\ months' = IF \E i \in 1..Len(months) : months[i] = month
                   THEN months ELSE Append(months, month)
      /\ currentDate' = NextMonth(zone, currentDate)
      /\ UNCHANGED <<listing, zone, startDate, endDate, dates>>
    BY DEF ListMonth, Listed
<1>2. /\ zone \in Zones /\ startDate \in Int /\ endDate \in Int /\ currentDate \in Int
      /\ months \in Seq(0..LastMonth) /\ Len(months) \in Nat
    BY DEF CalendarInv, CalendarTypeOK
<1>3. /\ startDate \in StartDates /\ endDate \in EndDates /\ dates = <<>>
      /\ startDate <= currentDate /\ MonthsSoFar
    BY <1>1 DEF CalendarInv
<1>4. currentDate \div 24 \in (MonthStart[0] + 1)..(MonthStart[LastMonth - 1] - 2)
    BY <1>1, <1>2, <1>3, ListedDate
<1>5. month \in 0..LastMonth
    <2>1. month \in Months
        BY <1>2, <1>4, DateInCalendar, MonthExists
    <2> QED
        BY <2>1, CalendarAssumption DEF Months
<1>6. currentDate' \in Int /\ startDate <= currentDate'
    <2> DEFINE day == Local(zone, currentDate) \div 24
               m == MonthOf(day)
               h == Local(zone, currentDate) - 24 * MonthStart[m]
               target == 24 * MonthStart[m + 1] + h
    <2>1. m \in Months /\ m + 1 \in Months
        BY <1>2, <1>4, DateInCalendar, MonthExists
    <2>2. m \in 0..LastMonth /\ m + 1 \in 0..LastMonth
        BY <2>1, CalendarAssumption DEF Months
    <2>3. MonthStart[m] \in Int /\ MonthStart[m + 1] \in Int /\ Local(zone, currentDate) \in Int
        BY <1>2, <2>2, MonthStartType, LocalType
    <2>4. h \in Int /\ Local(zone, currentDate) = 24 * MonthStart[m] + h /\ target \in Int
        BY <2>3
    <2> HIDE DEF h
    <2>5. NextMonth(zone, currentDate) = ToInstant(zone, target)
          /\ NextMonth(zone, currentDate) > currentDate
        BY <1>2, <2>1, <2>4, NextMonthStep
    <2> HIDE DEF target, m
    <2>6. ToInstant(zone, target) \in Int
        BY <1>2, <2>4, WallKept, ZoneType
    <2> DEFINE next == NextMonth(zone, currentDate)
    <2>7. next \in Int /\ startDate <= next
        <3>1. next \in Int /\ currentDate < next
            BY <2>5, <2>6
        <3> QED
            BY <1>2, <1>3, <3>1
    <2> QED
        BY <1>1, <2>7
<1>7. months' \in Seq(0..LastMonth)
    <2>1. CASE months' = months
        BY <1>2, <2>1
    <2>2. CASE months' = Append(months, month)
        BY <1>2, <1>5, <2>2
    <2> QED
        BY <1>1, <2>1, <2>2
<1>8. CalendarTypeOK'
    BY <1>1, <1>2, <1>6, <1>7 DEF CalendarInv, CalendarTypeOK
<1>9. ASSUME Midmonth(startDate)
      PROVE  MonthsSoFar' /\ LastMonthOf'
    <2>1. /\ OnMonths(zone, startDate, currentDate, Len(months))
          /\ \A i \in 1..Len(months) : months[i] = first + i - 1
        BY <1>3, <1>9 DEF MonthsSoFar
    <2>2. OnMonths(zone, startDate, currentDate', Len(months) + 1)
        BY <1>1, <1>2, <1>3, <2>1, NextOfMonths
    <2>3. first = FirstMonth(zone, startDate)
        BY DEF LocalMonth, FirstMonth
    <2>4. first \in Int
        BY <2>1, <2>3, CalendarAssumption DEF OnMonths, Months
    <2>5. month = first + Len(months)
        BY <1>2, <2>1, <2>3, MonthNow
    <2> HIDE DEF month, first
    <2>6. ~ \E i \in 1..Len(months) : months[i] = month
        BY <1>2, <2>1, <2>4, <2>5
    <2>7. months' = Append(months, month)
        BY <1>1, <2>6
    <2>8. /\ Len(months') = Len(months) + 1 /\ months' # <<>>
          /\ months'[Len(months) + 1] = month
          /\ \A i \in 1..Len(months) : months'[i] = months[i]
        BY <1>2, <1>5, <2>7
    <2>9. \A i \in 1..(Len(months) + 1) : months'[i] = first + i - 1
        <3> SUFFICES ASSUME NEW i \in 1..(Len(months) + 1) PROVE months'[i] = first + i - 1
            OBVIOUS
        <3>1. first + Len(months) = first + (Len(months) + 1) - 1
            BY <1>2, <2>4
        <3>2. CASE i = Len(months) + 1
            BY <2>5, <2>8, <3>1, <3>2
        <3>3. CASE i \in 1..Len(months)
            BY <2>1, <2>8, <3>3
        <3> QED
            BY <1>2, <3>2, <3>3
    <2>10. LocalMonth(startDate)' = first
        BY <1>1 DEF first, LocalMonth
    <2>11. MonthsSoFar'
        BY <1>1, <2>2, <2>8, <2>9, <2>10 DEF MonthsSoFar
    <2>12. LastMonthOf'
        BY <1>1, <1>2, <2>1, <2>8 DEF LastMonthOf
    <2> QED
        BY <2>11, <2>12
<1>10. Midmonth(startDate)' = Midmonth(startDate)
    BY <1>1 DEF Midmonth, HourOfMonth, LocalMonth
<1>11. MonthsSoFar' /\ (Midmonth(startDate)' => LastMonthOf')
    BY <1>9, <1>10 DEF MonthsSoFar
<1>12. startDate' <= currentDate'
    BY <1>1, <1>6
<1> QED
    BY <1>1, <1>3, <1>8, <1>11, <1>12 DEF CalendarInv

LEMMA CalendarInvNext == CalendarInv /\ [CalendarNext]_calendarVars => CalendarInv'
<1> SUFFICES ASSUME CalendarInv, [CalendarNext]_calendarVars PROVE CalendarInv'
    OBVIOUS
<1>1. CASE UNCHANGED calendarVars
    <2>1. /\ DatesSoFar => DatesSoFar'
          /\ LastDate => LastDate'
          /\ MonthsSoFar => MonthsSoFar'
          /\ LastMonthOf => LastMonthOf'
          /\ Midmonth(startDate)' = Midmonth(startDate)
        BY <1>1 DEF calendarVars, DatesSoFar, LastDate, MonthsSoFar, LastMonthOf, Midmonth,
            HourOfMonth, LocalMonth
    <2>2. CalendarTypeOK'
        BY <1>1 DEF calendarVars, CalendarInv, CalendarTypeOK
    <2> QED
        BY <1>1, <2>1, <2>2 DEF calendarVars, CalendarInv
<1>2. CASE CalendarNext
    BY <1>2, CallStep, ListDateStep, ListMonthStep, ReturnStep DEF CalendarNext
<1> QED
    BY <1>1, <1>2

LEMMA CalendarInvHolds == CalendarSpec => []CalendarInv
    BY CalendarInvInit, CalendarInvNext, PTL DEF CalendarSpec

-----------------------------------------------------------------------------

\* For any zones, with or without summer time, any dates and any calendar of
\* months of 28 to 31 days: variables keep their types.
THEOREM CalendarTypeCorrect == CalendarSpec => []CalendarTypeOK
<1>1. CalendarInv => CalendarTypeOK
    BY DEF CalendarInv
<1> QED
    BY <1>1, CalendarInvHolds, PTL

\* No clock change makes getDates skip or repeat a day of Singapore.
THEOREM NoDayLost == CalendarSpec => []DatesConsecutive
<1>1. CalendarInv => DatesConsecutive
    <2> SUFFICES ASSUME CalendarInv, InDay(zone, startDate), NEW i \in 1..(Len(dates) - 1)
                 PROVE  dates[i + 1] = dates[i] + 1
        BY DEF DatesConsecutive, Consecutive, InDay
    <2>1. Len(dates) \in Nat /\ i \in 1..Len(dates) /\ i + 1 \in 1..Len(dates)
        BY DEF CalendarInv, CalendarTypeOK
    <2>2. listing \in {"dates", "datesDone"}
        BY <2>1, EmptySeq DEF CalendarInv, CalendarTypeOK
    <2>3. dates[i] = SgDay(startDate) + i - 1 /\ dates[i + 1] = SgDay(startDate) + (i + 1) - 1
        BY <2>1, <2>2 DEF CalendarInv, DatesSoFar
    <2>4. SgDay(startDate) \in Int
        BY DEF CalendarInv, CalendarTypeOK, SgDay
    <2> QED
        BY <2>1, <2>3, <2>4
<1> QED
    BY <1>1, CalendarInvHolds, PTL

\* Steps of a whole day that begin before an end and stop after it.
LEMMA StepsToEnd ==
    ASSUME NEW s \in Int, NEW e \in Int, NEW k \in Nat,
           s + 24 * k <= e, e < s + 24 * (k + 1)
    PROVE  SgDay(s) + k = SgDay(e) - (IF SgHour(e) >= SgHour(s) THEN 0 ELSE 1)
    BY DEF SgDay, SgHour

\* Without summer time, getDates lists the last day but for the hour of the end.
THEOREM LastDayListed == CalendarSpec => []LastDateListed
<1>1. CalendarInv => LastDateListed
    <2> SUFFICES ASSUME CalendarInv, listing = "datesDone", Steady(zone), startDate <= endDate
                 PROVE  /\ dates # <<>>
                        /\ dates[Len(dates)] =
                              SgDay(endDate) - (IF SgHour(endDate) >= SgHour(startDate) THEN 0 ELSE 1)
        BY DEF LastDateListed
    <2>1. /\ startDate \in Int /\ endDate \in Int /\ currentDate \in Int /\ Len(dates) \in Nat
          /\ DatesSoFar /\ endDate < currentDate /\ (dates = <<>> \/ LastDate)
        BY DEF CalendarInv, CalendarTypeOK
    <2>2. ASSUME NEW t \in Int, NEW k \in Nat, OnDays(zone, startDate, t, k)
          PROVE  t = startDate + 24 * k
        <3>1. Drift(startDate, t, k) = 0
            BY <2>2 DEF OnDays, Drifted
        <3> QED
            BY <2>1, <3>1 DEF Drift
    <2>3. currentDate = startDate + 24 * Len(dates)
        BY <2>1, <2>2 DEF DatesSoFar
    <2>4. Len(dates) # 0
        BY <2>1, <2>3
    <2>5. dates # <<>>
        BY <2>4, EmptySeq
    <2>6. PICK k \in Nat : Len(dates) = k + 1 /\ startDate + 24 * k <= endDate
        BY <2>1, <2>2, <2>5 DEF LastDate
    <2>7. SgDay(startDate) + k
              = SgDay(endDate) - (IF SgHour(endDate) >= SgHour(startDate) THEN 0 ELSE 1)
        BY <2>1, <2>3, <2>6, StepsToEnd
    <2>8. dates[k + 1] = SgDay(startDate) + k
        <3>1. dates[k + 1] = SgDay(startDate) + (k + 1) - 1
            BY <2>1, <2>6 DEF DatesSoFar, InDay
        <3>2. SgDay(startDate) \in Int
            BY <2>1 DEF SgDay
        <3> QED
            BY <3>1, <3>2
    <2> QED
        BY <2>5, <2>6, <2>7, <2>8
<1> QED
    BY <1>1, CalendarInvHolds, PTL

\* From the middle of a month getMonths skips none, whatever the lengths of the months.
THEOREM NoMonthLost == CalendarSpec => []MonthsConsecutive
<1>1. CalendarInv => MonthsConsecutive
    <2> SUFFICES ASSUME CalendarInv, Midmonth(startDate), NEW i \in 1..(Len(months) - 1)
                 PROVE  months[i + 1] = months[i] + 1
        BY DEF MonthsConsecutive, Consecutive
    <2>1. Len(months) \in Nat /\ i \in 1..Len(months) /\ i + 1 \in 1..Len(months)
        BY DEF CalendarInv, CalendarTypeOK
    <2>2. months # <<>>
        BY <2>1, EmptySeq
    <2>3. listing \in {"months", "monthsDone"}
        BY <2>2 DEF CalendarInv, CalendarTypeOK, DatesSoFar
    <2>4. MonthsSoFar
        BY <2>3 DEF CalendarInv
    <2>5. LocalMonth(startDate) \in Int
        <3>1. LocalMonth(startDate) \in Months
            BY <2>4 DEF MonthsSoFar, OnMonths, FirstMonth, LocalMonth
        <3> QED
            BY <3>1, CalendarAssumption DEF Months
    <2>6. /\ months[i] = LocalMonth(startDate) + i - 1
          /\ months[i + 1] = LocalMonth(startDate) + (i + 1) - 1
        BY <2>1, <2>4 DEF MonthsSoFar
    <2> QED
        BY <2>1, <2>5, <2>6
<1> QED
    BY <1>1, CalendarInvHolds, PTL

LEMMA StandardType == \A z \in Zones : z.standard \in Int
    BY ZoneType

LEMMA SteadyLocal ==
    ASSUME NEW z \in Zones, Steady(z), NEW t \in Int
    PROVE  Local(z, t) = t + z.standard
<1>1. z.standard \in Int /\ z.spring \in Int /\ z.autumn \in Int
    BY ZoneType
<1>2. ~Summer(z, t)
    BY <1>1 DEF Summer, Steady
<1> QED
    BY <1>1, <1>2 DEF Local

\* Without summer time, getMonths lists the last month but for the hour of the end.
THEOREM LastMonthNotLost == CalendarSpec => []LastMonthListed
<1>1. CalendarInv => LastMonthListed
    <2> DEFINE first == FirstMonth(zone, startDate)
               hour == FirstHour(zone, startDate)
               n == Len(months)
               later == HourOfMonth(endDate) >= HourOfMonth(startDate)
    <2> SUFFICES ASSUME CalendarInv, listing = "monthsDone", Steady(zone), Midmonth(startDate),
                        startDate <= endDate
                 PROVE  /\ months # <<>>
                        /\ months[n] = LocalMonth(endDate) - (IF later THEN 0 ELSE 1)
        BY DEF LastMonthListed
    <2>1. /\ zone \in Zones /\ startDate \in Int /\ endDate \in Int /\ currentDate \in Int
          /\ n \in Nat /\ startDate \in StartDates /\ endDate \in EndDates
          /\ MonthsSoFar /\ endDate < currentDate /\ (months = <<>> \/ LastMonthOf)
        BY DEF CalendarInv, CalendarTypeOK
    <2>2. /\ OnMonths(zone, startDate, currentDate, n)
          /\ \A i \in 1..n : months[i] = first + i - 1
        BY <2>1 DEF MonthsSoFar, LocalMonth, FirstMonth
    <2>3. ASSUME NEW t \in Int, NEW k \in Nat, OnMonths(zone, startDate, t, k)
          PROVE  Local(zone, t) = 24 * MonthStart[first + k] + hour
        <3>1. Local(zone, t) - 24 * MonthStart[first + k] - hour = 0
            BY <2>3 DEF OnMonths
        <3>2. PICK h \in {hour, hour + 1} : Local(zone, t) = 24 * MonthStart[first + k] + h
                                             /\ (h # hour => ~Steady(zone))
            BY <2>1, <2>3, MonthNow
        <3> QED
            BY <3>2
    <2>4. \A t \in Int : Local(zone, t) = t + zone.standard
        BY <2>1, SteadyLocal
    <2>5. months # <<>>
        <3> SUFFICES ASSUME months = <<>> PROVE FALSE
            OBVIOUS
        <3>1. n = 0
            BY EmptySeq
        <3>2. OnMonths(zone, startDate, startDate, 0)
            BY <2>1, MidmonthHour, FirstOfMonths
        <3>3. Local(zone, currentDate) = Local(zone, startDate)
            BY <2>1, <2>2, <2>3, <3>1, <3>2
        <3>4. currentDate + zone.standard = startDate + zone.standard
            BY <2>1, <2>4, <3>3
        <3>5. currentDate = startDate
            <4>1. zone.standard \in Int
                BY <2>1, StandardType
            <4>2. \A a, b, c \in Int : a + c = b + c => a = b
                OBVIOUS
            <4> QED
                BY <2>1, <3>4, <4>1, <4>2
        <3> QED
            BY <2>1, <3>5
    <2>6. PICK t \in Int, k \in Nat :
              n = k + 1 /\ OnMonths(zone, startDate, t, k) /\ t <= endDate
        BY <2>1, <2>5 DEF LastMonthOf
    <2> DEFINE m == first + k
               wall == Local(zone, endDate)
    <2>7. /\ first \in Months /\ m \in Months /\ first + n \in Months
          /\ hour \in 24..647
        BY <2>2, <2>6 DEF OnMonths
    <2>8. first \in Int /\ first + n = m + 1 /\ m \in Int /\ m + 1 \in Months
        BY <2>6, <2>7, CalendarAssumption DEF Months
    <2>9. wall \in Int /\ 24 * MonthStart[m] + hour <= wall /\ wall < 24 * MonthStart[m + 1] + hour
        <3>1. Local(zone, t) = 24 * MonthStart[m] + hour
            BY <2>3, <2>6
        <3>2. Local(zone, currentDate) = 24 * MonthStart[m + 1] + hour
            BY <2>1, <2>2, <2>3, <2>8
        <3>3. /\ Local(zone, t) = t + zone.standard /\ wall = endDate + zone.standard
              /\ Local(zone, currentDate) = currentDate + zone.standard
            BY <2>1, <2>4
        <3>4. /\ t + zone.standard <= endDate + zone.standard
              /\ endDate + zone.standard < currentDate + zone.standard
              /\ endDate + zone.standard \in Int
            <4>1. zone.standard \in Int
                BY <2>1, StandardType
            <4>2. \A a, b, c \in Int :
                      /\ a <= b => a + c <= b + c
                      /\ a < b => a + c < b + c
                      /\ a + c \in Int
                OBVIOUS
            <4> QED
                BY <2>1, <2>6, <4>1, <4>2
        <3> QED
            BY <3>1, <3>2, <3>3, <3>4
    <2>10. HourOfMonth(startDate) = hour
        BY DEF HourOfMonth, LocalMonth, FirstHour, FirstMonth
    <2>11. months[n] = m
        BY <2>1, <2>2, <2>5, <2>6, <2>8
    <2>12. /\ MonthStart[m] \in Int /\ MonthStart[m + 1] \in Int /\ MonthStart[m + 1 + 1] \in Int
           /\ MonthStart[m + 1 + 1] >= MonthStart[m + 1] + 28
        <3>1. m \in 0..LastMonth /\ m + 1 \in 0..LastMonth /\ m + 1 + 1 \in 0..LastMonth
            <4>1. LastMonth \in Nat
                BY CalendarAssumption
            <4> HIDE DEF m
            <4> QED
                BY <2>7, <2>8, <4>1 DEF Months
        <3>2. /\ MonthStart[m] \in Int /\ MonthStart[m + 1] \in Int
              /\ MonthStart[m + 1 + 1] \in Int
            BY <3>1, MonthStartType
        <3> QED
            BY <2>8, <3>2, MonthLength
    <2> DEFINE E == LocalMonth(endDate)
    <2>13. E = MonthOf(wall \div 24) /\ HourOfMonth(endDate) = wall - 24 * MonthStart[E]
        BY DEF HourOfMonth, LocalMonth
    <2> HIDE DEF m, wall, first, hour, n, E
    <2>14. CASE wall < 24 * MonthStart[m + 1]
        <3>1. In(wall \div 24, m) /\ wall \div 24 \in Int
            BY <2>7, <2>9, <2>12, <2>14 DEF In
        <3>2. E = m
            BY <2>7, <2>13, <3>1, MonthUnique
        <3>3. HourOfMonth(endDate) >= hour
            BY <2>7, <2>9, <2>12, <2>13, <3>2
        <3>4. later
            BY <2>10, <3>3
        <3>5. E - 0 = m
            BY <2>8, <3>2
        <3> HIDE DEF later
        <3> QED
            BY <2>5, <2>11, <3>4, <3>5 DEF E
    <2>15. CASE 24 * MonthStart[m + 1] <= wall
        <3>1. In(wall \div 24, m + 1) /\ wall \div 24 \in Int
            BY <2>7, <2>9, <2>12, <2>15 DEF In
        <3>2. E = m + 1
            BY <2>8, <2>13, <3>1, MonthUnique
        <3>3. ~(HourOfMonth(endDate) >= hour)
            BY <2>7, <2>9, <2>12, <2>13, <3>2
        <3>4. ~later
            BY <2>10, <3>3
        <3>5. E - 1 = m
            BY <2>8, <3>2
        <3> HIDE DEF later
        <3> QED
            BY <2>5, <2>11, <3>4, <3>5 DEF E
    <2> QED
        BY <2>9, <2>12, <2>14, <2>15
<1> QED
    BY <1>1, CalendarInvHolds, PTL

\* getDates lists the days from the start to the end.
THEOREM DaysAreListed == CalendarSpec => []DatesListed
<1>1. DatesConsecutive /\ LastDateListed => DatesListed
    BY DEF DatesListed
<1> QED
    BY <1>1, NoDayLost, LastDayListed, PTL

\* getMonths lists the months from the start to the end.
THEOREM MonthsAreListed == CalendarSpec => []MonthsListed
<1>1. MonthsConsecutive /\ LastMonthListed => MonthsListed
    BY DEF MonthsListed
<1> QED
    BY <1>1, NoMonthLost, LastMonthNotLost, PTL

=============================================================================
