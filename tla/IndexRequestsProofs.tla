------------------------- MODULE IndexRequestsProofs -------------------------
(***************************************************************************)
(* Theorems about IndexRequests for every number of clients, every window  *)
(* and every limit.                                                        *)
(***************************************************************************)
EXTENDS IndexRequests, FiniteSetTheorems, WellFoundedInduction, TLAPS

-----------------------------------------------------------------------------
(* Type correctness.                                                       *)

LEMMA KeyType == ASSUME NEW d \in Doc PROVE KeyOf(d) \in Key
BY DEF Doc, Key, KeyOf

LEMMA ItemsType ==
  ASSUME NEW s \in Seq(Doc), NEW op PROVE ItemsOf(op, s) \in SUBSET Item
<1> SUFFICES ASSUME NEW i \in DOMAIN s
             PROVE  [key |-> KeyOf(s[i]),
                     nweValues |-> op = "indicator" /\ i \in Kept(op, s) /\ s[i].detail = "nwe",
                     prediction |-> i \in Kept(op, s)] \in Item
  BY Zenon DEF ItemsOf
<1> DEFINE nwe == op = "indicator" /\ i \in Kept(op, s) /\ s[i].detail = "nwe"
           kept == i \in Kept(op, s)
<1>1. KeyOf(s[i]) \in Key
  BY KeyType
<1>2. nwe \in BOOLEAN /\ kept \in BOOLEAN
  OBVIOUS
<1> HIDE DEF nwe, kept
<1>3. [key |-> KeyOf(s[i]), nweValues |-> nwe, prediction |-> kept] \in Item
  BY <1>1, <1>2 DEF Item
<1> QED BY <1>3 DEF nwe, kept

LEMMA TypeInit == Init => TypeOK
<1>1. Len(<<>>) <= Limit /\ <<>> \in Seq(Doc)
  BY BoundsAssumption
<1> QED BY <1>1 DEF Init, TypeOK

LEMMA TypeStep == TypeOK /\ [Next]_vars => TypeOK'
<1> SUFFICES ASSUME TypeOK, [Next]_vars PROVE TypeOK'
  OBVIOUS
<1> USE DEF TypeOK
<1>1. ASSUME NEW c \in Clients, NEW r \in Requests, Ask(c, r) PROVE TypeOK'
  <2>1. r \in Request
    BY WorkloadAssumption
  <2>2. \A d \in store : KeyOf(d) \in Key
    BY KeyType
  <2>3. Len(<<>>) <= Limit /\ <<>> \in Seq(Doc)
    BY BoundsAssumption
  <2> QED BY <1>1, <2>1, <2>2, <2>3 DEF Ask
<1>2. ASSUME NEW c \in Clients, Refuse(c) \/ FindFails(c) PROVE TypeOK'
  BY <1>2 DEF Refuse, FindFails, Fail
<1>3. ASSUME NEW c \in Clients, Fetch(c) PROVE TypeOK'
  <2>1. PICK d \in Ahead(c) : read' = [read EXCEPT ![c] = Append(@, d)]
    BY <1>3 DEF Fetch
  <2>2. d \in Doc
    BY <2>1 DEF Ahead
  <2>3. Append(read[c], d) \in Seq(Doc) /\ Len(Append(read[c], d)) <= Limit
    BY <1>3, <2>2, BoundsAssumption DEF Fetch
  <2> QED BY <1>3, <2>1, <2>3 DEF Fetch
<1>4. ASSUME NEW c \in Clients, Respond(c) PROVE TypeOK'
  <2>1. ItemsOf(request[c].op, read[c]) \in SUBSET Item
    BY ItemsType
  <2> QED BY <1>4, <2>1 DEF Respond
<1>5. ASSUME NEW d \in Ingested, Insert(d) PROVE TypeOK'
  BY <1>5, WorkloadAssumption DEF Insert
<1>6. ASSUME NEW d \in Ingested, NEW e \in Ingested, Amend(d, e) PROVE TypeOK'
  BY <1>6, WorkloadAssumption DEF Amend
<1>7. CASE UNCHANGED vars
  BY <1>7 DEF vars
<1> QED BY <1>1, <1>2, <1>3, <1>4, <1>5, <1>6, <1>7 DEF Next, Handle

\* The variables of the request side keep their types.
THEOREM TypeCorrect == Spec => []TypeOK
BY TypeInit, TypeStep, PTL DEF Spec

-----------------------------------------------------------------------------
(* What a cursor has read.                                                 *)

\* The documents are sorted by start, distinct, and of the request.
Sorted(s) == \A i, j \in DOMAIN s : i <= j => s[i].start <= s[j].start
Distinct(s) == \A i, j \in DOMAIN s : KeyOf(s[i]) = KeyOf(s[j]) => i = j
Asked(r, s) == \A i \in DOMAIN s : Matches(r, KeyOf(s[i]))

\* Every document is followed by the last one of its code, or is it.
Ended(s) ==
    \A i \in DOMAIN s : \E j \in DOMAIN s :
        i <= j /\ s[j].code = s[i].code /\ LastOfCode(s, j)

\* What matched when the find began is still there, and is read or ahead.
Pending(c) ==
    \A k \in begun[c] :
        /\ \E d \in store : KeyOf(d) = k
        /\ Matches(request[c], k)
        /\ k \in ReadKeys(c) \/ \A i \in DOMAIN read[c] : read[c][i].start <= k.start

CursorInv ==
    \A c \in Clients :
        /\ Sorted(read[c]) /\ Distinct(read[c]) /\ Asked(request[c], read[c]) /\ Ended(read[c])
        /\ Pending(c)

LEMMA KeyFields ==
  \A d : /\ KeyOf(d).start = d.start /\ KeyOf(d).code = d.code
         /\ KeyOf(d).type = d.type /\ KeyOf(d).interval = d.interval
BY DEF KeyOf

\* What a fetch appends is not older than anything read and has not been read.
LEMMA FetchAppends ==
  ASSUME NEW s \in Seq(Doc), NEW d \in Doc, NEW r,
         Sorted(s), Distinct(s), Asked(r, s), Ended(s), Matches(r, KeyOf(d)),
         \A i \in DOMAIN s : s[i].start <= d.start /\ KeyOf(s[i]) # KeyOf(d)
  PROVE  LET t == Append(s, d) IN Sorted(t) /\ Distinct(t) /\ Asked(r, t) /\ Ended(t)
<1> DEFINE t == Append(s, d)
           n == Len(s)
<1>1. /\ n \in Nat /\ DOMAIN s = 1..n /\ DOMAIN t = 1..(n + 1) /\ Len(t) = n + 1
      /\ \A i \in 1..n : t[i] = s[i]
      /\ t[n + 1] = d
  OBVIOUS
<1>2. \A i \in 1..(n + 1) : i \in 1..n \/ i = n + 1
  BY <1>1
<1>3. \A i \in 1..n : s[i].start \in Nat
  <2> SUFFICES ASSUME NEW i \in 1..n PROVE s[i].start \in Nat
    OBVIOUS
  <2>1. s[i] \in Doc
    BY <1>1
  <2> QED BY <2>1, BoundsAssumption DEF Doc
<1>4. d.start \in Nat
  BY BoundsAssumption DEF Doc
<1> HIDE DEF t, n
<1>5. Sorted(t)
  <2> SUFFICES ASSUME NEW i \in 1..(n + 1), NEW j \in 1..(n + 1), i <= j
               PROVE  t[i].start <= t[j].start
    BY <1>1 DEF Sorted
  <2>1. CASE j \in 1..n
    <3>1. i \in 1..n
      BY <2>1, <1>1
    <3> QED BY <2>1, <3>1, <1>1 DEF Sorted
  <2>2. CASE i \in 1..n /\ j = n + 1
    BY <2>2, <1>1
  <2>3. CASE i = n + 1 /\ j = n + 1
    BY <2>3, <1>1, <1>4
  <2> QED BY <2>1, <2>2, <2>3, <1>2
<1>6. Distinct(t)
  <2> SUFFICES ASSUME NEW i \in 1..(n + 1), NEW j \in 1..(n + 1), KeyOf(t[i]) = KeyOf(t[j])
               PROVE  i = j
    BY <1>1 DEF Distinct
  <2> QED BY <1>1, <1>2 DEF Distinct
<1>7. Asked(r, t)
  <2> SUFFICES ASSUME NEW i \in 1..(n + 1) PROVE Matches(r, KeyOf(t[i]))
    BY <1>1 DEF Asked
  <2> QED BY <1>1, <1>2 DEF Asked
<1>8. Ended(t)
  <2> SUFFICES ASSUME NEW i \in 1..(n + 1)
               PROVE  \E j \in 1..(n + 1) : i <= j /\ t[j].code = t[i].code /\ LastOfCode(t, j)
    BY <1>1 DEF Ended
  <2>0. LastOfCode(t, n + 1)
    BY <1>1 DEF LastOfCode
  <2>1. CASE t[i].code = d.code
    BY <2>0, <2>1, <1>1
  <2>2. CASE t[i].code # d.code
    <3>1. i \in 1..n
      BY <2>2, <1>1, <1>2
    <3>2. PICK j \in 1..n : i <= j /\ s[j].code = s[i].code /\ LastOfCode(s, j)
      BY <3>1, <1>1 DEF Ended
    <3>3. LastOfCode(t, j)
      <4> SUFFICES ASSUME NEW k \in (j + 1)..(n + 1) PROVE t[k].code # t[j].code
        BY <1>1 DEF LastOfCode
      <4>1. CASE k = n + 1
        BY <4>1, <2>2, <3>1, <3>2, <1>1
      <4>2. CASE k # n + 1
        <5>1. k \in (j + 1)..n /\ k \in 1..n
          BY <4>2, <3>2, <1>1
        <5> QED BY <5>1, <3>2, <1>1 DEF LastOfCode, n
      <4> QED BY <4>1, <4>2
    <3> QED BY <3>1, <3>2, <3>3, <1>1
  <2> QED BY <2>1, <2>2
<1> QED BY <1>5, <1>6, <1>7, <1>8 DEF t

LEMMA CursorInit == Init => CursorInv
BY DEF Init, CursorInv, Sorted, Distinct, Asked, Ended, Pending

\* A document stays, under its key, whatever is written.
LEMMA KeysStay ==
  ASSUME [Next]_vars, NEW d \in store
  PROVE  \E e \in store' : KeyOf(e) = KeyOf(d)
<1>1. ASSUME NEW e \in Ingested, Insert(e) PROVE d \in store'
  BY <1>1 DEF Insert
<1>2. ASSUME NEW a \in Ingested, NEW b \in Ingested, Amend(a, b)
      PROVE  \E e \in store' : KeyOf(e) = KeyOf(d)
  BY <1>2 DEF Amend
<1>3. CASE UNCHANGED store
  BY <1>3
<1>4. \/ \E e \in Ingested : Insert(e)
      \/ \E a, b \in Ingested : Amend(a, b)
      \/ UNCHANGED store
  BY DEF Next, Handle, Ask, Refuse, FindFails, Fail, Fetch, Respond, vars
<1> QED BY <1>1, <1>2, <1>3, <1>4

LEMMA CursorStep == TypeOK /\ CursorInv /\ [Next]_vars => CursorInv'
<1> SUFFICES ASSUME TypeOK, CursorInv, [Next]_vars, NEW c \in Clients
             PROVE  /\ Sorted(read'[c]) /\ Distinct(read'[c])
                    /\ Asked(request'[c], read'[c]) /\ Ended(read'[c])
                    /\ Pending(c)'
  BY DEF CursorInv
<1>0. /\ Sorted(read[c]) /\ Distinct(read[c]) /\ Asked(request[c], read[c]) /\ Ended(read[c])
      /\ Pending(c)
  BY DEF CursorInv
<1>1. CASE UNCHANGED <<read[c], request[c], begun[c]>>
  <2> SUFFICES ASSUME NEW k \in begun[c]
               PROVE  /\ \E d \in store' : KeyOf(d) = k
                      /\ Matches(request[c], k)
                      /\ \/ k \in ReadKeys(c)
                         \/ \A i \in DOMAIN read[c] : read[c][i].start <= k.start
    BY <1>0, <1>1 DEF Pending, ReadKeys
  <2> QED BY <1>0, KeysStay DEF Pending
<1>2. ASSUME NEW r \in Requests, Ask(c, r)
      PROVE  /\ Sorted(read'[c]) /\ Distinct(read'[c])
             /\ Asked(request'[c], read'[c]) /\ Ended(read'[c])
             /\ Pending(c)'
  <2>1. /\ read'[c] = <<>> /\ request'[c] = r /\ store' = store
        /\ begun'[c] = {k \in {KeyOf(d) : d \in store} : Matches(r, k)}
    BY <1>2 DEF Ask, TypeOK
  <2> QED BY <2>1 DEF Sorted, Distinct, Asked, Ended, Pending
<1>3. ASSUME Fetch(c)
      PROVE  /\ Sorted(read'[c]) /\ Distinct(read'[c])
             /\ Asked(request'[c], read'[c]) /\ Ended(read'[c])
             /\ Pending(c)'
  <2>1. PICK d \in Ahead(c) : InTurn(c, d) /\ read'[c] = Append(read[c], d)
    BY <1>3 DEF Fetch, TypeOK
  <2>2. /\ d \in store /\ d \in Doc /\ read[c] \in Seq(Doc) /\ Matches(request[c], KeyOf(d))
        /\ \A i \in DOMAIN read[c] : read[c][i].start <= d.start /\ KeyOf(read[c][i]) # KeyOf(d)
    BY <2>1 DEF Ahead, ReadKeys, TypeOK
  <2>3. /\ request' = request /\ begun' = begun /\ store' = store
    BY <1>3 DEF Fetch
  <2>4. /\ Sorted(read'[c]) /\ Distinct(read'[c])
        /\ Asked(request'[c], read'[c]) /\ Ended(read'[c])
    BY <1>0, <2>1, <2>2, <2>3, FetchAppends
  <2>5. Pending(c)'
    <3> DEFINE n == Len(read[c])
    <3>1. /\ n \in Nat /\ DOMAIN read[c] = 1..n /\ DOMAIN read'[c] = 1..(n + 1)
          /\ \A i \in 1..n : read'[c][i] = read[c][i]
          /\ read'[c][n + 1] = d
      BY <2>1, <2>2
    <3> HIDE DEF n
    <3>2. \A i \in 1..(n + 1) : i \in 1..n \/ i = n + 1
      BY <3>1
    <3> SUFFICES ASSUME NEW k \in begun[c],
                        ~ \E i \in 1..(n + 1) : KeyOf(read'[c][i]) = k
                 PROVE  \A i \in 1..(n + 1) : read'[c][i].start <= k.start
      BY <1>0, <2>3, <3>1 DEF Pending, ReadKeys
    <3>3. k \notin ReadKeys(c)
      <4>1. \A i \in 1..n : i \in 1..(n + 1) /\ KeyOf(read[c][i]) # k
        BY <3>1
      <4> QED BY <4>1, <3>1 DEF ReadKeys
    <3>4. PICK e \in store : KeyOf(e) = k
      BY <1>0 DEF Pending
    <3>5. e \in Ahead(c)
      BY <1>0, <3>3, <3>4, KeyFields DEF Pending, Ahead
    <3>6. d.start <= k.start
      BY <2>1, <3>4, <3>5, KeyFields DEF InTurn
    <3>7. \A i \in 1..n : read[c][i].start <= k.start
      BY <1>0, <3>1, <3>3 DEF Pending
    <3> QED BY <3>1, <3>2, <3>6, <3>7
  <2> QED BY <2>4, <2>5
<1>4. \/ \E r \in Requests : Ask(c, r)
      \/ Fetch(c)
      \/ UNCHANGED <<read[c], request[c], begun[c]>>
  <2>1. ASSUME NEW b \in Clients, b # c, NEW r \in Requests, Ask(b, r) \/ Fetch(b)
        PROVE  UNCHANGED <<read[c], request[c], begun[c]>>
    BY <2>1 DEF Ask, Fetch, TypeOK
  <2>2. ASSUME NEW b \in Clients, b # c, Fetch(b)
        PROVE  UNCHANGED <<read[c], request[c], begun[c]>>
    BY <2>2 DEF Fetch, TypeOK
  <2>3. ASSUME NEW b \in Clients, Refuse(b) \/ FindFails(b) \/ Respond(b)
        PROVE  UNCHANGED <<read[c], request[c], begun[c]>>
    BY <2>3 DEF Refuse, FindFails, Fail, Respond
  <2>4. ASSUME \/ \E d \in Ingested : Insert(d) \/ \E e \in Ingested : Amend(d, e)
               \/ UNCHANGED vars
        PROVE  UNCHANGED <<read[c], request[c], begun[c]>>
    BY <2>4 DEF Insert, Amend, vars
  <2> QED BY <2>1, <2>2, <2>3, <2>4 DEF Next, Handle
<1> QED BY <1>1, <1>2, <1>3, <1>4

-----------------------------------------------------------------------------
(* What a reply is made of.                                                *)

AnswerInv ==
    \A c \in Clients :
        /\ pc[c] = "reading" => reply[c] = "none"
        /\ reply[c] = "answer" =>
              /\ request[c] \in Request
              /\ items[c] = ItemsOf(request[c].op, read[c])
              /\ Len(read[c]) = Limit \/ begun[c] \subseteq ReadKeys(c)
        /\ reply[c] = "blank" => StripThrows(request[c].op, read[c])

\* A cursor that has nothing more to return has returned everything it found.
LEMMA AllRead ==
  ASSUME CursorInv, NEW c \in Clients, Exhausted(c)
  PROVE  begun[c] \subseteq ReadKeys(c)
<1> SUFFICES ASSUME NEW k \in begun[c], k \notin ReadKeys(c) PROVE FALSE
  OBVIOUS
<1>1. Pending(c)
  BY DEF CursorInv
<1>2. PICK d \in store : KeyOf(d) = k
  BY <1>1 DEF Pending
<1>3. d \in Ahead(c)
  BY <1>1, <1>2, KeyFields DEF Pending, Ahead
<1> QED BY <1>2, <1>3 DEF Exhausted

LEMMA AnswerInit == Init => AnswerInv
BY DEF Init, AnswerInv

LEMMA AnswerStep == TypeOK /\ CursorInv /\ AnswerInv /\ [Next]_vars => AnswerInv'
<1> DEFINE Good(c) ==
        /\ pc[c] = "reading" => reply[c] = "none"
        /\ reply[c] = "answer" =>
              /\ request[c] \in Request
              /\ items[c] = ItemsOf(request[c].op, read[c])
              /\ Len(read[c]) = Limit \/ begun[c] \subseteq ReadKeys(c)
        /\ reply[c] = "blank" => StripThrows(request[c].op, read[c])
<1> SUFFICES ASSUME TypeOK, CursorInv, AnswerInv, [Next]_vars, NEW c \in Clients
             PROVE  Good(c)'
  BY DEF AnswerInv
<1>0. Good(c)
  BY DEF AnswerInv
<1>1. CASE UNCHANGED <<pc[c], reply[c], items[c], request[c], read[c], begun[c]>>
  BY <1>0, <1>1 DEF ReadKeys
<1>2. ASSUME NEW r \in Requests, Ask(c, r) PROVE Good(c)'
  BY <1>2 DEF Ask, TypeOK
<1>3. CASE Refuse(c) \/ FindFails(c)
  BY <1>3 DEF Refuse, FindFails, Fail, TypeOK
<1>4. CASE Fetch(c)
  BY <1>0, <1>4 DEF Fetch, TypeOK
<1>5. CASE Respond(c)
  <2>1. /\ pc[c] = "reading" /\ pc'[c] = "replied" /\ request[c] \in Request
        /\ request' = request /\ read' = read /\ begun' = begun
        /\ \/ StripThrows(request[c].op, read[c]) /\ reply'[c] = "blank"
           \/ reply'[c] = "answer" /\ items'[c] = ItemsOf(request[c].op, read[c])
    BY <1>5 DEF Respond, TypeOK
  <2>2. Len(read[c]) = Limit \/ begun[c] \subseteq ReadKeys(c)
    BY <1>5, AllRead DEF Respond
  <2> QED BY <2>1, <2>2 DEF ReadKeys
<1>6. \/ \E r \in Requests : Ask(c, r)
      \/ Refuse(c) \/ FindFails(c) \/ Fetch(c) \/ Respond(c)
      \/ UNCHANGED <<pc[c], reply[c], items[c], request[c], read[c], begun[c]>>
  <2>1. ASSUME NEW b \in Clients, b # c,
               \/ \E r \in Requests : Ask(b, r)
               \/ Refuse(b) \/ FindFails(b) \/ Fetch(b) \/ Respond(b)
        PROVE  UNCHANGED <<pc[c], reply[c], items[c], request[c], read[c], begun[c]>>
    <3>1. ASSUME NEW r \in Requests, Ask(b, r)
          PROVE  UNCHANGED <<pc[c], reply[c], items[c], request[c], read[c], begun[c]>>
      BY <2>1, <3>1 DEF Ask, TypeOK
    <3>2. CASE Refuse(b) \/ FindFails(b) \/ Fetch(b)
      BY <2>1, <3>2 DEF Refuse, FindFails, Fail, Fetch, TypeOK
    <3>3. CASE Respond(b)
      BY <2>1, <3>3 DEF Respond, TypeOK
    <3> QED BY <2>1, <3>1, <3>2, <3>3
  <2>2. ASSUME \/ \E d \in Ingested : Insert(d) \/ \E e \in Ingested : Amend(d, e)
               \/ UNCHANGED vars
        PROVE  UNCHANGED <<pc[c], reply[c], items[c], request[c], read[c], begun[c]>>
    BY <2>2 DEF Insert, Amend, vars
  <2> QED BY <2>1, <2>2 DEF Next, Handle
<1> QED BY <1>1, <1>2, <1>3, <1>4, <1>5, <1>6

\* The inductive invariant: what a reply is made of depends on the types and on
\* what the cursor has read.
IInv == TypeOK /\ CursorInv /\ AnswerInv

LEMMA Inductive == Spec => []IInv
<1>1. Init => IInv
  BY TypeInit, CursorInit, AnswerInit DEF IInv
<1>2. IInv /\ [Next]_vars => IInv'
  BY TypeStep, CursorStep, AnswerStep DEF IInv
<1> QED BY <1>1, <1>2, PTL DEF Spec

-----------------------------------------------------------------------------
(* The items of an answer.                                                 *)

ItemAt(op, s, i) ==
    [key |-> KeyOf(s[i]),
     nweValues |-> op = "indicator" /\ i \in Kept(op, s) /\ s[i].detail = "nwe",
     prediction |-> i \in Kept(op, s)]

LEMMA ItemFields ==
  ASSUME NEW op, NEW s, NEW i
  PROVE  /\ ItemAt(op, s, i).key = KeyOf(s[i])
         /\ ItemAt(op, s, i).prediction <=> i \in Kept(op, s)
         /\ ItemAt(op, s, i).nweValues => ItemAt(op, s, i).prediction
         /\ ItemAt(op, s, i).key.start = s[i].start
         /\ ItemAt(op, s, i).key.code = s[i].code
<1> DEFINE nwe == op = "indicator" /\ i \in Kept(op, s) /\ s[i].detail = "nwe"
           kept == i \in Kept(op, s)
<1>1. (nwe => kept) /\ (kept <=> i \in Kept(op, s)) /\ kept \in BOOLEAN /\ nwe \in BOOLEAN
  OBVIOUS
<1>2. ItemAt(op, s, i) = [key |-> KeyOf(s[i]), nweValues |-> nwe, prediction |-> kept]
  BY DEF ItemAt
<1> HIDE DEF nwe, kept
<1> QED BY <1>1, <1>2, KeyFields

LEMMA ItemsAt ==
  ASSUME NEW op, NEW s PROVE ItemsOf(op, s) = {ItemAt(op, s, i) : i \in DOMAIN s}
BY Zenon DEF ItemsOf, ItemAt

\* There is an item for every document read.
LEMMA ItemsCardinality ==
  ASSUME NEW op, NEW s \in Seq(Doc), Distinct(s)
  PROVE  IsFiniteSet(ItemsOf(op, s)) /\ Cardinality(ItemsOf(op, s)) = Len(s)
<1> DEFINE I == ItemsOf(op, s)
           n == Len(s)
           f == [i \in 1..n |-> ItemAt(op, s, i)]
<1>1. n \in Nat /\ DOMAIN s = 1..n
  OBVIOUS
<1>2. I = {ItemAt(op, s, i) : i \in 1..n}
  BY <1>1, ItemsAt
<1>3. \A i, j \in 1..n : ItemAt(op, s, i) = ItemAt(op, s, j) => i = j
  BY <1>1, ItemFields DEF Distinct
<1> HIDE DEF I, n
<1>4. f \in Bijection(1..n, I)
  BY <1>2, <1>3 DEF Bijection, Injection, Surjection, IsInjective
<1>5. IsFiniteSet(1..n) /\ Cardinality(1..n) = n
  BY <1>1, FS_Interval
<1> QED BY <1>4, <1>5, FS_Bijection DEF ExistsBijection, I, n

\* Among the documents a prediction competes with, the last one keeps it.
LEMMA KeptLast ==
  ASSUME NEW s \in Seq(Doc), NEW op \in {"indicator", "freq"}, Ended(s), NEW n \in DOMAIN s
  PROVE  LET R == {m \in DOMAIN s : op = "freq" \/ s[m].code = s[n].code}
         IN  \E j \in R : /\ j \in Kept(op, s)
                          /\ \A m \in R : m <= j /\ (m \in Kept(op, s) => m = j)
<1> DEFINE R == {m \in DOMAIN s : op = "freq" \/ s[m].code = s[n].code}
<1>0. Len(s) \in Nat /\ DOMAIN s = 1..Len(s)
  OBVIOUS
<1>1. CASE op = "freq"
  <2>1. Kept(op, s) = {i \in DOMAIN s : i = Len(s)}
    BY <1>1 DEF Kept
  <2>2. Len(s) \in R
    BY <1>0, <1>1
  <2> QED BY <1>0, <2>1, <2>2
<1>2. CASE op = "indicator"
  <2>1. Kept(op, s) = {i \in DOMAIN s : LastOfCode(s, i)}
    BY <1>2 DEF Kept
  <2>2. PICK j \in DOMAIN s : n <= j /\ s[j].code = s[n].code /\ LastOfCode(s, j)
    BY DEF Ended
  <2>3. ASSUME NEW m \in R PROVE m <= j /\ (m \in Kept(op, s) => m = j)
    <3>1. m \in DOMAIN s /\ s[m].code = s[j].code
      BY <1>2, <2>2
    <3>2. m <= j
      BY <1>0, <2>2, <3>1 DEF LastOfCode
    <3>3. ASSUME LastOfCode(s, m) PROVE m = j
      BY <1>0, <2>2, <3>1, <3>2, <3>3 DEF LastOfCode
    <3> QED BY <2>1, <3>2, <3>3
  <2> QED BY <2>1, <2>2, <2>3
<1> QED BY <1>1, <1>2

-----------------------------------------------------------------------------
(* The properties.                                                         *)

LEMMA AnswerRead ==
  ASSUME IInv, NEW c \in Clients, reply[c] = "answer"
  PROVE  /\ items[c] = {ItemAt(request[c].op, read[c], i) : i \in DOMAIN read[c]}
         /\ IsFiniteSet(items[c]) /\ Cardinality(items[c]) = Len(read[c])
         /\ Keys(c) = ReadKeys(c)
<1>1. read[c] \in Seq(Doc) /\ Distinct(read[c]) /\ items[c] = ItemsOf(request[c].op, read[c])
  BY DEF IInv, TypeOK, CursorInv, AnswerInv
<1>2. items[c] = {ItemAt(request[c].op, read[c], i) : i \in DOMAIN read[c]}
  BY <1>1, ItemsAt
<1>3. Keys(c) = ReadKeys(c)
  BY <1>2, ItemFields DEF Keys, ReadKeys
<1> QED BY <1>1, <1>2, <1>3, ItemsCardinality

LEMMA AnswerHasNoGapsState == IInv => AnswerHasNoGaps
<1> SUFFICES ASSUME IInv, NEW c \in Clients, reply[c] = "answer",
                    NEW k \in begun[c] \ Keys(c)
             PROVE  Cardinality(items[c]) = Limit /\ \A h \in Keys(c) : h.start <= k.start
  BY DEF AnswerHasNoGaps
<1>1. Cardinality(items[c]) = Len(read[c]) /\ Keys(c) = ReadKeys(c)
  BY AnswerRead
<1>2. Len(read[c]) = Limit
  BY <1>1 DEF IInv, AnswerInv
<1>3. \A i \in DOMAIN read[c] : read[c][i].start <= k.start
  BY <1>1 DEF IInv, CursorInv, Pending
<1> QED BY <1>1, <1>2, <1>3, KeyFields DEF ReadKeys

\* Whatever matched when a request arrived is answered or cut off by the limit,
\* which cuts off nothing older than what is answered.
THEOREM NoGaps == Spec => []AnswerHasNoGaps
BY Inductive, AnswerHasNoGapsState, PTL

LEMMA PredictionOnNewestState == IInv => PredictionOnNewest
<1> SUFFICES ASSUME IInv, NEW c \in Clients, reply[c] = "answer", request[c].op # "candle",
                    NEW k \in Keys(c)
             PROVE  LET rivals == {i \in items[c] : \/ request[c].op = "freq"
                                                    \/ i.key.code = k.code}
                        kept == {i \in rivals : i.prediction}
                    IN  /\ Cardinality(kept) = 1
                        /\ \A i \in kept, j \in rivals : j.key.start <= i.key.start
                        /\ \A j \in rivals : j.nweValues => j.prediction
  BY DEF PredictionOnNewest
<1> DEFINE s == read[c]
           op == request[c].op
           It(i) == ItemAt(op, s, i)
           rivals == {i \in items[c] : op = "freq" \/ i.key.code = k.code}
           kept == {i \in rivals : i.prediction}
<1>1. /\ op \in {"indicator", "freq"} /\ s \in Seq(Doc) /\ Sorted(s) /\ Ended(s)
      /\ DOMAIN s \subseteq Nat
  BY DEF IInv, TypeOK, AnswerInv, CursorInv, Request
<1>2. items[c] = {It(i) : i \in DOMAIN s} /\ Keys(c) = ReadKeys(c)
  BY AnswerRead
<1>3. PICK n \in DOMAIN s : k = KeyOf(s[n])
  BY <1>2 DEF ReadKeys
<1> DEFINE R == {m \in DOMAIN s : op = "freq" \/ s[m].code = s[n].code}
<1>4. PICK j \in R : /\ j \in Kept(op, s)
                     /\ \A m \in R : m <= j /\ (m \in Kept(op, s) => m = j)
  BY <1>1, KeptLast
<1>5. \A i : /\ It(i).key.start = s[i].start /\ It(i).key.code = s[i].code
             /\ (It(i).prediction <=> i \in Kept(op, s))
             /\ (It(i).nweValues => It(i).prediction)
  BY ItemFields
<1>6. k.code = s[n].code
  BY <1>3, KeyFields
<1> HIDE DEF It, s, op
<1>7. rivals = {It(m) : m \in R}
  BY <1>2, <1>5, <1>6
<1>8. kept = {It(j)}
  BY <1>4, <1>5, <1>7
<1>9. \A m \in R : s[m].start <= s[j].start
  BY <1>1, <1>4 DEF Sorted
<1>10. Cardinality(kept) = 1
  BY <1>8, FS_Singleton
<1>11. \A i \in kept, m \in rivals : m.key.start <= i.key.start
  BY <1>5, <1>7, <1>8, <1>9
<1>12. \A m \in rivals : m.nweValues => m.prediction
  BY <1>5, <1>7
<1> QED BY <1>10, <1>11, <1>12 DEF op

\* Of an answer with indicators exactly a newest document, of each code or of the
\* FREQ answer as a whole, keeps its prediction.
THEOREM PredictionNewest == Spec => []PredictionOnNewest
BY Inductive, PredictionOnNewestState, PTL

LEMMA PredictionIsCurrentState == IInv => PredictionIsCurrent
<1> SUFFICES ASSUME IInv, NEW c \in Clients, reply[c] = "answer", request[c].op = "indicator",
                    Cardinality(items[c]) < Limit, NEW k \in begun[c]
             PROVE  \E i \in items[c] : /\ i.prediction /\ i.key.code = k.code
                                        /\ k.start <= i.key.start
  BY DEF PredictionIsCurrent
<1> DEFINE s == read[c]
<1>1. /\ items[c] = {ItemAt("indicator", s, i) : i \in DOMAIN s}
      /\ Cardinality(items[c]) = Len(s)
  BY AnswerRead
<1>2. s \in Seq(Doc) /\ Sorted(s) /\ Ended(s)
  BY DEF IInv, TypeOK, CursorInv
<1>3. Len(s) # Limit
  BY <1>1, <1>2, BoundsAssumption
<1>4. PICK n \in DOMAIN s : k = KeyOf(s[n])
  BY <1>3 DEF IInv, AnswerInv, ReadKeys
<1>5. PICK j \in DOMAIN s : n <= j /\ s[j].code = s[n].code /\ LastOfCode(s, j)
  BY <1>2 DEF Ended
<1>6. s[n].start <= s[j].start
  BY <1>2, <1>5 DEF Sorted
<1>7. j \in Kept("indicator", s)
  BY <1>5 DEF Kept
<1>8. k.code = s[n].code /\ k.start = s[n].start
  BY <1>4, KeyFields
<1>9. /\ ItemAt("indicator", s, j).prediction
      /\ ItemAt("indicator", s, j).key.code = s[j].code
      /\ ItemAt("indicator", s, j).key.start = s[j].start
  BY <1>7, ItemFields
<1>10. ItemAt("indicator", s, j) \in items[c]
  BY <1>1
<1> QED BY <1>5, <1>6, <1>8, <1>9, <1>10

\* The prediction of an INDICATOR answer below the limit is as recent as anything
\* of its code that matched when the request arrived.
THEOREM PredictionCurrent == Spec => []PredictionIsCurrent
BY Inductive, PredictionIsCurrentState, PTL

LEMMA BlankNeedsSuccessorState == IInv => BlankNeedsSuccessor
<1> SUFFICES ASSUME IInv, NEW c \in Clients, reply[c] = "blank"
             PROVE  /\ request[c].op = "indicator"
                    /\ \E i, j \in DOMAIN read[c] :
                          /\ i < j /\ read[c][i].code = read[c][j].code
                          /\ read[c][i].detail = "missing"
                          /\ read[c][i].start < read[c][j].start
  BY DEF BlankNeedsSuccessor
<1> DEFINE s == read[c]
<1>1. request[c].op = "indicator" /\ \E i \in DOMAIN s \ Kept("indicator", s) :
                                        s[i].detail = "missing"
  BY DEF IInv, AnswerInv, StripThrows
<1>2. /\ s \in Seq(Doc) /\ Sorted(s) /\ Distinct(s) /\ Asked(request[c], s)
      /\ DOMAIN s = 1..Len(s) /\ Len(s) \in Nat
  BY DEF IInv, TypeOK, CursorInv
<1>3. PICK i \in DOMAIN s : s[i].detail = "missing" /\ i \notin Kept("indicator", s)
  BY <1>1
<1>4. ~LastOfCode(s, i)
  BY <1>3 DEF Kept
<1>5. PICK j \in (i + 1)..Len(s) : s[j].code = s[i].code
  BY <1>4 DEF LastOfCode
<1>6. j \in DOMAIN s /\ i < j
  BY <1>2, <1>5
<1>7. s[i] \in Doc /\ s[j] \in Doc
  BY <1>2, <1>6
<1>8. \A m \in DOMAIN s : s[m].type = request[c].type /\ s[m].interval = request[c].interval
  BY <1>1, <1>2, KeyFields DEF Asked, Matches, IndexIndicator
<1>9. s[i].start # s[j].start
  <2>1. KeyOf(s[i]) # KeyOf(s[j])
    BY <1>2, <1>6 DEF Distinct
  <2> QED BY <2>1, <1>5, <1>6, <1>8 DEF KeyOf
<1>10. s[i].start <= s[j].start /\ s[i].start \in Nat /\ s[j].start \in Nat
  <2>1. s[i].start <= s[j].start
    <3>1. \A m, l \in DOMAIN s : m <= l => s[m].start <= s[l].start
      BY <1>2 DEF Sorted
    <3>2. i <= j
      BY <1>2, <1>5
    <3> QED BY <1>3, <1>6, <3>1, <3>2
  <2>2. s[i].start \in Nat /\ s[j].start \in Nat
    BY <1>7, BoundsAssumption DEF Doc
  <2> QED BY <2>1, <2>2
<1>11. s[i].start < s[j].start
  BY <1>9, <1>10
<1> QED BY <1>1, <1>3, <1>5, <1>6, <1>11

\* A blank instead of an answer needs a document without calcDetail that a later
\* one of its code follows.
THEOREM BlankSuccessor == Spec => []BlankNeedsSuccessor
BY Inductive, BlankNeedsSuccessorState, PTL

-----------------------------------------------------------------------------
(* A handler always has something to do.                                   *)

LEMMA LeastStart ==
  ASSUME NEW S, S \subseteq Nat, S # {} PROVE \E n \in S : \A m \in S : n <= m
<1>1. \A T : T \subseteq Nat /\ T # {} =>
        \E x \in T : \A y \in T : ~ (<<y, x>> \in OpToRel(<, Nat))
  BY NatLessThanWellFounded, WFMin
<1>2. PICK n \in S : \A m \in S : ~ (<<m, n>> \in OpToRel(<, Nat))
  BY <1>1
<1>3. \A m \in S : ~ (m < n)
  BY <1>2 DEF OpToRel
<1> QED BY <1>3

\* A cursor that is not through has a next document: the one with the least start
\* of those it owes.  So Fetch or Respond is possible until the request is replied
\* to; that they are also taken is fairness.
HandlerCanGoOn ==
    \A c \in Clients : pc[c] = "reading" =>
        \/ Len(read[c]) = Limit \/ Exhausted(c)
        \/ Len(read[c]) < Limit /\ \E d \in Ahead(c) : InTurn(c, d)

LEMMA HandlerCanGoOnState == TypeOK => HandlerCanGoOn
<1> SUFFICES ASSUME TypeOK, NEW c \in Clients, ~Exhausted(c), Len(read[c]) # Limit
             PROVE  Len(read[c]) < Limit /\ \E d \in Ahead(c) : InTurn(c, d)
  BY DEF HandlerCanGoOn
<1>1. Len(read[c]) < Limit
  <2>1. Len(read[c]) \in Nat /\ Len(read[c]) <= Limit
    BY DEF TypeOK
  <2> QED BY <2>1, BoundsAssumption
<1> DEFINE owed == {e \in Ahead(c) : KeyOf(e) \in begun[c]}
           starts == {e.start : e \in owed}
<1>2. starts # {} /\ starts \subseteq Nat
  <2>1. owed # {}
    BY DEF Exhausted
  <2>2. \A e \in owed : e.start \in Nat
    <3> SUFFICES ASSUME NEW e \in owed PROVE e.start \in Nat
      OBVIOUS
    <3>1. e \in Doc
      BY DEF Ahead, TypeOK
    <3> QED BY <3>1, BoundsAssumption DEF Doc
  <2> QED BY <2>1, <2>2
<1>3. PICK n \in starts : \A m \in starts : n <= m
  <2> HIDE DEF starts
  <2> QED BY <1>2, LeastStart
<1>4. PICK d \in owed : d.start = n
  BY <1>3
<1>5. \A e \in owed : d.start <= e.start
  BY <1>3, <1>4
<1> QED BY <1>1, <1>4, <1>5 DEF InTurn

\* No request is left with a handler that can neither fetch nor respond, whatever
\* was written since its find began.
THEOREM HandlersNeverStuck == Spec => []HandlerCanGoOn
BY TypeInit, TypeStep, HandlerCanGoOnState, PTL DEF Spec

-----------------------------------------------------------------------------
(* A request is answered as if at one moment.                              *)

Held == {KeyOf(d) : d \in store}

\* What has been read is still in the store, under its key.
ReadStays == \A c \in Clients : ReadKeys(c) \subseteq Held

LEMMA HeldGrows == [Next]_vars => Held \subseteq Held'
BY KeysStay DEF Held

LEMMA ReadStaysStep == TypeOK /\ ReadStays /\ [Next]_vars => ReadStays'
<1> SUFFICES ASSUME TypeOK, ReadStays, [Next]_vars, NEW c \in Clients
             PROVE  ReadKeys(c)' \subseteq Held'
  BY DEF ReadStays
<1>0. ReadKeys(c) \subseteq Held'
  BY HeldGrows DEF ReadStays
<1>1. CASE UNCHANGED read[c]
  BY <1>0, <1>1 DEF ReadKeys
<1>2. ASSUME NEW r \in Requests, Ask(c, r) PROVE ReadKeys(c)' \subseteq Held'
  <2>1. read'[c] = <<>>
    BY <1>2 DEF Ask, TypeOK
  <2> QED BY <2>1 DEF ReadKeys
<1>3. ASSUME Fetch(c) PROVE ReadKeys(c)' \subseteq Held'
  <2>1. PICK d \in Ahead(c) : read'[c] = Append(read[c], d)
    BY <1>3 DEF Fetch, TypeOK
  <2>2. read[c] \in Seq(Doc) /\ d \in Doc /\ KeyOf(d) \in Held'
    BY <1>3, <2>1, HeldGrows DEF Ahead, TypeOK, Held
  <2>3. \A i \in DOMAIN read'[c] : read'[c][i] = d \/ (i \in DOMAIN read[c] /\ read'[c][i] = read[c][i])
    BY <2>1, <2>2
  <2> QED BY <1>0, <2>2, <2>3 DEF ReadKeys
<1>4. \/ \E r \in Requests : Ask(c, r)
      \/ Fetch(c) \/ UNCHANGED read[c]
  <2>1. ASSUME NEW b \in Clients, b # c, NEW r \in Requests, Ask(b, r)
        PROVE  UNCHANGED read[c]
    BY <2>1 DEF Ask, TypeOK
  <2>2. ASSUME NEW b \in Clients, b # c, Fetch(b) PROVE UNCHANGED read[c]
    BY <2>2 DEF Fetch, TypeOK
  <2>3. ASSUME NEW b \in Clients, Refuse(b) \/ FindFails(b) \/ Respond(b)
        PROVE  UNCHANGED read[c]
    BY <2>3 DEF Refuse, FindFails, Fail, Respond
  <2>4. ASSUME \/ \E d \in Ingested : Insert(d) \/ \E e \in Ingested : Amend(d, e)
               \/ UNCHANGED vars
        PROVE  UNCHANGED read[c]
    BY <2>4 DEF Insert, Amend, vars
  <2> QED BY <2>1, <2>2, <2>3, <2>4 DEF Next, Handle
<1> QED BY <1>1, <1>2, <1>3, <1>4

LEMMA ReadStaysInductive == Spec => []ReadStays
<1>1. Init => ReadStays
  BY DEF Init, ReadStays, ReadKeys
<1> QED BY <1>1, Inductive, ReadStaysStep, PTL DEF Spec, IInv

\* A cursor meets a key once.
LEMMA ReadKeysCardinality ==
  ASSUME NEW c \in Clients, read[c] \in Seq(Doc), Distinct(read[c])
  PROVE  Cardinality(ReadKeys(c)) = Len(read[c])
<1> DEFINE s == read[c]
           n == Len(s)
           f == [i \in 1..n |-> KeyOf(s[i])]
<1>1. n \in Nat /\ DOMAIN s = 1..n
  OBVIOUS
<1>2. ReadKeys(c) = {KeyOf(s[i]) : i \in 1..n}
  BY <1>1 DEF ReadKeys
<1>3. \A i, j \in 1..n : KeyOf(s[i]) = KeyOf(s[j]) => i = j
  BY <1>1 DEF Distinct
<1> HIDE DEF n
<1>4. f \in Bijection(1..n, ReadKeys(c))
  BY <1>2, <1>3 DEF Bijection, Injection, Surjection, IsInjective
<1>5. IsFiniteSet(1..n) /\ Cardinality(1..n) = n
  BY <1>1, FS_Interval
<1> QED BY <1>4, <1>5, FS_Bijection DEF ExistsBijection, n

-----------------------------------------------------------------------------
(* The steps of the requests and what they are in WindowQuery.             *)

LEMMA QueryCardinality == \A S : Query!Cardinality(S) = Cardinality(S)
BY Zenon DEF Cardinality, Query!Cardinality, IsFiniteSet, Query!IsFiniteSet

LEMMA QueryInit == Init => Query!Init
BY DEF Init, Query!Init, Outcome, Keys

LEMMA AskAsks ==
  ASSUME IInv, NEW c \in Clients, NEW r \in Requests, Ask(c, r) PROVE Query!Ask(c, r)
<1> USE DEF IInv, TypeOK, Ask
<1>1. [b \in Clients |-> Outcome(b)]' = [[b \in Clients |-> Outcome(b)] EXCEPT ![c] = "pending"]
  BY DEF Outcome
<1>2. [b \in Clients |-> Keys(b)]' = [[b \in Clients |-> Keys(b)] EXCEPT ![c] = {}]
  BY DEF Keys
<1>3. Outcome(c) # "pending"
  BY DEF Outcome
<1> QED BY <1>1, <1>2, <1>3 DEF Query!Ask

LEMMA FailErrs ==
  ASSUME TypeOK, NEW c \in Clients, Refuse(c) \/ FindFails(c) PROVE Query!Error(c)
<1> USE DEF TypeOK, Refuse, FindFails, Fail
<1>1. [b \in Clients |-> Outcome(b)]' = [[b \in Clients |-> Outcome(b)] EXCEPT ![c] = "error"]
  BY DEF Outcome
<1>2. \A b \in Clients : Keys(b)' = IF b = c THEN {} ELSE Keys(b)
  <2>1. \A b \in Clients : items'[b] = IF b = c THEN {} ELSE items[b]
    OBVIOUS
  <2> QED BY <2>1 DEF Keys
<1> QED BY <1>1, <1>2 DEF Query!Error

\* The moment of an answer is that of the reply: by then everything that was due
\* has been read or has been cut off by the limit.
LEMMA RespondReplies ==
  ASSUME IInv, IInv', ReadStays, NEW c \in Clients, Respond(c)
  PROVE  Query!Answer(c) \/ Query!Blank(c)
<1>0. /\ TypeOK /\ pc[c] = "reading" /\ UNCHANGED <<store, request, read, begun>>
  BY DEF IInv, Respond
<1>1. Outcome(c) = "pending"
  BY <1>0 DEF Outcome
<1>2. CASE reply' = [reply EXCEPT ![c] = "blank"] /\ UNCHANGED items
  <2>1. [b \in Clients |-> Outcome(b)]' = [[b \in Clients |-> Outcome(b)] EXCEPT ![c] = "blank"]
    BY <1>0, <1>2 DEF Outcome, TypeOK, Respond
  <2>2. UNCHANGED [b \in Clients |-> Keys(b)]
    BY <1>2 DEF Keys
  <2> QED BY <1>0, <1>1, <2>1, <2>2 DEF Query!Blank
<1>3. CASE /\ reply' = [reply EXCEPT ![c] = "answer"]
           /\ items' = [items EXCEPT ![c] = ItemsOf(request[c].op, read[c])]
  <2>1. [b \in Clients |-> Outcome(b)]' = [[b \in Clients |-> Outcome(b)] EXCEPT ![c] = "answer"]
    BY <1>0, <1>3 DEF Outcome, TypeOK, Respond
  <2>3. Keys(c)' = ReadKeys(c)
    <3>1. Keys(c)' = {i.key : i \in ItemsOf(request[c].op, read[c])}
      BY <1>0, <1>3 DEF Keys, TypeOK
    <3> QED BY <3>1, ItemsAt, ItemFields DEF ReadKeys
  <2>4. [b \in Clients |-> Keys(b)]' = [[b \in Clients |-> Keys(b)] EXCEPT ![c] = ReadKeys(c)]
    BY <1>0, <1>3, <2>3 DEF Keys, TypeOK
  <2>5. ReadKeys(c) \in SUBSET {k \in Held : Matches(request[c], k)}
    BY DEF IInv, CursorInv, Asked, ReadKeys, ReadStays
  <2>6. Cardinality(ReadKeys(c)) = Len(read[c]) /\ Len(read[c]) <= Limit
    BY <1>0, ReadKeysCardinality DEF IInv, CursorInv, TypeOK
  <2>7. Query!NoGaps(begun[c] \ ReadKeys(c), ReadKeys(c))
    <3> SUFFICES ASSUME NEW k \in begun[c] \ ReadKeys(c)
                 PROVE  /\ Cardinality(ReadKeys(c)) = Limit
                        /\ \A h \in ReadKeys(c) : h.start <= k.start
      BY QueryCardinality DEF Query!NoGaps
    <3>1. Len(read[c]) = Limit
      BY AllRead DEF Respond, IInv
    <3>2. \A i \in DOMAIN read[c] : read[c][i].start <= k.start
      BY DEF IInv, CursorInv, Pending
    <3> QED BY <2>6, <3>1, <3>2, KeyFields DEF ReadKeys
  <2> QED BY <1>0, <1>1, <2>1, <2>4, <2>5, <2>6, <2>7, QueryCardinality DEF Query!Answer, Held
<1> QED BY <1>2, <1>3 DEF Respond

\* A fetch shows nothing.
LEMMA FetchStutters ==
  ASSUME TypeOK, NEW c \in Clients, Fetch(c) PROVE UNCHANGED Query!queryVars
BY DEF Fetch, Query!queryVars, Outcome, Keys

LEMMA InsertStores ==
  ASSUME NEW d \in Ingested, Insert(d) PROVE Query!Store(KeyOf(d))
<1>1. Held' = Held \cup {KeyOf(d)}
  BY DEF Insert, Held
<1> QED BY <1>1 DEF Insert, Query!Store, Outcome, Keys, Held

\* Recomputing a document leaves its key.
LEMMA AmendStutters ==
  ASSUME NEW d \in Ingested, NEW e \in Ingested, Amend(d, e)
  PROVE  UNCHANGED Query!queryVars
<1>1. Held' = Held
  BY DEF Amend, Held
<1> QED BY <1>1 DEF Amend, Query!queryVars, Outcome, Keys, Held

LEMMA QueryStep ==
  IInv /\ IInv' /\ ReadStays /\ [Next]_vars => [Query!Next]_(Query!queryVars)
<1> SUFFICES ASSUME IInv, IInv', ReadStays, [Next]_vars
             PROVE  [Query!Next]_(Query!queryVars)
  OBVIOUS
<1>0. TypeOK
  BY DEF IInv
<1>1. ASSUME NEW c \in Clients, NEW r \in Requests, Ask(c, r) PROVE Query!Next
  BY <1>1, AskAsks DEF Query!Next
<1>2. ASSUME NEW c \in Clients, Refuse(c) \/ FindFails(c) PROVE Query!Next
  BY <1>0, <1>2, FailErrs DEF Query!Next
<1>3. ASSUME NEW c \in Clients, Respond(c) PROVE Query!Next
  BY <1>3, RespondReplies DEF Query!Next
<1>4. ASSUME NEW c \in Clients, Fetch(c) PROVE UNCHANGED Query!queryVars
  BY <1>0, <1>4, FetchStutters
<1>5. ASSUME NEW d \in Ingested, Insert(d) PROVE Query!Next
  <2>1. KeyOf(d) \in IngestedKeys
    BY DEF IngestedKeys
  <2> QED BY <1>5, <2>1, InsertStores DEF Query!Next
<1>6. ASSUME NEW d \in Ingested, NEW e \in Ingested, Amend(d, e)
      PROVE  UNCHANGED Query!queryVars
  BY <1>6, AmendStutters
<1>7. UNCHANGED vars => UNCHANGED Query!queryVars
  BY DEF vars, Query!queryVars, Outcome, Keys
<1> QED BY <1>1, <1>2, <1>3, <1>4, <1>5, <1>6, <1>7 DEF Next, Handle

\* The requests, each a cursor that advances between the writes of the ingestion
\* process, are answered as if at one moment.
THEOREM IndexRequestsImplementWindowQuery == Spec => ImplementsWindowQuery
BY QueryInit, QueryStep, Inductive, ReadStaysInductive, PTL
   DEF Spec, ImplementsWindowQuery, Query!Spec

=============================================================================
