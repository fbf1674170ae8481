--------------------------- MODULE CronLockProofs ---------------------------
(***************************************************************************)
(* Theorems about CronLock for any jobs, hosts and number of days.         *)
(***************************************************************************)
EXTENDS CronLock, TLAPS

-----------------------------------------------------------------------------
LEMMA TypeInit == Init => TypeOK
BY DaysAssumption DEF Init, TypeOK, Stages, Days

LEMMA TypeStep == TypeOK /\ [Next]_vars => TypeOK'
<1> SUFFICES ASSUME TypeOK, [Next]_vars PROVE TypeOK'
  OBVIOUS
<1> USE DaysAssumption, HostsAssumption DEF TypeOK, Stages, Days, Goto, LeaveBehind, ForgetRead
<1>1. CASE NewDay
  BY <1>1 DEF NewDay
<1>2. ASSUME NEW j \in Jobs, Construct(j) PROVE TypeOK'
  BY <1>2 DEF Construct
<1>3. ASSUME NEW j \in Jobs, Get(j) PROVE TypeOK'
  BY <1>3 DEF Get
<1>4. ASSUME NEW j \in Jobs, Denied(j) PROVE TypeOK'
  BY <1>4 DEF Denied
<1>5. ASSUME NEW j \in Jobs, Set(j) PROVE TypeOK'
  BY <1>5 DEF Set
<1>6. ASSUME NEW j \in Jobs, SetFails(j) PROVE TypeOK'
  <2>1. leaked' \in [Days -> BOOLEAN]
    BY <1>6 DEF SetFails
  <2> QED BY <1>6, <2>1 DEF SetFails
<1>7. ASSUME NEW j \in Jobs, Acquired(j) PROVE TypeOK'
  BY <1>7 DEF Acquired
<1>8. ASSUME NEW j \in Jobs, Process(j) PROVE TypeOK'
  BY <1>8 DEF Process
<1>9. ASSUME NEW j \in Jobs, Del(j) PROVE TypeOK'
  BY <1>9 DEF Del
<1>10. ASSUME NEW j \in Jobs, DelFails(j) PROVE TypeOK'
  BY <1>10 DEF DelFails
<1>11. ASSUME NEW j \in Jobs, End(j) PROVE TypeOK'
  BY <1>11 DEF End
<1>12. ASSUME NEW j \in Jobs, Crash(j) PROVE TypeOK'
  <2>1. leaked' \in [Days -> BOOLEAN]
    BY <1>12 DEF Crash
  <2> QED BY <1>12, <2>1 DEF Crash
<1>13. CASE UNCHANGED vars
  BY <1>13 DEF vars
<1> QED BY <1>1, <1>2, <1>3, <1>4, <1>5, <1>6, <1>7, <1>8, <1>9, <1>10, <1>11, <1>12,
           <1>13 DEF Next, Run

\* Every variable keeps its type: what is stored for a day is a host name.
THEOREM TypeCorrect == Spec => []TypeOK
BY TypeInit, TypeStep, PTL DEF Spec

-----------------------------------------------------------------------------
(* Mutual exclusion, as far as it goes.                                    *)

\* Without a breach, the store names the host of every job that is entitled to
\* work: two of them cannot be of different hosts.
EntitledInv ==
    \A j \in Jobs : Entitled(j) /\ breach[lockKey[j]] = {} => cache[lockKey[j]] = HostOf[j]

ExclusionInv == TypeOK /\ EntitledInv

LEMMA ExclusionInit == Init => ExclusionInv
BY TypeInit DEF Init, ExclusionInv, EntitledInv, Entitled

\* Only Set and Del touch the store; no other step entitles a job.
LEMMA ExclusionStep == ExclusionInv /\ [Next]_vars => ExclusionInv'
<1> SUFFICES ASSUME ExclusionInv, [Next]_vars,
                    NEW i \in Jobs, Entitled(i)', breach'[lockKey'[i]] = {}
             PROVE  cache'[lockKey'[i]] = HostOf[i]
  BY TypeStep DEF ExclusionInv, EntitledInv
<1>0. TypeOK /\ EntitledInv
  BY DEF ExclusionInv
<1>1. ASSUME NEW j \in Jobs, Set(j) PROVE cache'[lockKey'[i]] = HostOf[i]
  <2>1. /\ lockKey' = lockKey
        /\ \A k \in Days : k # lockKey[j] => cache'[k] = cache[k] /\ breach'[k] = breach[k]
        /\ cache'[lockKey[j]] = HostOf[j]
        /\ i # j => (Entitled(i) <=> Entitled(i)')
    BY <1>0, <1>1 DEF Set, Goto, TypeOK, Entitled
  <2>2. lockKey[i] \in Days /\ lockKey[j] \in Days
    BY <1>0 DEF TypeOK
  <2>3. CASE i = j
    BY <2>1, <2>3
  <2>4. CASE i # j /\ lockKey[i] # lockKey[j]
    BY <1>0, <2>1, <2>2, <2>4 DEF EntitledInv
  <2>5. CASE i # j /\ lockKey[i] = lockKey[j]
    <3>1. cache[lockKey[j]] \in {Free, HostOf[j]} /\ breach[lockKey[j]] = {}
      BY <1>0, <1>1, <2>1, <2>2, <2>5 DEF Set, LockedByOther, TypeOK
    <3>2. cache[lockKey[j]] = HostOf[i]
      BY <1>0, <2>1, <2>5, <3>1 DEF EntitledInv
    <3>3. HostOf[i] # Free
      BY HostsAssumption
    <3> QED BY <2>1, <2>5, <3>1, <3>2, <3>3
  <2> QED BY <2>3, <2>4, <2>5
<1>2. ASSUME NEW j \in Jobs, Del(j) PROVE cache'[lockKey'[i]] = HostOf[i]
  <2>1. /\ lockKey' = lockKey
        /\ \A k \in Days : k # lockKey[j] => cache'[k] = cache[k] /\ breach'[k] = breach[k]
        /\ Entitled(i)
    BY <1>0, <1>2 DEF Del, Goto, TypeOK, Entitled
  <2>2. lockKey[i] \in Days /\ lockKey[j] \in Days
    BY <1>0 DEF TypeOK
  <2>3. lockKey[i] # lockKey[j]
    BY <1>0, <1>2, <2>1, <2>2 DEF Del, TypeOK
  <2> QED BY <1>0, <2>1, <2>2, <2>3 DEF EntitledInv
<1>3. ASSUME UNCHANGED <<cache, breach>>, Entitled(i), lockKey'[i] = lockKey[i]
      PROVE  cache'[lockKey'[i]] = HostOf[i]
  BY <1>0, <1>3 DEF EntitledInv
<1>4. \/ \E j \in Jobs : Set(j) \/ Del(j)
      \/ UNCHANGED <<cache, breach>> /\ Entitled(i) /\ lockKey'[i] = lockKey[i]
  <2>1. \A j \in Jobs :
            \/ Construct(j) \/ Get(j) \/ Denied(j) \/ SetFails(j) \/ Acquired(j)
            \/ Process(j) \/ DelFails(j) \/ End(j) \/ Crash(j)
            => UNCHANGED <<cache, breach>> /\ Entitled(i) /\ lockKey'[i] = lockKey[i]
    BY <1>0 DEF Construct, Get, Denied, SetFails, Acquired, Process, DelFails, End, Crash,
                Goto, Entitled, TypeOK
  <2>2. NewDay \/ UNCHANGED vars
            => UNCHANGED <<cache, breach>> /\ Entitled(i) /\ lockKey'[i] = lockKey[i]
    BY DEF NewDay, vars, Entitled
  <2> QED BY <2>1, <2>2 DEF Next, Run
<1> QED BY <1>1, <1>2, <1>3, <1>4

\* Two hosts overlap only on a day on which a job wrote the lock although it had
\* become another host's since the job read it, or deleted it over the head of a
\* job that worked under it.
THEOREM OverlapNeedsBreach == Spec => []ExclusionUnlessBreached
<1>1. ExclusionInv => ExclusionUnlessBreached
  <2> SUFFICES ASSUME ExclusionInv, NEW i \in Jobs, NEW j \in Jobs, Overlap(i, j),
                      breach[lockKey[i]] = {}
               PROVE  FALSE
    BY DEF ExclusionUnlessBreached
  <2> QED BY DEF ExclusionInv, EntitledInv, Entitled, Overlap
<1> QED BY <1>1, ExclusionInit, ExclusionStep, PTL DEF Spec

-----------------------------------------------------------------------------
(* The lock as its users may picture it.                                   *)

LEMMA LockInit == Init => Lock!Init
BY DaysAssumption DEF Init, Lock!Init, Under, Entitled, Broken, Days

\* The read of tryToLock found nothing or the host's own name; a write that finds
\* more is the mishap that breaks the lock.
LEMMA SetTakes ==
    ASSUME TypeOK, NEW j \in Jobs, Set(j) PROVE Lock!Take(j, lockKey[j])
<1> USE DEF TypeOK, Set, Goto
<1>1. [i \in Jobs |-> Under(i)]' = [[i \in Jobs |-> Under(i)] EXCEPT ![j] = {lockKey[j]}]
  BY DEF Under, Entitled
<1>2. locked[j] \in {Free, HostOf[j]}
  BY DEF LockedByOther
<1>3. Broken' = IF cache[lockKey[j]] \in {Free, HostOf[j]} THEN Broken
                ELSE Broken \cup {lockKey[j]}
  BY <1>2 DEF Broken
<1> QED BY <1>1, <1>3 DEF Lock!Take

\* Whosever entry it is, the deletion clears it; over the heads of its workers it
\* breaks the lock.
LEMMA DelClears ==
    ASSUME TypeOK, NEW j \in Jobs, Del(j) PROVE Lock!Clear(lockKey[j])
<1> USE DEF TypeOK, Del, Goto
<1>1. UNCHANGED [i \in Jobs |-> Under(i)]
  BY DEF Under, Entitled
<1>2. (\E i \in Jobs : lockKey[j] \in [l \in Jobs |-> Under(l)][i])
        <=> \E i \in Jobs : Entitled(i) /\ lockKey[i] = lockKey[j]
  BY DEF Under
<1>3. Broken' = IF \E i \in Jobs : Entitled(i) /\ lockKey[i] = lockKey[j]
                THEN Broken \cup {lockKey[j]} ELSE Broken
  <2> DEFINE shared == \E i \in Jobs : Entitled(i) /\ lockKey[i] = lockKey[j]
  <2>1. breach' = [breach EXCEPT ![lockKey[j]] =
                        IF shared THEN @ \cup {"earlyDelete"} ELSE @]
    OBVIOUS
  <2>2. breach \in [Days -> SUBSET {"staleRead", "earlyDelete"}] /\ lockKey[j] \in Days
    OBVIOUS
  <2> SUFFICES Broken' = IF shared THEN Broken \cup {lockKey[j]} ELSE Broken
    OBVIOUS
  <2> HIDE DEF shared, TypeOK, Del, Goto
  <2> QED BY <2>1, <2>2 DEF Broken
<1> QED BY <1>1, <1>2, <1>3 DEF Lock!Clear

\* Every other step lets one job leave or is none of the lock's business.
LEMMA OthersLeave ==
    ASSUME TypeOK, NEW j \in Jobs,
           Construct(j) \/ SetFails(j) \/ Process(j) \/ Crash(j)
    PROVE  Lock!Leave(j)
<1>1. UNCHANGED <<cache, Broken>>
  BY DEF Construct, SetFails, Process, Crash, Broken
<1>2. \A i \in Jobs : Under(i)' = IF i = j THEN {} ELSE Under(i)
  BY DEF TypeOK, Construct, SetFails, Process, Crash, Goto, Under, Entitled
<1> QED BY <1>1, <1>2 DEF Lock!Leave

LEMMA OthersStutter ==
    ASSUME TypeOK, NEW j \in Jobs,
           \/ Get(j) \/ Denied(j) \/ Acquired(j) \/ DelFails(j) \/ End(j)
    PROVE  UNCHANGED Lock!lockVars
<1>1. UNCHANGED <<cache, Broken>>
  BY DEF Get, Denied, Acquired, DelFails, End, Broken
<1>2. \A i \in Jobs : Under(i)' = Under(i)
  BY DEF TypeOK, Get, Denied, Acquired, DelFails, End, Goto, Under, Entitled
<1> QED BY <1>1, <1>2 DEF Lock!lockVars

LEMMA LockStep == TypeOK /\ [Next]_vars => [Lock!Next]_(Lock!lockVars)
<1> SUFFICES ASSUME TypeOK, [Next]_vars PROVE [Lock!Next]_(Lock!lockVars)
  OBVIOUS
<1>1. ASSUME NEW j \in Jobs, Set(j) \/ Del(j) PROVE Lock!Next
  <2>1. lockKey[j] \in Days
    BY DEF TypeOK
  <2> QED BY <1>1, <2>1, SetTakes, DelClears DEF Lock!Next
<1>2. ASSUME NEW j \in Jobs, Construct(j) \/ SetFails(j) \/ Process(j) \/ Crash(j)
      PROVE  Lock!Next
  BY <1>2, OthersLeave DEF Lock!Next
<1>3. ASSUME NEW j \in Jobs,
             \/ Get(j) \/ Denied(j) \/ Acquired(j) \/ DelFails(j) \/ End(j)
      PROVE  UNCHANGED Lock!lockVars
  BY <1>3, OthersStutter
<1>4. NewDay \/ UNCHANGED vars => UNCHANGED Lock!lockVars
  BY DEF NewDay, vars, Lock!lockVars, Under, Entitled, Broken
<1> QED BY <1>1, <1>2, <1>3, <1>4 DEF Next, Run

\* The lock of a day, made of a get, a set and a del that may each fail or lose
\* their answers, with jobs that die anywhere, is a lock that is looked at and
\* taken at once, except for the two mishaps that break it.
THEOREM CronLockImplementsDayLock == Spec => ImplementsDayLock
BY LockInit, LockStep, TypeInit, TypeStep, PTL DEF Spec, ImplementsDayLock, Lock!Spec

\* Until one of them happens on its day, all that work under the lock of a day are
\* of the host whose name is in the store: also those whose set has not answered.
THEOREM UnbrokenLockExcludes == Spec => []Lock!Exclusive
<1>1. ExclusionInv => Lock!Exclusive
  BY DEF ExclusionInv, EntitledInv, TypeOK, Lock!Exclusive, Under, Broken
<1> QED BY <1>1, ExclusionInit, ExclusionStep, PTL DEF Spec

-----------------------------------------------------------------------------
(* Locks left behind.                                                      *)

\* A process that is gone holds nothing: construction starts with a clean slate.
AbsentHoldNothing == \A j \in Jobs : pc[j] = "absent" => ~holdingLock[j]

OrphanInv == TypeOK /\ AbsentHoldNothing /\ NoOrphanLock

LEMMA OrphanInit == Init => OrphanInv
BY TypeInit DEF Init, OrphanInv, NoOrphanLock, AbsentHoldNothing

LEMMA AbsentStep == TypeOK /\ AbsentHoldNothing /\ [Next]_vars => AbsentHoldNothing'
<1> SUFFICES ASSUME TypeOK, AbsentHoldNothing, [Next]_vars PROVE AbsentHoldNothing'
  OBVIOUS
<1> USE DEF TypeOK, AbsentHoldNothing, Goto
<1>1. ASSUME NEW j \in Jobs, End(j) \/ Crash(j) PROVE AbsentHoldNothing'
  BY <1>1 DEF End, Crash
<1>2. ASSUME NEW j \in Jobs, Construct(j) \/ Get(j) \/ Denied(j) \/ Set(j) \/ SetFails(j)
      PROVE  AbsentHoldNothing'
  BY <1>2 DEF Construct, Get, Denied, Set, SetFails
<1>3. ASSUME NEW j \in Jobs, Acquired(j) \/ Process(j) \/ Del(j) \/ DelFails(j)
      PROVE  AbsentHoldNothing'
  BY <1>3 DEF Acquired, Process, Del, DelFails
<1>4. CASE NewDay \/ UNCHANGED vars
  BY <1>4 DEF NewDay, vars
<1> QED BY <1>1, <1>2, <1>3, <1>4 DEF Next, Run

LEMMA OrphanStep == OrphanInv /\ [Next]_vars => OrphanInv'
<1> SUFFICES ASSUME OrphanInv, [Next]_vars, NEW k \in Days, cache'[k] # Free
             PROVE  \/ leaked'[k]
                    \/ \E j \in Jobs : lockKey'[j] = k /\ HostOf[j] = cache'[k] /\ OwesDelete(j)'
  BY TypeStep, AbsentStep DEF OrphanInv, NoOrphanLock
<1> DEFINE Owner(j) == lockKey[j] = k /\ HostOf[j] = cache[k] /\ OwesDelete(j)
<1>0. TypeOK /\ (cache[k] # Free => leaked[k] \/ \E j \in Jobs : Owner(j))
  BY DEF OrphanInv, NoOrphanLock
<1>1. ASSUME NEW j \in Jobs, Set(j) PROVE leaked'[k] \/ \E i \in Jobs : Owner(i)'
  <2>1. CASE lockKey[j] = k
    <3>1. Owner(j)'
      BY <1>0, <1>1, <2>1 DEF Set, Goto, TypeOK, OwesDelete
    <3> QED BY <3>1
  <2>2. CASE lockKey[j] # k
    <3>1. cache'[k] = cache[k] /\ leaked'[k] = leaked[k] /\ lockKey' = lockKey
      BY <1>0, <1>1, <2>2 DEF Set, TypeOK
    <3>2. \A i \in Jobs : Owner(i) => Owner(i)'
      BY <1>0, <1>1, <2>2, <3>1 DEF Set, Goto, TypeOK, OwesDelete
    <3> QED BY <1>0, <3>1, <3>2
  <2> QED BY <2>1, <2>2
<1>2. ASSUME NEW j \in Jobs, Del(j) PROVE leaked'[k] \/ \E i \in Jobs : Owner(i)'
  <2>1. lockKey[j] # k /\ cache'[k] = cache[k] /\ leaked'[k] = leaked[k]
    BY <1>0, <1>2 DEF Del, TypeOK
  <2>2. \A i \in Jobs : Owner(i) => Owner(i)'
    BY <1>0, <1>2, <2>1 DEF Del, Goto, TypeOK, OwesDelete
  <2> QED BY <1>0, <2>1, <2>2
<1>3. ASSUME NEW j \in Jobs, SetFails(j) \/ Crash(j)
      PROVE  leaked'[k] \/ \E i \in Jobs : Owner(i)'
  <2>1. cache' = cache /\ lockKey' = lockKey /\ LeaveBehind(j)
    BY <1>3 DEF SetFails, Crash
  <2>2. leaked[k] => leaked'[k]
    BY <1>0, <2>1 DEF LeaveBehind, TypeOK
  <2>3. Owner(j) => leaked'[k] \/ Owner(j)'
    BY <1>0, <2>1 DEF LeaveBehind, TypeOK
  <2>4. \A i \in Jobs : i # j /\ Owner(i) => Owner(i)'
    BY <1>0, <1>3, <2>1 DEF SetFails, Crash, Goto, TypeOK, OwesDelete
  <2> QED BY <1>0, <2>1, <2>2, <2>3, <2>4
<1>4. ASSUME cache' = cache, leaked' = leaked, \A i \in Jobs : Owner(i) => Owner(i)'
      PROVE  leaked'[k] \/ \E i \in Jobs : Owner(i)'
  BY <1>0, <1>4
<1>5. ASSUME NEW j \in Jobs,
             \/ Construct(j) \/ Get(j) \/ Denied(j) \/ Acquired(j)
             \/ Process(j) \/ DelFails(j) \/ End(j)
      PROVE  cache' = cache /\ leaked' = leaked /\ \A i \in Jobs : Owner(i) => Owner(i)'
  <2>1. cache' = cache /\ leaked' = leaked
    BY <1>5 DEF Construct, Get, Denied, Acquired, Process, DelFails, End
  <2>2. CASE Construct(j)
    BY <1>0, <2>1, <2>2 DEF Construct, Goto, TypeOK, OwesDelete, OrphanInv, AbsentHoldNothing
  <2>3. CASE Get(j)
    BY <1>0, <2>1, <2>3 DEF Get, Goto, TypeOK, OwesDelete
  <2>4. CASE Denied(j)
    BY <1>0, <2>1, <2>4 DEF Denied, Goto, TypeOK, OwesDelete
  <2>5. CASE Acquired(j)
    BY <1>0, <2>1, <2>5 DEF Acquired, Goto, TypeOK, OwesDelete
  <2>6. CASE Process(j)
    BY <1>0, <2>1, <2>6 DEF Process, Goto, TypeOK, OwesDelete
  <2>7. CASE DelFails(j)
    BY <1>0, <2>1, <2>7 DEF DelFails, Goto, TypeOK, OwesDelete
  <2>8. CASE End(j)
    BY <1>0, <2>1, <2>8 DEF End, Goto, TypeOK, OwesDelete
  <2> QED BY <1>5, <2>1, <2>2, <2>3, <2>4, <2>5, <2>6, <2>7, <2>8
<1>6. NewDay \/ UNCHANGED vars
        => cache' = cache /\ leaked' = leaked /\ \A i \in Jobs : Owner(i) => Owner(i)'
  BY DEF NewDay, vars, OwesDelete
<1> QED BY <1>1, <1>2, <1>3, <1>4, <1>5, <1>6 DEF Next, Run

\* No way through run(), however it fails, returns with the lock left in the
\* store: only the death of its writer or a lost answer of the write does that.
THEOREM LocksHaveOwners == Spec => []NoOrphanLock
<1>1. OrphanInv => NoOrphanLock
  BY DEF OrphanInv
<1> QED BY <1>1, OrphanInit, OrphanStep, PTL DEF Spec

=============================================================================
