------------------------------ MODULE DayLock ------------------------------
(***************************************************************************)
(* The lock of a day as users of BaseCron may picture it: an entry that is *)
(* looked at and taken in one step, workers that come and go, and an entry *)
(* that is cleared.  The lock of a day is broken from the moment somebody  *)
(* takes it although another host's entry is there, or clears it over the  *)
(* heads of its workers; nothing else breaks it: no failing call, no       *)
(* crash, no entry left behind and no midnight.                            *)
(***************************************************************************)
CONSTANTS Jobs, Hosts, HostOf, Days, Free

VARIABLES
    entry,      \* entry[k]: the host that has taken the lock of day k, or Free
    under,      \* under[j]: the day under whose lock job j works, {} if it does not
    broken      \* the days whose lock was broken

lockVars == <<entry, under, broken>>

Init ==
    /\ entry = [k \in Days |-> Free]
    /\ under = [j \in Jobs |-> {}]
    /\ broken = {}

\* The entry stays: a job that ends has yet to clear it, one that dies never will.
Leave(j) ==
    /\ UNCHANGED <<entry, broken>>
    /\ under' = [under EXCEPT ![j] = {}]

Take(j, k) ==
    /\ entry' = [entry EXCEPT ![k] = HostOf[j]]
    /\ under' = [under EXCEPT ![j] = {k}]
    /\ broken' = IF entry[k] \in {Free, HostOf[j]} THEN broken ELSE broken \cup {k}

Clear(k) ==
    /\ UNCHANGED under
    /\ entry' = [entry EXCEPT ![k] = Free]
    /\ broken' = IF \E j \in Jobs : k \in under[j] THEN broken \cup {k} ELSE broken

Next ==
    \/ \E j \in Jobs : Leave(j) \/ \E k \in Days : Take(j, k)
    \/ \E k \in Days : Clear(k)

Spec == Init /\ [][Next]_lockVars

-----------------------------------------------------------------------------
\* Until the lock of a day is broken, its workers are of the one host that has
\* taken it (tryToLock, tryToUnlock).
Exclusive ==
    \A j \in Jobs : \A k \in under[j] \ broken : entry[k] = HostOf[j]

=============================================================================
