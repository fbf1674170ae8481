------------------------------ MODULE CronLock ------------------------------
(***************************************************************************)
(* The day lock of cron jobs (src/modules/cron/base.cron.ts): a job reads  *)
(* the lock of its day, refuses to work if another host holds it, writes   *)
(* its own host name, works, and deletes the lock.  The read and the write *)
(* are two calls to a store shared by all hosts, any of which may fail     *)
(* before or after it took effect; the lock has no expiry and a job may    *)
(* die anywhere.                                                           *)
(***************************************************************************)
EXTENDS Integers

CONSTANTS
    Jobs,       \* the cron processes, one BaseCron object each
    Hosts,
    HostOf,     \* HostOf[j]: os.hostname() where j runs
    MaxDay,     \* bound: days
    Free        \* the lock is not in the store

ASSUME HostsAssumption == HostOf \in [Jobs -> Hosts] /\ Free \notin Hosts

ASSUME DaysAssumption == MaxDay \in Nat

\* Operators whose name begins with Bug are plausible mistakes in the code, used
\* by no specification: each shows that some property would notice it.

VARIABLES
    today,
    pc,             \* pc[j]: see Stages
    lockKey,        \* lockKey[j]: the day j was constructed on
    locked,         \* locked[j]: what get returned to j, while tryToLock runs
    holdingLock,
    cache,          \* cache[k]: the host name stored for day k, or Free
    leaked,         \* history: the entry of day k was left behind by its writer
    breach          \* history: how the lock of day k was undermined, see Set and Del

vars == <<today, pc, lockKey, locked, holdingLock, cache, leaked, breach>>

Days == 0..MaxDay

\* "deleted" and "failDeleted": del took effect, its answer is outstanding.
Stages == {"absent", "ready", "checking", "setting", "processing",
           "succeeding", "deleted", "failing", "failDeleted", "rejected"}

TypeOK ==
    /\ today \in Days
    /\ pc \in [Jobs -> Stages]
    /\ lockKey \in [Jobs -> Days]
    /\ locked \in [Jobs -> Hosts \cup {Free}]
    /\ holdingLock \in [Jobs -> BOOLEAN]
    /\ cache \in [Days -> Hosts \cup {Free}]
    /\ leaked \in [Days -> BOOLEAN]
    /\ breach \in [Days -> SUBSET {"staleRead", "earlyDelete"}]

Init ==
    /\ today = 0
    /\ pc = [j \in Jobs |-> "absent"]
    /\ lockKey = [j \in Jobs |-> 0]
    /\ locked = [j \in Jobs |-> Free]
    /\ holdingLock = [j \in Jobs |-> FALSE]
    /\ cache = [k \in Days |-> Free]
    /\ leaked = [k \in Days |-> FALSE]
    /\ breach = [k \in Days |-> {}]

Goto(j, stage) == pc' = [pc EXCEPT ![j] = stage]

\* tryToLock is over.
ForgetRead(j) == locked' = [locked EXCEPT ![j] = Free]

\* j is about to work, or works, under the lock of its day.
Entitled(j) == pc[j] \in {"setting", "processing"}

\* The entry j wrote has yet to be deleted by j.
OwesDelete(j) ==
    \/ pc[j] = "setting"
    \/ holdingLock[j] /\ pc[j] \notin {"deleted", "failDeleted"}

\* If j is gone or has given up, and the entry in the store is its own, it stays.
LeaveBehind(j) ==
    leaked' = [leaked EXCEPT ![lockKey[j]] =
        @ \/ (OwesDelete(j) /\ ~OwesDelete(j)' /\ cache[lockKey[j]] = HostOf[j])]

-----------------------------------------------------------------------------
NewDay ==
    /\ today < MaxDay
    /\ today' = today + 1
    /\ UNCHANGED <<pc, lockKey, locked, holdingLock, cache, leaked, breach>>

Construct(j) ==
    /\ pc[j] = "absent"
    /\ Goto(j, "ready")
    /\ lockKey' = [lockKey EXCEPT ![j] = today]
    /\ UNCHANGED <<today, locked, holdingLock, cache, leaked, breach>>

-----------------------------------------------------------------------------
(* tryToLock                                                                *)

\* run() and init() lead straight to the get of tryToLock.  run() may be called again
\* on an object whose last run was rejected, which then still has its holdingLock.
Get(j) ==
    /\ pc[j] \in {"ready", "rejected"}
    /\ \/ Goto(j, "checking") /\ locked' = [locked EXCEPT ![j] = cache[lockKey[j]]]
       \/ Goto(j, "failing") /\ UNCHANGED locked
    /\ UNCHANGED <<today, lockKey, holdingLock, cache, leaked, breach>>

\* The stored host name is not looked at.
BugNoCheck(j) == FALSE

LockedByOther(j) == locked[j] \notin {Free, HostOf[j]}

Denied(j) ==
    /\ pc[j] = "checking" /\ LockedByOther(j)
    /\ Goto(j, "failing")
    /\ ForgetRead(j)
    /\ UNCHANGED <<today, lockKey, holdingLock, cache, leaked, breach>>

\* The write takes effect.  It is a breach if the entry has become another host's
\* since j read it.
Set(j) ==
    /\ pc[j] = "checking" /\ ~LockedByOther(j)
    /\ Goto(j, "setting")
    /\ cache' = [cache EXCEPT ![lockKey[j]] = HostOf[j]]
    /\ leaked' = [leaked EXCEPT ![lockKey[j]] = FALSE]
    /\ breach' = [breach EXCEPT ![lockKey[j]] =
                    IF cache[lockKey[j]] \in {Free, HostOf[j], locked[j]}
                    THEN @ ELSE @ \cup {"staleRead"}]
    /\ UNCHANGED <<today, lockKey, locked, holdingLock>>

\* The write fails without effect, or only its answer is lost.
SetFails(j) ==
    /\ pc[j] = "setting" \/ (pc[j] = "checking" /\ ~LockedByOther(j))
    /\ Goto(j, "failing")
    /\ ForgetRead(j)
    /\ UNCHANGED <<today, lockKey, holdingLock, cache, breach>>
    /\ LeaveBehind(j)

\* holdingLock = true is forgotten.
BugNotHolding(j) ==
    /\ pc[j] = "setting"
    /\ Goto(j, "processing")
    /\ ForgetRead(j)
    /\ UNCHANGED <<today, lockKey, holdingLock, cache, leaked, breach>>

Acquired(j) ==
    /\ pc[j] = "setting"
    /\ Goto(j, "processing")
    /\ holdingLock' = [holdingLock EXCEPT ![j] = TRUE]
    /\ ForgetRead(j)
    /\ UNCHANGED <<today, lockKey, cache, leaked, breach>>

-----------------------------------------------------------------------------
(* process(), endSucceeded and endFailed with tryToUnlock                   *)

Process(j) ==
    /\ pc[j] = "processing"
    /\ Goto(j, "succeeding") \/ Goto(j, "failing")
    /\ UNCHANGED <<today, lockKey, locked, holdingLock, cache, leaked, breach>>

\* The deletion takes effect, whosever entry it is: another host's, too, if j was
\* denied the lock in a run after one that was rejected.  It is a breach if somebody
\* works under it.
Del(j) ==
    /\ holdingLock[j]
    /\ \/ pc[j] = "succeeding" /\ Goto(j, "deleted")
       \/ pc[j] = "failing" /\ Goto(j, "failDeleted")
    /\ cache' = [cache EXCEPT ![lockKey[j]] = Free]
    /\ leaked' = [leaked EXCEPT ![lockKey[j]] = FALSE]
    /\ breach' = [breach EXCEPT ![lockKey[j]] =
            IF \E i \in Jobs : Entitled(i) /\ lockKey[i] = lockKey[j]
            THEN @ \cup {"earlyDelete"} ELSE @]
    /\ UNCHANGED <<today, lockKey, locked, holdingLock>>

\* The deletion fails, with or without effect.  In endSucceeded the error leads
\* to endFailed, which deletes again; there it rejects run() itself.
DelFails(j) ==
    /\ \/ pc[j] \in {"succeeding", "deleted"} /\ Goto(j, "failing")
       \/ /\ (pc[j] = "failing" /\ holdingLock[j]) \/ pc[j] = "failDeleted"
          /\ Goto(j, "rejected")
    /\ UNCHANGED <<today, lockKey, locked, holdingLock, cache, leaked, breach>>

\* endFailed does not unlock.
BugFailureKeepsLock(j) ==
    /\ pc[j] \in {"deleted", "failDeleted", "failing"}
    /\ Goto(j, "absent") \/ Goto(j, "ready")
    /\ holdingLock' = [holdingLock EXCEPT ![j] = FALSE]
    /\ UNCHANGED <<today, lockKey, locked, cache, leaked, breach>>

\* tryToUnlock is over: process.exit if runByCronjob, else run() may be called
\* again on the same object.  In endFailed an error that JSON.stringify cannot
\* handle rejects run() before the exit.
End(j) ==
    /\ \/ pc[j] \in {"deleted", "failDeleted"}
       \/ pc[j] \in {"succeeding", "failing"} /\ ~holdingLock[j]
    /\ \/ Goto(j, "absent") \/ Goto(j, "ready")
       \/ pc[j] \in {"failing", "failDeleted"} /\ Goto(j, "rejected")
    /\ holdingLock' = [holdingLock EXCEPT ![j] = FALSE]
    /\ UNCHANGED <<today, lockKey, locked, cache, leaked, breach>>

Crash(j) ==
    /\ pc[j] # "absent"
    /\ Goto(j, "absent")
    /\ holdingLock' = [holdingLock EXCEPT ![j] = FALSE]
    /\ LeaveBehind(j)
    /\ ForgetRead(j)
    /\ UNCHANGED <<today, lockKey, cache, breach>>

Run(j) ==
    \/ Denied(j) \/ Set(j) \/ SetFails(j) \/ Acquired(j)
    \/ Process(j) \/ Del(j) \/ DelFails(j) \/ End(j)

Next == NewDay \/ \E j \in Jobs : Construct(j) \/ Get(j) \/ Run(j) \/ Crash(j)

Spec == Init /\ [][Next]_vars

\* A run that has begun goes on: the store answers or fails, process() ends.
FairSpec == Spec /\ \A j \in Jobs : WF_vars(Run(j))

-----------------------------------------------------------------------------
(* Properties.                                                              *)

Overlap(i, j) ==
    /\ pc[i] = "processing" /\ pc[j] = "processing"
    /\ lockKey[i] = lockKey[j] /\ HostOf[i] # HostOf[j]

\* What the comment "Avoid race conditional" of tryToLock says of the check: no
\* two hosts are in process() under the lock of the same day.
MutualExclusion == \A i, j \in Jobs : ~Overlap(i, j)

\* Two hosts work under the lock of a day only after one of two mishaps: a job
\* wrote the lock although it had become another host's since the job read it, or
\* a job deleted an entry another job was working under.
ExclusionUnlessBreached ==
    \A i, j \in Jobs : Overlap(i, j) => breach[lockKey[i]] # {}

\* The day under whose lock j works, and the days with a mishap.
Under(j) == IF Entitled(j) THEN {lockKey[j]} ELSE {}

Broken == {k \in Days : breach[k] # {}}

Lock == INSTANCE DayLock WITH
    entry <- cache, under <- [j \in Jobs |-> Under(j)], broken <- Broken

\* Apart from these two mishaps the lock, whose check and write are calls of their
\* own and may fail or lose their answers, is a lock that is checked and taken at
\* once; a job works under the key it was built with, whatever day it is.
ImplementsDayLock == Lock!Spec

\* A lock in the store belongs to a job of that host which still counts as its
\* holder (holdingLock, or the answer of the write is outstanding), unless its
\* writer died or lost that answer: however run() fails, no job forgets a lock
\* it has not deleted (tryToLock, tryToUnlock, endSucceeded, endFailed).
NoOrphanLock ==
    \A k \in Days : cache[k] # Free =>
        \/ leaked[k]
        \/ \E j \in Jobs : lockKey[j] = k /\ HostOf[j] = cache[k] /\ OwesDelete(j)

\* A lock is eventually deleted, or left behind by a writer that died, or stuck
\* with a job whose last attempt to delete it failed.
LockEventuallyReleased ==
    \A k \in Days : cache[k] # Free ~>
        \/ cache[k] = Free \/ leaked[k]
        \/ \E j \in Jobs : lockKey[j] = k /\ pc[j] = "rejected" /\ holdingLock[j]

=============================================================================
