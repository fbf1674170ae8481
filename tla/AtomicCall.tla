----------------------------- MODULE AtomicCall -----------------------------
(***************************************************************************)
(* What a caller of withTransaction may rely on, with no word of sessions, *)
(* repetitions or the state of a commit.  Of all runs of the caller's      *)
(* function at most one has its writes applied, at once, and they are      *)
(* never undone; a value that is returned is that of the run whose writes  *)
(* are there, or of a run that gave its writes up.  A call that failed has *)
(* written nothing and never will.  Only a call that failed in doubt may   *)
(* have written, or write later; its caller sees the same error.           *)
(***************************************************************************)
EXTENDS Integers

CONSTANTS
    Calls,
    Runs,       \* the runs of the function
    NoRun

VARIABLES
    outcome,    \* outcome[c]: what has become of the call
    value,      \* value[c]: the run whose value was returned
    written     \* written[c]: the runs whose writes are there

callVars == <<outcome, value, written>>

Init ==
    /\ outcome = [c \in Calls |-> "running"]
    /\ value = [c \in Calls |-> NoRun]
    /\ written = [c \in Calls |-> {}]

\* The writes of a run, all at once.
Apply(c, v) ==
    /\ outcome[c] \in {"running", "doubtful"} /\ written[c] = {}
    /\ written' = [written EXCEPT ![c] = {v}]
    /\ UNCHANGED <<outcome, value>>

Return(c, v) ==
    /\ outcome[c] = "running" /\ written[c] = {v}
    /\ outcome' = [outcome EXCEPT ![c] = "returned"]
    /\ value' = [value EXCEPT ![c] = v]
    /\ UNCHANGED written

\* The value of a run that gave its writes up.
Withdraw(c, v) ==
    /\ outcome[c] = "running" /\ written[c] = {}
    /\ outcome' = [outcome EXCEPT ![c] = "withdrawn"]
    /\ value' = [value EXCEPT ![c] = v]
    /\ UNCHANGED written

Fail(c) ==
    /\ outcome[c] = "running" /\ written[c] = {}
    /\ outcome' = [outcome EXCEPT ![c] = "failed"]
    /\ UNCHANGED <<value, written>>

FailInDoubt(c) ==
    /\ outcome[c] = "running"
    /\ outcome' = [outcome EXCEPT ![c] = "doubtful"]
    /\ UNCHANGED <<value, written>>

Next ==
    \E c \in Calls :
        \/ \E v \in Runs : Apply(c, v) \/ Return(c, v) \/ Withdraw(c, v)
        \/ Fail(c) \/ FailInDoubt(c)

Spec == Init /\ [][Next]_callVars

-----------------------------------------------------------------------------
KeepsEnded ==
    \A c \in Calls : outcome[c] \in {"returned", "withdrawn", "failed"} =>
        UNCHANGED <<outcome[c], value[c], written[c]>>

\* Once a call is over and not in doubt, neither what it returned nor what it has
\* written ever changes (withTransaction: no commit is under way any more).
EndedIsFinal == [][KeepsEnded]_callVars

=============================================================================
