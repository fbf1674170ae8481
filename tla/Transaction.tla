---------------------------- MODULE Transaction ----------------------------
(***************************************************************************)
(* BaseRepository.withTransaction (src/shares/mongoose/base-repository.ts): *)
(* a session, the driver's withTransaction, which may call fn and commit   *)
(* several times, a closure that keeps the result of the last call, and a  *)
(* finally block that does not wait for endSession.  Calls are independent *)
(* up to conflicts, in which the server aborts one of them.                *)
(***************************************************************************)
EXTENDS Integers, FiniteSets

CONSTANTS
    Calls,
    MaxAttempts     \* bound: calls of fn; the driver stops after two minutes

ASSUME BoundsAssumption == MaxAttempts \in Nat \ {0}

VARIABLES
    pc,         \* pc[c]: where the call is
    attempt,    \* attempt[c]: how often fn has been called
    result,     \* result[c]: the attempt whose value the closure holds, 0 if none
    server,     \* server[c]: state of the running transaction
    applied,    \* applied[c]: attempts whose writes are durable
    session,    \* session[c]
    doubt,      \* history: calls a commit of which failed with unknown outcome
    withdrawn   \* history: calls whose fn aborted the transaction itself

vars == <<pc, attempt, result, server, applied, session, doubt, withdrawn>>

Places == {"idle", "fn", "commit", "return", "catch", "returned", "threw"}

TypeOK ==
    /\ pc \in [Calls -> Places]
    /\ attempt \in [Calls -> 0..MaxAttempts]
    /\ result \in [Calls -> 0..MaxAttempts]
    /\ server \in [Calls -> {"none", "active", "aborted", "committed"}]
    /\ applied \in [Calls -> SUBSET (0..MaxAttempts)]
    /\ session \in [Calls -> {"none", "open", "ending", "ended"}]
    /\ doubt \subseteq Calls /\ withdrawn \subseteq Calls

Init ==
    /\ pc = [c \in Calls |-> "idle"]
    /\ attempt = [c \in Calls |-> 0]
    /\ result = [c \in Calls |-> 0]
    /\ server = [c \in Calls |-> "none"]
    /\ applied = [c \in Calls |-> {}]
    /\ session = [c \in Calls |-> "none"]
    /\ doubt = {} /\ withdrawn = {}

-----------------------------------------------------------------------------
(* startSession and fn.                                                     *)

\* The driver starts a transaction and calls fn.
CallFn(c) ==
    /\ attempt[c] < MaxAttempts
    /\ attempt' = [attempt EXCEPT ![c] = @ + 1]
    /\ server' = [server EXCEPT ![c] = "active"]
    /\ pc' = [pc EXCEPT ![c] = "fn"]

StartSession(c) ==
    /\ pc[c] = "idle"
    /\ session' = [session EXCEPT ![c] = "open"]
    /\ CallFn(c)
    /\ UNCHANGED <<result, applied, doubt, withdrawn>>

\* startSession is outside of the try block.
StartFails(c) ==
    /\ pc[c] = "idle"
    /\ pc' = [pc EXCEPT ![c] = "threw"]
    /\ UNCHANGED <<attempt, result, server, applied, session, doubt, withdrawn>>

\* The closure keeps the first result.
BugFnResolves(c) ==
    /\ pc[c] = "fn"
    /\ result' = [result EXCEPT ![c] = IF @ = 0 THEN attempt[c] ELSE @]
    /\ pc' = [pc EXCEPT ![c] = "commit"]
    /\ UNCHANGED <<attempt, server, applied, session, doubt, withdrawn>>

\* result = await fn(ses), and the driver goes on to commit.
FnResolves(c) ==
    /\ pc[c] = "fn"
    /\ result' = [result EXCEPT ![c] = attempt[c]]
    /\ pc' = [pc EXCEPT ![c] = "commit"]
    /\ UNCHANGED <<attempt, server, applied, session, doubt, withdrawn>>

\* fn aborts the transaction and resolves: the driver returns without a commit.
FnWithdraws(c) ==
    /\ pc[c] = "fn"
    /\ result' = [result EXCEPT ![c] = attempt[c]]
    /\ server' = [server EXCEPT ![c] = "aborted"]
    /\ withdrawn' = withdrawn \cup {c}
    /\ pc' = [pc EXCEPT ![c] = "return"]
    /\ UNCHANGED <<attempt, applied, session, doubt>>

\* fn rejects with a transient error of the transaction, and is called again.
FnRetries(c) ==
    /\ pc[c] = "fn"
    /\ CallFn(c)
    /\ UNCHANGED <<result, applied, session, doubt, withdrawn>>

\* fn rejects with another error, or the time is over: the driver aborts.
FnRejects(c) ==
    /\ pc[c] = "fn"
    /\ server' = [server EXCEPT ![c] = "aborted"]
    /\ pc' = [pc EXCEPT ![c] = "catch"]
    /\ UNCHANGED <<attempt, result, applied, session, doubt, withdrawn>>

-----------------------------------------------------------------------------
(* The commit.                                                              *)

\* A write conflict, an election or the lifetime limit.
ServerAborts(c) ==
    /\ server[c] = "active"
    /\ server' = [server EXCEPT ![c] = "aborted"]
    /\ UNCHANGED <<pc, attempt, result, applied, session, doubt, withdrawn>>

\* A commit reaches the server, possibly after the driver has given it up.
ServerCommits(c) ==
    /\ pc[c] = "commit" \/ c \in doubt
    /\ server[c] = "active"
    /\ server' = [server EXCEPT ![c] = "committed"]
    /\ applied' = [applied EXCEPT ![c] = @ \cup {attempt[c]}]
    /\ UNCHANGED <<pc, attempt, result, session, doubt, withdrawn>>

\* The answer, or that of a repeated commit if the first was lost.
CommitSucceeds(c) ==
    /\ pc[c] = "commit" /\ server[c] = "committed"
    /\ pc' = [pc EXCEPT ![c] = "return"]
    /\ UNCHANGED <<attempt, result, server, applied, session, doubt, withdrawn>>

\* The transaction is gone (TransientTransactionError): all over again.
CommitRetries(c) ==
    /\ pc[c] = "commit" /\ server[c] = "aborted"
    /\ CallFn(c)
    /\ UNCHANGED <<result, applied, session, doubt, withdrawn>>

\* The same with the time over.
CommitRefused(c) ==
    /\ pc[c] = "commit" /\ server[c] = "aborted"
    /\ pc' = [pc EXCEPT ![c] = "catch"]
    /\ UNCHANGED <<attempt, result, server, applied, session, doubt, withdrawn>>

\* The failure is taken for a sign that nothing was written.
BugCommitUnknown(c) ==
    /\ pc[c] = "commit"
    /\ CallFn(c)
    /\ UNCHANGED <<result, applied, session, doubt, withdrawn>>

\* Any other failure of the commit leaves open whether it has taken effect.
CommitUnknown(c) ==
    /\ pc[c] = "commit"
    /\ pc' = [pc EXCEPT ![c] = "catch"]
    /\ doubt' = doubt \cup {c}
    /\ UNCHANGED <<attempt, result, server, applied, session, withdrawn>>

-----------------------------------------------------------------------------
(* The end of the call.                                                     *)

\* The finally block: endSession is called and not waited for.
Finally(c) == session' = [session EXCEPT ![c] = "ending"]

\* The catch block tries again instead of rejecting.
BugThrow(c) ==
    /\ pc[c] = "catch"
    /\ CallFn(c)
    /\ UNCHANGED <<result, applied, session, doubt, withdrawn>>

\* The error, 'LOG_BODY_TOO_LARGE', or what JSON.stringify throws.
Throw(c) ==
    /\ pc[c] = "catch"
    /\ pc' = [pc EXCEPT ![c] = "threw"]
    /\ Finally(c)
    /\ UNCHANGED <<attempt, result, server, applied, doubt, withdrawn>>

\* endSession comes after the try block, which returns, instead of in finally.
BugReturn(c) ==
    /\ pc[c] = "return"
    /\ pc' = [pc EXCEPT ![c] = "returned"]
    /\ UNCHANGED <<attempt, result, server, applied, session, doubt, withdrawn>>

\* What is made of the result inside the try block may throw.
BugReturnThrows(c) ==
    /\ pc[c] = "return"
    /\ \/ pc' = [pc EXCEPT ![c] = "catch"] /\ UNCHANGED session
       \/ pc' = [pc EXCEPT ![c] = "returned"] /\ Finally(c)
    /\ UNCHANGED <<attempt, result, server, applied, doubt, withdrawn>>

Return(c) ==
    /\ pc[c] = "return"
    /\ pc' = [pc EXCEPT ![c] = "returned"]
    /\ Finally(c)
    /\ UNCHANGED <<attempt, result, server, applied, doubt, withdrawn>>

EndSession(c) ==
    /\ session[c] = "ending"
    /\ session' = [session EXCEPT ![c] = "ended"]
    /\ UNCHANGED <<pc, attempt, result, server, applied, doubt, withdrawn>>

Fn(c) == FnResolves(c) \/ FnWithdraws(c) \/ FnRetries(c) \/ FnRejects(c)

Commit(c) == CommitSucceeds(c) \/ CommitRetries(c) \/ CommitRefused(c) \/ CommitUnknown(c)

End(c) == Throw(c) \/ Return(c) \/ EndSession(c)

Next ==
    \E c \in Calls :
        \/ StartSession(c) \/ StartFails(c) \/ Fn(c) \/ Commit(c) \/ End(c)
        \/ ServerAborts(c) \/ ServerCommits(c)

Spec == Init /\ [][Next]_vars

\* fn settles, the driver gives a commit up after two minutes, and the event loop
\* goes on.
Fairness == \A c \in Calls : WF_vars(Fn(c)) /\ WF_vars(Commit(c)) /\ WF_vars(End(c))

FairSpec == Spec /\ Fairness

-----------------------------------------------------------------------------
(* Properties.                                                              *)

\* The caller receives the value of the attempt whose writes are applied, and of
\* no other, however often fn was called; if fn itself withdrew, its value comes
\* with no writes at all (the closure and return result).
ReturnMatchesWrites ==
    \A c \in Calls : pc[c] \in {"return", "returned"} =>
        /\ result[c] = attempt[c]
        /\ applied[c] = IF c \in withdrawn THEN {} ELSE {result[c]}

\* Of all calls of fn at most one leaves writes, also if a commit that was given
\* up takes effect after the call has ended.
AppliedOnce == \A c \in Calls : Cardinality(applied[c]) <= 1

\* An error means that nothing was written, unless a commit failed with unknown
\* outcome: the catch block gives the caller the error and no way to tell.
ErrorMeansNothing ==
    \A c \in Calls : pc[c] \in {"catch", "threw"} /\ c \notin doubt => applied[c] = {}

\* What the caller knows of a call, and whether an error leaves it in doubt.
Outcome(c) ==
    CASE pc[c] = "returned" -> IF c \in withdrawn THEN "withdrawn" ELSE "returned"
      [] pc[c] = "threw" -> IF c \in doubt THEN "doubtful" ELSE "failed"
      [] OTHER -> "running"

Value(c) == IF pc[c] = "returned" THEN result[c] ELSE 0

Call == INSTANCE AtomicCall WITH
    Runs <- 1..MaxAttempts,
    NoRun <- 0,
    outcome <- [c \in Calls |-> Outcome(c)],
    value <- [c \in Calls |-> Value(c)],
    written <- applied

\* A call is atomic as AtomicCall says, although the driver repeats fn and commits,
\* answers are lost and a commit may outlive the call: what was written is never
\* joined by the writes of another attempt, and a call that ended without doubt
\* has had all the effect it will ever have (withTransaction).
ImplementsAtomicCall == Call!Spec

\* A call is under way exactly while its session is open: whichever way it ends,
\* endSession has been called by then, and never before (the finally block).
SessionWhileUnderWay ==
    \A c \in Calls : session[c] = "open" <=> pc[c] \in {"fn", "commit", "return", "catch"}

\* A session that was started is ended, whatever becomes of the transaction, but
\* its end may come after the call's (the finally block).
SessionEnds == \A c \in Calls : session[c] = "open" ~> session[c] = "ended"

=============================================================================
