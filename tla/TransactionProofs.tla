-------------------------- MODULE TransactionProofs --------------------------
(***************************************************************************)
(* Theorems about Transaction for any number of calls and attempts.        *)
(***************************************************************************)
EXTENDS Transaction, FiniteSetTheorems, TLAPS

-----------------------------------------------------------------------------
(* Type correctness.                                                       *)

LEMMA TypeInit == Init => TypeOK
BY BoundsAssumption DEF Init, TypeOK, Places

LEMMA CallFnType ==
  ASSUME TypeOK, NEW c \in Calls, CallFn(c)
  PROVE  /\ attempt' \in [Calls -> 0..MaxAttempts]
         /\ server' \in [Calls -> {"none", "active", "aborted", "committed"}]
         /\ pc' \in [Calls -> Places]
         /\ attempt'[c] = attempt[c] + 1 /\ server'[c] = "active" /\ pc'[c] = "fn"
         /\ \A b \in Calls \ {c} :
               attempt'[b] = attempt[b] /\ server'[b] = server[b] /\ pc'[b] = pc[b]
<1>1. attempt[c] + 1 \in 0..MaxAttempts
  BY BoundsAssumption DEF TypeOK, CallFn
<1> QED BY <1>1 DEF TypeOK, CallFn, Places

LEMMA TypeStep == TypeOK /\ [Next]_vars => TypeOK'
<1> SUFFICES ASSUME TypeOK, [Next]_vars PROVE TypeOK'
  OBVIOUS
<1>1. ASSUME NEW c \in Calls, StartSession(c) \/ FnRetries(c) \/ CommitRetries(c)
      PROVE  TypeOK'
  <2>1. CallFn(c)
    BY <1>1 DEF StartSession, FnRetries, CommitRetries
  <2>2. /\ attempt' \in [Calls -> 0..MaxAttempts]
        /\ server' \in [Calls -> {"none", "active", "aborted", "committed"}]
        /\ pc' \in [Calls -> Places]
    BY <2>1, CallFnType
  <2> QED BY <1>1, <2>2 DEF StartSession, FnRetries, CommitRetries, TypeOK
<1>2. ASSUME NEW c \in Calls, StartFails(c) \/ FnRejects(c) \/ CommitSucceeds(c)
                               \/ CommitRefused(c) \/ CommitUnknown(c)
      PROVE  TypeOK'
  BY <1>2 DEF StartFails, FnRejects, CommitSucceeds, CommitRefused, CommitUnknown, TypeOK, Places
<1>3. ASSUME NEW c \in Calls, FnResolves(c) \/ FnWithdraws(c) PROVE TypeOK'
  BY <1>3 DEF FnResolves, FnWithdraws, TypeOK, Places
<1>4. ASSUME NEW c \in Calls, ServerAborts(c) PROVE TypeOK'
  BY <1>4 DEF ServerAborts, TypeOK
<1>5. ASSUME NEW c \in Calls, ServerCommits(c) PROVE TypeOK'
  BY <1>5 DEF ServerCommits, TypeOK
<1>6. ASSUME NEW c \in Calls, Throw(c) \/ Return(c) \/ EndSession(c) PROVE TypeOK'
  BY <1>6 DEF Throw, Return, EndSession, Finally, TypeOK, Places
<1>7. CASE UNCHANGED vars
  BY <1>7 DEF vars, TypeOK
<1> QED BY <1>1, <1>2, <1>3, <1>4, <1>5, <1>6, <1>7 DEF Next, Fn, Commit, End

\* The variables of a call keep their types.
THEOREM TypeCorrect == Spec => []TypeOK
BY TypeInit, TypeStep, PTL DEF Spec

-----------------------------------------------------------------------------
(* What has been written at each point of a call.                          *)

\* Only the running transaction can have written, and a transaction that is given
\* up, by fn, by the server or by the driver, has not.
Written(c) ==
    /\ applied[c] = IF server[c] = "committed" THEN {attempt[c]} ELSE {}
    /\ c \in doubt => pc[c] \in {"catch", "threw"}
    /\ c \in withdrawn => pc[c] \in {"return", "returned"} /\ server[c] = "aborted"
    /\ pc[c] \in {"idle", "fn"} => server[c] # "committed"
    /\ pc[c] \in {"commit", "return", "returned"} => result[c] = attempt[c]
    /\ pc[c] \in {"return", "returned"} /\ c \notin withdrawn => server[c] = "committed"
    /\ pc[c] \in {"catch", "threw"} /\ c \notin doubt => server[c] \in {"none", "aborted"}
    /\ pc[c] = "idle" => server[c] = "none"
    /\ attempt[c] = 0 => pc[c] \in {"idle", "threw"} /\ server[c] = "none"

WrittenInv == \A c \in Calls : Written(c)

LEMMA WrittenInit == Init => WrittenInv
BY DEF Init, WrittenInv, Written

\* Nobody else's step matters to a call.
LEMMA WrittenStays ==
  ASSUME NEW c, Written(c), pc'[c] = pc[c], attempt'[c] = attempt[c],
         result'[c] = result[c], server'[c] = server[c], applied'[c] = applied[c],
         c \in doubt' <=> c \in doubt, c \in withdrawn' <=> c \in withdrawn
  PROVE  Written(c)'
BY DEF Written

LEMMA WrittenStep == TypeOK /\ WrittenInv /\ [Next]_vars => WrittenInv'
<1> SUFFICES ASSUME TypeOK, WrittenInv, [Next]_vars, NEW c \in Calls PROVE Written(c)'
  BY DEF WrittenInv
<1>0. Written(c)
  BY DEF WrittenInv
<1>1. ASSUME CallFn(c), UNCHANGED <<result, applied, doubt, withdrawn>>,
             pc[c] \in {"idle", "fn", "commit"}, server[c] # "committed"
      PROVE  Written(c)'
  <2>1. server'[c] = "active" /\ pc'[c] = "fn" /\ attempt'[c] # 0
    BY <1>1, CallFnType DEF TypeOK
  <2>2. applied[c] = {} /\ c \notin doubt /\ c \notin withdrawn
    BY <1>0, <1>1 DEF Written
  <2> QED BY <1>1, <2>1, <2>2 DEF Written
<1>2. CASE StartSession(c) \/ FnRetries(c) \/ CommitRetries(c)
  <2>1. /\ CallFn(c) /\ UNCHANGED <<result, applied, doubt, withdrawn>>
        /\ \/ pc[c] \in {"idle", "fn"}
           \/ pc[c] = "commit" /\ server[c] = "aborted"
    BY <1>2 DEF StartSession, FnRetries, CommitRetries
  <2>2. server[c] # "committed"
    BY <1>0, <2>1 DEF Written
  <2> QED BY <1>1, <2>1, <2>2
<1>3. CASE StartFails(c)
  BY <1>0, <1>3 DEF StartFails, Written, TypeOK
<1>4. CASE FnResolves(c)
  BY <1>0, <1>4 DEF FnResolves, Written, TypeOK
<1>5. CASE FnWithdraws(c)
  BY <1>0, <1>5 DEF FnWithdraws, Written, TypeOK
<1>6. CASE FnRejects(c)
  BY <1>0, <1>6 DEF FnRejects, Written, TypeOK
<1>7. CASE ServerAborts(c)
  BY <1>0, <1>7 DEF ServerAborts, Written, TypeOK
<1>8. CASE ServerCommits(c)
  <2>1. /\ server[c] = "active" /\ server'[c] = "committed" /\ pc' = pc /\ attempt' = attempt
        /\ applied'[c] = applied[c] \cup {attempt[c]}
        /\ result' = result /\ doubt' = doubt /\ withdrawn' = withdrawn
        /\ pc[c] = "commit" \/ c \in doubt
    BY <1>8 DEF ServerCommits, TypeOK
  <2>2. applied[c] = {}
    BY <1>0, <2>1 DEF Written
  <2> QED BY <1>0, <2>1, <2>2 DEF Written
<1>9. CASE CommitSucceeds(c) \/ CommitRefused(c)
  BY <1>0, <1>9 DEF CommitSucceeds, CommitRefused, Written, TypeOK
<1>10. CASE CommitUnknown(c)
  BY <1>0, <1>10 DEF CommitUnknown, Written, TypeOK
<1>11. CASE Throw(c) \/ Return(c) \/ EndSession(c)
  BY <1>0, <1>11 DEF Throw, Return, EndSession, Written, TypeOK
<1>12. ASSUME NEW b \in Calls, b # c, StartSession(b) \/ FnRetries(b) \/ CommitRetries(b)
       PROVE  Written(c)'
  <2>1. CallFn(b) /\ UNCHANGED <<result, applied, doubt, withdrawn>>
    BY <1>12 DEF StartSession, FnRetries, CommitRetries
  <2>2. attempt'[c] = attempt[c] /\ server'[c] = server[c] /\ pc'[c] = pc[c]
    BY <1>12, <2>1, CallFnType
  <2> QED BY <1>0, <2>1, <2>2, WrittenStays
<1>13. ASSUME NEW b \in Calls, b # c,
              \/ StartFails(b) \/ FnResolves(b) \/ FnWithdraws(b) \/ FnRejects(b)
              \/ ServerAborts(b) \/ ServerCommits(b) \/ CommitSucceeds(b)
              \/ CommitRefused(b) \/ CommitUnknown(b)
              \/ Throw(b) \/ Return(b) \/ EndSession(b)
       PROVE  Written(c)'
  <2>1. /\ pc'[c] = pc[c] /\ attempt'[c] = attempt[c] /\ result'[c] = result[c]
        /\ server'[c] = server[c] /\ applied'[c] = applied[c]
        /\ (c \in doubt' <=> c \in doubt) /\ (c \in withdrawn' <=> c \in withdrawn)
    BY <1>13 DEF StartFails, FnResolves, FnWithdraws, FnRejects, ServerAborts, ServerCommits,
          CommitSucceeds, CommitRefused, CommitUnknown, Throw, Return, EndSession, TypeOK
  <2> QED BY <1>0, <2>1, WrittenStays
<1>14. CASE UNCHANGED vars
  BY <1>0, <1>14, WrittenStays DEF vars
<1> QED BY <1>2, <1>3, <1>4, <1>5, <1>6, <1>7, <1>8, <1>9, <1>10, <1>11, <1>12, <1>13, <1>14
        DEF Next, Fn, Commit, End

LEMMA Inductive == Spec => [](TypeOK /\ WrittenInv)
<1>1. Init => TypeOK /\ WrittenInv
  BY TypeInit, WrittenInit
<1>2. TypeOK /\ WrittenInv /\ [Next]_vars => (TypeOK /\ WrittenInv)'
  BY TypeStep, WrittenStep
<1> QED BY <1>1, <1>2, PTL DEF Spec

\* The value that withTransaction resolves with is that of the attempt whose writes
\* are applied.
THEOREM ReturnsWhatIsWritten == Spec => []ReturnMatchesWrites
<1>1. TypeOK /\ WrittenInv => ReturnMatchesWrites
  BY DEF WrittenInv, Written, ReturnMatchesWrites
<1> QED BY <1>1, Inductive, PTL

\* However often fn is called, at most one call leaves writes.
THEOREM WrittenOnce == Spec => []AppliedOnce
<1>1. TypeOK /\ WrittenInv => AppliedOnce
  <2> SUFFICES ASSUME WrittenInv, NEW c \in Calls PROVE Cardinality(applied[c]) <= 1
    BY DEF AppliedOnce
  <2>1. applied[c] = {} \/ applied[c] = {attempt[c]}
    BY DEF WrittenInv, Written
  <2>2. Cardinality({}) = 0 /\ Cardinality({attempt[c]}) = 1
    BY FS_EmptySet, FS_Singleton
  <2>3. CASE applied[c] = {}
    BY <2>2, <2>3
  <2>4. CASE applied[c] = {attempt[c]}
    BY <2>2, <2>4
  <2> QED BY <2>1, <2>3, <2>4
<1> QED BY <1>1, Inductive, PTL

\* An error means that nothing was written, unless a commit was in doubt.
THEOREM ErrorsMeanNothing == Spec => []ErrorMeansNothing
<1>1. TypeOK /\ WrittenInv => ErrorMeansNothing
  BY DEF WrittenInv, Written, ErrorMeansNothing
<1> QED BY <1>1, Inductive, PTL

-----------------------------------------------------------------------------
(* Calls are atomic.                                                       *)

\* No call of fn, no commit and no end of a session is seen by the caller.
LEMMA CallStutters ==
  ASSUME applied' = applied,
         \A c \in Calls : Outcome(c)' = Outcome(c) /\ Value(c)' = Value(c)
  PROVE  UNCHANGED Call!callVars
BY DEF Call!callVars

LEMMA CallInit == Init => Call!Init
BY DEF Init, Call!Init, Outcome, Value

\* A step that ends the call c and leaves the others alone.
LEMMA CallEnds ==
  ASSUME TypeOK, NEW c \in Calls, NEW p \in {"returned", "threw"},
         pc[c] \in {"idle", "return", "catch"}, pc' = [pc EXCEPT ![c] = p],
         UNCHANGED <<result, doubt, withdrawn>>
  PROVE  /\ Outcome(c) = "running" /\ Value(c) = 0
         /\ [b \in Calls |-> Outcome(b)]'
                = [[b \in Calls |-> Outcome(b)] EXCEPT ![c] = Outcome(c)']
         /\ [b \in Calls |-> Value(b)]'
                = [[b \in Calls |-> Value(b)] EXCEPT ![c] = Value(c)']
<1>1. Outcome(c) = "running" /\ Value(c) = 0
  BY DEF Outcome, Value
<1>2. \A b \in Calls : b # c => Outcome(b)' = Outcome(b) /\ Value(b)' = Value(b)
  BY DEF Outcome, Value, TypeOK
<1> QED BY <1>1, <1>2

LEMMA CommitApplies ==
  ASSUME TypeOK, WrittenInv, NEW c \in Calls, ServerCommits(c)
  PROVE  Call!Next
<1>1. attempt[c] \in 1..MaxAttempts /\ applied[c] = {} /\ pc[c] \in {"commit", "catch", "threw"}
  <2>1. Written(c) /\ attempt[c] \in 0..MaxAttempts
    BY DEF WrittenInv, TypeOK
  <2>2. server[c] = "active" /\ (pc[c] = "commit" \/ c \in doubt)
    BY DEF ServerCommits
  <2> QED BY <2>1, <2>2, BoundsAssumption DEF Written
<1>2. Outcome(c) \in {"running", "doubtful"}
  BY <1>1 DEF ServerCommits, Outcome
<1>3. applied' = [applied EXCEPT ![c] = {attempt[c]}]
  BY <1>1 DEF ServerCommits
<1>4. \A b \in Calls : Outcome(b)' = Outcome(b) /\ Value(b)' = Value(b)
  BY DEF ServerCommits, Outcome, Value
<1>5. Call!Apply(c, attempt[c])
  BY <1>1, <1>2, <1>3, <1>4 DEF Call!Apply
<1> QED BY <1>1, <1>5 DEF Call!Next

LEMMA ReturnReturns ==
  ASSUME TypeOK, WrittenInv, NEW c \in Calls, Return(c)
  PROVE  Call!Next
<1>1. Written(c) /\ pc[c] = "return"
  BY DEF WrittenInv, Return
<1>2. /\ Outcome(c) = "running"
      /\ [b \in Calls |-> Outcome(b)]' = [[b \in Calls |-> Outcome(b)] EXCEPT ![c] = Outcome(c)']
      /\ [b \in Calls |-> Value(b)]' = [[b \in Calls |-> Value(b)] EXCEPT ![c] = Value(c)']
  BY CallEnds DEF Return
<1>3. /\ Outcome(c)' = IF c \in withdrawn THEN "withdrawn" ELSE "returned"
      /\ Value(c)' = result[c] /\ applied' = applied
  BY DEF Return, Outcome, Value, TypeOK
<1>4. CASE c \in withdrawn
  <2>1. applied[c] = {}
    BY <1>1, <1>4 DEF Written
  <2>2. result[c] \in 1..MaxAttempts
    BY <1>1 DEF Written, TypeOK
  <2>3. Call!Withdraw(c, result[c])
    BY <1>2, <1>3, <1>4, <2>1 DEF Call!Withdraw
  <2> QED BY <2>2, <2>3 DEF Call!Next
<1>5. CASE c \notin withdrawn
  <2>1. applied[c] = {result[c]}
    BY <1>1, <1>5 DEF Written
  <2>2. result[c] \in 1..MaxAttempts
    BY <1>1 DEF Written, TypeOK
  <2>3. Call!Return(c, result[c])
    BY <1>2, <1>3, <1>5, <2>1 DEF Call!Return
  <2> QED BY <2>2, <2>3 DEF Call!Next
<1> QED BY <1>4, <1>5

LEMMA ThrowFails ==
  ASSUME TypeOK, WrittenInv, NEW c \in Calls, Throw(c) \/ StartFails(c)
  PROVE  Call!Next
<1>1. /\ Written(c) /\ pc[c] \in {"idle", "catch"} /\ pc' = [pc EXCEPT ![c] = "threw"]
      /\ UNCHANGED <<result, applied, doubt, withdrawn>>
  BY DEF WrittenInv, Throw, StartFails
<1>2. /\ Outcome(c) = "running" /\ Value(c) = 0
      /\ [b \in Calls |-> Outcome(b)]' = [[b \in Calls |-> Outcome(b)] EXCEPT ![c] = Outcome(c)']
      /\ [b \in Calls |-> Value(b)]' = [[b \in Calls |-> Value(b)] EXCEPT ![c] = Value(c)']
  BY <1>1, CallEnds
<1>3. Outcome(c)' = (IF c \in doubt THEN "doubtful" ELSE "failed") /\ Value(c)' = 0
  BY <1>1 DEF Outcome, Value, TypeOK
<1>4. [b \in Calls |-> Value(b)]' = [b \in Calls |-> Value(b)]
  BY <1>2, <1>3
<1>5. CASE c \in doubt
  <2>1. Call!FailInDoubt(c)
    BY <1>1, <1>2, <1>3, <1>4, <1>5 DEF Call!FailInDoubt
  <2> QED BY <2>1 DEF Call!Next
<1>6. CASE c \notin doubt
  <2>1. applied[c] = {}
    BY <1>1, <1>6 DEF Written
  <2>2. Call!Fail(c)
    BY <1>1, <1>2, <1>3, <1>4, <1>6, <2>1 DEF Call!Fail
  <2> QED BY <2>2 DEF Call!Next
<1> QED BY <1>5, <1>6

LEMMA CallStep == TypeOK /\ WrittenInv /\ [Next]_vars => [Call!Next]_Call!callVars
<1> SUFFICES ASSUME TypeOK, WrittenInv, [Next]_vars
             PROVE  Call!Next \/ UNCHANGED Call!callVars
  OBVIOUS
<1>1. ASSUME NEW c \in Calls, ServerCommits(c) PROVE Call!Next
  BY <1>1, CommitApplies
<1>2. ASSUME NEW c \in Calls, Return(c) PROVE Call!Next
  BY <1>2, ReturnReturns
<1>3. ASSUME NEW c \in Calls, Throw(c) \/ StartFails(c) PROVE Call!Next
  BY <1>3, ThrowFails
<1>4. ASSUME NEW c \in Calls, StartSession(c) \/ FnRetries(c) \/ CommitRetries(c)
      PROVE  UNCHANGED Call!callVars
  <2>1. /\ CallFn(c) /\ UNCHANGED <<result, applied, doubt, withdrawn>>
        /\ pc[c] \in {"idle", "fn", "commit"}
    BY <1>4 DEF StartSession, FnRetries, CommitRetries
  <2>2. pc'[c] = "fn" /\ \A b \in Calls \ {c} : pc'[b] = pc[b]
    BY <2>1, CallFnType
  <2>3. \A b \in Calls : Outcome(b)' = Outcome(b) /\ Value(b)' = Value(b)
    BY <2>1, <2>2 DEF Outcome, Value
  <2> QED BY <2>1, <2>3, CallStutters
<1>5. ASSUME NEW c \in Calls,
             \/ FnResolves(c) \/ FnWithdraws(c) \/ FnRejects(c)
             \/ CommitSucceeds(c) \/ CommitRefused(c) \/ CommitUnknown(c)
      PROVE  UNCHANGED Call!callVars
  <2>1. /\ applied' = applied /\ pc[c] \in {"fn", "commit"} /\ pc'[c] \in {"commit", "return", "catch"}
        /\ \A b \in Calls \ {c} : /\ pc'[b] = pc[b] /\ result'[b] = result[b]
                                  /\ (b \in doubt' <=> b \in doubt)
                                  /\ (b \in withdrawn' <=> b \in withdrawn)
    BY <1>5 DEF FnResolves, FnWithdraws, FnRejects, CommitSucceeds, CommitRefused,
                CommitUnknown, TypeOK
  <2>2. \A b \in Calls : Outcome(b)' = Outcome(b) /\ Value(b)' = Value(b)
    BY <2>1 DEF Outcome, Value
  <2> QED BY <2>1, <2>2, CallStutters
<1>6. ASSUME NEW c \in Calls, ServerAborts(c) \/ EndSession(c) PROVE UNCHANGED Call!callVars
  <2>1. UNCHANGED <<pc, result, applied, doubt, withdrawn>>
    BY <1>6 DEF ServerAborts, EndSession
  <2> QED BY <2>1, CallStutters DEF Outcome, Value
<1>7. CASE UNCHANGED vars
  BY <1>7, CallStutters DEF vars, Outcome, Value
<1> QED BY <1>1, <1>2, <1>3, <1>4, <1>5, <1>6, <1>7 DEF Next, Fn, Commit, End

\* With its repetitions, lost answers and commits in doubt, withTransaction
\* implements the atomic call that AtomicCall describes.
THEOREM TransactionImplementsAtomicCall == Spec => ImplementsAtomicCall
BY Inductive, CallInit, CallStep, PTL DEF Spec, ImplementsAtomicCall, Call!Spec

\* What a call that is over without doubt returned and wrote is final: a commit
\* that was given up is the only thing that can outlive a call.
THEOREM EndedCallsAreFinal == Spec => Call!EndedIsFinal
<1>1. TypeOK /\ [Call!Next]_Call!callVars => [Call!KeepsEnded]_Call!callVars
  <2> SUFFICES ASSUME TypeOK, Call!Next, NEW c \in Calls,
                      Outcome(c) \in {"returned", "withdrawn", "failed"}
               PROVE  Outcome(c)' = Outcome(c) /\ Value(c)' = Value(c) /\ applied'[c] = applied[c]
    BY DEF Call!KeepsEnded
  <2>1. PICK d \in Calls : \/ \E v \in 1..MaxAttempts :
                                Call!Apply(d, v) \/ Call!Return(d, v) \/ Call!Withdraw(d, v)
                           \/ Call!Fail(d) \/ Call!FailInDoubt(d)
    BY DEF Call!Next
  <2>2. Outcome(d) \in {"running", "doubtful"}
    BY <2>1 DEF Call!Apply, Call!Return, Call!Withdraw, Call!Fail, Call!FailInDoubt
  <2>3. d # c
    BY <2>2
  <2>4. \A v \in 1..MaxAttempts :
            Call!Apply(d, v) \/ Call!Return(d, v) \/ Call!Withdraw(d, v) =>
                Outcome(c)' = Outcome(c) /\ Value(c)' = Value(c) /\ applied'[c] = applied[c]
    BY <2>3 DEF Call!Apply, Call!Return, Call!Withdraw, TypeOK
  <2>5. Call!Fail(d) \/ Call!FailInDoubt(d) =>
            Outcome(c)' = Outcome(c) /\ Value(c)' = Value(c) /\ applied'[c] = applied[c]
    BY <2>3 DEF Call!Fail, Call!FailInDoubt, TypeOK
  <2> QED BY <2>1, <2>4, <2>5
<1> QED BY <1>1, TypeCorrect, TransactionImplementsAtomicCall, PTL
        DEF ImplementsAtomicCall, Call!Spec, Call!EndedIsFinal

-----------------------------------------------------------------------------
(* Sessions.                                                               *)

LEMMA SessionStep == TypeOK /\ SessionWhileUnderWay /\ [Next]_vars => SessionWhileUnderWay'
<1> SUFFICES ASSUME TypeOK, SessionWhileUnderWay, [Next]_vars, NEW c \in Calls
             PROVE  session'[c] = "open" <=> pc'[c] \in {"fn", "commit", "return", "catch"}
  BY DEF SessionWhileUnderWay
<1>0. session[c] = "open" <=> pc[c] \in {"fn", "commit", "return", "catch"}
  BY DEF SessionWhileUnderWay
<1>1. ASSUME NEW b \in Calls, StartSession(b) \/ FnRetries(b) \/ CommitRetries(b)
      PROVE  session'[c] = "open" <=> pc'[c] \in {"fn", "commit", "return", "catch"}
  <2>1. pc'[b] = "fn" /\ \A a \in Calls \ {b} : pc'[a] = pc[a]
    BY <1>1, CallFnType DEF StartSession, FnRetries, CommitRetries
  <2>2. CASE b = c
    BY <1>0, <1>1, <2>1, <2>2 DEF StartSession, FnRetries, CommitRetries, TypeOK
  <2>3. CASE b # c
    BY <1>0, <1>1, <2>1, <2>3 DEF StartSession, FnRetries, CommitRetries, TypeOK
  <2> QED BY <2>2, <2>3
<1>2. ASSUME NEW b \in Calls, StartFails(b) \/ FnResolves(b) \/ FnWithdraws(b) \/ FnRejects(b)
      PROVE  session'[c] = "open" <=> pc'[c] \in {"fn", "commit", "return", "catch"}
  BY <1>0, <1>2 DEF StartFails, FnResolves, FnWithdraws, FnRejects, TypeOK
<1>3. ASSUME NEW b \in Calls,
             \/ CommitSucceeds(b) \/ CommitRefused(b) \/ CommitUnknown(b)
             \/ ServerAborts(b) \/ ServerCommits(b)
      PROVE  session'[c] = "open" <=> pc'[c] \in {"fn", "commit", "return", "catch"}
  BY <1>0, <1>3 DEF CommitSucceeds, CommitRefused, CommitUnknown, ServerAborts, ServerCommits, TypeOK
<1>4. ASSUME NEW b \in Calls, Throw(b) \/ Return(b) \/ EndSession(b)
      PROVE  session'[c] = "open" <=> pc'[c] \in {"fn", "commit", "return", "catch"}
  BY <1>0, <1>4 DEF Throw, Return, EndSession, Finally, TypeOK
<1>5. CASE UNCHANGED vars
  BY <1>0, <1>5 DEF vars
<1> QED BY <1>1, <1>2, <1>3, <1>4, <1>5 DEF Next, Fn, Commit, End

\* No call ends with its session open, and no session is ended under a call.
THEOREM SessionsAreNotLeft == Spec => []SessionWhileUnderWay
<1>1. Init => SessionWhileUnderWay
  BY DEF Init, SessionWhileUnderWay
<1> QED BY <1>1, SessionStep, TypeCorrect, PTL DEF Spec

=============================================================================
