----------------------------- MODULE LatestFeed -----------------------------
(***************************************************************************)
(* What the notifier promises its subscribers, with no word of promises,   *)
(* sleeps, crashes or MongoDB.  Documents become visible per loop and      *)
(* trading pair and stay visible.  A loop opens a window, and publishes    *)
(* one batch for it that is, pair by pair, a document visible now and at   *)
(* least as recent as everything that was visible when the window opened.  *)
(* A window may also close without a batch: nothing is promised then.      *)
(* Documents are represented by their start time; None stands for "no      *)
(* document", which the program broadcasts as null.                        *)
(***************************************************************************)
EXTENDS Integers

CONSTANTS Loops, Pairs, Starts   \* Starts: natural numbers

VARIABLES
    visible,    \* visible[l][p]: start times a query of loop l can find for p
    due,        \* due[l][p]: what was visible when the open window opened, else {}
    open,       \* open[l]: loop l has an open window
    feed        \* feed[l][p]: start time last published by loop l for p

feedVars == <<visible, due, open, feed>>

None == -1

\* s is at least as recent as every start time in S.
Covers(s, S) == \A x \in S : x <= s

NothingDue == [p \in Pairs |-> {}]

TypeOK ==
    /\ visible \in [Loops -> [Pairs -> SUBSET Starts]]
    /\ due \in [Loops -> [Pairs -> SUBSET Starts]]
    /\ open \in [Loops -> BOOLEAN]
    /\ feed \in [Loops -> [Pairs -> Starts \cup {None}]]

Init ==
    /\ visible = [l \in Loops |-> [p \in Pairs |-> {}]]
    /\ due = [l \in Loops |-> NothingDue]
    /\ open = [l \in Loops |-> FALSE]
    /\ feed = [l \in Loops |-> [p \in Pairs |-> None]]

Appear(l, p, s) ==
    /\ visible' = [visible EXCEPT ![l][p] = @ \cup {s}]
    /\ UNCHANGED <<due, open, feed>>

\* Every loop of L opens a window at the same instant.
Open(L) ==
    /\ open' = [l \in Loops |-> l \in L \/ open[l]]
    /\ due' = [l \in Loops |-> IF l \in L THEN visible[l] ELSE due[l]]
    /\ UNCHANGED <<visible, feed>>

Close(L) ==
    /\ open' = [l \in Loops |-> l \notin L /\ open[l]]
    /\ due' = [l \in Loops |-> IF l \in L THEN NothingDue ELSE due[l]]
    /\ UNCHANGED <<visible, feed>>

Publish(l, b) ==
    /\ open[l]
    /\ \A p \in Pairs : /\ b[p] \in visible[l][p] \cup {None}
                        /\ Covers(b[p], due[l][p])
    /\ feed' = [feed EXCEPT ![l] = b]
    /\ open' = [open EXCEPT ![l] = FALSE]
    /\ due' = [due EXCEPT ![l] = NothingDue]
    /\ UNCHANGED visible

Next ==
    \/ \E l \in Loops, p \in Pairs, s \in Starts : Appear(l, p, s)
    \/ \E L \in SUBSET Loops : Open(L) \/ Close(L)
    \/ \E l \in Loops, b \in [Pairs -> Starts \cup {None}] : Publish(l, b)

Spec == Init /\ [][Next]_feedVars

-----------------------------------------------------------------------------
(* A feed never goes back in time: what a loop publishes for a pair is     *)
(* never older than what it published for that pair before, and a pair     *)
(* that had a document never becomes null again                            *)
(* (IndicatorsService.sendLatestIndicatorByCode and                        *)
(* CandlesService.sendLatestCandleByInterval, successive iterations).      *)
FeedMonotone ==
    [][\A l \in Loops, p \in Pairs : feed[l][p] <= feed'[l][p]]_feedVars

=============================================================================
