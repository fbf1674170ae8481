----------------------------- MODULE MCHelpers ------------------------------
(***************************************************************************)
(* What src/shares offers to any module, one thing at a time: a behaviour  *)
(* is a walk through pages, a call of getDates or getMonths, a batch of    *)
(* ids, or calls of withTransaction.                                       *)
(***************************************************************************)
EXTENDS PageWalk, Calendar, EntityIds, Transaction

helpersVars == <<walkVars, calendarVars, idsVars, vars>>

\* A city on summer time from day 41 to day 44, two without.
MCZones ==
    {[standard |-> 1, spring |-> 24 * 41 + 1, autumn |-> 24 * 44 + 1],
     [standard |-> -5, spring |-> 24 * 41 + 7, autumn |-> 24 * 44 + 6],
     [standard |-> 8, spring |-> 0, autumn |-> 0],
     [standard |-> -10, spring |-> 0, autumn |-> 0]}

At(days, hours) == {24 * d + h : d \in days, h \in hours}

\* Around the summer time, and days of the first month for the month lists.
MCStartDates == At({39}, 0..23) \cup At({3, 26, 28, 30}, {0, 2, 15, 16, 23})

MCEndDates == At({46}, 0..23) \cup At({2, 62, 121, 185}, {1, 15, 20})

\* January to September of a year.
MCMonthStart ==
    [m \in 0..8 |-> CASE m = 0 -> 0 [] m = 1 -> 31 [] m = 2 -> 59 [] m = 3 -> 90
                      [] m = 4 -> 120 [] m = 5 -> 151 [] m = 6 -> 181 [] m = 7 -> 212
                      [] m = 8 -> 243]

MCSuffixes == {0, 1, 99, 100}

WalkIdle == walk = "idle" /\ made = 0
CalendarIdle == listing = "idle"
IdsIdle == ids = <<>> /\ clock = 0
CallsIdle == \A c \in Calls : pc[c] = "idle"

HelpersInit == WalkInit /\ CalendarInit /\ IdsInit /\ Init

HelpersNext ==
    \/ /\ CalendarIdle /\ IdsIdle /\ CallsIdle
       /\ WalkNext /\ UNCHANGED <<calendarVars, idsVars, vars>>
    \/ /\ WalkIdle /\ IdsIdle /\ CallsIdle
       /\ CalendarNext /\ UNCHANGED <<walkVars, idsVars, vars>>
    \/ /\ WalkIdle /\ CalendarIdle /\ CallsIdle
       /\ IdsNext /\ UNCHANGED <<walkVars, calendarVars, vars>>
    \/ /\ WalkIdle /\ CalendarIdle /\ IdsIdle
       /\ Next /\ UNCHANGED <<walkVars, calendarVars, idsVars>>

HelpersSpec == HelpersInit /\ [][HelpersNext]_helpersVars /\ WF_walkVars(Turn) /\ Fairness

=============================================================================
