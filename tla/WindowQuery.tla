---------------------------- MODULE WindowQuery ----------------------------
(***************************************************************************)
(* What a client of CANDLE.INDEX, INDICATOR.INDEX and INDICATOR.FREQ.INDEX *)
(* may rely on, told as if a request were answered at one moment: the      *)
(* answer holds documents of the request that are in the collections at    *)
(* that moment, all that were there when it arrived unless the limit cuts  *)
(* them off, and the limit spares the oldest.  No cursor, no order of      *)
(* reading and no writes in the middle of a find are visible.              *)
(***************************************************************************)
EXTENDS Integers, FiniteSets

CONSTANTS
    Clients,
    Requests,
    NoRequest,
    AllKeys,            \* what identifies a document; has a field start
    Matches(_, _),      \* Matches(r, k): document k is asked for by r
    Limit

VARIABLES
    held,       \* the documents of the collections
    asked,      \* asked[c]: the last request of c that was passed on
    due,        \* due[c]: the documents it matched when it arrived
    outcome,    \* outcome[c]: "none", "pending", "answer", "blank" or "error"
    answer      \* answer[c]: the documents of an answer

queryVars == <<held, asked, due, outcome, answer>>

Init ==
    /\ held = {}
    /\ asked = [c \in Clients |-> NoRequest]
    /\ due = [c \in Clients |-> {}]
    /\ outcome = [c \in Clients |-> "none"]
    /\ answer = [c \in Clients |-> {}]

Ask(c, r) ==
    /\ outcome[c] # "pending"
    /\ outcome' = [outcome EXCEPT ![c] = "pending"]
    /\ asked' = [asked EXCEPT ![c] = r]
    /\ due' = [due EXCEPT ![c] = {k \in held : Matches(r, k)}]
    /\ answer' = [answer EXCEPT ![c] = {}]
    /\ UNCHANGED held

\* What is missing was cut off, and nothing older than what is there.
NoGaps(missing, K) ==
    \A k \in missing : Cardinality(K) = Limit /\ \A h \in K : h.start <= k.start

Answer(c) ==
    /\ outcome[c] = "pending"
    /\ outcome' = [outcome EXCEPT ![c] = "answer"]
    /\ \E K \in SUBSET {k \in held : Matches(asked[c], k)} :
            /\ Cardinality(K) <= Limit
            /\ NoGaps(due[c] \ K, K)
            /\ answer' = [answer EXCEPT ![c] = K]
    /\ UNCHANGED <<held, asked, due>>

\* The handler swallowed an error.
Blank(c) ==
    /\ outcome[c] = "pending"
    /\ outcome' = [outcome EXCEPT ![c] = "blank"]
    /\ UNCHANGED <<held, asked, due, answer>>

\* A request may be refused at once, or its find may fail.
Error(c) ==
    /\ outcome' = [outcome EXCEPT ![c] = "error"]
    /\ answer' = [answer EXCEPT ![c] = {}]
    /\ UNCHANGED <<held, asked, due>>

\* Documents come and do not go.
Store(k) ==
    /\ held' = held \cup {k}
    /\ UNCHANGED <<asked, due, outcome, answer>>

Next ==
    \/ \E c \in Clients : \/ \E r \in Requests : Ask(c, r)
                          \/ Answer(c) \/ Blank(c) \/ Error(c)
    \/ \E k \in AllKeys : Store(k)

Spec == Init /\ [][Next]_queryVars

=============================================================================
