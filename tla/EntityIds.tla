----------------------------- MODULE EntityIds ------------------------------
(***************************************************************************)
(* Ids of entities in src/shares/helpers/utils.ts: generateEntityId makes  *)
(* one from the clock, findDuplicatesBy looks for those that came twice.   *)
(* The entities that are given the ids are not in the repository.          *)
(***************************************************************************)
EXTENDS Integers, Sequences, FiniteSets

CONSTANTS
    Suffixes,   \* values Math.floor(Math.random() * 101) may take, within 0..100
    MaxClock,   \* bound: milliseconds
    MaxIds      \* bound: entities

ASSUME IdsAssumption == Suffixes \subseteq 0..100 /\ MaxClock \in Nat /\ MaxIds \in Nat

VARIABLES
    clock,      \* milliseconds
    ids,        \* the array of entities: their ids
    issuedAt,   \* history: the millisecond of each
    scan,       \* findDuplicatesBy: 0 before the call, then the next entity
    seenIds,
    duplicates

idsVars == <<clock, ids, issuedAt, scan, seenIds, duplicates>>

\* Type invariant.
IdsTypeOK ==
    /\ clock \in Nat
    /\ ids \in Seq(Nat) /\ issuedAt \in Seq(Nat) /\ Len(issuedAt) = Len(ids)
    /\ scan \in 0..(Len(ids) + 1)
    /\ seenIds \subseteq Nat
    /\ duplicates \in Seq({ids[i] : i \in 1..Len(ids)})

IdsInit ==
    /\ clock = 0 /\ ids = <<>> /\ issuedAt = <<>>
    /\ scan = 0 /\ seenIds = {} /\ duplicates = <<>>

-----------------------------------------------------------------------------
\* Math.random() * 1000
BugGenerateEntityId(ms, suffix) == ms * 100 + 10 * suffix

GenerateEntityId(ms, suffix) == ms * 100 + suffix

Tick ==
    /\ scan = 0 /\ clock < MaxClock
    /\ clock' = clock + 1
    /\ UNCHANGED <<ids, issuedAt, scan, seenIds, duplicates>>

Issue ==
    /\ scan = 0 /\ Len(ids) < MaxIds
    /\ \E suffix \in Suffixes : ids' = Append(ids, GenerateEntityId(clock, suffix))
    /\ issuedAt' = Append(issuedAt, clock)
    /\ UNCHANGED <<clock, scan, seenIds, duplicates>>

CallFind ==
    /\ scan = 0 /\ ids # <<>>
    /\ scan' = 1
    /\ UNCHANGED <<clock, ids, issuedAt, seenIds, duplicates>>

\* Only the first of the repetitions is listed.
BugListDuplicate(list, id) == IF list = <<>> THEN <<id>> ELSE list

ListDuplicate(list, id) == Append(list, id)

Scan ==
    /\ scan \in 1..Len(ids)
    /\ IF ids[scan] \in seenIds
       THEN /\ duplicates' = ListDuplicate(duplicates, ids[scan])
            /\ UNCHANGED seenIds
       ELSE /\ seenIds' = seenIds \cup {ids[scan]}
            /\ UNCHANGED duplicates
    /\ scan' = scan + 1
    /\ UNCHANGED <<clock, ids, issuedAt>>

IdsNext == Tick \/ Issue \/ CallFind \/ Scan

IdsSpec == IdsInit /\ [][IdsNext]_idsVars

-----------------------------------------------------------------------------
(* Properties.                                                              *)

\* The 101 suffixes overlap with those of the next millisecond by one: an
\* entity of a later millisecond may share the id of an earlier one only if
\* the two are neighbours, and never has a smaller one.
IdsFollowClock ==
    \A i, j \in 1..Len(ids) : issuedAt[i] < issuedAt[j] =>
        /\ ids[i] <= ids[j]
        /\ ids[i] = ids[j] => issuedAt[j] = issuedAt[i] + 1

\* Every entity that was looked at is either the first with its id or listed:
\* no collision is overlooked, none is reported that is not one.
DuplicatesExact ==
    scan > 0 =>
        LET looked == 1..(scan - 1)
            repeated == {j \in looked : \E i \in 1..(j - 1) : ids[i] = ids[j]}
        IN  /\ seenIds = {ids[i] : i \in looked}
            /\ {duplicates[i] : i \in 1..Len(duplicates)} = {ids[j] : j \in repeated}
            /\ Len(duplicates) = Cardinality(repeated)

=============================================================================
