---------------------------- MODULE MCSoftDelete ----------------------------
(***************************************************************************)
(* Small instances of SoftDelete: two callers whose repositories support   *)
(* soft deletion and one whose repository does not.                        *)
(***************************************************************************)
EXTENDS SoftDelete, TLC

CONSTANTS plain

MCIsSupportSoftDeleted == [c \in Callers |-> c # plain]

SoftDeleteSymmetry == Permutations(Callers \ {plain})

=============================================================================
