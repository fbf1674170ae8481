----------------------------- MODULE MCCronLock -----------------------------
(***************************************************************************)
(* Instances of CronLock: jobs a1 and a2 run on one host, every other job  *)
(* on a host of its own.                                                   *)
(***************************************************************************)
EXTENDS CronLock, TLC

CONSTANTS a1, a2, b, hostA, hostB

MCHostOf == [j \in Jobs |-> IF j \in {a1, a2} THEN hostA ELSE hostB]

SameHostJobs == Permutations({a1, a2})

=============================================================================
