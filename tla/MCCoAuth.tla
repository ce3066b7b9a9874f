------------------------------ MODULE MCCoAuth ------------------------------
(***************************************************************************)
(* Instances of CoAuth for TLC.                                             *)
(***************************************************************************)
EXTENDS CoAuth, TLC

CONSTANTS s1, s2

\* Two executors on the first schedule, one on every other.
MCExecutorNum == [s \in Schedules |-> IF s = s1 THEN 2 ELSE 1]

Symmetry == Permutations(Finishes) \cup Permutations(Requests)

\* Where no caller dies, no notice runs and the recipients make no difference.
ImmortalView == <<ta, pool, timers, peers, begin, fin, job, info, told>>
=============================================================================
