----------------------------- MODULE MCUserIdm -----------------------------
(***************************************************************************)
(* Instances of UserIdm for TLC.                                            *)
(***************************************************************************)
EXTENDS UserIdm, TLC

CONSTANTS e1, e2

\* One executor for each type; the levels do not matter here.
MCAuthOf == [e \in Executors |-> IF e = e1 THEN "pin" ELSE "face"]
MCEsl == [e \in Executors |-> 3]
MCAcl == [i \in Ids |-> 3]

Symmetry == Permutations(Users) \cup Permutations(Ids) \cup Permutations(Schedules) \cup Permutations(Challenges)
=============================================================================
