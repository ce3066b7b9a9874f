----------------------------- MODULE MCUserAuth -----------------------------
(***************************************************************************)
(* Instances of UserAuth for TLC.                                           *)
(***************************************************************************)
EXTENDS UserAuth, TLC

CONSTANTS i1, i2, e1, e2

\* A strong and a weak executor of one type, a strong and a weak credential.
MCAuthOf == [e \in Executors |-> Pin]
MCEsl == [e \in Executors |-> IF e = e2 THEN 1 ELSE 3]
MCAcl == [i \in Ids |-> IF i = i2 THEN 1 ELSE 3]

Symmetry == Permutations(Contexts) \cup Permutations(Schedules)
=============================================================================
