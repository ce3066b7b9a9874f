---------------------------- MODULE MCIdmDatabase ----------------------------
(***************************************************************************)
(* Instances of IdmDatabase for TLC.                                        *)
(***************************************************************************)
EXTENDS IdmDatabase, TLC

Symmetry == Permutations(Users) \cup Permutations(Ids)

\* A hollow report changes nothing that is done or checked: a state with it and one
\* without are the same.
View == <<loaded, mem, current, file, disk, call, acked \ hollow>>
=============================================================================
