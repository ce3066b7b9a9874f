--------------------------- MODULE MCExecutorPool ---------------------------
(***************************************************************************)
(* Instances of ExecutorPool for TLC.                                       *)
(***************************************************************************)
EXTENDS ExecutorPool

CONSTANTS c1, c2, c3

\* Two calls register the same kind of executor, the third registers another
\* executor type of the same authentication type.
MCAuthOf == [c \in Registrations |-> "pin"]
MCTypeOf == [c \in Registrations |-> IF c = c3 THEN "verifier" ELSE "collector"]
=============================================================================
