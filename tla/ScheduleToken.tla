--------------------------- MODULE ScheduleToken ---------------------------
(***************************************************************************)
(* What the trusted side promises the rest of the system: a schedule is     *)
(* generated, is open for a while, and ends once.  It ends by being granted *)
(* to a single Finish call, or by being dropped; an ended schedule never    *)
(* grants anything again.                                                   *)
(***************************************************************************)
CONSTANTS Schedules, Calls

VARIABLES
  phase,   \* of every schedule
  holders  \* the calls a schedule was granted to

Init ==
  /\ phase = [s \in Schedules |-> "none"]
  /\ holders = [s \in Schedules |-> {}]

Generate(s) ==
  /\ phase[s] = "none"
  /\ phase' = [phase EXCEPT ![s] = "open"]
  /\ UNCHANGED holders

Grant(s, f) ==
  /\ phase[s] = "open"
  /\ phase' = [phase EXCEPT ![s] = "ended"]
  /\ holders' = [holders EXCEPT ![s] = {f}]

Drop(s) ==
  /\ phase[s] = "open"
  /\ phase' = [phase EXCEPT ![s] = "ended"]
  /\ UNCHANGED holders

Next == \E s \in Schedules :
          Generate(s) \/ Drop(s) \/ \E f \in Calls : Grant(s, f)

Spec == Init /\ [][Next]_<<phase, holders>>
=============================================================================
