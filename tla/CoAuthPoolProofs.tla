------------------------- MODULE CoAuthPoolProofs -------------------------
(***************************************************************************)
(* Theorems about scheResPool_ when no two requests begin the same          *)
(* schedule: no entry is stranded, and a schedule is granted only after as  *)
(* many answers as it has executors.                                        *)
(***************************************************************************)
EXTENDS CoAuthProofs, FiniteSetTheorems

\* A request past BeginSave.
Saved == {"monitor", "execute", "executing", "notify", "delete", "removeTimer", "done"}

\* Every request has a schedule of its own, its entry is saved by itself, and
\* once it has cleaned up after a failure the entry stays away.
OwnerInv ==
  /\ \A r \in Requests : begin[r].at = "idle" => begin[r].id = None
  /\ \A r, q \in Requests :
       (begin[r].id = begin[q].id /\ begin[r].id # None) => r = q
  /\ \A s \in Schedules : Present(s) =>
       /\ begin[callback[s]].id = s
       /\ begin[callback[s]].at \in Saved
  /\ \A r \in Requests :
       begin[r].at = "removeTimer" => callback[begin[r].id] = None

\* What one step of CoAuthHandle does to its own record.
LEMMA BeginMoves ==
  ASSUME TypeOK, NEW r \in Requests, BeginStep(r)
  PROVE  /\ \A q \in Requests : begin'[q].id = begin[q].id
         /\ \A q \in Requests \ {r} : begin'[q] = begin[q]
         /\ begin[r].id \in Schedules
         /\ begin[r].at # "idle" /\ begin'[r].at # "idle"
         /\ begin[r].at \in Saved \/ BeginSave(r) => begin'[r].at \in Saved
         /\ BeginSave(r) => begin[r].at = "save" /\ begin'[r].at = "monitor"
         /\ begin[r].at = "monitor" => BeginMonitor(r)
         /\ begin'[r].at = "removeTimer" => BeginDelete(r)
         /\ begin'[r].at = "monitor" => BeginSave(r)
<1>b. begin \in [Requests -> Begin]
  BY DEF TypeOK
<1>1. begin[r].at # "idle" /\ begin[r].id \in Schedules
  BY DEF TypeOK, BeginStep, BeginReject, BeginAddDeath, BeginSave, BeginMonitor,
         BeginSkip, BeginCall, BeginReturn, BeginNotify, BeginDelete, BeginRemoveTimer
<1>n. ASSUME NEW ret, NextExecutor(r, ret), begin[r].at \in {"execute", "executing"}
      PROVE  /\ \A q \in Requests : begin'[q].id = begin[q].id
             /\ \A q \in Requests \ {r} : begin'[q] = begin[q]
             /\ begin'[r].at \in {"execute", "done", "notify"}
  <2> DEFINE next == begin[r].i + 1
             at == IF next < ExecutorNum[begin[r].id] THEN "execute"
                   ELSE IF ret = "SUCCESS" THEN "done" ELSE "notify"
  <2>1. begin' = [begin EXCEPT ![r] = [@ EXCEPT !.i = next, !.ret = ret, !.at = at]]
    BY <1>n DEF NextExecutor
  <2>2. at \in {"execute", "done", "notify"}
    OBVIOUS
  <2> HIDE DEF next, at
  <2> QED BY <1>b, <2>1, <2>2 DEF Begin
<1>2. CASE BeginSkip(r)
  BY <1>1, <1>2, <1>n DEF BeginSkip, Saved, BeginSave, BeginMonitor, BeginDelete
<1>3. CASE \E ret \in {"SUCCESS", "FAIL"} : BeginReturn(r, ret)
  BY <1>1, <1>3, <1>n DEF BeginReturn, Saved, BeginSave, BeginMonitor, BeginDelete
<1>4. CASE BeginReject(r) \/ BeginAddDeath(r) \/ BeginSave(r) \/ BeginMonitor(r)
  BY <1>1, <1>4, <1>b DEF BeginReject, BeginAddDeath, BeginSave, BeginMonitor,
     BeginDelete, Begin, Saved
<1>5. CASE BeginCall(r) \/ BeginNotify(r) \/ BeginDelete(r) \/ BeginRemoveTimer(r)
  BY <1>1, <1>5, <1>b DEF BeginCall, BeginNotify, BeginDelete, BeginRemoveTimer,
     BeginSave, BeginMonitor, Begin, Saved
<1> QED
  BY <1>2, <1>3, <1>4, <1>5 DEF BeginStep

\* Entries of the pool only disappear, in every step but BeginSave.
LEMMA EntriesShrink ==
  ASSUME TypeOK, [Next]_vars, \A r \in Requests : ~BeginSave(r)
  PROVE  \A s \in Schedules : callback'[s] \in {callback[s], None}
<1> USE DEF TypeOK
<1>1. ASSUME NEW s, DeleteScheduleCallback(s)
      PROVE  \A u \in Schedules : callback'[u] \in {callback[u], None}
  BY <1>1 DEF DeleteScheduleCallback
<1>2. CASE UNCHANGED callback
  BY <1>2
<1>3. ASSUME NEW r \in Requests, BeginStep(r)
      PROVE  UNCHANGED callback \/ BeginDelete(r)
  BY <1>3 DEF BeginStep, BeginReject, BeginAddDeath, BeginMonitor,
     BeginSkip, BeginCall, BeginReturn, BeginNotify, BeginRemoveTimer, pool
<1>4. ASSUME NEW f \in Finishes, FinishStep(f)
      PROVE  UNCHANGED callback \/ FinishDelete(f)
  BY <1>4 DEF FinishStep, FinishMinus, ScheduleCountMinus, FinishRemoveTimer,
     FinishFind, FinishDropInfo, FinishSign, FinishNotify, pool
<1>5. ASSUME NEW c, CancelStep(c)
      PROVE  UNCHANGED callback
  BY <1>5 DEF CancelStep, CancelGetInfo, CancelEnd, CancelDrop, pool
<1>6. ASSUME \/ \E s \in Schedules : AddCoAuthSchedule(s) \/ TimerFires(s)
             \/ \E r \in Requests, s \in Schedules : BeginGetInfo(r, s)
             \/ \E f \in Finishes, s \in Schedules, report \in Reports : FinishCount(f, s, report)
             \/ \E m \in Infos, s \in Schedules, sizeOk \in BOOLEAN : SendDataFind(m, s, sizeOk)
             \/ \E m \in Infos : SendDataNotify(m)
             \/ \E c \in Cancels, s \in Schedules : CancelCall(c, s)
             \/ TimeOutFind \/ TimeOutNotify \/ ExecutorsChange
             \/ \E r \in Requests : CallerDies(r)
             \/ UNCHANGED vars
      PROVE  UNCHANGED callback
  BY <1>6 DEF AddCoAuthSchedule, TimerFires, BeginGetInfo, FinishCount, SendDataFind,
     SendDataNotify, CancelCall, TimeOutFind, TimeOutNotify, ExecutorsChange,
     CallerDies, vars, pool
<1>7. \A r \in Requests : BeginDelete(r) => DeleteScheduleCallback(begin[r].id)
  BY DEF BeginDelete
<1>8. \A f \in Finishes : FinishDelete(f) => DeleteScheduleCallback(fin[f].id)
  BY DEF FinishDelete
<1>9. TimeOutDelete => DeleteScheduleCallback(job[Monitor].id)
  BY DEF TimeOutDelete
<1>10. \A r \in Requests : OnRemoteDied(r) => DeleteScheduleCallback(begin[r].id)
  BY DEF OnRemoteDied
<1> HIDE DEF TypeOK
<1> QED
  BY <1>1, <1>2, <1>3, <1>4, <1>5, <1>6, <1>7, <1>8, <1>9, <1>10 DEF Next, TimeOutStep

\* Only the steps of CoAuthHandle touch its record.
LEMMA BeginFrame ==
  ASSUME [Next]_vars, \A r \in Requests : ~BeginStep(r),
         \A r \in Requests, s \in Schedules : ~BeginGetInfo(r, s)
  PROVE  UNCHANGED begin
<1>1. ASSUME NEW f \in Finishes, FinishStep(f)
      PROVE  UNCHANGED begin
  BY <1>1 DEF FinishStep, FinishMinus, FinishRemoveTimer, FinishFind, FinishDropInfo,
     FinishSign, FinishNotify, FinishDelete, finishing
<1>2. ASSUME NEW c, CancelStep(c)
      PROVE  UNCHANGED begin
  BY <1>2 DEF CancelStep, CancelGetInfo, CancelEnd, CancelDrop, cancelling
<1> QED
  BY <1>1, <1>2 DEF Next, TimeOutStep, AddCoAuthSchedule, TimerFires, FinishCount,
     SendDataFind, SendDataNotify, CancelCall, TimeOutFind, TimeOutNotify,
     TimeOutDelete, ExecutorsChange, CallerDies, OnRemoteDied, vars, finishing, cancelling

\* OwnerInv is inductive when ids are not shared.
LEMMA OwnerInvariant ==
  ASSUME ~SharedIds
  PROVE  /\ Init => OwnerInv
         /\ TypeOK /\ OwnerInv /\ [Next]_vars => OwnerInv'
<1>1. Init => OwnerInv
  BY DEF Init, OwnerInv, Present
<1>2. ASSUME TypeOK, OwnerInv, [Next]_vars
      PROVE  OwnerInv'
  <2>t. /\ begin \in [Requests -> Begin]
        /\ callback \in [Schedules -> Requests \cup {None}]
        /\ \A r \in Requests : begin[r].at # "idle" => begin[r].id \in Schedules
        /\ None \notin Schedules \cup Requests
    BY <1>2, ConstantsAssumption DEF TypeOK, ConstantsAssumption
  <2>1. CASE /\ \A r \in Requests : ~BeginStep(r)
             /\ \A r \in Requests, s \in Schedules : ~BeginGetInfo(r, s)
    <3>1. UNCHANGED begin
      BY <1>2, <2>1, BeginFrame
    <3>2. \A s \in Schedules : callback'[s] \in {callback[s], None}
      BY <1>2, <2>1, EntriesShrink DEF BeginStep
    <3> QED BY <1>2, <2>t, <3>1, <3>2 DEF OwnerInv, Present, Saved
  <2>2. ASSUME NEW r \in Requests, NEW s \in Schedules, BeginGetInfo(r, s)
        PROVE  OwnerInv'
    <3>1. /\ \A q \in Requests \ {r} : begin'[q] = begin[q] /\ begin[q].id # s
          /\ begin'[r].id = s /\ begin'[r].at \in {"addDeath", "reject"}
          /\ begin[r].at = "idle"
          /\ UNCHANGED callback
      BY <2>2, <2>t DEF BeginGetInfo, Begin, pool
    <3> QED BY <1>2, <2>t, <3>1 DEF OwnerInv, Present, Saved
  <2>3. ASSUME NEW r \in Requests, BeginStep(r)
        PROVE  OwnerInv'
    <3>m. /\ \A q \in Requests : begin'[q].id = begin[q].id
          /\ \A q \in Requests \ {r} : begin'[q] = begin[q]
          /\ begin[r].id \in Schedules
          /\ begin[r].at # "idle" /\ begin'[r].at # "idle"
          /\ begin[r].at \in Saved \/ BeginSave(r) => begin'[r].at \in Saved
          /\ BeginSave(r) => begin[r].at = "save" /\ begin'[r].at = "monitor"
          /\ begin'[r].at = "removeTimer" => BeginDelete(r)
      BY <1>2, <2>3, BeginMoves
    <3>1. CASE BeginSave(r)
      <4>1. /\ \A s \in Schedules \ {begin[r].id} : callback'[s] = callback[s]
            /\ callback'[begin[r].id] \in {r, callback[begin[r].id]}
        BY <3>1, <3>m, <2>t DEF BeginSave, SaveScheduleCallback, pool
      <4>2. \A q \in Requests : begin[q].at = "removeTimer" => begin[q].id # begin[r].id
        BY <1>2, <2>t, <3>m, <3>1 DEF OwnerInv
      <4>3. \A s \in Schedules : callback'[s] # None =>
               begin'[callback'[s]].id = s /\ begin'[callback'[s]].at \in Saved
        BY <1>2, <2>t, <3>1, <3>m, <4>1 DEF OwnerInv, Present
      <4>4. \A q \in Requests : begin'[q].at = "removeTimer" => callback'[begin'[q].id] = None
        BY <1>2, <2>t, <3>1, <3>m, <4>1, <4>2 DEF OwnerInv
      <4> QED BY <1>2, <3>m, <4>3, <4>4 DEF OwnerInv, Present
    <3>2. CASE ~BeginSave(r)
      <4>1. \A q \in Requests : ~BeginSave(q)
        <5> SUFFICES ASSUME NEW q \in Requests, BeginSave(q), q # r
                     PROVE  FALSE
          BY <3>2
        <5>1. begin'[q].at = "monitor" /\ begin[q].at = "save"
          BY <2>t, TypeOK, BeginMoves, <1>2 DEF BeginStep
        <5> QED BY <3>m, <5>1
      <4>2. \A s \in Schedules : callback'[s] \in {callback[s], None}
        BY <1>2, <4>1, EntriesShrink
      <4>3. BeginDelete(r) => callback'[begin[r].id] = None
        BY <2>t, <3>m DEF BeginDelete, DeleteScheduleCallback
      <4>4. \A s \in Schedules : callback'[s] # None =>
               begin'[callback'[s]].id = s /\ begin'[callback'[s]].at \in Saved
        BY <1>2, <2>t, <3>m, <4>2 DEF OwnerInv, Present
      <4>5. \A q \in Requests : begin'[q].at = "removeTimer" => callback'[begin'[q].id] = None
        BY <1>2, <2>t, <3>m, <4>2, <4>3 DEF OwnerInv
      <4> QED BY <1>2, <3>m, <4>4, <4>5 DEF OwnerInv, Present
    <3> QED BY <3>1, <3>2
  <2> QED BY <2>1, <2>2, <2>3
<1> QED BY <1>1, <1>2

-----------------------------------------------------------------------------
(* No entry is stranded.                                                    *)

\* A Finish call that has removed the timer stays on its way until it deletes
\* the entry, unless it finds no entry.
LEMMA FinishCloses ==
  ASSUME TypeOK, NEW f \in Finishes, FinishStep(f),
         NEW s \in Schedules, callback'[s] # None
  PROVE  /\ Closing(s) => Closing(s)'
         /\ timers[s] > 0 => timers'[s] > 0 \/ Closing(s)'
         /\ UNCHANGED <<begin, job>>
<1>t. /\ fin \in [Finishes -> Finish]
      /\ callback \in [Schedules -> Requests \cup {None}]
      /\ timers \in [Schedules -> Nat]
      /\ fin[f].id \in Schedules
  BY DEF TypeOK, FinishStep, FinishMinus, FinishRemoveTimer, FinishFind,
         FinishDropInfo, FinishSign, FinishNotify, FinishDelete
<1>1. UNCHANGED <<begin, job>>
  BY DEF FinishStep, FinishMinus, FinishRemoveTimer, FinishFind, FinishDropInfo,
         FinishSign, FinishNotify, FinishDelete, finishing
<1>2. \A g \in Finishes \ {f} : fin'[g] = fin[g]
  BY FinishMoves, SignMoves
<1>3. fin'[f].id = fin[f].id
  BY FinishMoves, SignMoves
<1> DEFINE Way == {"find", "sign", "notify", "delete"}
<1>4. fin[f].at \in Way /\ fin[f].id = s => fin'[f].at \in Way
  <2> SUFFICES ASSUME fin[f].at \in Way, fin[f].id = s
               PROVE  fin'[f].at \in Way
    OBVIOUS
  <2>1. CASE FinishFind(f)
    <3>1. callback[s] # None
      BY <2>1 DEF FinishFind, pool
    <3> DEFINE next == IF fin[f].code = "SUCCESS" THEN "sign" ELSE "notify"
    <3>2. fin' = [fin EXCEPT ![f] = [@ EXCEPT !.callback = callback[s], !.at = next]]
      BY <2>1, <3>1 DEF FinishFind, Present
    <3>3. next \in {"sign", "notify"}
      OBVIOUS
    <3> HIDE DEF next
    <3> QED BY <1>t, <3>2, <3>3 DEF Finish
  <2>2. CASE FinishSign(f)
    BY <2>2, SignMoves
  <2>3. CASE FinishNotify(f)
    BY <2>3, <1>t DEF FinishNotify, Finish
  <2>4. CASE FinishDelete(f)
    BY <2>4, <1>t DEF FinishDelete, DeleteScheduleCallback
  <2> QED
    BY <2>1, <2>2, <2>3, <2>4
       DEF FinishStep, FinishMinus, FinishRemoveTimer, FinishDropInfo
<1>5. timers'[s] # timers[s] => fin'[f].at = "find" /\ fin[f].id = s
  BY <1>t DEF FinishStep, FinishMinus, FinishRemoveTimer, FinishFind, FinishDropInfo,
         FinishSign, FinishNotify, FinishDelete, MonitorRemoveCall, Finish
<1> QED
  BY <1>1, <1>2, <1>3, <1>4, <1>5 DEF Closing

\* The monitor thread stays on its way until it deletes the entry, unless it
\* finds none; a Cancel call of a client touches neither entries nor timers.
LEMMA JobCloses ==
  ASSUME TypeOK, NEW s \in Schedules, callback'[s] # None,
         \/ \E u \in Schedules : TimerFires(u)
         \/ TimeOutStep
         \/ \E c \in Cancels : CancelStep(c)
         \/ \E c \in Cancels, u \in Schedules : CancelCall(c, u)
  PROVE  /\ Closing(s) => Closing(s)'
         /\ timers[s] > 0 => timers'[s] > 0 \/ Closing(s)'
         /\ UNCHANGED <<begin, fin>>
<1>t. /\ job \in [Cancels \cup {Monitor} -> Job]
      /\ callback \in [Schedules -> Requests \cup {None}]
      /\ timers \in [Schedules -> Nat]
      /\ job[Monitor].at # "idle" => job[Monitor].id \in Schedules
  BY DEF TypeOK
<1>c. ASSUME NEW c \in Cancels \cup {Monitor}, CancelStep(c)
      PROVE  /\ \A d \in Cancels \cup {Monitor} : d # c => job'[d] = job[d]
             /\ job'[c].id = job[c].id /\ job'[c].at # "idle"
             /\ UNCHANGED <<begin, fin, timers>>
  <2>1. UNCHANGED <<begin, fin, timers>>
    BY <1>c DEF CancelStep, CancelGetInfo, CancelEnd, CancelDrop, cancelling
  <2> DEFINE Moved == /\ \A d \in Cancels \cup {Monitor} : d # c => job'[d] = job[d]
                      /\ job'[c].id = job[c].id /\ job'[c].at # "idle"
  <2>2. CASE CancelGetInfo(c)
    <3>1. PICK ret \in {"SUCCESS", "FAIL"}, at \in {"end", Return(c)} :
            job' = [job EXCEPT ![c] = [@ EXCEPT !.i = 0, !.ret = ret, !.at = at]]
      BY <2>2 DEF CancelGetInfo
    <3>2. at # "idle"
      BY DEF Return
    <3> QED BY <1>t, <2>1, <3>1, <3>2 DEF Job
  <2>3. ASSUME NEW ret, CancelEnd(c, ret)
        PROVE  Moved
    <3> DEFINE next == job[c].i + 1
               sum == IF ret = "SUCCESS" THEN job[c].ret ELSE ret
               at == IF next < ExecutorNum[job[c].id] THEN "end"
                     ELSE IF sum = "SUCCESS" THEN "drop" ELSE Return(c)
    <3>1. job' = [job EXCEPT ![c] = [@ EXCEPT !.i = next, !.ret = sum, !.at = at]]
      BY <2>3 DEF CancelEnd
    <3>2. at # "idle"
      BY DEF Return
    <3> HIDE DEF next, sum, at
    <3> QED BY <1>t, <3>1, <3>2 DEF Job
  <2>4. CASE CancelDrop(c)
    BY <2>4, <1>t, <2>1 DEF CancelDrop, Return, Job
  <2> QED BY <1>c, <2>1, <2>2, <2>3, <2>4 DEF CancelStep
<1>1. ASSUME NEW u \in Schedules, TimerFires(u)
      PROVE  /\ job[Monitor].at = "idle"
             /\ job'[Monitor].at = "find" /\ job'[Monitor].id = u
             /\ \A v \in Schedules \ {u} : timers'[v] = timers[v]
             /\ UNCHANGED <<begin, fin>>
  BY <1>1, <1>t DEF TimerFires, Job, cancelling
<1>2. CASE TimeOutStep
  <2>1. UNCHANGED <<begin, fin, timers>>
    BY <1>2, <1>c DEF TimeOutStep, TimeOutFind, TimeOutNotify, TimeOutDelete, cancelling
  <2>2. job[Monitor].id = s /\ job[Monitor].at # "idle"
          => job'[Monitor].id = s /\ job'[Monitor].at # "idle"
    <3> SUFFICES ASSUME job[Monitor].id = s, job[Monitor].at # "idle"
                 PROVE  job'[Monitor].id = s /\ job'[Monitor].at # "idle"
      OBVIOUS
    <3>1. CASE TimeOutFind
      <4>1. job' = [job EXCEPT ![Monitor] =
                      [@ EXCEPT !.callback = callback[s], !.at = "notify"]]
        BY <3>1 DEF TimeOutFind, Present, pool
      <4> QED BY <4>1, <1>t DEF Job
    <3>2. CASE TimeOutNotify
      BY <3>2, <1>t DEF TimeOutNotify, Job
    <3>3. CASE TimeOutDelete
      BY <3>3, <1>t DEF TimeOutDelete, DeleteScheduleCallback
    <3>4. CASE CancelStep(Monitor)
      BY <3>4, <1>c
    <3> QED BY <1>2, <3>1, <3>2, <3>3, <3>4 DEF TimeOutStep
  <2> QED BY <2>1, <2>2 DEF Closing
<1>3. ASSUME NEW c \in Cancels, NEW u \in Schedules, CancelCall(c, u)
      PROVE  job'[Monitor] = job[Monitor] /\ UNCHANGED <<begin, fin, timers>>
  BY <1>3, <1>t, ThreadsDistinct DEF CancelCall, cancelling, ThreadsDistinct
<1>4. CASE \E u \in Schedules : TimerFires(u)
  BY <1>4, <1>1 DEF Closing
<1>5. CASE \E c \in Cancels : CancelStep(c)
  <2>1. job'[Monitor] = job[Monitor] /\ UNCHANGED <<begin, fin, timers>>
    BY <1>5, <1>c, ThreadsDistinct DEF ThreadsDistinct
  <2> QED BY <2>1 DEF Closing
<1>6. CASE \E c \in Cancels, u \in Schedules : CancelCall(c, u)
  BY <1>6, <1>3 DEF Closing
<1> QED BY <1>2, <1>4, <1>5, <1>6

\* CoAuthHandle posts the timer right after it has saved the entry, and removes
\* it right after it has deleted the entry.
LEMMA BeginCloses ==
  ASSUME TypeOK, OwnerInv, NEW r \in Requests, BeginStep(r),
         NEW s \in Schedules, callback'[s] # None
  PROVE  /\ UNCHANGED <<fin, job>>
         /\ \/ callback[s] = callback'[s]
            \/ begin'[r].id = s /\ begin'[r].at = "monitor"
         /\ timers[s] > 0 => timers'[s] > 0
         /\ (begin[r].id = s /\ begin[r].at = "monitor") => timers'[s] > 0
         /\ \A q \in Requests \ {r} : begin'[q] = begin[q]
<1>t. /\ begin \in [Requests -> Begin]
      /\ callback \in [Schedules -> Requests \cup {None}]
      /\ timers \in [Schedules -> Nat]
  BY DEF TypeOK
<1>m. /\ \A q \in Requests : begin'[q].id = begin[q].id
      /\ \A q \in Requests \ {r} : begin'[q] = begin[q]
      /\ begin[r].id \in Schedules
      /\ BeginSave(r) => begin'[r].at = "monitor"
      /\ begin[r].at = "monitor" => BeginMonitor(r)
  BY BeginMoves
<1>1. UNCHANGED <<fin, job>>
  BY DEF BeginStep, BeginReject, BeginAddDeath, BeginSave, BeginMonitor, BeginSkip,
         BeginCall, BeginReturn, BeginNotify, BeginDelete, BeginRemoveTimer, begun
<1>2. callback'[s] # callback[s] => BeginSave(r) /\ begin[r].id = s
  <2>1. CASE BeginSave(r)
    BY <2>1, <1>t, <1>m DEF BeginSave, SaveScheduleCallback, pool
  <2>2. CASE BeginDelete(r)
    BY <2>2, <1>t, <1>m DEF BeginDelete, DeleteScheduleCallback
  <2> QED
    BY <2>1, <2>2 DEF BeginStep, BeginReject, BeginAddDeath, BeginMonitor, BeginSkip,
       BeginCall, BeginReturn, BeginNotify, BeginRemoveTimer, pool
<1>3. CASE BeginMonitor(r)
  <2>1. timers'[begin[r].id] = timers[begin[r].id] + 1
        /\ \A u \in Schedules \ {begin[r].id} : timers'[u] = timers[u]
    BY <1>3, <1>t, <1>m DEF BeginMonitor, MonitorCall
  <2>2. timers[s] \in Nat /\ timers[begin[r].id] \in Nat
    BY <1>t, <1>m
  <2>3. (timers[s] > 0 \/ begin[r].id = s) => timers'[s] > 0
    BY <2>1, <2>2
  <2> QED BY <1>1, <1>2, <1>3, <1>m, <2>3
<1>4. CASE BeginRemoveTimer(r)
  <2>1. begin[r].at = "removeTimer" /\ callback' = callback
    BY <1>4 DEF BeginRemoveTimer, pool
  <2>2. begin[r].id # s
    BY <2>1 DEF OwnerInv
  <2>3. timers'[s] = timers[s]
    BY <1>4, <1>t, <1>m, <2>2 DEF BeginRemoveTimer, MonitorRemoveCall
  <2> QED BY <1>1, <1>2, <1>m, <2>1, <2>2, <2>3
<1>5. CASE ~BeginMonitor(r) /\ ~BeginRemoveTimer(r)
  <2>1. timers' = timers
    BY <1>5 DEF BeginStep, BeginReject, BeginAddDeath, BeginSave, BeginSkip,
       BeginCall, BeginReturn, BeginNotify, BeginDelete
  <2> QED BY <1>1, <1>2, <1>5, <1>m, <2>1
<1> QED BY <1>3, <1>4, <1>5

\* NoOrphanEntry is inductive together with OwnerInv.
LEMMA OrphanStep ==
  ASSUME TypeOK, OwnerInv, NoOrphanEntry, [Next]_vars
  PROVE  NoOrphanEntry'
<1> SUFFICES ASSUME NEW s \in Schedules, callback'[s] # None
             PROVE  \/ timers'[s] > 0
                    \/ Closing(s)'
                    \/ \E r \in Requests : begin'[r].id = s /\ begin'[r].at = "monitor"
  BY DEF NoOrphanEntry, Present
<1>h. callback[s] # None =>
        \/ timers[s] > 0
        \/ Closing(s)
        \/ \E r \in Requests : begin[r].id = s /\ begin[r].at = "monitor"
  BY DEF NoOrphanEntry, Present
<1>1. ASSUME NEW r \in Requests, BeginStep(r)
      PROVE  \/ timers'[s] > 0
             \/ Closing(s)'
             \/ \E q \in Requests : begin'[q].id = s /\ begin'[q].at = "monitor"
  <2>1. /\ UNCHANGED <<fin, job>>
        /\ \/ callback[s] = callback'[s]
           \/ begin'[r].id = s /\ begin'[r].at = "monitor"
        /\ timers[s] > 0 => timers'[s] > 0
        /\ (begin[r].id = s /\ begin[r].at = "monitor") => timers'[s] > 0
        /\ \A q \in Requests \ {r} : begin'[q] = begin[q]
    BY <1>1, BeginCloses
  <2>2. Closing(s)' <=> Closing(s)
    BY <2>1 DEF Closing
  <2> QED BY <1>h, <2>1, <2>2
<1>2. CASE \A r \in Requests : ~BeginStep(r)
  <2>1. callback'[s] = callback[s]
    <3>1. callback'[s] \in {callback[s], None}
      BY <1>2, EntriesShrink DEF BeginStep
    <3> QED BY <3>1
  <2>2. ASSUME NEW q \in Requests, begin[q].id = s, begin[q].at = "monitor"
        PROVE  begin'[q] = begin[q]
    <3>1. CASE \E r \in Requests, u \in Schedules : BeginGetInfo(r, u)
      BY <2>2, <3>1 DEF BeginGetInfo, TypeOK
    <3>2. CASE \A r \in Requests, u \in Schedules : ~BeginGetInfo(r, u)
      BY <1>2, <3>2, BeginFrame
    <3> QED BY <3>1, <3>2
  <2>3. /\ Closing(s) => Closing(s)'
        /\ timers[s] > 0 => timers'[s] > 0 \/ Closing(s)'
    <3>1. CASE \E f \in Finishes : FinishStep(f)
      BY <3>1, FinishCloses
    <3>2. CASE \/ \E u \in Schedules : TimerFires(u)
               \/ TimeOutStep
               \/ \E c \in Cancels : CancelStep(c)
               \/ \E c \in Cancels, u \in Schedules : CancelCall(c, u)
      BY <3>2, JobCloses
    <3>3. CASE \E f \in Finishes, u \in Schedules, report \in Reports : FinishCount(f, u, report)
      <4>1. PICK f \in Finishes, u \in Schedules, report \in Reports : FinishCount(f, u, report)
        BY <3>3
      <4>2. UNCHANGED <<timers, job>>
            /\ fin[f].at = "idle" /\ \A g \in Finishes \ {f} : fin'[g] = fin[g]
        BY <4>1 DEF FinishCount, finishing, TypeOK
      <4> QED BY <4>2 DEF Closing
    <3>4. CASE \/ \E u \in Schedules : AddCoAuthSchedule(u)
               \/ \E r \in Requests, u \in Schedules : BeginGetInfo(r, u)
               \/ \E m \in Infos, u \in Schedules, sizeOk \in BOOLEAN : SendDataFind(m, u, sizeOk)
               \/ \E m \in Infos : SendDataNotify(m)
               \/ \E r \in Requests : CallerDies(r) \/ OnRemoteDied(r)
               \/ ExecutorsChange \/ UNCHANGED vars
      <4>1. UNCHANGED <<timers, job, fin>>
        BY <3>4 DEF AddCoAuthSchedule, BeginGetInfo, SendDataFind, SendDataNotify,
           CallerDies, OnRemoteDied, ExecutorsChange, vars, begun
      <4> QED BY <4>1 DEF Closing
    <3> QED BY <1>2, <3>1, <3>2, <3>3, <3>4 DEF Next
  <2> QED BY <1>h, <2>1, <2>2, <2>3
<1> QED BY <1>1, <1>2

\* When no two requests begin the same schedule, an entry of scheResPool_ always
\* has its timeout posted or about to be, or a thread that will delete it: the
\* threads that remove the timer first are the ones that then delete the entry.
THEOREM NoStrandedEntry == ~SharedIds => (Spec => []NoOrphanEntry)
<1> SUFFICES ASSUME ~SharedIds
             PROVE  Spec => []NoOrphanEntry
  OBVIOUS
<1>1. Init => TypeOK /\ OwnerInv /\ NoOrphanEntry
  BY InitType, OwnerInvariant DEF Init, NoOrphanEntry, Present
<1>2. TypeOK /\ OwnerInv /\ NoOrphanEntry /\ [Next]_vars
        => (TypeOK /\ OwnerInv /\ NoOrphanEntry)'
  BY NextType, OwnerInvariant, OrphanStep
<1> QED BY <1>1, <1>2, PTL DEF Spec

-----------------------------------------------------------------------------
(* A schedule is granted only after as many answers as it has executors.    *)

\* Finish calls that have lowered the count and returned.
Counted(s) == {f \in Answers(s) : fin[f].at = "counted"}

AllButOne(s) == 1 + Cardinality(Counted(s)) >= ExecutorNum[s]

\* The entry's counter and the calls that lowered it account for every executor,
\* so a thread that read "not more than one" is preceded by all but one of them.
\* Orders go out only after the entry is saved, so an answer never meets an
\* entry that is not there yet.
AnswerInv ==
  /\ \A f \in Finishes :
       fin[f].at = "idle" => fin[f].id = None /\ fin[f].token = "none"
  /\ \A s \in Schedules :
       /\ answers[s] = Cardinality(Answers(s))
       /\ answers[s] > 0 => orders[s] > 0
       /\ orders[s] > 0 => \E r \in Requests : begin[r].id = s /\ begin[r].at \in Saved
       /\ Present(s) => left[s] + Cardinality(Counted(s)) >= ExecutorNum[s]
  /\ \A s \in Schedules : \A f \in Answers(s) :
       /\ fin[f].at \in {"removeTimer", "find"} => ~Present(s) \/ AllButOne(s)
       /\ fin[f].at = "sign" \/ fin[f].token # "none" => AllButOne(s)

LEMMA AnswersFinite ==
  \A s : /\ IsFiniteSet(Answers(s)) /\ Cardinality(Answers(s)) \in Nat
         /\ IsFiniteSet(Counted(s)) /\ Cardinality(Counted(s)) \in Nat
<1> TAKE s
<1>1. IsFiniteSet(Finishes) /\ Answers(s) \in SUBSET Finishes
  BY ConstantsAssumption DEF ConstantsAssumption, Answers
<1>2. IsFiniteSet(Answers(s)) /\ Counted(s) \in SUBSET Answers(s)
  BY <1>1, FS_Subset DEF Counted
<1>3. IsFiniteSet(Counted(s))
  BY <1>2, FS_Subset
<1> QED BY <1>2, <1>3, FS_CardinalityType

\* When no Finish record changes, the counts do not either.
LEMMA CountsSame ==
  ASSUME UNCHANGED fin
  PROVE  \A s : Answers(s)' = Answers(s) /\ Counted(s)' = Counted(s)
BY DEF Answers, Counted

\* What a Finish call that comes in does to the counts.
LEMMA CountComes ==
  ASSUME TypeOK, AnswerInv, NEW f \in Finishes, NEW s \in Schedules,
         NEW report \in Reports, FinishCount(f, s, report)
  PROVE  AnswerInv'
<1>t. /\ fin \in [Finishes -> Finish]
      /\ answers \in [Schedules -> Nat] /\ orders \in [Schedules -> Nat]
      /\ left \in [Schedules -> Nat]
      /\ ExecutorNum \in [Schedules -> 1..MaxExecutors]
      /\ MaxExecutors \in Nat
      /\ None \notin Schedules
  BY ConstantsAssumption DEF TypeOK, ConstantsAssumption
<1>1. PICK scheCount \in ScheduleCounts(s) :
        fin' = [fin EXCEPT ![f] =
                 [@ EXCEPT !.id = s,
                           !.report = report,
                           !.code = IF report = "failed" THEN "FAIL" ELSE "SUCCESS",
                           !.at = IF scheCount > 1 THEN "minus" ELSE "removeTimer"]]
  BY DEF FinishCount
<1> DEFINE at == IF scheCount > 1 THEN "minus" ELSE "removeTimer"
           code == IF report = "failed" THEN "FAIL" ELSE "SUCCESS"
<1>2. /\ fin[f].at = "idle" /\ fin[f].id = None /\ fin[f].token = fin'[f].token
      /\ fin'[f].id = s /\ fin'[f].at = at
      /\ \A g \in Finishes \ {f} : fin'[g] = fin[g]
  <2>1. fin[f].at = "idle" /\ fin[f].id = None
    BY DEF FinishCount, AnswerInv
  <2>2. fin' = [fin EXCEPT ![f] = [@ EXCEPT !.id = s, !.report = report,
                                            !.code = code, !.at = at]]
    BY <1>1
  <2> HIDE DEF at, code
  <2> QED BY <1>t, <2>1, <2>2 DEF Finish
<1>a. at \in {"minus", "removeTimer"}
  OBVIOUS
<1>3. /\ answers' = [answers EXCEPT ![s] = @ + 1]
      /\ UNCHANGED <<begin, callback, left, orders>>
      /\ orders[s] > 0
  <2>1. MayAnswer(s)
    BY DEF FinishCount
  <2>2. orders[s] > 0
    BY <2>1, <1>t DEF MayAnswer
  <2> QED BY <2>2 DEF FinishCount, finishing, pool
<1>4. \A u \in Schedules : Answers(u)' = IF u = s THEN Answers(u) \cup {f} ELSE Answers(u)
  BY <1>2, <1>t DEF Answers
<1>5. \A u \in Schedules : Counted(u)' = Counted(u)
  <2> HIDE DEF at
  <2> QED BY <1>2, <1>t, <1>a DEF Answers, Counted
<1>6. f \notin Answers(s)
  BY <1>2, <1>t DEF Answers
<1>7. \A u \in Schedules : answers'[u] = Cardinality(Answers(u)')
  <2>1. Cardinality(Answers(s) \cup {f}) = Cardinality(Answers(s)) + 1
    BY <1>6, AnswersFinite, FS_AddElement
  <2>2. answers'[s] = answers[s] + 1 /\ \A u \in Schedules \ {s} : answers'[u] = answers[u]
    BY <1>3, <1>t
  <2>3. \A u \in Schedules : answers[u] = Cardinality(Answers(u))
    BY DEF AnswerInv
  <2> QED BY <1>4, <2>1, <2>2, <2>3
<1>8. \A u \in Schedules : answers'[u] > 0 => orders'[u] > 0
  BY <1>3, <1>t DEF AnswerInv
<1>9. at = "removeTimer" => ~Present(s) \/ AllButOne(s)
  <2> SUFFICES ASSUME at = "removeTimer", Present(s)
               PROVE  AllButOne(s)
    OBVIOUS
  <2>1. left[s] <= 1
    <3>1. scheCount = left[s] /\ ~(scheCount > 1)
      BY DEF ScheduleCounts
    <3> QED BY <3>1, <1>t
  <2>2. left[s] + Cardinality(Counted(s)) >= ExecutorNum[s]
    BY DEF AnswerInv
  <2>3. left[s] \in Nat /\ ExecutorNum[s] \in Nat
    BY <1>t
  <2> QED BY <2>1, <2>2, <2>3, AnswersFinite DEF AllButOne
<1> HIDE DEF at
<1>10. \A u \in Schedules : AllButOne(u)' <=> AllButOne(u)
  BY <1>5 DEF AllButOne
<1>11. ASSUME NEW u \in Schedules, NEW g \in Answers(u)'
       PROVE  /\ fin'[g].at \in {"removeTimer", "find"} => callback'[u] = None \/ AllButOne(u)
              /\ fin'[g].at = "sign" \/ fin'[g].token # "none" => AllButOne(u)
  <2>1. CASE g = f
    <3>1. u = s
      BY <2>1, <1>4, <1>2 DEF Answers
    <3>2. fin'[g].token = "none"
      BY <2>1, <1>2 DEF AnswerInv
    <3> QED BY <2>1, <3>1, <3>2, <1>2, <1>3, <1>9, <1>a DEF Present
  <2>2. CASE g # f
    <3>1. g \in Answers(u) /\ fin'[g] = fin[g]
      BY <2>2, <1>2 DEF Answers
    <3> QED BY <3>1, <1>3 DEF AnswerInv, Present
  <2> QED BY <2>1, <2>2
<1>12. \A g \in Finishes : fin'[g].at = "idle" => fin'[g].id = None /\ fin'[g].token = "none"
  BY <1>2, <1>a DEF AnswerInv
<1>13. \A u \in Schedules :
         /\ orders'[u] > 0 => \E r \in Requests : begin'[r].id = u /\ begin'[r].at \in Saved
         /\ callback'[u] # None => left'[u] + Cardinality(Counted(u)') >= ExecutorNum[u]
  BY <1>3, <1>5 DEF AnswerInv, Present
<1> QED BY <1>7, <1>8, <1>10, <1>11, <1>12, <1>13 DEF AnswerInv, Present

\* What the later steps of a Finish call do to the counts.
LEMMA CountMoves ==
  ASSUME TypeOK, AnswerInv, NEW f \in Finishes, FinishStep(f)
  PROVE  AnswerInv'
<1> DEFINE s == fin[f].id
<1>t. /\ fin \in [Finishes -> Finish]
      /\ left \in [Schedules -> Nat]
      /\ callback \in [Schedules -> Requests \cup {None}]
      /\ ExecutorNum \in [Schedules -> 1..MaxExecutors]
      /\ MaxExecutors \in Nat
      /\ s \in Schedules
  <2>1. fin[f].at # "idle"
    BY DEF FinishStep, FinishMinus, FinishRemoveTimer, FinishFind, FinishDropInfo,
           FinishSign, FinishNotify, FinishDelete
  <2> QED BY <2>1, ConstantsAssumption DEF TypeOK, ConstantsAssumption
<1>1. UNCHANGED <<begin, orders, answers>>
  BY DEF FinishStep, FinishMinus, FinishRemoveTimer, FinishFind, FinishDropInfo,
         FinishSign, FinishNotify, FinishDelete, finishing, peers
<1>2. /\ \A g \in Finishes \ {f} : fin'[g] = fin[g]
      /\ \A g \in Finishes : fin'[g].id = fin[g].id
      /\ fin'[f].at # "idle"
      /\ fin[f].at \notin {"idle", "counted"}
      /\ fin'[f].token # "none" => fin[f].token # "none" \/ fin[f].at = "sign"
      /\ fin'[f].at = "sign" => FinishFind(f)
      /\ fin'[f].at = "find" => FinishRemoveTimer(f)
      /\ fin'[f].at # "removeTimer"
      /\ fin'[f].at = "counted" => FinishMinus(f)
  <2>1. CASE FinishSign(f)
    BY <2>1, SignMoves DEF FinishSign
  <2>2. CASE ~FinishSign(f)
    <3>1. CASE FinishMinus(f) \/ FinishRemoveTimer(f)
      BY <2>2, <3>1, <1>t, FinishMoves DEF FinishMinus, FinishRemoveTimer, Finish
    <3>2. CASE FinishFind(f)
      <4>1. PICK at \in {"dropInfo", "sign", "notify"} :
              fin' = [fin EXCEPT ![f] = [@ EXCEPT !.callback = callback[s], !.at = at]]
        BY <3>2 DEF FinishFind
      <4>2. fin'[f].at = at
        BY <4>1, <1>t DEF Finish
      <4> QED BY <2>2, <3>2, <4>2, FinishMoves
    <3>3. CASE FinishDropInfo(f) \/ FinishNotify(f) \/ FinishDelete(f)
      BY <2>2, <3>3, <1>t, FinishMoves DEF FinishDropInfo, FinishNotify, FinishDelete, Finish
    <3> QED BY <2>2, <3>1, <3>2, <3>3 DEF FinishStep
  <2> QED BY <2>1, <2>2
<1>3. \A u \in Schedules : Answers(u)' = Answers(u)
  BY <1>2 DEF Answers
<1>4. \A u \in Schedules :
        Counted(u)' = IF FinishMinus(f) /\ u = s THEN Counted(u) \cup {f} ELSE Counted(u)
  <2>1. CASE FinishMinus(f)
    <3>1. fin'[f].at = "counted"
      BY <2>1, <1>t DEF FinishMinus, Finish
    <3> QED BY <2>1, <3>1, <1>2 DEF Answers, Counted
  <2>2. CASE ~FinishMinus(f)
    BY <2>2, <1>2 DEF Answers, Counted
  <2> QED BY <2>1, <2>2
<1>5. FinishMinus(f) => Cardinality(Counted(s) \cup {f}) = Cardinality(Counted(s)) + 1
  <2>1. f \notin Counted(s)
    BY <1>2 DEF Counted
  <2> QED BY <2>1, AnswersFinite, FS_AddElement
<1>6. \A u \in Schedules : AllButOne(u) => AllButOne(u)'
  <2> SUFFICES ASSUME NEW u \in Schedules
               PROVE  AllButOne(u) => AllButOne(u)'
    OBVIOUS
  <2>1. /\ Cardinality(Counted(u)) \in Nat
        /\ ExecutorNum[u] \in Nat
        /\ \/ Cardinality(Counted(u)') = Cardinality(Counted(u))
           \/ Cardinality(Counted(u)') = Cardinality(Counted(u)) + 1
    <3>1. CASE FinishMinus(f) /\ u = s
      <4>1. Counted(u)' = Counted(u) \cup {f}
        BY <1>4, <3>1
      <4>2. Cardinality(Counted(u)') = Cardinality(Counted(u)) + 1
        BY <4>1, <1>5, <3>1
      <4> QED BY <4>2, <1>t, AnswersFinite
    <3>2. CASE ~(FinishMinus(f) /\ u = s)
      <4>1. Counted(u)' = Counted(u)
        BY <1>4, <3>2
      <4> QED BY <4>1, <1>t, AnswersFinite
    <3> QED BY <3>1, <3>2
  <2> QED BY <2>1 DEF AllButOne
<1>7. ASSUME NEW u \in Schedules, callback'[u] # None
      PROVE  /\ callback[u] = callback'[u]
             /\ left'[u] + Cardinality(Counted(u)') >= ExecutorNum[u]
  <2>h. callback[u] # None => left[u] + Cardinality(Counted(u)) >= ExecutorNum[u]
    BY DEF AnswerInv, Present
  <2>n. /\ Cardinality(Counted(u)) \in Nat /\ Cardinality(Counted(s)) \in Nat
        /\ ExecutorNum[u] \in Nat /\ left[u] \in Nat /\ left[s] \in Nat
    BY <1>t, AnswersFinite
  <2>1. CASE FinishMinus(f)
    <3>1. callback' = callback /\ ScheduleCountMinus(s)
      BY <2>1 DEF FinishMinus, ScheduleCountMinus
    <3>2. left' = [left EXCEPT ![s] = IF Present(s) /\ left[s] > 0 THEN left[s] - 1 ELSE left[s]]
      BY <3>1 DEF ScheduleCountMinus
    <3>3. CASE u = s
      <4>1. Counted(u)' = Counted(s) \cup {f}
        BY <1>4, <2>1, <3>3
      <4>2. Cardinality(Counted(u)') = Cardinality(Counted(s)) + 1
        BY <4>1, <2>1, <1>5
      <4>3. left'[u] >= left[s] - 1
        BY <3>2, <3>3, <1>t, <2>n
      <4>4. left'[u] \in Nat
        BY <3>2, <3>3, <1>t, <2>n
      <4> HIDE DEF s
      <4> QED BY <1>7, <2>h, <2>n, <3>1, <3>3, <4>2, <4>3, <4>4
    <3>4. CASE u # s
      <4>1. Counted(u)' = Counted(u) /\ left'[u] = left[u]
        BY <1>4, <3>2, <3>4, <1>t
      <4> QED BY <1>7, <2>h, <3>1, <4>1
    <3> QED BY <3>3, <3>4
  <2>2. CASE ~FinishMinus(f)
    <3>1. Counted(u)' = Counted(u)
      BY <1>4, <2>2
    <3>2. callback'[u] = callback[u] /\ left'[u] = left[u]
      <4>1. CASE FinishDelete(f)
        BY <4>1, <1>7, <1>t DEF FinishDelete, DeleteScheduleCallback
      <4>2. CASE ~FinishDelete(f)
        BY <4>2, <2>2 DEF FinishStep, FinishRemoveTimer, FinishFind, FinishDropInfo,
           FinishSign, FinishNotify, pool
      <4> QED BY <4>1, <4>2
    <3> QED BY <1>7, <2>h, <3>1, <3>2
  <2> QED BY <2>1, <2>2
<1>8. ASSUME NEW u \in Schedules, NEW g \in Answers(u)
      PROVE  /\ fin'[g].at \in {"removeTimer", "find"} => callback'[u] = None \/ AllButOne(u)
             /\ fin'[g].at = "sign" \/ fin'[g].token # "none" => AllButOne(u)
  <2>h. /\ fin[g].at \in {"removeTimer", "find"} => callback[u] = None \/ AllButOne(u)
        /\ fin[g].at = "sign" \/ fin[g].token # "none" => AllButOne(u)
    BY DEF AnswerInv, Present
  <2>1. CASE g # f
    BY <2>1, <2>h, <1>2, <1>7 DEF Answers
  <2>2. CASE g = f
    <3>1. u = s
      BY <2>2 DEF Answers
    <3>2. fin'[f].at = "find" => fin[f].at = "removeTimer"
      BY <1>2 DEF FinishRemoveTimer
    <3>3. fin'[f].at = "sign" => fin[f].at = "find" /\ callback[u] # None
      <4> SUFFICES ASSUME fin'[f].at = "sign"
                   PROVE  fin[f].at = "find" /\ callback[u] # None
        OBVIOUS
      <4>1. FinishFind(f)
        BY <1>2
      <4>2. fin[f].at = "find"
        BY <4>1 DEF FinishFind
      <4>3. ASSUME callback[u] = None
            PROVE  FALSE
        <5>1. fin' = [fin EXCEPT ![f] = [@ EXCEPT !.callback = callback[s], !.at = "dropInfo"]]
          BY <3>1, <4>1, <4>3 DEF FinishFind, Present
        <5> QED BY <5>1, <1>t DEF Finish
      <4> QED BY <4>2, <4>3
    <3> QED BY <2>2, <2>h, <3>2, <3>3, <1>2, <1>7
  <2> QED BY <2>1, <2>2
<1>9. \A g \in Finishes : fin'[g].at = "idle" => fin'[g].id = None /\ fin'[g].token = "none"
  BY <1>2 DEF AnswerInv
<1>10. \A u \in Schedules :
         /\ answers'[u] = Cardinality(Answers(u)')
         /\ answers'[u] > 0 => orders'[u] > 0
         /\ orders'[u] > 0 => \E r \in Requests : begin'[r].id = u /\ begin'[r].at \in Saved
  BY <1>1, <1>3 DEF AnswerInv
<1> QED BY <1>3, <1>6, <1>7, <1>8, <1>9, <1>10 DEF AnswerInv, Present

\* What CoAuthHandle does to the counts: it saves an entry before any order is
\* out, so before any answer can be.
LEMMA CountBegins ==
  ASSUME TypeOK, OwnerInv, AnswerInv, ~SharedIds, NEW r \in Requests, BeginStep(r)
  PROVE  AnswerInv'
<1>t. /\ begin \in [Requests -> Begin]
      /\ left \in [Schedules -> Nat]
      /\ callback \in [Schedules -> Requests \cup {None}]
      /\ orders \in [Schedules -> Nat]
      /\ ExecutorNum \in [Schedules -> 1..MaxExecutors]
      /\ MaxExecutors \in Nat
      /\ None \notin Schedules \cup Requests
  BY ConstantsAssumption DEF TypeOK, ConstantsAssumption
<1>m. /\ \A q \in Requests : begin'[q].id = begin[q].id
      /\ \A q \in Requests \ {r} : begin'[q] = begin[q]
      /\ begin[r].id \in Schedules
      /\ begin[r].at \in Saved => begin'[r].at \in Saved
      /\ BeginSave(r) => begin[r].at = "save"
  BY BeginMoves
<1>1. UNCHANGED <<fin, answers>>
  BY DEF BeginStep, BeginReject, BeginAddDeath, BeginSave, BeginMonitor, BeginSkip,
         BeginCall, BeginReturn, BeginNotify, BeginDelete, BeginRemoveTimer, begun, peers
<1>2. \A u : /\ Answers(u)' = Answers(u) /\ Counted(u)' = Counted(u)
             /\ AllButOne(u)' <=> AllButOne(u)
  BY <1>1 DEF Answers, Counted, AllButOne
<1>3. ASSUME NEW u \in Schedules, orders'[u] > 0
      PROVE  \E q \in Requests : begin'[q].id = u /\ begin'[q].at \in Saved
  <2>1. CASE BeginCall(r) /\ u = begin[r].id
    BY <2>1, <1>m DEF BeginCall, Saved
  <2>2. CASE ~(BeginCall(r) /\ u = begin[r].id)
    <3>1. orders'[u] = orders[u]
      BY <2>2, <1>t, <1>m DEF BeginStep, BeginReject, BeginAddDeath, BeginSave,
         BeginMonitor, BeginSkip, BeginCall, BeginReturn, BeginNotify, BeginDelete,
         BeginRemoveTimer, peers
    <3>2. PICK q \in Requests : begin[q].id = u /\ begin[q].at \in Saved
      BY <1>3, <3>1 DEF AnswerInv
    <3> QED BY <3>2, <1>m
  <2> QED BY <2>1, <2>2
<1>4. ASSUME NEW u \in Schedules, answers'[u] > 0
      PROVE  orders'[u] > 0
  <2>1. orders[u] > 0
    BY <1>1, <1>4 DEF AnswerInv
  <2>2. CASE BeginCall(r)
    <3>1. orders' = [orders EXCEPT ![begin[r].id] = @ + 1]
      BY <2>2 DEF BeginCall
    <3>2. orders[u] \in Nat /\ orders[begin[r].id] \in Nat
      BY <1>t, <1>m
    <3>3. orders'[u] = IF u = begin[r].id THEN orders[u] + 1 ELSE orders[u]
      BY <3>1, <1>t, <1>m
    <3> QED BY <2>1, <3>2, <3>3
  <2>3. CASE ~BeginCall(r)
    BY <2>1, <2>3 DEF BeginStep, BeginReject, BeginAddDeath, BeginSave,
       BeginMonitor, BeginSkip, BeginReturn, BeginNotify, BeginDelete,
       BeginRemoveTimer, peers
  <2> QED BY <2>2, <2>3
<1>5. ASSUME NEW u \in Schedules, callback'[u] # None
      PROVE  /\ left'[u] + Cardinality(Counted(u)) >= ExecutorNum[u]
             /\ callback[u] # None \/ Answers(u) = {}
  <2>h. callback[u] # None => left[u] + Cardinality(Counted(u)) >= ExecutorNum[u]
    BY DEF AnswerInv, Present
  <2>n. Cardinality(Counted(u)) \in Nat /\ ExecutorNum[u] \in Nat
    BY <1>t, AnswersFinite
  <2>1. CASE BeginSave(r) /\ u = begin[r].id /\ callback[u] = None
    <3>1. left'[u] = ExecutorNum[u]
      BY <2>1, <1>t DEF BeginSave, SaveScheduleCallback, Present
    <3>2. ~(orders[u] > 0)
      <4> SUFFICES ASSUME orders[u] > 0
                   PROVE  FALSE
        OBVIOUS
      <4>1. PICK q \in Requests : begin[q].id = u /\ begin[q].at \in Saved
        BY DEF AnswerInv
      <4>2. q = r
        BY <2>1, <4>1, <1>t DEF OwnerInv
      <4> QED BY <2>1, <4>1, <4>2, <1>m DEF Saved
    <3>3. ~(Cardinality(Answers(u)) > 0)
      BY <3>2 DEF AnswerInv
    <3>4. Cardinality(Answers(u)) = 0
      BY <3>3, AnswersFinite
    <3>5. Answers(u) = {}
      BY <3>4, AnswersFinite, FS_EmptySet
    <3> QED BY <2>n, <3>1, <3>5
  <2>2. CASE ~(BeginSave(r) /\ u = begin[r].id /\ callback[u] = None)
    <3>1. callback'[u] = callback[u] /\ left'[u] = left[u]
      <4>1. CASE BeginDelete(r)
        BY <4>1, <1>5, <1>t, <1>m DEF BeginDelete, DeleteScheduleCallback
      <4>2. CASE BeginSave(r)
        BY <4>2, <2>2, <1>t, <1>m DEF BeginSave, SaveScheduleCallback, Present, pool
      <4>3. CASE ~BeginDelete(r) /\ ~BeginSave(r)
        BY <4>3 DEF BeginStep, BeginReject, BeginAddDeath, BeginMonitor, BeginSkip,
           BeginCall, BeginReturn, BeginNotify, BeginRemoveTimer, pool
      <4> QED BY <4>1, <4>2, <4>3
    <3> QED BY <1>5, <2>h, <3>1
  <2> QED BY <2>1, <2>2
<1>6. ASSUME NEW u \in Schedules, NEW g \in Answers(u)
      PROVE  /\ fin'[g].at \in {"removeTimer", "find"} => callback'[u] = None \/ AllButOne(u)
             /\ fin'[g].at = "sign" \/ fin'[g].token # "none" => AllButOne(u)
  <2>1. fin[g].at \in {"removeTimer", "find"} => callback[u] = None \/ AllButOne(u)
    BY DEF AnswerInv, Present
  <2>2. fin[g].at = "sign" \/ fin[g].token # "none" => AllButOne(u)
    BY DEF AnswerInv
  <2>3. callback'[u] # None => callback[u] # None
    BY <1>5
  <2> QED BY <1>1, <2>1, <2>2, <2>3
<1>7. \A g \in Finishes : fin'[g].at = "idle" => fin'[g].id = None /\ fin'[g].token = "none"
  BY <1>1 DEF AnswerInv
<1>8. \A u \in Schedules : answers'[u] = Cardinality(Answers(u)')
  BY <1>1, <1>2 DEF AnswerInv
<1> QED BY <1>2, <1>3, <1>4, <1>5, <1>6, <1>7, <1>8 DEF AnswerInv, Present

\* AnswerInv holds at first and in every step when ids are not shared.
LEMMA AnswerInvariant ==
  ASSUME ~SharedIds
  PROVE  /\ Init => AnswerInv
         /\ TypeOK /\ OwnerInv /\ AnswerInv /\ [Next]_vars => AnswerInv'
<1>1. ASSUME Init
      PROVE  AnswerInv
  <2>1. \A s \in Schedules : Answers(s) = {}
    BY <1>1, ConstantsAssumption DEF Init, Answers, ConstantsAssumption
  <2>2. \A s \in Schedules : Cardinality(Answers(s)) = 0
    BY <2>1, FS_EmptySet
  <2> QED BY <1>1, <2>1, <2>2 DEF Init, AnswerInv, Present
<1>2. ASSUME TypeOK, OwnerInv, AnswerInv, [Next]_vars
      PROVE  AnswerInv'
  <2>1. CASE \E f \in Finishes, s \in Schedules, report \in Reports : FinishCount(f, s, report)
    BY <1>2, <2>1, CountComes
  <2>2. CASE \E f \in Finishes : FinishStep(f)
    BY <1>2, <2>2, CountMoves
  <2>3. CASE \E r \in Requests : BeginStep(r)
    BY <1>2, <2>3, CountBegins
  <2>4. CASE /\ \A f \in Finishes, s \in Schedules, report \in Reports : ~FinishCount(f, s, report)
             /\ \A f \in Finishes : ~FinishStep(f)
             /\ \A r \in Requests : ~BeginStep(r)
    <3>1. UNCHANGED <<fin, orders, answers>>
      <4>1. ASSUME NEW c, CancelStep(c)
            PROVE  UNCHANGED <<fin, orders, answers>>
        BY <4>1 DEF CancelStep, CancelGetInfo, CancelEnd, CancelDrop, cancelling, peers
      <4> QED
        BY <1>2, <2>4, <4>1 DEF Next, TimeOutStep, AddCoAuthSchedule, TimerFires,
           BeginGetInfo, SendDataFind, SendDataNotify, CancelCall, TimeOutFind,
           TimeOutNotify, TimeOutDelete, ExecutorsChange, CallerDies, OnRemoteDied,
           vars, begun, cancelling, peers
    <3>2. \A s : /\ Answers(s)' = Answers(s) /\ Counted(s)' = Counted(s)
                 /\ AllButOne(s)' <=> AllButOne(s)
      BY <3>1 DEF Answers, Counted, AllButOne
    <3>3. ASSUME NEW s \in Schedules, callback'[s] # None
          PROVE  callback'[s] = callback[s] /\ left'[s] = left[s]
      <4>t. callback \in [Schedules -> Requests \cup {None}] /\ left \in [Schedules -> Nat]
        BY <1>2 DEF TypeOK
      <4>1. ASSUME NEW u, DeleteScheduleCallback(u)
            PROVE  callback'[s] = callback[s] /\ left'[s] = left[s]
        BY <3>3, <4>1, <4>t DEF DeleteScheduleCallback
      <4>2. CASE TimeOutDelete
        BY <4>1, <4>2 DEF TimeOutDelete
      <4>3. CASE \E r \in Requests : OnRemoteDied(r)
        BY <4>1, <4>3 DEF OnRemoteDied
      <4>4. CASE ~TimeOutDelete /\ \A r \in Requests : ~OnRemoteDied(r)
        <5>1. ASSUME NEW c, CancelStep(c)
              PROVE  UNCHANGED pool
          BY <5>1 DEF CancelStep, CancelGetInfo, CancelEnd, CancelDrop
        <5>2. UNCHANGED pool
          BY <1>2, <2>4, <4>4, <5>1 DEF Next, TimeOutStep, AddCoAuthSchedule, TimerFires,
             BeginGetInfo, SendDataFind, SendDataNotify, CancelCall, TimeOutFind,
             TimeOutNotify, ExecutorsChange, CallerDies, vars
        <5> QED BY <5>2 DEF pool
      <4> QED BY <4>2, <4>3, <4>4
    <3>4. ASSUME NEW s \in Schedules, NEW r \in Requests,
                 begin[r].id = s, begin[r].at \in Saved
          PROVE  begin'[r] = begin[r]
      <4>1. CASE \E q \in Requests, u \in Schedules : BeginGetInfo(q, u)
        BY <1>2, <3>4, <4>1 DEF BeginGetInfo, TypeOK, Saved
      <4>2. CASE \A q \in Requests, u \in Schedules : ~BeginGetInfo(q, u)
        BY <1>2, <2>4, <4>2, BeginFrame
      <4> QED BY <4>1, <4>2
    <3>5. \A s \in Schedules : orders'[s] > 0 =>
            \E r \in Requests : begin'[r].id = s /\ begin'[r].at \in Saved
      BY <1>2, <3>1, <3>4 DEF AnswerInv
    <3>6. \A s \in Schedules :
            /\ answers'[s] = Cardinality(Answers(s)')
            /\ answers'[s] > 0 => orders'[s] > 0
            /\ callback'[s] # None => left'[s] + Cardinality(Counted(s)') >= ExecutorNum[s]
      BY <1>2, <3>1, <3>2, <3>3 DEF AnswerInv, Present
    <3>7. ASSUME NEW s \in Schedules, NEW f \in Answers(s)
          PROVE  /\ fin'[f].at \in {"removeTimer", "find"} => callback'[s] = None \/ AllButOne(s)
                 /\ fin'[f].at = "sign" \/ fin'[f].token # "none" => AllButOne(s)
      BY <1>2, <3>1, <3>3 DEF AnswerInv, Present
    <3>8. \A f \in Finishes : fin'[f].at = "idle" => fin'[f].id = None /\ fin'[f].token = "none"
      BY <1>2, <3>1 DEF AnswerInv
    <3> QED BY <3>2, <3>5, <3>6, <3>7, <3>8 DEF AnswerInv, Present
  <2> QED BY <2>1, <2>2, <2>3, <2>4
<1> QED BY <1>1, <1>2

\* GetScheduleToken grants a schedule only after as many Finish calls as it has
\* executors: reading the count and lowering it are two calls into the pool, yet
\* no order of the calls lets the result of too few executors be granted.
THEOREM GrantedAfterAll == ~SharedIds => (Spec => []AllAnswered)
<1> SUFFICES ASSUME ~SharedIds
             PROVE  Spec => []AllAnswered
  OBVIOUS
<1> DEFINE Inv == TypeOK /\ OwnerInv /\ TokenInv /\ AnswerInv
<1>1. Init => Inv
  BY InitType, OwnerInvariant, TokenInvariant, AnswerInvariant
<1>2. Inv /\ [Next]_vars => Inv'
  BY NextType, OwnerInvariant, TokenInvariant, AnswerInvariant
<1>3. Inv => AllAnswered
  <2> SUFFICES ASSUME Inv, NEW s \in Schedules, NEW f \in Holders(s)
               PROVE  answers[s] >= ExecutorNum[s]
    BY DEF AllAnswered
  <2>1. f \in Answers(s) /\ fin[f].token # "none"
    BY DEF Holders, Answers
  <2>2. 1 + Cardinality(Counted(s)) >= ExecutorNum[s]
    BY <2>1 DEF AnswerInv, AllButOne
  <2>3. f \notin Counted(s) /\ Counted(s) \cup {f} \in SUBSET Answers(s)
    <3>1. fin[f].at \in {"notify", "delete", "done"}
      BY <2>1 DEF TokenInv, Answers
    <3> QED BY <2>1, <3>1 DEF Counted
  <2>4. Cardinality(Counted(s) \cup {f}) = Cardinality(Counted(s)) + 1
    BY <2>3, AnswersFinite, FS_AddElement
  <2>5. Cardinality(Counted(s) \cup {f}) <= Cardinality(Answers(s))
    BY <2>3, AnswersFinite, FS_Subset
  <2>6. answers[s] = Cardinality(Answers(s))
    BY DEF AnswerInv
  <2>7. ExecutorNum[s] \in Nat
    <3>1. ExecutorNum \in [Schedules -> 1..MaxExecutors] /\ MaxExecutors \in Nat
      BY ConstantsAssumption DEF ConstantsAssumption
    <3> QED BY <3>1
  <2> QED BY <2>2, <2>4, <2>5, <2>6, <2>7, AnswersFinite
<1> QED BY <1>1, <1>2, <1>3, PTL DEF Spec
=============================================================================
