--------------------------- MODULE CoAuthProofs ---------------------------
(***************************************************************************)
(* Theorems about CoAuth, for every value of its constants.                 *)
(***************************************************************************)
EXTENDS CoAuth, TLAPS

-----------------------------------------------------------------------------
(* Type correctness.                                                       *)

\* The initial state is well typed.
LEMMA InitType == Init => TypeOK
BY ConstantsAssumption
   DEF Init, TypeOK, ConstantsAssumption, Begin, Finish, Job, Info, BeginAt,
       FinishAt, JobAt, InfoAt, Codes, AllReports

\* What Tell adds is a message.
LEMMA TellType ==
  ASSUME TypeOK, NEW r \in Requests \cup {None}, NEW t \in Threads,
         NEW c \in Codes \cup {"ACQUIRE"}, Tell(r, t, c)
  PROVE  told' \in [Requests -> SUBSET Message]
BY DEF TypeOK, Tell, Message

\* The steps of CoAuthHandle keep the state well typed.
LEMMA BeginType ==
  ASSUME TypeOK, NEW r \in Requests, BeginStep(r)
  PROVE  TypeOK'
<1>r. r \in Threads
  BY DEF Threads
<1>b. begin \in [Requests -> Begin] /\ begin[r].id \in Schedules
  BY DEF TypeOK, BeginStep, BeginReject, BeginAddDeath, BeginSave, BeginMonitor,
         BeginSkip, BeginCall, BeginReturn, BeginNotify, BeginDelete, BeginRemoveTimer
<1>t. timers \in [Schedules -> Nat] /\ orders \in [Schedules -> Nat]
  BY DEF TypeOK
<1>1. CASE BeginReject(r)
  <2>1. told' \in [Requests -> SUBSET Message]
    BY <1>1, <1>r, TellType DEF BeginReject, Codes
  <2>2. begin' \in [Requests -> Begin]
    BY <1>1, <1>b DEF BeginReject, Begin, BeginAt, Codes
  <2> QED BY <1>1, <2>1, <2>2 DEF BeginReject, TypeOK, ta, pool, peers, begun
<1>2. CASE BeginAddDeath(r)
  <2>1. begin' \in [Requests -> Begin]
    BY <1>2, <1>b DEF BeginAddDeath, Begin, BeginAt, Codes
  <2>2. recipient' \in [Requests -> {"none", "armed", "fired"}]
    BY <1>2 DEF BeginAddDeath, TypeOK
  <2> QED BY <1>2, <2>1, <2>2 DEF BeginAddDeath, TypeOK, ta, pool, peers, begun
<1>3. CASE BeginSave(r)
  <2>1. begin' \in [Requests -> Begin]
    BY <1>3, <1>b DEF BeginSave, Begin, BeginAt, Codes
  <2>2. /\ left' \in [Schedules -> Nat]
        /\ callback' \in [Schedules -> Requests \cup {None}]
    BY <1>3, ConstantsAssumption
    DEF BeginSave, SaveScheduleCallback, ConstantsAssumption, TypeOK, pool
  <2> QED BY <1>3, <2>1, <2>2 DEF BeginSave, TypeOK, ta, peers, begun
<1>4. CASE BeginMonitor(r)
  <2>1. begin' \in [Requests -> Begin]
    BY <1>4, <1>b DEF BeginMonitor, Begin, BeginAt, Codes
  <2>2. timers' \in [Schedules -> Nat]
    BY <1>4, <1>b, <1>t DEF BeginMonitor, MonitorCall
  <2> QED BY <1>4, <2>1, <2>2 DEF BeginMonitor, TypeOK, ta, pool, peers, begun
<1>n. ASSUME NEW ret \in {"SUCCESS", "FAIL", "TIMEOUT"}, NextExecutor(r, ret)
      PROVE  /\ begin' \in [Requests -> Begin]
             /\ \A q \in Requests : begin'[q].id = begin[q].id
             /\ \A q \in Requests \ {r} : begin'[q] = begin[q]
  <2> DEFINE next == begin[r].i + 1
             at == IF next < ExecutorNum[begin[r].id] THEN "execute"
                   ELSE IF ret = "SUCCESS" THEN "done" ELSE "notify"
  <2>1. next \in Nat /\ at \in BeginAt /\ ret \in Codes
    BY <1>b DEF Begin, BeginAt, Codes
  <2>2. begin' = [begin EXCEPT ![r] =
                    [@ EXCEPT !.i = next, !.ret = ret, !.at = at]]
    BY <1>n DEF NextExecutor
  <2> HIDE DEF next, at
  <2>3. [begin[r] EXCEPT !.i = next, !.ret = ret, !.at = at] \in Begin
    BY <1>b, <2>1 DEF Begin
  <2> QED
    BY <1>b, <2>1, <2>2, <2>3 DEF Begin
<1>c. begin[r].ret \in {"SUCCESS", "FAIL", "TIMEOUT"}
  BY <1>b DEF Begin, Codes
<1>5. CASE BeginSkip(r)
  <2>1. /\ begin' \in [Requests -> Begin]
        /\ \A q \in Requests : begin'[q].id = begin[q].id
        /\ \A q \in Requests \ {r} : begin'[q] = begin[q]
    BY <1>5, <1>n, <1>c DEF BeginSkip
  <2> QED BY <1>5, <1>b, <2>1 DEF BeginSkip, TypeOK, ta, pool, peers, begun
<1>6. CASE BeginCall(r)
  <2>1. begin' \in [Requests -> Begin]
    BY <1>6, <1>b DEF BeginCall, Begin, BeginAt, Codes
  <2>2. orders' \in [Schedules -> Nat]
    BY <1>6, <1>b, <1>t DEF BeginCall
  <2> QED BY <1>6, <2>1, <2>2 DEF BeginCall, TypeOK, ta, pool, begun
<1>7. CASE \E ret \in {"SUCCESS", "FAIL"} : BeginReturn(r, ret)
  <2>1. PICK ret \in {"SUCCESS", "FAIL"} : BeginReturn(r, ret)
    BY <1>7
  <2>2. /\ begin' \in [Requests -> Begin]
        /\ \A q \in Requests : begin'[q].id = begin[q].id
        /\ \A q \in Requests \ {r} : begin'[q] = begin[q]
    BY <2>1, <1>n, <1>c DEF BeginReturn
  <2> QED BY <1>b, <2>1, <2>2 DEF BeginReturn, TypeOK, ta, pool, peers, begun
<1>8. CASE BeginNotify(r)
  <2>1. told' \in [Requests -> SUBSET Message]
    BY <1>8, <1>r, <1>c, TellType DEF BeginNotify, Codes
  <2>2. begin' \in [Requests -> Begin]
    BY <1>8, <1>b DEF BeginNotify, Begin, BeginAt, Codes
  <2> QED BY <1>8, <2>1, <2>2 DEF BeginNotify, TypeOK, ta, pool, peers, begun
<1>9. CASE BeginDelete(r)
  <2>1. begin' \in [Requests -> Begin]
    BY <1>9, <1>b DEF BeginDelete, Begin, BeginAt, Codes
  <2>2. /\ left' \in [Schedules -> Nat]
        /\ callback' \in [Schedules -> Requests \cup {None}]
    BY <1>9 DEF BeginDelete, DeleteScheduleCallback, TypeOK
  <2> QED BY <1>9, <2>1, <2>2 DEF BeginDelete, TypeOK, ta, peers, begun
<1>10. CASE BeginRemoveTimer(r)
  <2>1. begin' \in [Requests -> Begin]
    BY <1>10, <1>b DEF BeginRemoveTimer, Begin, BeginAt, Codes
  <2>2. timers' \in [Schedules -> Nat]
    BY <1>10, <1>b, <1>t DEF BeginRemoveTimer, MonitorRemoveCall
  <2> QED BY <1>10, <2>1, <2>2 DEF BeginRemoveTimer, TypeOK, ta, pool, peers, begun
<1> QED
  BY <1>1, <1>2, <1>3, <1>4, <1>5, <1>6, <1>7, <1>8, <1>9, <1>10 DEF BeginStep

\* The steps of ExecutorMessenger::Finish keep the state well typed.
LEMMA FinishType ==
  ASSUME TypeOK, NEW f \in Finishes,
         \/ FinishStep(f)
         \/ \E s \in Schedules, report \in Reports : FinishCount(f, s, report)
  PROVE  TypeOK'
<1>f. f \in Threads
  BY DEF Threads
<1>b. /\ fin \in [Finishes -> Finish]
      /\ left \in [Schedules -> Nat]
      /\ callback \in [Schedules -> Requests \cup {None}]
      /\ timers \in [Schedules -> Nat]
      /\ answers \in [Schedules -> Nat]
      /\ taSched \subseteq Schedules
  BY DEF TypeOK
<1>g. \A g \in Finishes : fin[g].at # "idle" => fin[g].id \in Schedules
  BY DEF TypeOK
<1>i. FinishStep(f) => fin[f].id \in Schedules
  BY DEF TypeOK, FinishStep, FinishMinus, FinishRemoveTimer, FinishFind,
         FinishDropInfo, FinishSign, FinishNotify, FinishDelete
<1>1. CASE \E s \in Schedules, report \in Reports : FinishCount(f, s, report)
  <2>1. PICK s \in Schedules, report \in Reports : FinishCount(f, s, report)
    BY <1>1
  <2>2. report \in AllReports
    BY ConstantsAssumption DEF ConstantsAssumption
  <2>3. PICK at \in {"minus", "removeTimer"}, code \in {"FAIL", "SUCCESS"} :
          fin' = [fin EXCEPT ![f] = [@ EXCEPT !.id = s, !.report = report,
                                              !.code = code, !.at = at]]
    BY <2>1, Zenon DEF FinishCount
  <2>4. fin' \in [Finishes -> Finish]
    <3>1. at \in FinishAt /\ code \in Codes
      BY DEF FinishAt, Codes
    <3>2. [fin[f] EXCEPT !.id = s, !.report = report, !.code = code, !.at = at] \in Finish
      BY <1>b, <2>2, <3>1 DEF Finish
    <3> QED BY <1>b, <2>3, <3>2
  <2>5. \A g \in Finishes : fin'[g].at # "idle" => fin'[g].id \in Schedules
    BY <1>b, <1>g, <2>3 DEF Finish
  <2>6. answers' \in [Schedules -> Nat]
    <3>1. answers' = [answers EXCEPT ![s] = @ + 1]
      BY <2>1 DEF FinishCount
    <3> QED BY <1>b, <3>1
  <2> QED
    BY <2>1, <2>4, <2>5, <2>6 DEF FinishCount, TypeOK, pool, finishing
<1>a. ASSUME NEW at \in FinishAt, fin' = [fin EXCEPT ![f].at = at], FinishStep(f)
      PROVE  /\ fin' \in [Finishes -> Finish]
             /\ \A g \in Finishes : fin'[g].at # "idle" => fin'[g].id \in Schedules
  BY <1>a, <1>b, <1>i, <1>g DEF Finish
<1>2. CASE FinishMinus(f)
  <2>1. left' \in [Schedules -> Nat]
    BY <1>2, <1>b, <1>i DEF FinishStep, FinishMinus, ScheduleCountMinus
  <2>2. fin' = [fin EXCEPT ![f].at = "counted"] /\ "counted" \in FinishAt
    BY <1>2 DEF FinishMinus, FinishAt
  <2> QED
    BY <1>2, <1>a, <2>1, <2>2
    DEF FinishMinus, ScheduleCountMinus, FinishStep, TypeOK, peers, finishing
<1>3. CASE FinishRemoveTimer(f)
  <2>1. timers' \in [Schedules -> Nat]
    BY <1>3, <1>b, <1>i DEF FinishStep, FinishRemoveTimer, MonitorRemoveCall
  <2>2. fin' = [fin EXCEPT ![f].at = "find"] /\ "find" \in FinishAt
    BY <1>3 DEF FinishRemoveTimer, FinishAt
  <2> QED
    BY <1>3, <1>a, <2>1, <2>2
    DEF FinishRemoveTimer, FinishStep, TypeOK, peers, pool, finishing
<1>4. CASE FinishFind(f)
  <2>1. PICK at \in {"dropInfo", "sign", "notify"} :
          fin' = [fin EXCEPT ![f] = [@ EXCEPT !.callback = callback[fin[f].id],
                                              !.at = at]]
    BY <1>4 DEF FinishFind
  <2>2. callback[fin[f].id] \in Requests \cup {None}
    BY <1>4, <1>b, <1>i DEF FinishStep
  <2>3. fin' \in [Finishes -> Finish]
    <3>1. at \in FinishAt
      BY DEF FinishAt
    <3> QED BY <1>b, <2>1, <2>2, <3>1 DEF Finish
  <2>4. \A g \in Finishes : fin'[g].at # "idle" => fin'[g].id \in Schedules
    BY <1>4, <1>b, <1>i, <1>g, <2>1 DEF Finish, FinishStep
  <2> QED
    BY <1>4, <2>3, <2>4 DEF FinishFind, TypeOK, peers, pool, finishing
<1>5. CASE FinishDropInfo(f)
  <2>1. fin' = [fin EXCEPT ![f].at = "done"] /\ "done" \in FinishAt
    BY <1>5 DEF FinishDropInfo, FinishAt
  <2> QED
    BY <1>5, <1>a, <2>1 DEF FinishDropInfo, FinishStep, TypeOK, peers, pool, finishing
<1>6. CASE FinishSign(f)
  <2>1. PICK token \in {"none", "signed", "unsigned"}, code \in {"FAIL", "SUCCESS"} :
          fin' = [fin EXCEPT ![f] = [@ EXCEPT !.token = token, !.code = code,
                                              !.at = "notify"]]
    BY <1>6 DEF FinishSign
  <2>2. fin' \in [Finishes -> Finish]
    <3>1. "notify" \in FinishAt /\ code \in Codes
      BY DEF FinishAt, Codes
    <3>2. [fin[f] EXCEPT !.token = token, !.code = code, !.at = "notify"] \in Finish
      BY <1>b, <3>1 DEF Finish
    <3> QED BY <1>b, <2>1, <3>2
  <2>3. \A g \in Finishes : fin'[g].at # "idle" => fin'[g].id \in Schedules
    BY <1>6, <1>b, <1>i, <1>g, <2>1 DEF Finish, FinishStep
  <2> QED
    BY <1>6, <2>2, <2>3 DEF FinishSign, Spent, TypeOK, peers, pool, finishing
<1>7. CASE FinishNotify(f)
  <2>1. fin' = [fin EXCEPT ![f].at = "delete"] /\ "delete" \in FinishAt
    BY <1>7 DEF FinishNotify, FinishAt
  <2>2. fin[f].callback \in Requests \cup {None} /\ fin[f].code \in Codes
    BY <1>b DEF Finish
  <2>3. told' \in [Requests -> SUBSET Message]
    BY <1>7, <1>f, <2>2, TellType DEF FinishNotify
  <2> QED
    BY <1>7, <1>a, <2>1, <2>3 DEF FinishNotify, FinishStep, TypeOK, peers, pool, finishing
<1>8. CASE FinishDelete(f)
  <2>1. fin' = [fin EXCEPT ![f].at = "done"] /\ "done" \in FinishAt
    BY <1>8 DEF FinishDelete, FinishAt
  <2>2. /\ left' \in [Schedules -> Nat]
        /\ callback' \in [Schedules -> Requests \cup {None}]
    BY <1>8, <1>b DEF FinishDelete, DeleteScheduleCallback
  <2> QED
    BY <1>8, <1>a, <2>1, <2>2 DEF FinishDelete, FinishStep, TypeOK, peers, finishing
<1> QED
  BY <1>1, <1>2, <1>3, <1>4, <1>5, <1>6, <1>7, <1>8 DEF FinishStep

\* The steps of Cancel, and of TimeOut around it, keep the state well typed.
LEMMA CancelType ==
  ASSUME TypeOK, NEW c \in Cancels \cup {Monitor}, CancelStep(c)
  PROVE  TypeOK'
<1>b. /\ job \in [Cancels \cup {Monitor} -> Job]
      /\ taSched \subseteq Schedules
      /\ job[c].id \in Schedules
  BY DEF TypeOK, CancelStep, CancelGetInfo, CancelEnd, CancelDrop
<1>g. \A d \in Cancels \cup {Monitor} : job[d].at # "idle" => job[d].id \in Schedules
  BY DEF TypeOK
<1>r. Return(c) \in JobAt /\ {"end", "drop"} \subseteq JobAt
  BY DEF Return, JobAt
<1>1. CASE CancelGetInfo(c)
  <2>1. PICK ret \in {"SUCCESS", "FAIL"}, at \in {"end", Return(c)} :
          job' = [job EXCEPT ![c] = [@ EXCEPT !.i = 0, !.ret = ret, !.at = at]]
    BY <1>1 DEF CancelGetInfo
  <2>a. job[c] \in Job /\ ret \in Codes /\ at \in JobAt
    BY <1>b, <1>r DEF Codes
  <2>2. [job[c] EXCEPT !.i = 0, !.ret = ret, !.at = at] \in Job
    BY <2>a DEF Job
  <2>3. job' \in [Cancels \cup {Monitor} -> Job]
    BY <1>b, <2>1, <2>2
  <2>4. \A d \in Cancels \cup {Monitor} : job'[d].at # "idle" => job'[d].id \in Schedules
    BY <1>b, <1>g, <2>1 DEF Job
  <2> QED
    BY <1>1, <2>3, <2>4 DEF CancelGetInfo, TypeOK, peers, pool, cancelling
<1>2. CASE \E ret \in {"SUCCESS", "FAIL"} : CancelEnd(c, ret)
  <2>1. PICK ret \in {"SUCCESS", "FAIL"} : CancelEnd(c, ret)
    BY <1>2
  <2> DEFINE next == job[c].i + 1
             sum == IF ret = "SUCCESS" THEN job[c].ret ELSE ret
             at == IF next < ExecutorNum[job[c].id] THEN "end"
                   ELSE IF sum = "SUCCESS" THEN "drop" ELSE Return(c)
  <2>2. job' = [job EXCEPT ![c] = [@ EXCEPT !.i = next, !.ret = sum, !.at = at]]
    BY <2>1 DEF CancelEnd
  <2>3. next \in Nat /\ sum \in Codes /\ at \in JobAt
    BY <1>b, <1>r DEF Job, Codes
  <2> HIDE DEF next, sum, at
  <2>4. [job[c] EXCEPT !.i = next, !.ret = sum, !.at = at] \in Job
    BY <1>b, <2>3 DEF Job
  <2>5. job' \in [Cancels \cup {Monitor} -> Job]
    BY <1>b, <2>2, <2>4
  <2>6. \A d \in Cancels \cup {Monitor} : job'[d].at # "idle" => job'[d].id \in Schedules
    BY <1>b, <1>g, <2>2 DEF Job
  <2> QED
    BY <2>1, <2>5, <2>6 DEF CancelEnd, TypeOK, peers, pool, cancelling
<1>3. CASE CancelDrop(c)
  <2>1. job' = [job EXCEPT ![c].at = Return(c)]
    BY <1>3 DEF CancelDrop
  <2>2. job' \in [Cancels \cup {Monitor} -> Job]
    BY <1>b, <1>r, <2>1 DEF Job
  <2>3. \A d \in Cancels \cup {Monitor} : job'[d].at # "idle" => job'[d].id \in Schedules
    BY <1>b, <1>g, <2>1 DEF Job
  <2> QED
    BY <1>3, <2>2, <2>3 DEF CancelDrop, TypeOK, peers, pool, cancelling
<1> QED
  BY <1>1, <1>2, <1>3 DEF CancelStep

\* The steps of TimeOut keep the state well typed.
LEMMA TimeOutType ==
  ASSUME TypeOK, TimeOutStep \/ \E s \in Schedules : TimerFires(s)
  PROVE  TypeOK'
<1>m. Monitor \in Cancels \cup {Monitor} /\ Monitor \in Threads
  BY DEF Threads
<1>b. /\ job \in [Cancels \cup {Monitor} -> Job]
      /\ callback \in [Schedules -> Requests \cup {None}]
      /\ left \in [Schedules -> Nat]
      /\ timers \in [Schedules -> Nat]
  BY DEF TypeOK
<1>g. \A d \in Cancels \cup {Monitor} : job[d].at # "idle" => job[d].id \in Schedules
  BY DEF TypeOK
<1>a. ASSUME NEW at \in JobAt, job' = [job EXCEPT ![Monitor].at = at],
             job[Monitor].at # "idle"
      PROVE  /\ job' \in [Cancels \cup {Monitor} -> Job]
             /\ \A d \in Cancels \cup {Monitor} :
                  job'[d].at # "idle" => job'[d].id \in Schedules
  BY <1>a, <1>m, <1>b, <1>g DEF Job
<1>1. CASE \E s \in Schedules : TimerFires(s)
  <2>1. PICK s \in Schedules : TimerFires(s)
    BY <1>1
  <2>2. timers' \in [Schedules -> Nat]
    <3>1. timers' = [timers EXCEPT ![s] = @ - 1] /\ timers[s] > 0
      BY <2>1 DEF TimerFires
    <3> QED BY <1>b, <3>1
  <2>3. [job[Monitor] EXCEPT !.id = s, !.at = "find"] \in Job
    BY <1>b, <1>m DEF Job, JobAt
  <2>4. job' = [job EXCEPT ![Monitor] = [@ EXCEPT !.id = s, !.at = "find"]]
    BY <2>1 DEF TimerFires
  <2>5. job' \in [Cancels \cup {Monitor} -> Job]
    BY <1>b, <2>3, <2>4
  <2>6. \A d \in Cancels \cup {Monitor} : job'[d].at # "idle" => job'[d].id \in Schedules
    BY <1>b, <1>g, <2>4 DEF Job
  <2> QED
    BY <2>1, <2>2, <2>5, <2>6 DEF TimerFires, TypeOK, peers, pool, cancelling
<1>2. CASE TimeOutFind
  <2>1. PICK at \in {"notify", "idle"} :
          job' = [job EXCEPT ![Monitor] =
                    [@ EXCEPT !.callback = callback[job[Monitor].id], !.at = at]]
    BY <1>2 DEF TimeOutFind
  <2>2. job[Monitor].id \in Schedules
    BY <1>2, <1>m, <1>g DEF TimeOutFind
  <2>3. callback[job[Monitor].id] \in Requests \cup {None} /\ at \in JobAt
    BY <1>b, <2>2 DEF JobAt
  <2>4. [job[Monitor] EXCEPT !.callback = callback[job[Monitor].id], !.at = at] \in Job
    BY <1>b, <1>m, <2>3 DEF Job
  <2>5. job' \in [Cancels \cup {Monitor} -> Job]
    BY <1>b, <2>1, <2>4
  <2>6. \A d \in Cancels \cup {Monitor} : job'[d].at # "idle" => job'[d].id \in Schedules
    BY <1>b, <1>g, <2>1, <2>2 DEF Job
  <2> QED
    BY <1>2, <2>5, <2>6 DEF TimeOutFind, TypeOK, peers, pool, cancelling
<1>3. CASE TimeOutNotify
  <2>1. job' = [job EXCEPT ![Monitor].at = "info"] /\ "info" \in JobAt
    BY <1>3 DEF TimeOutNotify, JobAt
  <2>2. job[Monitor].callback \in Requests \cup {None} /\ "TIMEOUT" \in Codes
    BY <1>b, <1>m DEF Job, Codes
  <2>3. told' \in [Requests -> SUBSET Message]
    BY <1>3, <1>m, <2>2, TellType DEF TimeOutNotify
  <2> QED
    BY <1>3, <1>a, <2>1, <2>3 DEF TimeOutNotify, TypeOK, peers, pool, cancelling
<1>4. CASE TimeOutDelete
  <2>1. job' = [job EXCEPT ![Monitor].at = "idle"] /\ "idle" \in JobAt
    BY <1>4 DEF TimeOutDelete, JobAt
  <2>2. /\ left' \in [Schedules -> Nat]
        /\ callback' \in [Schedules -> Requests \cup {None}]
    BY <1>4, <1>b DEF TimeOutDelete, DeleteScheduleCallback
  <2> QED
    BY <1>4, <1>a, <2>1, <2>2 DEF TimeOutDelete, TypeOK, peers, cancelling
<1> QED
  BY <1>1, <1>2, <1>3, <1>4, <1>m, CancelType DEF TimeOutStep

\* Every step keeps the state well typed.
LEMMA NextType == TypeOK /\ [Next]_vars => TypeOK'
<1> SUFFICES ASSUME TypeOK, [Next]_vars
             PROVE  TypeOK'
  OBVIOUS
<1>1. ASSUME NEW s \in Schedules, AddCoAuthSchedule(s)
      PROVE  TypeOK'
  BY <1>1 DEF AddCoAuthSchedule, TypeOK, pool, peers
<1>2. ASSUME NEW r \in Requests, NEW s \in Schedules, BeginGetInfo(r, s)
      PROVE  TypeOK'
  <2>1. PICK at \in {"addDeath", "reject"} :
          begin' = [begin EXCEPT ![r] = [@ EXCEPT !.id = s, !.at = at]]
    BY <1>2 DEF BeginGetInfo
  <2>2. begin \in [Requests -> Begin] /\ at \in BeginAt
    BY DEF TypeOK, BeginAt
  <2>3. [begin[r] EXCEPT !.id = s, !.at = at] \in Begin
    BY <2>2 DEF Begin
  <2>4. begin' \in [Requests -> Begin]
    BY <2>1, <2>2, <2>3
  <2>5. \A q \in Requests : begin'[q].at # "idle" => begin'[q].id \in Schedules
    BY <2>1, <2>2 DEF TypeOK, Begin
  <2> QED
    BY <1>2, <2>4, <2>5 DEF BeginGetInfo, TypeOK, ta, pool, peers, begun
<1>3. ASSUME NEW m \in Infos, NEW s \in Schedules, NEW sizeOk \in BOOLEAN,
             SendDataFind(m, s, sizeOk)
      PROVE  TypeOK'
  <2>1. PICK at \in {"notify", "done"} :
          info' = [info EXCEPT ![m] = [at |-> at, id |-> s, callback |-> callback[s]]]
    BY <1>3 DEF SendDataFind
  <2>2. info' \in [Infos -> Info]
    BY <2>1 DEF TypeOK, Info, InfoAt
  <2> QED
    BY <1>3, <2>2 DEF SendDataFind, TypeOK, ta, pool, peers
<1>4. ASSUME NEW m \in Infos, SendDataNotify(m)
      PROVE  TypeOK'
  <2>1. info' \in [Infos -> Info] /\ info[m].callback \in Requests \cup {None}
    BY <1>4 DEF SendDataNotify, TypeOK, Info, InfoAt
  <2>2. told' \in [Requests -> SUBSET Message]
    BY <1>4, <2>1, TellType DEF SendDataNotify, Threads
  <2> QED
    BY <1>4, <2>1, <2>2 DEF SendDataNotify, TypeOK, ta, pool, peers
<1>5. ASSUME NEW c \in Cancels, NEW s \in Schedules, CancelCall(c, s)
      PROVE  TypeOK'
  <2>1. job' = [job EXCEPT ![c] = [@ EXCEPT !.id = s, !.at = "info"]]
    BY <1>5 DEF CancelCall
  <2>2. job \in [Cancels \cup {Monitor} -> Job] /\ "info" \in JobAt
    BY DEF TypeOK, JobAt
  <2>3. [job[c] EXCEPT !.id = s, !.at = "info"] \in Job
    BY <2>2 DEF Job
  <2>4. job' \in [Cancels \cup {Monitor} -> Job]
    BY <2>1, <2>2, <2>3
  <2>5. \A d \in Cancels \cup {Monitor} : job'[d].at # "idle" => job'[d].id \in Schedules
    BY <2>1, <2>2 DEF TypeOK, Job
  <2> QED
    BY <1>5, <2>4, <2>5 DEF CancelCall, TypeOK, pool, peers, cancelling
<1>6. ASSUME NEW r \in Requests, CallerDies(r) \/ OnRemoteDied(r)
      PROVE  TypeOK'
  <2>1. CASE CallerDies(r)
    BY <2>1 DEF CallerDies, TypeOK, ta, pool
  <2>2. CASE OnRemoteDied(r)
    <3>1. /\ left' \in [Schedules -> Nat]
          /\ callback' \in [Schedules -> Requests \cup {None}]
      BY <2>2 DEF OnRemoteDied, DeleteScheduleCallback, TypeOK
    <3>2. recipient' \in [Requests -> {"none", "armed", "fired"}]
      BY <2>2 DEF OnRemoteDied, TypeOK
    <3> QED
      BY <2>2, <3>1, <3>2 DEF OnRemoteDied, TypeOK, ta, peers
  <2> QED BY <1>6, <2>1, <2>2
<1>7. ASSUME ExecutorsChange
      PROVE  TypeOK'
  BY <1>7 DEF ExecutorsChange, TypeOK, ta, pool
<1>8. CASE UNCHANGED vars
  BY <1>8 DEF vars, ta, pool, peers, TypeOK
<1> QED
  BY <1>1, <1>2, <1>3, <1>4, <1>5, <1>6, <1>7, <1>8, BeginType, FinishType,
     CancelType, TimeOutType
  DEF Next

\* The variables of CoAuth keep their types, whatever the sizes of the sets.
THEOREM TypeCorrect == Spec => []TypeOK
<1>1. Init => TypeOK
  BY InitType
<1>2. TypeOK /\ [Next]_vars => TypeOK'
  BY NextType
<1> QED
  BY <1>1, <1>2, PTL DEF Spec

-----------------------------------------------------------------------------
(* The trusted side keeps its promise: CoAuth implements ScheduleToken.     *)

\* A Finish call that holds a token got it by ending the schedule, and a
\* schedule that Cancel or a Finish call has ended stays ended.
TokenInv ==
  /\ taSched \subseteq created
  /\ \A f \in Finishes : fin[f].token # "none" =>
       /\ fin[f].at \in {"notify", "delete", "done"}
       /\ fin[f].id \in created \ taSched
  /\ \A f, g \in Finishes :
       (fin[f].id = fin[g].id /\ fin[f].token # "none" /\ fin[g].token # "none")
         => f = g
  /\ \A c \in Cancels :
       /\ job[c].at # "idle" => job[c].id \in created
       /\ job[c].at = "done" /\ job[c].ret = "SUCCESS" => job[c].id \notin taSched

\* A step of Finish only moves its own thread on, and only FinishSign gives it
\* a token.
LEMMA FinishMoves ==
  ASSUME TypeOK, NEW f \in Finishes, FinishStep(f), ~FinishSign(f)
  PROVE  /\ \A g \in Finishes : /\ fin'[g].id = fin[g].id
                                /\ fin'[g].token = fin[g].token
         /\ \A g \in Finishes \ {f} : fin'[g] = fin[g]
         /\ fin'[f].at \in {"counted", "find", "dropInfo", "sign", "notify", "delete", "done"}
         /\ fin[f].at \in {"notify", "delete"} => fin'[f].at \in {"delete", "done"}
         /\ fin[f].at \notin {"idle", "done", "counted"}
<1> USE DEF TypeOK
<1>1. fin \in [Finishes -> Finish]
  OBVIOUS
<1>2. CASE FinishFind(f)
  <2>1. PICK at \in {"dropInfo", "sign", "notify"} :
          fin' = [fin EXCEPT ![f] = [@ EXCEPT !.callback = callback[fin[f].id],
                                              !.at = at]]
    BY <1>2 DEF FinishFind
  <2> QED BY <1>1, <1>2, <2>1 DEF FinishFind, Finish
<1>3. CASE FinishMinus(f)
  BY <1>1, <1>3 DEF FinishMinus, Finish
<1>4. CASE FinishRemoveTimer(f)
  BY <1>1, <1>4 DEF FinishRemoveTimer, Finish
<1>5. CASE FinishDropInfo(f)
  BY <1>1, <1>5 DEF FinishDropInfo, Finish
<1>6. CASE FinishNotify(f)
  BY <1>1, <1>6 DEF FinishNotify, Finish
<1>7. CASE FinishDelete(f)
  BY <1>1, <1>7 DEF FinishDelete, Finish
<1> QED
  BY <1>2, <1>3, <1>4, <1>5, <1>6, <1>7 DEF FinishStep

\* What FinishSign does to the token of its thread.
LEMMA SignMoves ==
  ASSUME TypeOK, NEW f \in Finishes, FinishSign(f)
  PROVE  /\ \A g \in Finishes \ {f} : fin'[g] = fin[g]
         /\ fin'[f].id = fin[f].id
         /\ fin'[f].at = "notify"
         /\ fin'[f].token # "none" => fin[f].id \in taSched
         /\ fin[f].at = "sign"
         /\ \/ taSched' = taSched \ {fin[f].id}
            \/ UNCHANGED taSched /\ fin'[f].token = "none"
         /\ UNCHANGED <<created, job>>
<1>1. fin \in [Finishes -> Finish]
  BY DEF TypeOK
<1>2. PICK token \in {"none", "signed", "unsigned"}, code \in {"FAIL", "SUCCESS"} :
        /\ fin' = [fin EXCEPT ![f] = [@ EXCEPT !.token = token, !.code = code,
                                               !.at = "notify"]]
        /\ token # "none" => fin[f].id \in taSched
        /\ taSched' = taSched \ {fin[f].id} \/ (UNCHANGED taSched /\ token = "none")
  BY DEF FinishSign, Signs, Grants, Spent
<1>3. /\ \A g \in Finishes \ {f} : fin'[g] = fin[g]
      /\ fin'[f] = [fin[f] EXCEPT !.token = token, !.code = code, !.at = "notify"]
      /\ fin[f] \in Finish
  BY <1>1, <1>2
<1>4. fin'[f].id = fin[f].id /\ fin'[f].at = "notify" /\ fin'[f].token = token
  BY <1>3 DEF Finish
<1> QED
  BY <1>2, <1>3, <1>4 DEF FinishSign, finishing

\* TokenInv is inductive.
LEMMA TokenInvariant ==
  /\ Init => TokenInv
  /\ TypeOK /\ TokenInv /\ [Next]_vars => TokenInv'
<1>1. Init => TokenInv
  BY DEF Init, TokenInv
<1>2. ASSUME TypeOK, TokenInv, [Next]_vars
      PROVE  TokenInv'
  <2>f. fin \in [Finishes -> Finish] /\ job \in [Cancels \cup {Monitor} -> Job]
    BY <1>2 DEF TypeOK
  <2>1. CASE UNCHANGED <<created, taSched, fin, job>>
    BY <1>2, <2>1 DEF TokenInv
  <2>2. ASSUME NEW s \in Schedules, AddCoAuthSchedule(s)
        PROVE  TokenInv'
    BY <1>2, <2>2 DEF AddCoAuthSchedule, TokenInv
  <2>3. ASSUME NEW f \in Finishes, NEW s \in Schedules, NEW report \in Reports,
               FinishCount(f, s, report)
        PROVE  TokenInv'
    <3>1. /\ \A g \in Finishes \ {f} : fin'[g] = fin[g]
          /\ fin'[f].token = fin[f].token
          /\ UNCHANGED <<created, taSched, job>>
      BY <2>3, <2>f DEF FinishCount, finishing, Finish
    <3>2. fin[f].token = "none"
      BY <1>2, <2>3 DEF TokenInv, FinishCount
    <3> QED BY <1>2, <3>1, <3>2 DEF TokenInv
  <2>4. ASSUME NEW f \in Finishes, FinishStep(f), ~FinishSign(f)
        PROVE  TokenInv'
    <3>1. UNCHANGED <<created, job>> /\ taSched' \subseteq taSched
      BY <2>4 DEF FinishStep, FinishMinus, FinishRemoveTimer, FinishFind,
                  FinishDropInfo, FinishNotify, FinishDelete, finishing
    <3> QED BY <1>2, <2>4, <3>1, FinishMoves DEF TokenInv
  <2>5. ASSUME NEW f \in Finishes, FinishSign(f)
        PROVE  TokenInv'
    BY <1>2, <2>5, SignMoves DEF TokenInv
  <2>6. ASSUME NEW c \in Cancels, NEW s \in Schedules, CancelCall(c, s)
        PROVE  TokenInv'
    <3>1. /\ \A d \in Cancels \ {c} : job'[d] = job[d]
          /\ job'[c].at = "info" /\ job'[c].id = s /\ s \in created
          /\ UNCHANGED <<created, taSched, fin>>
      BY <2>6, <2>f DEF CancelCall, cancelling, Job
    <3> QED BY <1>2, <3>1 DEF TokenInv
  <2>7. ASSUME NEW c \in Cancels \cup {Monitor}, CancelStep(c)
        PROVE  TokenInv'
    <3>1. /\ \A d \in Cancels : d # c => job'[d] = job[d]
          /\ job'[c].id = job[c].id
          /\ job[c].at # "idle"
          /\ UNCHANGED <<created, fin>> /\ taSched' \subseteq taSched
          /\ CancelDrop(c) => job[c].id \notin taSched'
          /\ ~CancelDrop(c) => (job'[c].at \notin {"done", "delete"} \/ job'[c].ret # "SUCCESS")
      <4>1. CASE CancelGetInfo(c)
        <5>1. job[c] \in Job /\ job[c].at = "info"
          BY <2>f, <4>1 DEF CancelGetInfo
        <5> QED BY <2>f, <4>1, <5>1 DEF CancelGetInfo, CancelDrop, cancelling, Job
      <4>2. CASE \E ret \in {"SUCCESS", "FAIL"} : CancelEnd(c, ret)
        <5>1. PICK ret \in {"SUCCESS", "FAIL"} : CancelEnd(c, ret)
          BY <4>2
        <5>2. PICK next, sum, at :
                 /\ job' = [job EXCEPT ![c] = [@ EXCEPT !.i = next, !.ret = sum, !.at = at]]
                 /\ at \in {"end", "drop"} \/ sum # "SUCCESS"
          BY <5>1, Zenon DEF CancelEnd
        <5>3. job'[c] = [job[c] EXCEPT !.i = next, !.ret = sum, !.at = at] /\ job[c] \in Job
          BY <2>f, <5>2
        <5>4. job'[c].id = job[c].id /\ job'[c].ret = sum /\ job'[c].at = at
          BY <5>3 DEF Job
        <5> QED BY <2>f, <5>1, <5>2, <5>4 DEF CancelEnd, CancelDrop, cancelling
      <4>3. CASE CancelDrop(c)
        BY <2>f, <4>3 DEF CancelDrop, cancelling, Job
      <4> QED BY <2>7, <4>1, <4>2, <4>3 DEF CancelStep
    <3> QED BY <1>2, <3>1 DEF TokenInv
  <2>8. ASSUME TimeOutFind \/ TimeOutNotify \/ TimeOutDelete \/ \E s \in Schedules : TimerFires(s)
        PROVE  TokenInv'
    <3>1. /\ \A d \in Cancels : job'[d] = job[d]
          /\ UNCHANGED <<created, taSched, fin>>
      BY <2>8, <2>f, ThreadsDistinct
      DEF TimeOutFind, TimeOutNotify, TimeOutDelete, TimerFires, cancelling, ThreadsDistinct
    <3> QED BY <1>2, <3>1 DEF TokenInv
  <2>9. ASSUME \/ \E r \in Requests, s \in Schedules : BeginGetInfo(r, s)
               \/ \E r \in Requests : BeginStep(r)
        PROVE  UNCHANGED <<created, taSched, fin, job>>
    BY <2>9 DEF BeginGetInfo, BeginStep, BeginReject, BeginAddDeath, BeginSave,
       BeginMonitor, BeginSkip, BeginCall, BeginReturn, BeginNotify, BeginDelete,
       BeginRemoveTimer, begun, ta
  <2>10. ASSUME \/ \E m \in Infos, s \in Schedules, sizeOk \in BOOLEAN : SendDataFind(m, s, sizeOk)
                \/ \E m \in Infos : SendDataNotify(m)
                \/ \E r \in Requests : CallerDies(r) \/ OnRemoteDied(r)
                \/ ExecutorsChange
                \/ UNCHANGED vars
         PROVE  UNCHANGED <<created, taSched, fin, job>>
    BY <2>10 DEF SendDataFind, SendDataNotify, CallerDies, OnRemoteDied,
       ExecutorsChange, vars, ta
  <2> QED
    BY <1>2, <2>1, <2>2, <2>3, <2>4, <2>5, <2>6, <2>7, <2>8, <2>9, <2>10
    DEF Next, TimeOutStep
<1> QED
  BY <1>1, <1>2

\* One step of CoAuth is a step of ScheduleToken, or changes nothing there.
LEMMA TokenStep ==
  TypeOK /\ TokenInv /\ [Next]_vars
    => [Token!Next]_<<[s \in Schedules |-> Phase(s)], [s \in Schedules |-> Holders(s)]>>
<1> DEFINE P == [s \in Schedules |-> Phase(s)]
           H == [s \in Schedules |-> Holders(s)]
<1> SUFFICES ASSUME TypeOK, TokenInv, [Next]_vars
             PROVE  Token!Next \/ UNCHANGED <<P, H>>
  OBVIOUS
<1>f. fin \in [Finishes -> Finish] /\ taSched \subseteq Schedules
  BY DEF TypeOK
<1>1. ASSUME UNCHANGED <<created, taSched>>,
             \A g \in Finishes : /\ fin'[g].token = fin[g].token
                                 /\ fin'[g].id = fin[g].id \/ fin[g].token = "none"
      PROVE  UNCHANGED <<P, H>>
  <2>1. \A s \in Schedules : Holders(s)' = Holders(s)
    BY <1>1 DEF Holders
  <2>2. \A s \in Schedules : Phase(s)' = Phase(s)
    BY <1>1 DEF Phase
  <2> QED BY <2>1, <2>2
<1>2. ASSUME NEW t \in Schedules, t \in taSched, taSched' = taSched \ {t},
             UNCHANGED created, \A s \in Schedules : Holders(s)' = Holders(s)
      PROVE  Token!Next
  <2>1. P[t] = "open" /\ P' = [P EXCEPT ![t] = "ended"]
    BY <1>2 DEF Phase, TokenInv
  <2>2. UNCHANGED H
    BY <1>2
  <2> QED BY <2>1, <2>2 DEF Token!Next, Token!Drop
<1>3. ASSUME NEW s \in Schedules, AddCoAuthSchedule(s)
      PROVE  Token!Next
  <2>1. P[s] = "none" /\ P' = [P EXCEPT ![s] = "open"]
    BY <1>3 DEF AddCoAuthSchedule, Phase, TokenInv
  <2>2. \A t \in Schedules : Holders(t)' = Holders(t)
    BY <1>3 DEF AddCoAuthSchedule, Holders
  <2>3. UNCHANGED H
    BY <2>2
  <2> QED BY <2>1, <2>3 DEF Token!Next, Token!Generate
<1>4. ASSUME NEW f \in Finishes, NEW s \in Schedules, NEW report \in Reports,
             FinishCount(f, s, report)
      PROVE  UNCHANGED <<P, H>>
  <2>1. /\ \A g \in Finishes \ {f} : fin'[g] = fin[g]
        /\ fin'[f].token = fin[f].token
        /\ UNCHANGED <<created, taSched>>
    BY <1>4, <1>f DEF FinishCount, finishing, Finish
  <2>2. fin[f].token = "none"
    BY <1>4 DEF TokenInv, FinishCount
  <2> QED BY <1>1, <2>1, <2>2
<1>5. ASSUME NEW f \in Finishes, FinishStep(f), ~FinishSign(f)
      PROVE  Token!Next \/ UNCHANGED <<P, H>>
  <2>1. /\ \A g \in Finishes : fin'[g].token = fin[g].token /\ fin'[g].id = fin[g].id
        /\ fin[f].id \in Schedules
        /\ UNCHANGED created
    BY <1>5, FinishMoves
    DEF TypeOK, FinishStep, FinishMinus, FinishRemoveTimer, FinishFind,
        FinishDropInfo, FinishNotify, FinishDelete, finishing
  <2>2. CASE UNCHANGED taSched
    BY <1>1, <2>1, <2>2
  <2>3. CASE FinishDropInfo(f)
    <3>1. taSched' = taSched \ {fin[f].id}
      BY <2>3 DEF FinishDropInfo
    <3>2. \A s \in Schedules : Holders(s)' = Holders(s)
      BY <2>1 DEF Holders
    <3>3. fin[f].id \notin taSched => taSched' = taSched
      BY <3>1
    <3> QED BY <1>2, <2>1, <2>2, <3>1, <3>2, <3>3
  <2> QED
    BY <1>5, <2>2, <2>3
    DEF FinishStep, FinishMinus, FinishRemoveTimer, FinishFind, FinishNotify, FinishDelete
<1>6. ASSUME NEW f \in Finishes, FinishSign(f)
      PROVE  Token!Next \/ UNCHANGED <<P, H>>
  <2>0. fin[f].id \in Schedules /\ fin[f].token = "none"
    BY <1>6, SignMoves DEF TypeOK, TokenInv
  <2> PICK t \in Schedules : t = fin[f].id
    BY <2>0
  <2>1. fin[f].id = t /\ fin[f].token = "none"
    BY <2>0
  <2>2. CASE fin'[f].token = "none"
    <3>1. \A g \in Finishes : fin'[g].token = fin[g].token /\ fin'[g].id = fin[g].id
      BY <1>6, <2>1, <2>2, SignMoves
    <3>2. \A s \in Schedules : Holders(s)' = Holders(s)
      BY <3>1 DEF Holders
    <3>3. CASE t \in taSched /\ taSched' = taSched \ {t}
      BY <1>2, <1>6, <2>1, <3>2, <3>3, SignMoves
    <3>4. CASE t \notin taSched \/ UNCHANGED taSched
      <4>1. UNCHANGED <<created, taSched>>
        BY <1>6, <2>1, <3>4, SignMoves
      <4> QED BY <1>1, <3>1, <4>1
    <3> QED BY <1>6, <2>1, <3>3, <3>4, SignMoves
  <2>3. CASE fin'[f].token # "none"
    <3>1. t \in taSched /\ taSched' = taSched \ {t} /\ UNCHANGED created
      BY <1>6, <2>3, SignMoves
    <3>2. P[t] = "open" /\ P' = [P EXCEPT ![t] = "ended"]
      BY <2>1, <3>1 DEF Phase, TokenInv
    <3>3. \A g \in Finishes : fin[g].token # "none" => fin[g].id # t
      BY <3>1 DEF TokenInv
    <3>4. Holders(t)' = {f}
      BY <1>6, <2>3, <3>3, SignMoves DEF Holders
    <3>5. \A s \in Schedules \ {t} : Holders(s)' = Holders(s)
      BY <1>6, <2>1, SignMoves DEF Holders
    <3>6. H' = [H EXCEPT ![t] = {f}]
      <4>1. \A s \in Schedules : H'[s] = IF s = t THEN {f} ELSE H[s]
        BY <3>4, <3>5
      <4> QED BY <2>1, <4>1
    <3> QED BY <2>1, <3>2, <3>6 DEF Token!Next, Token!Grant
  <2> QED BY <2>2, <2>3
<1>7. ASSUME NEW c \in Cancels \cup {Monitor}, CancelStep(c)
      PROVE  Token!Next \/ UNCHANGED <<P, H>>
  <2>1. UNCHANGED <<created, fin>> /\ job[c].id \in Schedules
    BY <1>7 DEF CancelStep, CancelGetInfo, CancelEnd, CancelDrop, cancelling, TypeOK
  <2>2. taSched' = taSched \/ taSched' = taSched \ {job[c].id}
    BY <1>7 DEF CancelStep, CancelGetInfo, CancelEnd, CancelDrop
  <2>3. \A s \in Schedules : Holders(s)' = Holders(s)
    BY <2>1 DEF Holders
  <2>4. CASE taSched' = taSched
    BY <1>1, <2>1, <2>4
  <2>5. CASE taSched' = taSched \ {job[c].id} /\ taSched' # taSched
    BY <1>2, <2>1, <2>3, <2>5
  <2> QED BY <2>2, <2>4, <2>5
<1>8. ASSUME \/ \E r \in Requests, s \in Schedules : BeginGetInfo(r, s)
             \/ \E r \in Requests : BeginStep(r)
      PROVE  UNCHANGED <<created, taSched, fin>>
  BY <1>8 DEF BeginGetInfo, BeginStep, BeginReject, BeginAddDeath, BeginSave,
     BeginMonitor, BeginSkip, BeginCall, BeginReturn, BeginNotify, BeginDelete,
     BeginRemoveTimer, begun, ta
<1>9. ASSUME \/ \E m \in Infos, s \in Schedules, sizeOk \in BOOLEAN : SendDataFind(m, s, sizeOk)
             \/ \E m \in Infos : SendDataNotify(m)
             \/ \E r \in Requests : CallerDies(r) \/ OnRemoteDied(r)
             \/ ExecutorsChange
             \/ \E c \in Cancels, s \in Schedules : CancelCall(c, s)
             \/ TimeOutFind \/ TimeOutNotify \/ TimeOutDelete
             \/ \E s \in Schedules : TimerFires(s)
             \/ UNCHANGED vars
      PROVE  UNCHANGED <<created, taSched, fin>>
  BY <1>9 DEF SendDataFind, SendDataNotify, CallerDies, OnRemoteDied,
     ExecutorsChange, CancelCall, TimeOutFind, TimeOutNotify, TimeOutDelete,
     TimerFires, cancelling, vars, ta
<1>10. UNCHANGED <<created, taSched, fin>> => UNCHANGED <<P, H>>
  BY <1>1
<1> HIDE DEF P, H
<1> QED
  BY <1>3, <1>4, <1>5, <1>6, <1>7, <1>8, <1>9, <1>10 DEF Next, TimeOutStep

\* Every behaviour of the service is one of ScheduleToken: a schedule is granted
\* to one Finish call at most, and never after it was dropped.
THEOREM TokenRefinement == Spec => TokenSpec
<1>1. Init => Token!Init
  BY DEF Init, Token!Init, Phase, Holders
<1>2. Init => TypeOK /\ TokenInv
  BY InitType, TokenInvariant
<1>3. TypeOK /\ TokenInv /\ [Next]_vars => (TypeOK /\ TokenInv)'
  BY NextType, TokenInvariant
<1> QED
  BY <1>1, <1>2, <1>3, TokenStep, PTL DEF Spec, TokenSpec, Token!Spec

\* After Cancel has succeeded no Finish call is granted the schedule any more.
THEOREM CancelFinal == Spec => CancelIsFinal
<1>1. Init => TypeOK /\ TokenInv
  BY InitType, TokenInvariant
<1>2. TypeOK /\ TokenInv /\ [Next]_vars => (TypeOK /\ TokenInv)'
  BY NextType, TokenInvariant
<1>3. TypeOK /\ TokenInv /\ [Next]_vars
        => [\A s \in Schedules : Cancelled(s) => Holders(s)' = Holders(s)]_vars
  <2> SUFFICES ASSUME TypeOK, TokenInv, [Next]_vars,
                      NEW s \in Schedules, Cancelled(s)
               PROVE  Holders(s)' = Holders(s)
    OBVIOUS
  <2>1. s \in created \ taSched
    BY DEF Cancelled, TokenInv
  <2> DEFINE P == [t \in Schedules |-> Phase(t)]
             H == [t \in Schedules |-> Holders(t)]
  <2>2. P[s] = "ended"
    BY <2>1 DEF Phase
  <2>3. Token!Next \/ UNCHANGED <<P, H>>
    BY TokenStep
  <2>4. H'[s] = H[s]
    BY <2>2, <2>3 DEF Token!Next, Token!Generate, Token!Drop, Token!Grant
  <2> QED BY <2>4
<1> QED
  BY <1>1, <1>2, <1>3, PTL DEF Spec, CancelIsFinal
=============================================================================
