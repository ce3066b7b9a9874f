------------------------------- MODULE CoAuth -------------------------------
(***************************************************************************)
(* The life of a collaborative schedule in the auth_executor_mgr service:   *)
(* CoAuthManager (BeginSchedule, Cancel, TimeOut), ExecutorMessenger        *)
(* (Finish, SendData), the schedule half of AuthResPool, CallMonitor, and   *)
(* the schedule list g_scheduleList that the trusted side keeps.            *)
(*                                                                         *)
(* Every IPC call runs on a binder thread of its own, every timeout on the  *)
(* one thread of CallMonitor.  Threads interleave wherever the code gives   *)
(* up a lock: an AuthResPool call is atomic under scheMutex_, a call of the *)
(* trusted side under GlobalLock, and a callback into another process is    *)
(* made with no lock held.  Each action is the code from one such point to  *)
(* the next; "at" is the point the thread has reached.                      *)
(***************************************************************************)
EXTENDS Integers, FiniteSets

CONSTANTS
  Schedules,    \* scheduleIds the trusted side can generate
  ExecutorNum,  \* number of executors mounted on each schedule
  Verifiable,   \* schedules with a VERIFIER or ALL_IN_ONE executor
  MaxExecutors, \* MAX_EXECUTOR_SIZE
  Requests,     \* BeginSchedule calls; a request also names its callback
  Finishes,     \* Finish calls of executors
  Cancels,      \* Cancel calls of clients
  Infos,        \* SendData calls of executors
  Reports,      \* what a Finish call may carry
  SharedIds,    \* may two requests begin the same schedule?
  Repeats,      \* may an executor answer one OnBeginExecute twice?
  Mortal,       \* requests whose caller may die
  Unstable,     \* may executors register and go away during a run?
  Monitor,      \* the thread of CallMonitor
  None          \* no schedule, no callback

\* "failed": resultCode is not SUCCESS.  The others report SUCCESS with an
\* AUTH_RESULT that verifies, that is well formed but does not verify, that
\* GetExecutorResultInfo rejects, that is empty, or that is larger than
\* MAX_BUFFER_SIZE.
AllReports == {"good", "forged", "malformed", "empty", "oversized", "failed"}

Threads == Requests \cup Finishes \cup Cancels \cup Infos \cup {Monitor}

ASSUME ConstantsAssumption ==
  /\ MaxExecutors \in Nat \ {0}
  /\ ExecutorNum \in [Schedules -> 1..MaxExecutors]
  /\ Verifiable \subseteq Schedules
  /\ Reports \subseteq AllReports
  /\ Mortal \subseteq Requests
  /\ {SharedIds, Repeats, Unstable} \subseteq BOOLEAN
  /\ None \notin Schedules \cup Requests
  /\ IsFiniteSet(Finishes)

ASSUME ThreadsDistinct ==
  /\ Requests \cap Finishes = {} /\ Requests \cap Cancels = {}
  /\ Requests \cap Infos = {}    /\ Finishes \cap Cancels = {}
  /\ Finishes \cap Infos = {}    /\ Cancels \cap Infos = {}
  /\ Monitor \notin Requests \cup Finishes \cup Cancels \cup Infos

VARIABLES
  created,   \* ids the trusted side has generated
  taSched,   \* ids in g_scheduleList
  left,      \* scheResPool_[id].executorNum
  callback,  \* scheResPool_[id].callback; None when there is no entry
  timers,    \* timeout tasks posted under the name of the id and not yet run
  ready,     \* does FindExecutorCallback find an executor of the authType?
  alive,     \* requests whose caller process lives
  recipient, \* death recipients registered on the callbacks
  begin,     \* threads in CoAuthHandle
  fin,       \* threads in ExecutorMessenger::Finish
  job,       \* threads in Cancel, and the monitor thread in TimeOut
  info,      \* threads in ExecutorMessenger::SendData
  orders,    \* OnBeginExecute calls delivered, by schedule
  answers,   \* Finish calls made, by schedule
  told       \* what each callback has been told, and by which thread

ta    == <<created, taSched>>
pool  == <<left, callback>>
peers == <<ready, alive, orders, answers>>
vars  == <<ta, pool, timers, peers, recipient, begin, fin, job, info, told>>

-----------------------------------------------------------------------------
(* Types.                                                                  *)

Codes == {"SUCCESS", "FAIL", "TIMEOUT"}

BeginAt  == {"idle", "reject", "addDeath", "save", "monitor", "execute",
             "executing", "notify", "delete", "removeTimer", "done"}
FinishAt == {"idle", "minus", "counted", "removeTimer", "find", "dropInfo",
             "sign", "notify", "delete", "done"}
JobAt    == {"idle", "find", "notify", "info", "end", "drop", "delete", "done"}
InfoAt   == {"idle", "notify", "done"}

Begin  == [at : BeginAt, id : Schedules \cup {None}, i : Nat, ret : Codes]
Finish == [at : FinishAt, id : Schedules \cup {None}, report : AllReports,
           callback : Requests \cup {None}, code : Codes,
           token : {"none", "signed", "unsigned"}]
Job    == [at : JobAt, id : Schedules \cup {None}, i : Nat, ret : Codes,
           callback : Requests \cup {None}]
Info   == [at : InfoAt, id : Schedules \cup {None},
           callback : Requests \cup {None}]

Message == [by : Threads, code : Codes \cup {"ACQUIRE"}]

TypeOK ==
  /\ created \subseteq Schedules
  /\ taSched \subseteq Schedules
  /\ left \in [Schedules -> Nat]
  /\ callback \in [Schedules -> Requests \cup {None}]
  /\ timers \in [Schedules -> Nat]
  /\ ready \in BOOLEAN
  /\ alive \subseteq Requests
  /\ recipient \in [Requests -> {"none", "armed", "fired"}]
  /\ begin \in [Requests -> Begin]
  /\ fin \in [Finishes -> Finish]
  /\ job \in [Cancels \cup {Monitor} -> Job]
  /\ info \in [Infos -> Info]
  /\ orders \in [Schedules -> Nat]
  /\ answers \in [Schedules -> Nat]
  /\ told \in [Requests -> SUBSET Message]
  /\ \A r \in Requests : begin[r].at # "idle" => begin[r].id \in Schedules
  /\ \A f \in Finishes : fin[f].at # "idle" => fin[f].id \in Schedules
  /\ \A c \in Cancels \cup {Monitor} : job[c].at # "idle" => job[c].id \in Schedules

Init ==
  /\ created = {}
  /\ taSched = {}
  /\ left = [s \in Schedules |-> 0]
  /\ callback = [s \in Schedules |-> None]
  /\ timers = [s \in Schedules |-> 0]
  /\ ready \in BOOLEAN
  /\ alive = Requests
  /\ recipient = [r \in Requests |-> "none"]
  /\ begin = [r \in Requests |->
                [at |-> "idle", id |-> None, i |-> 0, ret |-> "SUCCESS"]]
  /\ fin = [f \in Finishes |->
              [at |-> "idle", id |-> None, report |-> "failed",
               callback |-> None, code |-> "SUCCESS", token |-> "none"]]
  /\ job = [c \in Cancels \cup {Monitor} |->
              [at |-> "idle", id |-> None, i |-> 0, ret |-> "SUCCESS",
               callback |-> None]]
  /\ info = [m \in Infos |-> [at |-> "idle", id |-> None, callback |-> None]]
  /\ orders = [s \in Schedules |-> 0]
  /\ answers = [s \in Schedules |-> 0]
  /\ told = [r \in Requests |-> {}]

-----------------------------------------------------------------------------
(* AuthResPool, CallMonitor and the callback of a request.                 *)

Present(s) == callback[s] # None

\* Insert: std::map::insert keeps the entry that is already there.
SaveScheduleCallback(s, r) ==
  IF Present(s)
  THEN UNCHANGED pool
  ELSE /\ callback' = [callback EXCEPT ![s] = r]
       /\ left' = [left EXCEPT ![s] = ExecutorNum[s]]

DeleteScheduleCallback(s) ==
  /\ callback' = [callback EXCEPT ![s] = None]
  /\ left' = [left EXCEPT ![s] = 0]

ScheduleCountMinus(s) ==
  /\ left' = [left EXCEPT ![s] = IF Present(s) /\ @ > 0 THEN @ - 1 ELSE @]
  /\ UNCHANGED callback

\* Faulty: the count without the executor that is asking.
ScheduleCountsOthers(s) == IF Present(s) THEN {left[s] - 1} ELSE {0, 2}

\* GetScheduleCount leaves the caller's uninitialized variable alone when the
\* entry is absent; only "more than one" and "not more" can be told apart.
ScheduleCounts(s) == IF Present(s) THEN {left[s]} ELSE {0, 2}

MonitorCall(s)       == timers' = [timers EXCEPT ![s] = @ + 1]
MonitorRemoveCall(s) == timers' = [timers EXCEPT ![s] = 0]

\* OnFinish and OnAcquireInfo reach a caller that is alive.
Tell(r, thread, code) ==
  told' = IF r \in alive
          THEN [told EXCEPT ![r] = @ \cup {[by |-> thread, code |-> code]}]
          ELSE told

-----------------------------------------------------------------------------
(* The trusted side generates a schedule under a random 64-bit id.  That an *)
(* id never comes back is the model's reading of "random".                  *)

AddCoAuthSchedule(s) ==
  /\ s \notin created
  /\ created' = created \cup {s}
  /\ taSched' = taSched \cup {s}
  /\ UNCHANGED <<pool, timers, peers, recipient, begin, fin, job, info, told>>

-----------------------------------------------------------------------------
(* CoAuthManager::CoAuthHandle on the binder thread of request r, for an id *)
(* that the trusted side gave the caller, though it may be over by now.     *)

begun == <<ta, fin, job, info>>  \* what no step of CoAuthHandle changes

BeginGetInfo(r, s) ==
  /\ begin[r].at = "idle"
  /\ s \in created
  /\ SharedIds \/ \A q \in Requests : begin[q].id # s
  /\ begin' = [begin EXCEPT ![r] =
                 [@ EXCEPT !.id = s,
                           !.at = IF s \in taSched THEN "addDeath" ELSE "reject"]]
  /\ UNCHANGED <<begun, pool, timers, peers, recipient, told>>

BeginReject(r) ==
  /\ begin[r].at = "reject"
  /\ Tell(r, r, "FAIL")
  /\ begin' = [begin EXCEPT ![r].at = "done"]
  /\ UNCHANGED <<begun, pool, timers, peers, recipient>>

\* No memory, no remote object, or a callback that refuses the recipient, as a
\* dead one does: the code only logs that.
BeginAddDeath(r) ==
  /\ begin[r].at = "addDeath"
  /\ \E added \in BOOLEAN :
       recipient' = [recipient EXCEPT ![r] = IF added /\ r \in alive THEN "armed" ELSE @]
  /\ begin' = [begin EXCEPT ![r].at = "save"]
  /\ UNCHANGED <<begun, pool, timers, peers, told>>

BeginSave(r) ==
  /\ begin[r].at = "save"
  /\ SaveScheduleCallback(begin[r].id, r)
  /\ begin' = [begin EXCEPT ![r].at = "monitor"]
  /\ UNCHANGED <<begun, timers, peers, recipient, told>>

\* Faulty: no timeout is posted.
BeginMonitorForgets(r) ==
  /\ begin[r].at = "monitor"
  /\ begin' = [begin EXCEPT ![r].at = "execute"]
  /\ UNCHANGED <<begun, timers, pool, peers, recipient, told>>

BeginMonitor(r) ==
  /\ begin[r].at = "monitor"
  /\ MonitorCall(begin[r].id)
  /\ begin' = [begin EXCEPT ![r].at = "execute"]
  /\ UNCHANGED <<begun, pool, peers, recipient, told>>

\* The loop counter moves on; after the last executor a failure is handled.
NextExecutor(r, ret) ==
  LET next == begin[r].i + 1 IN
  begin' = [begin EXCEPT ![r] =
              [@ EXCEPT !.i = next,
                        !.ret = ret,
                        !.at = IF next < ExecutorNum[begin[r].id] THEN "execute"
                               ELSE IF ret = "SUCCESS" THEN "done" ELSE "notify"]]

\* No callback of the authType: the executor is skipped without an error.
BeginSkip(r) ==
  /\ begin[r].at = "execute"
  /\ ~ready
  /\ NextExecutor(r, begin[r].ret)
  /\ UNCHANGED <<begun, pool, timers, peers, recipient, told>>

\* OnBeginExecute is entered; the executor may answer before it returns.
BeginCall(r) ==
  /\ begin[r].at = "execute"
  /\ ready
  /\ orders' = [orders EXCEPT ![begin[r].id] = @ + 1]
  /\ begin' = [begin EXCEPT ![r].at = "executing"]
  /\ UNCHANGED <<begun, pool, timers, ready, alive, answers, recipient, told>>

\* It returns; only a failure overwrites executeRet.
BeginReturn(r, ret) ==
  /\ begin[r].at = "executing"
  /\ NextExecutor(r, IF ret = "SUCCESS" THEN begin[r].ret ELSE ret)
  /\ UNCHANGED <<begun, pool, timers, peers, recipient, told>>

BeginNotify(r) ==
  /\ begin[r].at = "notify"
  /\ Tell(r, r, begin[r].ret)
  /\ begin' = [begin EXCEPT ![r].at = "delete"]
  /\ UNCHANGED <<begun, pool, timers, peers, recipient>>

BeginDelete(r) ==
  /\ begin[r].at = "delete"
  /\ DeleteScheduleCallback(begin[r].id)
  /\ begin' = [begin EXCEPT ![r].at = "removeTimer"]
  /\ UNCHANGED <<begun, timers, peers, recipient, told>>

BeginRemoveTimer(r) ==
  /\ begin[r].at = "removeTimer"
  /\ MonitorRemoveCall(begin[r].id)
  /\ begin' = [begin EXCEPT ![r].at = "done"]
  /\ UNCHANGED <<begun, pool, peers, recipient, told>>

\* Every step of CoAuthHandle after the call has come in.
BeginStep(r) ==
  \/ BeginReject(r) \/ BeginAddDeath(r) \/ BeginSave(r) \/ BeginMonitor(r)
  \/ BeginSkip(r) \/ BeginCall(r)
  \/ \E ret \in {"SUCCESS", "FAIL"} : BeginReturn(r, ret)
  \/ BeginNotify(r) \/ BeginDelete(r) \/ BeginRemoveTimer(r)

-----------------------------------------------------------------------------
(* ExecutorMessenger::Finish on the binder thread of call f.               *)

finishing == <<created, recipient, begin, job, info>> \* Finish changes none

\* An executor answers an order it was given.
MayAnswer(s) ==
  IF Repeats THEN orders[s] > 0 ELSE answers[s] < orders[s]

FinishCount(f, s, report) ==
  /\ fin[f].at = "idle"
  /\ MayAnswer(s)
  /\ answers' = [answers EXCEPT ![s] = @ + 1]
  /\ \E scheCount \in ScheduleCounts(s) :
       fin' = [fin EXCEPT ![f] =
                 [@ EXCEPT !.id = s,
                           !.report = report,
                           !.code = IF report = "failed" THEN "FAIL" ELSE "SUCCESS",
                           !.at = IF scheCount > 1 THEN "minus" ELSE "removeTimer"]]
  /\ UNCHANGED <<finishing, taSched, pool, timers, ready, alive, orders, told>>

FinishMinus(f) ==
  /\ fin[f].at = "minus"
  /\ ScheduleCountMinus(fin[f].id)
  /\ fin' = [fin EXCEPT ![f].at = "counted"]
  /\ UNCHANGED <<finishing, taSched, timers, peers, told>>

FinishRemoveTimer(f) ==
  /\ fin[f].at = "removeTimer"
  /\ MonitorRemoveCall(fin[f].id)
  /\ fin' = [fin EXCEPT ![f].at = "find"]
  /\ UNCHANGED <<finishing, taSched, pool, peers, told>>

\* Faulty: a search that settles for the entry of another schedule.
FinishFindAny(f) ==
  /\ fin[f].at = "find"
  /\ \E u \in Schedules :
       /\ Present(u)
       /\ fin' = [fin EXCEPT ![f] =
                    [@ EXCEPT !.callback = callback[u],
                              !.at = IF fin[f].code = "FAIL" THEN "notify" ELSE "sign"]]
  /\ UNCHANGED <<finishing, taSched, pool, timers, peers, told>>

FinishFind(f) ==
  LET s == fin[f].id
      next == IF ~Present(s) THEN "dropInfo"
              ELSE IF fin[f].code = "SUCCESS" THEN "sign" ELSE "notify"
  IN
  /\ fin[f].at = "find"
  /\ fin' = [fin EXCEPT ![f] = [@ EXCEPT !.callback = callback[s], !.at = next]]
  /\ UNCHANGED <<finishing, taSched, pool, timers, peers, told>>

FinishDropInfo(f) ==
  /\ fin[f].at = "dropInfo"
  /\ taSched' = taSched \ {fin[f].id}
  /\ fin' = [fin EXCEPT ![f].at = "done"]
  /\ UNCHANGED <<finishing, pool, timers, peers, told>>

\* Faulty: nobody asks whether the schedule is still there.
GrantsUnlisted(s, report) ==
  report \in {"good", "empty"} \/ (report = "forged" /\ s \notin Verifiable)

\* GetScheduleToken succeeds.  An empty message never reaches ScheduleFinish,
\* and a schedule without a verifier leaves it with ret still RESULT_SUCCESS.
Grants(s, report) ==
  /\ s \in taSched
  /\ \/ report \in {"good", "empty"}
     \/ report = "forged" /\ s \notin Verifiable

Signs(s, report) == Grants(s, report) /\ report = "good" /\ s \in Verifiable

\* Faulty: the trusted side keeps the schedule.
FinishSignKeeps(f) ==
  LET granted == Grants(fin[f].id, fin[f].report) IN
  /\ fin[f].at = "sign"
  /\ fin' = [fin EXCEPT ![f] =
               [@ EXCEPT !.token = IF granted THEN "signed" ELSE "none",
                         !.code = IF granted THEN "SUCCESS" ELSE "FAIL",
                         !.at = "notify"]]
  /\ UNCHANGED <<finishing, taSched, pool, timers, peers, told>>

\* What GetScheduleToken leaves of g_scheduleList.  It drops the schedule whether
\* it grants it or not; a message that fits no buffer returns before that.
Spent(s, report) == IF report = "oversized" THEN taSched ELSE taSched \ {s}

\* DoSignToken.
FinishSign(f) ==
  LET s == fin[f].id
      report == fin[f].report
  IN
  /\ fin[f].at = "sign"
  /\ taSched' = Spent(s, report)
  /\ fin' = [fin EXCEPT ![f] =
               [@ EXCEPT !.token = IF Signs(s, report) THEN "signed"
                                   ELSE IF Grants(s, report) THEN "unsigned"
                                   ELSE "none",
                         !.code = IF Grants(s, report) THEN "SUCCESS" ELSE "FAIL",
                         !.at = "notify"]]
  /\ UNCHANGED <<finishing, pool, timers, peers, told>>

FinishNotify(f) ==
  /\ fin[f].at = "notify"
  /\ Tell(fin[f].callback, f, fin[f].code)
  /\ fin' = [fin EXCEPT ![f].at = "delete"]
  /\ UNCHANGED <<finishing, taSched, pool, timers, peers>>

\* Faulty: only a success clears the entry away.
FinishDeleteOnSuccess(f) ==
  /\ fin[f].at = "delete"
  /\ IF fin[f].code = "SUCCESS" THEN DeleteScheduleCallback(fin[f].id) ELSE UNCHANGED pool
  /\ fin' = [fin EXCEPT ![f].at = "done"]
  /\ UNCHANGED <<finishing, taSched, timers, peers, told>>

FinishDelete(f) ==
  /\ fin[f].at = "delete"
  /\ DeleteScheduleCallback(fin[f].id)
  /\ fin' = [fin EXCEPT ![f].at = "done"]
  /\ UNCHANGED <<finishing, taSched, timers, peers, told>>

FinishStep(f) ==
  \/ FinishMinus(f) \/ FinishRemoveTimer(f) \/ FinishFind(f)
  \/ FinishDropInfo(f) \/ FinishSign(f) \/ FinishNotify(f) \/ FinishDelete(f)

-----------------------------------------------------------------------------
(* ExecutorMessenger::SendData on the binder thread of call m.  A message of *)
(* the wrong size ends the call after the lookup, as a missing entry does.   *)

SendDataFind(m, s, sizeOk) ==
  /\ info[m].at = "idle"
  /\ orders[s] > 0
  /\ info' = [info EXCEPT ![m] =
                [at |-> IF Present(s) /\ sizeOk THEN "notify" ELSE "done",
                 id |-> s, callback |-> callback[s]]]
  /\ UNCHANGED <<ta, pool, timers, peers, recipient, begin, fin, job, told>>

SendDataNotify(m) ==
  /\ info[m].at = "notify"
  /\ Tell(info[m].callback, m, "ACQUIRE")
  /\ info' = [info EXCEPT ![m].at = "done"]
  /\ UNCHANGED <<ta, pool, timers, peers, recipient, begin, fin, job>>

-----------------------------------------------------------------------------
(* CoAuthManager::Cancel, on a client's binder thread or inside TimeOut.   *)

cancelling == <<created, peers, recipient, begin, fin, info>>

\* Cancel returns: to its client, or to TimeOut.
Return(c) == IF c = Monitor THEN "delete" ELSE "done"

CancelCall(c, s) ==
  /\ job[c].at = "idle"
  /\ s \in created
  /\ job' = [job EXCEPT ![c] = [@ EXCEPT !.id = s, !.at = "info"]]
  /\ UNCHANGED <<cancelling, taSched, pool, timers, told>>

CancelGetInfo(c) ==
  LET found == job[c].id \in taSched IN
  /\ job[c].at = "info"
  /\ job' = [job EXCEPT ![c] =
               [@ EXCEPT !.i = 0,
                         !.ret = IF found THEN "SUCCESS" ELSE "FAIL",
                         !.at = IF found THEN "end" ELSE Return(c)]]
  /\ UNCHANGED <<cancelling, taSched, pool, timers, told>>

\* OnEndExecute of one executor; a missing callback is skipped.
CancelEnd(c, ret) ==
  LET next == job[c].i + 1
      sum  == IF ret = "SUCCESS" THEN job[c].ret ELSE ret
  IN
  /\ job[c].at = "end"
  /\ ready \/ ret = "SUCCESS"
  /\ job' = [job EXCEPT ![c] =
               [@ EXCEPT !.i = next,
                         !.ret = sum,
                         !.at = IF next < ExecutorNum[job[c].id] THEN "end"
                                ELSE IF sum = "SUCCESS" THEN "drop" ELSE Return(c)]]
  /\ UNCHANGED <<cancelling, taSched, pool, timers, told>>

\* Faulty: Cancel ends the executors and leaves the schedule open.
CancelDropForgets(c) ==
  /\ job[c].at = "drop"
  /\ job' = [job EXCEPT ![c].at = Return(c)]
  /\ UNCHANGED <<cancelling, taSched, pool, timers, told>>

CancelDrop(c) ==
  /\ job[c].at = "drop"
  /\ taSched' = taSched \ {job[c].id}
  /\ job' = [job EXCEPT ![c].at = Return(c)]
  /\ UNCHANGED <<cancelling, pool, timers, told>>

CancelStep(c) ==
  \/ CancelGetInfo(c)
  \/ \E ret \in {"SUCCESS", "FAIL"} : CancelEnd(c, ret)
  \/ CancelDrop(c)

-----------------------------------------------------------------------------
(* CoAuthManager::TimeOut on the thread of CallMonitor.                    *)

\* Faulty: a task that was removed, or never posted, runs all the same.
TimerFiresUnposted(s) ==
  /\ job[Monitor].at = "idle"
  /\ timers' = [timers EXCEPT ![s] = @ - 1]
  /\ job' = [job EXCEPT ![Monitor] = [@ EXCEPT !.id = s, !.at = "find"]]
  /\ UNCHANGED <<cancelling, taSched, pool, told>>

TimerFires(s) ==
  /\ job[Monitor].at = "idle"
  /\ timers[s] > 0
  /\ timers' = [timers EXCEPT ![s] = @ - 1]
  /\ job' = [job EXCEPT ![Monitor] = [@ EXCEPT !.id = s, !.at = "find"]]
  /\ UNCHANGED <<cancelling, taSched, pool, told>>

TimeOutFind ==
  LET s == job[Monitor].id IN
  /\ job[Monitor].at = "find"
  /\ job' = [job EXCEPT ![Monitor] =
               [@ EXCEPT !.callback = callback[s],
                         !.at = IF Present(s) THEN "notify" ELSE "idle"]]
  /\ UNCHANGED <<cancelling, taSched, pool, timers, told>>

TimeOutNotify ==
  /\ job[Monitor].at = "notify"
  /\ Tell(job[Monitor].callback, Monitor, "TIMEOUT")
  /\ job' = [job EXCEPT ![Monitor].at = "info"]
  /\ UNCHANGED <<cancelling, taSched, pool, timers>>

\* Faulty: TimeOut also reports how Cancel went, with the callback found before.
TimeOutDeleteTells ==
  /\ job[Monitor].at = "delete"
  /\ Tell(job[Monitor].callback, Monitor, job[Monitor].ret)
  /\ DeleteScheduleCallback(job[Monitor].id)
  /\ job' = [job EXCEPT ![Monitor].at = "idle"]
  /\ UNCHANGED <<cancelling, taSched, timers>>

\* Faulty: TimeOut leaves the entry.
TimeOutDeleteForgets ==
  /\ job[Monitor].at = "delete"
  /\ job' = [job EXCEPT ![Monitor].at = "idle"]
  /\ UNCHANGED <<cancelling, pool, taSched, timers, told>>

TimeOutDelete ==
  /\ job[Monitor].at = "delete"
  /\ DeleteScheduleCallback(job[Monitor].id)
  /\ job' = [job EXCEPT ![Monitor].at = "idle"]
  /\ UNCHANGED <<cancelling, taSched, timers, told>>

TimeOutStep == TimeOutFind \/ TimeOutNotify \/ CancelStep(Monitor) \/ TimeOutDelete

-----------------------------------------------------------------------------
(* Processes die, executors register and go away.                          *)

CallerDies(r) ==
  /\ r \in alive \cap Mortal
  /\ begin[r].at # "idle"
  /\ alive' = alive \ {r}
  /\ UNCHANGED <<ta, pool, timers, ready, orders, answers, recipient, begin, fin,
                 job, info, told>>

\* ResICoAuthCallbackDeathRecipient::OnRemoteDied
OnRemoteDied(r) ==
  /\ r \notin alive
  /\ recipient[r] = "armed"
  /\ recipient' = [recipient EXCEPT ![r] = "fired"]
  /\ DeleteScheduleCallback(begin[r].id)
  /\ UNCHANGED <<ta, timers, peers, begin, fin, job, info, told>>

ExecutorsChange ==
  /\ Unstable
  /\ ready' = ~ready
  /\ UNCHANGED <<ta, pool, timers, alive, orders, answers, recipient, begin, fin,
                 job, info, told>>

-----------------------------------------------------------------------------

Next ==
  \/ \E s \in Schedules : AddCoAuthSchedule(s)
  \/ \E r \in Requests, s \in Schedules : BeginGetInfo(r, s)
  \/ \E r \in Requests : BeginStep(r)
  \/ \E f \in Finishes, s \in Schedules, report \in Reports : FinishCount(f, s, report)
  \/ \E f \in Finishes : FinishStep(f)
  \/ \E m \in Infos, s \in Schedules, sizeOk \in BOOLEAN : SendDataFind(m, s, sizeOk)
  \/ \E m \in Infos : SendDataNotify(m)
  \/ \E c \in Cancels, s \in Schedules : CancelCall(c, s)
  \/ \E c \in Cancels : CancelStep(c)
  \/ \E s \in Schedules : TimerFires(s)
  \/ TimeOutStep
  \/ \E r \in Requests : CallerDies(r) \/ OnRemoteDied(r)
  \/ ExecutorsChange

Spec == Init /\ [][Next]_vars

\* Thread t is inside a synchronous call of another process that has not
\* returned: OnBeginExecute, OnEndExecute, or OnFinish of the caller, whose
\* message has been delivered by then.
Away(t) ==
  \/ t \in Requests /\ begin[t].at \in {"executing", "delete"}
  \/ t \in Finishes /\ fin[t].at = "delete"
  \/ t \in Cancels \cup {Monitor} /\ job[t].at = "end"
  \/ t = Monitor /\ job[t].at = "info"

\* The threads of the service run on once they have started, but for what they
\* do inside other processes; a posted task runs once the monitor thread is free
\* unless it is removed; death notices arrive.  Nothing is assumed of callers
\* and executors, not even that a call of them returns, nor of when calls are made.
Fairness ==
  /\ \A r \in Requests : WF_vars(~Away(r) /\ BeginStep(r)) /\ WF_vars(OnRemoteDied(r))
  /\ \A f \in Finishes : WF_vars(~Away(f) /\ FinishStep(f))
  /\ \A m \in Infos : WF_vars(SendDataNotify(m))
  /\ \A c \in Cancels : WF_vars(~Away(c) /\ CancelStep(c))
  /\ \A s \in Schedules : WF_vars(TimerFires(s))
  /\ WF_vars(~Away(Monitor) /\ TimeOutStep)

FairSpec == Spec /\ Fairness

-----------------------------------------------------------------------------
(* Properties.                                                             *)

\* The Finish calls that GetScheduleToken has answered with SUCCESS.
Holders(s) == {f \in Finishes : fin[f].id = s /\ fin[f].token # "none"}

Cancelled(s) == \E c \in Cancels : /\ job[c].id = s
                                   /\ job[c].at = "done"
                                   /\ job[c].ret = "SUCCESS"

\* Threads that have looked up the callback of schedule s, or are about to, and
\* will delete the entry before they end.
Closing(s) ==
  \/ job[Monitor].id = s /\ job[Monitor].at # "idle"
  \/ \E f \in Finishes :
       fin[f].id = s /\ fin[f].at \in {"find", "sign", "notify", "delete"}

\* The trusted side's view of a schedule, for ScheduleToken.
Phase(s) == IF s \notin created THEN "none"
            ELSE IF s \in taSched THEN "open" ELSE "ended"

Token == INSTANCE ScheduleToken
           WITH Calls <- Finishes,
                phase <- [s \in Schedules |-> Phase(s)],
                holders <- [s \in Schedules |-> Holders(s)]

\* However Finish, Cancel, TimeOut and the begin thread interleave, a schedule
\* is granted to one Finish call at most and never after it was dropped.
TokenSpec == Token!Spec

\* Callers hear of success once for a schedule: GetScheduleToken and the three
\* ways to OnFinish race, but two calls never both report SUCCESS.
OneSuccess ==
  \A r, q \in Requests :
    \A m \in told[r], n \in told[q] :
      (begin[r].id = begin[q].id /\ m.code = "SUCCESS" /\ n.code = "SUCCESS")
        => (m.by = n.by /\ r = q)

\* Once Cancel has returned SUCCESS to its client, no token is issued for the
\* schedule, even by a Finish call that was already past its lookup.
CancelIsFinal ==
  [][\A s \in Schedules : Cancelled(s) => Holders(s)' = Holders(s)]_vars

\* A schedule is granted only after as many Finish calls as it has executors:
\* the count read by one thread and lowered by another never lets one in early.
AllAnswered ==
  \A s \in Schedules : Holders(s) # {} => answers[s] >= ExecutorNum[s]

\* An entry of scheResPool_ is never stranded: its timeout is posted or about to
\* be, or a thread is on its way to delete it.
NoOrphanEntry ==
  \A s \in Schedules : Present(s) =>
    \/ timers[s] > 0
    \/ Closing(s)
    \/ \E r \in Requests : begin[r].id = s /\ begin[r].at = "monitor"

\* Threads that hold, or may still find, the callback of request r.
MayTell(r) ==
  \/ begin[r].at # "done"
  \/ \E s \in Schedules : callback[s] = r
  \/ \E f \in Finishes : fin[f].callback = r /\ fin[f].at \in {"sign", "notify"}
  \/ job[Monitor].callback = r /\ job[Monitor].at = "notify"
  \/ \E m \in Infos : info[m].callback = r /\ info[m].at = "notify"

\* Once the entry is gone and nobody holds the callback any more, the caller
\* never hears of the schedule again: no late thread revives it.
QuietAfterEnd ==
  [][\A r \in Requests : ~MayTell(r) => ~MayTell(r)' /\ told'[r] = told[r]]_vars

\* What an executor says about a schedule reaches only the caller that began it,
\* although calls carry nothing but an id and callbacks are looked up late.
OwnerIsTold ==
  \A r \in Requests : \A m \in told[r] :
    /\ m.by \in Finishes => fin[m.by].id = begin[r].id
    /\ m.by \in Infos => info[m.by].id = begin[r].id
    /\ m.by \in Requests => m.by = r

\* The one monitor thread is not held for ever by a schedule other than r's.
OthersReturn(r) == []<>~(Away(Monitor) /\ job[Monitor].id # begin[r].id)

\* A caller whose BeginSchedule came in hears how it ended, or dies: whatever its
\* executors do, even if they never return from a call, and whichever of the racing
\* threads deletes the entry.  Timeouts wait for each other on one thread: an
\* executor of another schedule that hangs in OnEndExecute can keep this one's.
CallerHears ==
  \A r \in Requests : OthersReturn(r) =>
    ((begin[r].at # "idle") ~> (r \notin alive \/ \E m \in told[r] : m.code # "ACQUIRE"))

\* Other processes return from the calls the service makes of them.
PeersReturn == \A t \in Requests \cup Finishes \cup {Monitor} : []<>~Away(t)

\* scheResPool_ does not grow for ever: every entry is deleted in the end, if the
\* calls of callers and executors that stand before its deletion return.
EntriesGo == PeersReturn => \A s \in Schedules : Present(s) ~> ~Present(s)

-----------------------------------------------------------------------------
(* What comments and documents say of the program.                         *)

Answers(s) == {f \in Finishes : fin[f].id = s}

\* executor_messenger.cpp:105, "The last one will sign the token": when every
\* executor's Finish has returned, one of them went on to sign and report.
LastOneSigns ==
  \A s \in Schedules :
    (/\ Cardinality(Answers(s)) = ExecutorNum[s]
     /\ \A f \in Answers(s) : fin[f].at \in {"counted", "done"})
    => \E f \in Answers(s) : fin[f].at = "done"

\* README.md:71, "the result returned by the authentication executor must be
\* verified in the TEE": a caller told SUCCESS holds a token the TEE signed.
SuccessIsSigned ==
  \A r \in Requests : \A m \in told[r] :
    (m.code = "SUCCESS" /\ m.by \in Finishes) => fin[m.by].token = "signed"
=============================================================================
