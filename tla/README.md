# A verification of auth_executor_mgr

This directory holds TLA+ models of the OpenHarmony service *auth_executor_mgr*
(the repository beside it), the TLC configurations that check them, and
theorems about them checked by TLAPS. The models are translated from the
code under `src/`; `PROJECT.json` maps every definition to its lines.

1. [The system](#1-the-system)
2. [The modules](#2-the-modules)
3. [What the runs check](#3-what-the-runs-check)
4. [What is proved](#4-what-is-proved)
5. [Where code and text disagree](#5-where-code-and-text-disagree)
6. [What is assumed and what is left out](#6-what-is-assumed-and-what-is-left-out)
7. [The plan](#7-the-plan)

## 1. The system

The service lets *executors* (a PIN collector, a face verifier, ...) register,
and carries out *collaborative schedules*: one or two executors of one
authentication type that together enrol or verify a user. The code is in two
halves. The *service* (`services/`) receives IPC calls on binder threads, each
call on a thread of its own. The *trusted side* (`common/`, a C library that
stands for a TEE and runs in the same process) keeps executors, schedules,
contexts, the edit session and the credential database; each entry point in
`common/hal_sdk/` takes one global mutex for its whole duration.

| component | state | operations | works with |
|---|---|---|---|
| `coauth_manager` | none of its own | BeginSchedule, Cancel, TimeOut, SetExecutorProp, GetExecutorProp, notice of a dead caller | the pools, the call monitor, the trusted side, callbacks into callers and executors |
| `executor_messenger` | none | Finish, SendData, called by executors | the same |
| `auth_res_pool` | `scheResPool_` (callback and executor count of each running schedule), `authResPool_` (callbacks of executors) | insert, find, count down, delete; each under its mutex | called by both managers and the messenger |
| `call_monitor` | delayed tasks, named by schedule id | MonitorCall, MonitorRemoveCall; one thread runs what is due | TimeOut |
| `auth_res_manager` | none | Register, QueryStatus, notice of a dead executor | `authResPool_`, `g_poolList` |
| `pool.c` | `g_poolList`, the executors the trusted side knows | register, unregister, query | schedules are made from it |
| `coauth.c`, `coauth_funcs.c` | `g_scheduleList` | generate, find, remove a schedule; `ScheduleFinish` signs a token | the service, contexts, enrolment |
| `executor_message.c`, sign centres | none | parse an executor's message, verify it, sign tokens | `ScheduleFinish`, enrolment, authentication |
| `common/user_auth` | `g_contextList` | generate a context and its schedules, take a result, cancel | schedules, the database, trust levels |
| `common/idm` | the one edit session | open, close, enrol, update, delete, query | tokens, the database, schedules |
| `common/database` | user list, its cache `g_currentUser`, the user file | add, update, delete, query; write and load the file | the file system |
| life cycle | `g_isInitUserIAM`, the global mutex, the token key | OnStart, OnStop, Init, Close | all of the trusted side |
| containers | linked list, buffers, TLV | pure data structures | everything in C |
| `auth_attributes.cpp` | values by tag, and the order in which tags were set | Set, Get, Pack, Unpack | every call between clients, service and executors |
| kits, proxies, stubs | a cached proxy and its death recipient | one call of another process each: send, wait for the reply, read it | clients, executors |

What is hard about it:

* **Interleaving.** A schedule is ended by whichever of four threads gets
  there: the last executor's Finish, the timeout, the begin thread when an
  executor refuses, the notice that the caller died. Each one looks the callback
  up, calls it with no lock held, and deletes the entry afterwards. A client's
  Cancel works on the trusted side at the same time.
* **Check and act in two critical sections.** Finish reads the count and lowers
  it in separate calls; Register changes two lists under two locks; Cancel reads
  the schedule, talks to executors, and then drops it; DeleteUser verifies a
  token, gives up the lock and takes it again.
* **Synchronous calls.** Every call of another process waits for its reply. An executor that
  does not return holds the begin thread, or the one thread on which all timeouts run.
* **Stale names.** Executors and schedules are named by random ids, kept by
  other processes and looked up much later; death notices arrive late.
* **Partial failure.** A step fails after an earlier one changed something:
  an executor registered whose recipient was refused, a schedule dropped whose
  result could not be signed, a user added to memory and not to the file.
* **Crashes.** The user file is truncated and then written.
* **Three processes.** A property goes from a client through the service to an executor
  and back, packed and unpacked at every hop; the executor may die before the call reaches
  it, during it, or after it did what it was asked, and then the reply is lost.
* **Hand-written parsing.** An executor's message is three TLV lists, one inside the value
  of another, read by offsets and lengths, by tags and by sizes, with memory that may run out
  at every step; a result code of zero means success.
* **Time.** The schedule timeout races the last answer; tokens and the edit
  session expire.

What makes each component correct:

* *schedules*: a schedule is granted (a token is issued) once at most, only after
  every executor has answered, never after a cancel; its caller hears the end,
  once as a success, and nothing afterwards, even when an executor never returns from
  a call; nobody hears of the schedule of another; nothing is left in the pool for good.
* *registration*: one executor of a kind; the two lists agree, but for a registration that
  failed half way; the living stay, the dead leave.
* *database*: one PIN per user; what is in memory, in the file, and what is
  loaded again agree after every operation that reports success; limits that
  loading enforces are kept by adding.
* *enrolment*: a credential comes from a granted schedule to enrol its type in the
  session that is open; a token from before the session or from before the last change of
  the PIN does not enrol.
* *executor messages*: a signed token says what the verifier of that schedule signed, and
  nothing else; a verifier's success is not refused.
* *calls on executors*: an executor does a request once at most, with the attributes the
  client set; who is told SUCCESS can rely on it.
* *contexts*: a context always waits for a schedule of its own; a schedule leads to
  one result at most, and to none once its context has ended; a result claims no
  trust level that its credential and its executors do not have.

The components that are not modelled yet, and why, are listed in `PROJECT.json`
under `components`; what can go wrong in them, at its line, is under `hazards`.

## 2. The modules

| module | what it is |
|---|---|
| `ScheduleToken` | the promise of the trusted side: a schedule is opened once, granted to one call at most, and ends; nothing is granted afterwards |
| `CoAuth` | the life of schedules: `coauth_manager`, `executor_messenger`, the schedule half of `auth_res_pool`, `call_monitor`, `g_scheduleList` |
| `MCCoAuth` | its instances for TLC |
| `CoAuthProofs`, `CoAuthPoolProofs`, `CoAuthCallerProofs` | theorems about `CoAuth`: the token, the pool, what callers hear |
| `TlvWrapper` | one node of a TLV buffer and the readers of a list of nodes: `tlv_wrapper.c`, `tlv_base.c` |
| `ExecutorMessage` | an executor's message, from the buffer to the token: `executor_message.c`, `ScheduleFinish` in `coauth_funcs.c`, `GetScheduleToken` in `coauth_interface.cpp` |
| `MCExecutorMessage` | its instance for TLC, with the messages it is given |
| `ExecutorMessageProofs` | theorems about `ExecutorMessage` |
| `ExecutorPool` | registration: `auth_res_manager`, the executor half of `auth_res_pool`, `pool.c` |
| `MCExecutorPool` | its instances for TLC |
| `AuthAttributes` | the container of attributes, Pack and Unpack, as operators: `auth_attributes.cpp` |
| `AuthAttributesProofs` | theorems about `AuthAttributes`: what a trip to another process does to a container |
| `ExecutorCalls` | calls on executors, from a client or a schedule and back: the property calls of `coauth_manager.cpp`, `FindExecutorCallback`, proxies and stubs; it extends `ExecutorPool` and `AuthAttributes` |
| `MCExecutorCalls` | its instance for TLC |
| `ExecutorCallsProofs` | theorems about `ExecutorPool` and `ExecutorCalls` |
| `Credentials` | one user, and what adding and deleting a credential makes of it: the operators `IdmDatabase`, `UserAuth` and `UserIdm` share (`idm_database.c`) |
| `IdmDatabase` | users and credentials: the list, the cached user, the file: `idm_database.c`, `idm_file_manager.c`, `file_operator.c` |
| `MCIdmDatabase` | its instance for TLC |
| `IdmDatabaseProofs` | theorems about `IdmDatabase` |
| `UserAuth` | contexts, their schedules and results, the trust level: `context_manager.c`, `user_auth_funcs.c`, `auth_level.c`; how `coauth.c` generates a schedule |
| `MCUserAuth` | its instance for TLC |
| `UserIdm` | the edit session, and enrolment, update and deletion of credentials: `idm_session.c`, `user_idm_funcs.c`, `useridm_interface.cpp`; it extends `UserAuth` |
| `MCUserIdm` | its instance for TLC |
| `UserIdmProofs` | theorems about `UserAuth` and `UserIdm` |

`ScheduleToken` is the abstract specification of what `CoAuth` does with the trusted
side. `UserAuth` and `UserIdm` rest on what it promises: their `ScheduleFinish` grants
a listed schedule once, at whatever moment, and leave the threads that get it
there to `CoAuth`. `CoAuth` in turn takes what `GetScheduleToken` makes of a message
for one step, a function of the kind of the report; `ExecutorMessage` is that step
taken apart. `ExecutorCalls` composes registration with the calls that use it. `IdmDatabase` has what `UserIdm` leaves out of the
database, the file and the crash.

### CoAuth

An action is the code of one thread from one point where it gives up a lock (or
is about to take one) to the next. A thread's position is the field `at` of its
record:

| thread | record | code |
|---|---|---|
| `r \in Requests` | `begin[r]` | `CoAuthHandle`: get the executors, add the death recipient, save the callback, post the timeout, call each executor, and on a failure notify, delete, remove the timer |
| `f \in Finishes` | `fin[f]` | `Finish`: read the count, lower it or go on; remove the timer, find the callback, sign, notify, delete |
| `c \in Cancels` | `job[c]` | `Cancel`: get the executors, end each, drop the schedule |
| `Monitor` | `job[Monitor]` | `TimeOut`: find, notify, all of Cancel, delete |
| `m \in Infos` | `info[m]` | `SendData`: find, notify |
| `OnRemoteDied(r)` | `recipient[r]` | the notice of a dead caller |

`callback[s]` and `left[s]` are the entry of `scheResPool_` (`None`: no entry),
`timers[s]` the tasks posted under the id and not yet run, `created` and
`taSched` the ids the trusted side has generated and those still in
`g_scheduleList`. `told[r]` records what the callback of a request has heard, and
from which thread; `orders` and `answers` count the calls to and from executors.

`Away(t)` says that thread `t` is inside a synchronous call of another process
(`OnBeginExecute`, `OnEndExecute`, `OnFinish`): the step that follows is the return of that
call, and no fairness is given to it.

What the trusted side makes of an executor's report is a function of what the
report is: `Grants` says when `GetScheduleToken` returns SUCCESS, `Signs` when the
token it returns is signed, `Spent` what it leaves of the list. `"oversized"` is a
message above `MAX_BUFFER_SIZE`, the one that leaves the schedule listed.

`ScheduleCounts` gives the value Finish works with. When the entry is gone the code
leaves `scheCount` uninitialized; the model takes one value on either side of
the only comparison made with it.

### ExecutorPool

A call of `Register` is named by its callback, and its `executorId`, a random
64-bit number, by the call. `poolList` and `authResPool` are sets of calls.
`call[c]` is how far the call is, `recipient[c]` whether its death recipient is
registered and how far the notice is. A recipient may not be added to a dead executor,
nor, when memory or binder fails, to a live one. `RegisterExecutor` is
`RegisterExecutorToPool` under the global lock: it takes out the first executor
of the same kind and then stores the new one, or fails in between.

### ExecutorMessage

`GetScheduleToken` holds the global mutex for its whole duration, so one call runs at a time
and what can happen at every step is that memory runs out (`Faults`). A buffer is a
sequence of cells of four bytes; a length counts cells, and what is not a multiple of
four bytes is left out. `lists` has the buffer, the offset and the nodes of each of the three
nested lists: the message, the value of its `AUTH_ROOT`, the value of `AUTH_DATA` in that.

| `call.at` | code |
|---|---|
| `"list"` | `CreateTlvList` at the level reached |
| `"parse"` | the loop of `ParseTlvWrapper`: `ParseNode`, `ParseFails`, `ParseEnd` |
| `"read"` | the tag that leads to the next level (`ParseRoot`, `ParseExecutorResultData`), or the next of the five fields (`ReadField`) |
| `"sign"` | `ParseExecutorResultSign`, back in the list of `AUTH_ROOT` |
| `"check"`, `"verify"` | `ScheduleFinish`: ids, result code, listed schedule; then key, signature and token |
| `"exit"` | the message is freed and the schedule dropped |

`info` is the `ExecutorResultInfo`, `tokens` what callers were given, signed and not.
`Reports` are what executors have signed: `Ed25519Verify` asks whether one of them, under the key
of the schedule's verifier, has this `AUTH_DATA` and this signature.

`executor_message.c:83` is in the model as it is: out of memory for the list of
`AUTH_DATA`, the parser returns `false`, which is `RESULT_SUCCESS`, and goes on with all
fields zero, a zero result being a success. That no token comes of it is what
`TokenIsReported` shows; it rests on the comparison of the schedule ids alone.

### AuthAttributes and ExecutorCalls

A container is its values by tag and the list of the tags that were set, with repetitions. `Pack`
writes an entry for each of them, in order of the tags, and a last one for
`AUTH_SIGNATURE`; `Unpack` stops at the first length that does not fit and keeps what it
has. So a tag set twice is sent twice, and an empty array of bytes is sent and not set;
`ByTag` and `Shown` say what should become of it without a buffer.

| `request[r].at` | where the call is |
|---|---|
| `"idle"` | at the client, or at the begin thread of a schedule |
| `"sent"` | `SetExecutorProp`, `GetExecutorProp` of the proxy; the stub of the service is next |
| `"found"` | `FindExecutorCallback` has answered, and the proxy calls the executor |
| `"replied"` | the executor has done it and its reply is on the way |
| `"answer"` | back in the service, the client is about to hear: `OnResult`, or the reply of `GetExecutorProp` |
| `"done"` | over |

`OnBeginExecute` and `OnEndExecute` are requests of the kinds `"begin"` and `"end"`, which
start at `"found"`; what their result is used for is in `CoAuth`. `told` are the
executors whose `Register` call returned an id. `idOf` are the random ids, by whose order
`FindExecutorCallback` chooses among the executors of an authentication type. When the
conditions have no `AUTH_TYPE`, the manager looks up an uninitialized one: any type of the model.

### IdmDatabase

Every call into the database holds the global mutex, so calls do not interleave;
what does interleave is a call and the death of the process. A call that changes
the list is one action for what it does in memory and then, if it writes the file,
the steps of `UpdateFileInfo`:

| `call.at` | code |
|---|---|
| `"idle"` | no call, or one that has returned |
| `"open"` | the list has changed, `UpdateFileInfo` is about to fill its buffer and open the file: `SaveRefused`, `SaveOpens` |
| `"write"` | `fopen(.., "wb")` has truncated the file, `fwrite` is next: `SaveFails`, `SaveWrites`, and `SaveIsLost` when `fclose` cannot flush, which nobody notices |

`mem` is `g_userInfoList` and `current` is `g_currentUser`; `file` and `disk` are the
user file and what is in it when it is whole. `call.id` is the credential the call
will report when it succeeds, and `acked` collects the credentials reported: it is
what a client believes to have. `hollow` are those of them that no user of the list was
given (`call.added` is false). `Additions(info, t)` is `AddCredentialToUser`: every
outcome it can have, the half-done ones included. `Without(info, c)` is what
`DeleteCredentialInfo` leaves of a user, `Found(u)` is `QueryUserInfo`, which
trusts the cached pointer before it looks at the list.

Several things the code does are in the model as they are, and no text of the
repository says otherwise.

* `AddUser` overwrites the failure of adding with the success of writing, so a user that
  was never added is reported as added (`AddUserFails`).
* A file cut short is not found to be one until it is loaded, and then no start of the
  service succeeds; when the cut is a failed flush, even the call that caused it reports
  SUCCESS (`SaveIsLost`).
* A user whose last credential was deleted cannot be deleted any more, since
  `Malloc(0)` fails.
* After `Close`, `g_currentUser` still points to a freed user (`Dangling`). Following it may
  find no user, a new user that was given the same memory (`AddUser`,
  `InitUserInfoList`), or what is still written there: then a credential is added to, or
  deleted of, a user that is in no list, while the file is written from the list and
  SUCCESS reported (`AddToFreed`, `DeleteFromFreed`, `DeleteFreedUser`).

### UserAuth

Every call holds the global mutex, so an action is a whole call. `contexts[c]` is the
entry of `g_contextList` with the contextId `c` (`None`: there is none); contextIds are
drawn at random among those not in the list, so one may come back.
`schedules[s]` is a schedule from its id on: `"new"`, `"listed"` in `g_scheduleList`,
`"granted"` when its token has been signed at `time`, `"dropped"`. It keeps the executors
it was mounted with and the template it is for. `pool` is `g_poolList`, `users` the user
list, `now` the clock. Tokens are not stored by the service but by its clients, who can
present any they have been given: the token of `s` is `schedules[s].at = "granted"`, and
`authTokens` are the results signed so far. `results[s]` counts the results that
came of a schedule.

| action | code |
|---|---|
| `GenerateContext` | `GenerateSolutionFunc`: the trust level, the context, its schedule; a context that cannot be stored leaves the schedule listed |
| `RequestAuthResult` | `RequestAuthResultFunc`: verify the token, find the schedule in the context, sign, destroy the context whatever came of it |
| `CancelContext` | `CancelContextFunc` |
| `ScheduleFinish`, `RemoveSchedule` | the ends of a schedule, see `CoAuth` |
| `GenerateIdmSchedule`, `EnrolmentChanges` | what `UserIdm` does between two calls |
| `PoolChanges`, `Tick` | what else goes on |

`TrustLevel` is the loop over `g_generationAtl`, `GetAsl` the minimum over the executors
found. `QueryExecutor` is the set of outcomes of a query: with `Skips` an executor
whose copy cannot be allocated is passed over.

### UserIdm

`session` is the one edit session or `None`. `deleting` is the user whose `DeleteUser` call
has verified its token and given up the lock. `renewed[u]` is there for a property: the
time of the last update of `u`'s PIN, or deletion of `u`, that went through to the end.

The user of the session is the one credentials are added to. The `userId` a call passes,
and the user a token names, are compared with it by nobody, so `InitSchedulation`,
`DeleteCredential` and `DeleteUser` take any user, and `TokenVerified` any user's result for
the challenge of the session. The services that make these calls are in another repository.

| action | code |
|---|---|
| `OpenEditSession`, `CloseEditSession` | `idm_session.c` |
| `InitSchedulation` | `CheckEnrollPermission`: `Permitted` is `PinPermissionCheck` and `FacePermissionCheck` |
| `AddCredential`, `UpdateCredential`, `DeleteCredential` | the functions of `user_idm_funcs.c`; `ScheduleMatches` are the checks they share |
| `DeleteUserVerifies`, `DeleteUserDeletes` | `DeleteUser` before and after the point where it unlocks |
| `DeleteUserEnforce` | the same with no token |

Several things the code does are in the model as they are, since no text of the
repository says otherwise. A session's schedule is not spent: its token, brought
twice, enrols a second face (`AddCredential`), although a log message of
`FacePermissionCheck` refuses one. `DeleteCredential` does not compare the token with
the time of the last update, and deleting the PIN leaves older tokens as good as they
were. An update that deletes the old PIN and cannot add the new one leaves the user
without, and `DeleteUser` skips the refresh when the file cannot be written.
What a user enrols while a `DeleteUser` call is in its gap is deleted too.
The PIN whose proof lets a face be enrolled may be another user's, and a `DeleteUser` call
may delete a user who is not the session's.
A schedule generated for a first PIN without a session belongs to nobody and, like one
whose context could not be stored, stays listed.

## 3. What the runs check

| run | instance | shows |
|---|---|---|
| `coauth_one` | one schedule of two executors, two Finish calls, a Cancel, a mortal caller, executors that may repeat, fail or send too much | `TypeOK`, `AllAnswered`, `NoOrphanEntry`, `CancelIsFinal` |
| `coauth_shared` | two schedules of one executor each, one of them without a verifier, two BeginSchedule calls that may share an id, two Finish calls | `OneSuccess`, `OwnerIsTold`; `TokenSpec`: the refinement of `ScheduleToken` |
| `coauth_live` | one schedule of two executors, two Finish calls, a SendData call that may come late, a mortal caller, executors that come and go and may never return, with fairness | `CallerHears`, `EntriesGo`, `QuietAfterEnd` |
| `executor_message` | a schedule with a verifier and one without, three reports, and 348 messages: as reported, cut, changed, mixed; memory may run out | `TypeOK`, `Tiled`, `TokenIsReported`, `HonestIsGranted` |
| `executor_calls` | two registrations of one kind, a request of any of the four kinds, failing calls, deaths | `CallsTypeOK`, `AsAsked`, `SuccessIsDone`, `IdIsReal` |
| `executor_pool` | three registrations of one type, two of one kind, with fairness | `TypeOK`, `OnePerKind`, `ListsAgree`, `LiveStays`, `DeadLeave` |
| `idm_database` | three users where two may be stored, three credential ids, every failure, a crash anywhere, restarts with a dangling pointer | `TypeOK`, `WellFormed`, `FileLoads`, `CurrentIsListed`, `AckedSurvive` |
| `user_auth` | two contextIds used again and again, two schedules, a weak and two strong executors that come and go, a weak and a strong credential, tokens that expire, every failure but a lost executor | `AuthTypeOK`, `EachAwaitsItsOwn`, `OneResult`, `LevelIsBacked`, `EndedStaysEnded` |
| `user_idm` | two users, a PIN and a face, sessions with two challenges, three schedules, a context, a clock that moves on once, every failure | `IdmTypeOK`, `EnrolmentIsScheduled`, `OldProofIsRefused` |
| `last_one_signs`, `signed_empty`, `cache_agrees` | | violations, see section 5 |

**Bounds.** `MAX_EXECUTOR_SIZE` is 2 in the code, so schedules of one and two
executors are all there are. The races are between the ways to end one schedule:
two Finish calls (the two executors, or one twice), the timeout, the begin thread,
the death notice and a Cancel are all in `coauth_one`. A second request
and a second schedule matter where an id is shared or confused (`coauth_shared`); the
symmetry of calls that differ in their name only is used there. Its callers do not
die, so states that differ only in their death recipients are taken for one (`ImmortalView`). In `executor_message` a report's message has 25 cells, the shortest that
has every field. It is cut after every cell, each of its cells is replaced by a small number or by
another tag (so lengths become too long, too short and zero, fields change, tags vanish),
it carries the signature of another report, an entry in front of the signed data, an empty
`AUTH_DATA`, a second `AUTH_DATA`, or another message behind it: each is a way in which what is
signed and what is read could come apart. In `executor_calls` one request meets an
executor, its successor and their deaths; more requests do not touch each other. The
attributes of a request have a type set twice, a tag given a value of another type, empty
arrays of both sorts and, for `"get"`, no `AUTH_TYPE`. Three
registrations are an old executor, its successor and one of another kind. In
`idm_database` the limits are 2 credentials and 1 type above which nothing is added
(5 and 2 in the code: only their order matters, and the theorem says so), with 3 ids
so that there can be one credential too many, and a buffer of 200 bytes, too small
for two full users, so that a full buffer is met. `MaxUser` is 2 and a third user meets that
limit. What is in `hollow` matters only as far as it excuses an element of `acked`, so
states that differ in nothing else are taken for one (`View`). In `user_auth` two
contexts and two schedules let a context end and its contextId come back while the
first schedule is still running; three executors are one more than a schedule can
hold; `MaxTime = 1` with `Period = 0` gives every token the time before and after its
expiry (the code's ten minutes are one period: only before and after matters). In `user_idm` an update of a PIN
needs a schedule for the PIN, one for the authentication and one for the update, and two
challenges let a session be opened again; `MaxTime = 1` with both periods 1 tells a
token from before an update from one after it. Tokens that are too old are met
in `user_auth` (`Period = 0`), a session that has timed out in the theorems only. There is one executor of each type, so
a query that loses one only makes the call fail and `Skips` adds nothing. A second user is
there for the calls and tokens that name a user who is not the session's; the
limits of a user are out of reach here and belong to `idm_database`. Sets of
calls are finite because each call is made once; that a run may stop when its calls
are used up is why some configurations turn the deadlock check off.

**Fairness.** A thread of the service goes on while it is in the service (the scheduler
runs it, mutexes are held for finitely many steps), a posted task runs once the monitor
thread is free unless it is removed, and binder delivers death notices. Nothing is assumed
of callers and executors, not even that they return: calls of them are `TF_SYNC`
(`executor_callback_proxy.cpp:226`), and a thread that is `Away` in one has no fairness. What
is assumed beyond that is part of the two properties:

* `CallerHears` of a request assumes `OthersReturn`: an executor of *another* schedule does not
  hold the monitor thread for ever. Its own executors may hang as they like, since the
  timer is posted before the first of them is called and `TimeOut` tells the caller
  before it calls them. With two schedules and without the assumption the property fails:
  the monitor thread waits in `OnEndExecute` of one schedule, and the timeout of the other
  never runs. (The run has one schedule, where `OthersReturn` is true of every
  behaviour; an instance with two schedules of one executor each takes too long to be kept
  as a run.)
* `EntriesGo` assumes `PeersReturn`: the threads on their way to delete an entry return from
  the calls before it. Without it the property fails, as `TimeOut` calls all of `Cancel`
  before `DeleteScheduleCallback`.

## 4. What is proved

For all values of the constants that satisfy their assumptions:

| theorem | module | statement |
|---|---|---|
| `TypeCorrect` | `CoAuthProofs` | `Spec => []TypeOK` |
| `TokenRefinement` | `CoAuthProofs` | `Spec => TokenSpec` |
| `CancelFinal` | `CoAuthProofs` | `Spec => CancelIsFinal` |
| `NoStrandedEntry` | `CoAuthPoolProofs` | `~SharedIds` implies `Spec => []NoOrphanEntry` |
| `GrantedAfterAll` | `CoAuthPoolProofs` | `~SharedIds` implies `Spec => []AllAnswered` |
| `OwnersTold`, `SuccessAtMostOnce` | `CoAuthCallerProofs` | `OwnerIsTold`, `OneSuccess` |
| `QuietOnceOver` | `CoAuthCallerProofs` | `Spec => QuietAfterEnd` |
| `TypeCorrect` | `ExecutorMessageProofs` | `Spec => []TypeOK` |
| `ListsTiled`, `TokensReported` | `ExecutorMessageProofs` | `Tiled`, `TokenIsReported` |
| `HonestGranted` | `ExecutorMessageProofs` | `Spec => []HonestIsGranted` |
| `TypeCorrect` | `ExecutorCallsProofs` | `Spec => []TypeOK`, of `ExecutorPool` |
| `KindsUnique`, `ListsStayInStep`, `LiveExecutorsStay` | `ExecutorCallsProofs` | `OnePerKind`, `ListsAgree`, `LiveStays` |
| `RoundTrip` | `AuthAttributesProofs` | what a container has after a trip: the last value of each tag that was accepted, empty arrays of bytes excepted |
| `CallsTypeCorrect` | `ExecutorCallsProofs` | `CallsSpec => []CallsTypeOK` |
| `AskedOnce`, `SuccessIsEarned`, `IdStaysReal` | `ExecutorCallsProofs` | `AsAsked`, `SuccessIsDone`, `IdIsReal` |
| `TypeCorrect` | `IdmDatabaseProofs` | `Spec => []TypeOK` |
| `UsersWellFormed`, `FilesLoad` | `IdmDatabaseProofs` | `WellFormed`, `FileLoads` |
| `CachedIsListed`, `NoCredentialLost` | `IdmDatabaseProofs` | `CurrentIsListed`, `AckedSurvive` |
| `TrustLevelIsHighest` | `UserIdmProofs` | the level the loop finds is the highest of all rows that are satisfied |
| `TrustLevelMonotone` | `UserIdmProofs` | a better executor or credential never lowers it |
| `AuthTypeCorrect` | `UserIdmProofs` | `AuthSpec => []AuthTypeOK` |
| `AwaitsItsOwn`, `ResultAtMostOnce` | `UserIdmProofs` | `EachAwaitsItsOwn`, `OneResult` |
| `EndedStays` | `UserIdmProofs` | `AuthSpec => EndedStaysEnded` |
| `LevelBacked` | `UserIdmProofs` | `~Skips` implies `AuthSpec => []LevelIsBacked` |
| `SchedulesAreTokens` | `UserIdmProofs` | `AuthSpec` implements `ScheduleToken` |
| `IdmImplementsAuth` | `UserIdmProofs` | `UserIdm`'s `Spec` implements `AuthSpec` |
| `ResultAtMostOnceComposed` | `UserIdmProofs` | so `OneResult` and `EndedStaysEnded` hold of the composition |
| `IdmTypeCorrect` | `UserIdmProofs` | `Spec => []IdmTypeOK` |
| `EnrolmentScheduled`, `OldProofRefused` | `UserIdmProofs` | `EnrolmentIsScheduled`, `OldProofIsRefused` |

*The token argument.* `TokenInv` says that a listed schedule was created and has no
holder, that there is one holder at most, that a holder of a token is past its
`sign` step, and that a successful Cancel has left the schedule unlisted. The last
two are what makes it inductive: `FinishSign` adds the only new holder, needs the
schedule listed, and takes it off the list.

*The pool argument.* `OwnerInv` says that an entry's callback is the request
that began the id and that no request precedes its own save: this is where
`~SharedIds` is used, since with a shared id a failing request deletes the entry of
another. `NoOrphanEntry` is then preserved because every removal of the timer is
by a thread that is `Closing` the entry.

*The counting argument.* `AllAnswered` is far from inductive: the count is read by
one call and lowered by another, and with no entry it is not known at all.
`AnswerInv` says
that the entry's count and the calls that lowered it account for every executor
(`left + Counted >= ExecutorNum`), so a call that read "not more than one" is
preceded by all but one of them; and that orders go out only after the entry is
saved, so an answer never meets an entry that is not there yet.

*What callers hear.* A message is traced to the thread it came from (`HeardInv`), and a
thread's callback to a request that began the thread's id (`NamesInv`); both hold with shared
ids too. A success is told by a Finish call that holds a token, and of those `TokenInv`
allows one for each schedule, which is why two callers of one id never both hear of it.
`QuietAfterEnd` needs no more than types: whoever comes by a callback takes it from the
pool, and only `BeginSave` puts it there.

*Executor messages.* A list is tiled by its nodes because `ParseNode` appends what it
skips and nothing else touches the two. `TokenIsReported` says of a token what was
*read*, the signature covers what was *written*: they meet in the lemma `Decoded`. If the buffer that was
signed is `DataOf` of a report, then a list that tiles it has five nodes, one for each
field, in order, so the first node with a tag is the one that was written. The invariant
carries this from the moment `AUTH_DATA` is copied to the check (`FieldsRead`): each field read so
far is that of the node, and once all are read the five are those of the report. Where the
parser has gone on with nothing read, the id is zero; that `g_scheduleList` holds no
schedule of the id zero is an assumption on the random number generator, and the theorem
is false without it.

*Honest messages.* `HonestIsGranted` is the converse: what a verifier wrote about a listed
schedule is not refused. Its invariant, `HonestInv`, follows a call that is about such a
message and has found memory so far. Every list that is open has the buffer the
verifier wrote (`MessageOf`, then the two values inside it), and its offset is at one of the
places where nodes of that buffer meet (`Cuts`), which is why no header and no value reaches
beyond the end. Once a list is read to its end, the tag asked for next is in it
(`MessageRead`, `RootRead`, `DataRead`), the first of its kind, and of the right size. The
proof needs that a signature is not empty: `GetBuffPara` refuses an empty value.

*Attributes.* `Unpack`, `Pack` and `SetAll` are loops over sequences of any length. The
induction theorems of the library cannot be instantiated here, but the principle that a
set of naturals that is not empty has a least element can (`AllUpTo`), so each loop has a
loop invariant as in a program: after `n` Set calls the container has the last value of each tag
among the first `n` (`SetAllIsByTag`); the entries of a buffer are those of the tags that
were set, each with its value (`PackIs`); and after `n` entries a reader has the values
of those `n`, over what it held. `RoundTrip` puts the three together.

*Registration.* `Inv` of `ExecutorCallsProofs` adds to the properties that no executor
is listed before its call is made, and that a notice runs only after the
death it tells of. `ListsAgree` names the one lasting exception: a call that failed to add
its recipient leaves its executor in `g_poolList`, and nothing takes it away, whether it is
alive or dead, but another one of its kind.

*Calls on executors.* A request is judged at its end by what was done long before, in another
process. `Requested` says of every stage what is on the way: until an executor is
called the parcel *carries* what the client set and nobody has executed anything; afterwards
one executor at most has, a SUCCESS on its way back is that one's, and the parcel carries
its answer (`Carries`: it is what `Pack` makes of a container with these values). A hop unpacks and packs again, and a parcel that carries still
carries (`SentCarries`), which is where the theorems about the attributes are used.
`IdIsReal` has an invariant of its own, `IdInv`: what `Register` has done by the
time it returns, for an executor that is alive, is not undone but by another of its kind.

*The database.* `FileLoads` says something of the file only, but the file is a copy of
the list made two steps after the change. So `Inv` of `IdmDatabaseProofs` asks the
same of both: `GoodContent` (well formed, and within the limits of the loader) of
`mem` and of `disk`. That adding stays within those limits rests on two comparisons in
two files, `>` for types and `>=` for credentials, and on
`MAX_AUTH_TYPE < MAX_CREDENTIAL`, which is the assumption of the module. For
`AckedSurvive` it adds `Steps`: during `"write"` the file is torn, and the
credential a call is about to report is in the list already, if it was added at all
(`call.added`). A report of what was not added becomes `hollow` unless the same one was made
in earnest before (`HollowInv`), and a call that works on freed memory leaves the list and
the file as they are (`FreedInv`).

*Contexts.* `AuthInv` adds to `EachAwaitsItsOwn` and `OneResult` that a schedule not
yet generated has led to nothing (so a new context starts with none) and that the
level asked for is backed by the schedule awaited: the step that signs only
carries it over, whatever has become of executors and credential since. It is backed
because the first row whose conditions hold is the highest one, which is a fact of
the table (`TrustLevelIsHighest`), and because level and schedule are made from the same
executors, which is where `~Skips` is used: an executor lost by the first query and
found by the second may be weaker than the level says.

*One specification on another.* `CoAuth` implements `ScheduleToken`; the schedules of
`UserAuth`, read as its phases and holders, take no other step either
(`SchedulesAreTokens`), so what is assumed there of a schedule is what is shown here.
`UserIdm` shares the variables of `UserAuth`, and `IdmImplementsAuth` shows that each of
its steps is one of `AuthNext` or leaves those variables alone. What `AuthSpec` implies,
`EachAwaitsItsOwn`, `OneResult`, `EndedStaysEnded` and, with `~Skips`, `LevelIsBacked`, then
holds with sessions, enrolments and deletions in between. TLC checks it on the
instance of `user_idm`, too, when `AuthSpec` is added to its properties; it is not there
because it takes twice the time.

*Enrolment.* `OldProofIsRefused` speaks of the moment of enrolment, but the proof was
shown when the schedule was generated. `IdmInv` keeps it in between: a session whose
schedule enrols anything but a PIN has its proof (`ScheduleBacked`), a PIN result for the
session's challenge, neither older than the session nor than the last update, since
`validAuthTokenTime` is never behind the opening of the session or `renewed`
(`SessionBacked`). An update in between would
break it, but an update needs a schedule that enrols a PIN in the same session, which
replaces the other one. A deletion of the user would, too, since it renews and does not touch
the schedule; but the user is then not listed, nothing but a PIN is enrolled for a user
who is not, and that PIN needs a schedule that replaces this one. So `ScheduleBacked` asks
for the proof only while the user is listed.
Whose PIN it was is no part of the property, since the code does not ask.

Every safety property that a run checks is proved, for all values of the constants. Only
model-checked: liveness (`CallerHears`, `EntriesGo`, `DeadLeave`), which
rests on fairness and `ENABLED` and is beyond TLAPS. With `SharedIds` the two pool theorems are false, as
TLC shows at once; the code relies on the caller for that.

## 5. Where code and text disagree

* **`last_one_signs`** `executor_messenger.cpp:105` says the last one will sign the
  token. Two Finish calls that read the count before either lowers it both return
  SUCCESS, nobody signs, and the caller waits for the timeout.
* **`signed_empty`** `README.md:71` says that executors' results must be verified
  in the TEE. An empty message makes `GetScheduleToken` delete the schedule and
  return the success of the deletion. A schedule without a verifier gets there
  too (`coauth_funcs.c:104`): set `Verifiable = {}` to see it.
* **`cache_agrees`** `idm_database.c:29` says of the list that it caches the user
  information. Deleting one of two credentials of a type returns SUCCESS before the
  file is written: the deleted credential is there again after a restart.

## 6. What is assumed and what is left out

* Random 64-bit ids do not repeat: a schedule id is created once.
* With `SharedIds = FALSE` a schedule is begun by one request: the id is handed to
  one caller. `coauth_shared` looks at the other case.
* A callback is one object per call, and so is its death recipient.
* `finalResult` is never null: the stub always makes one.
* In `CoAuth` executors may register and go away at any moment (`Unstable`); which executor
  answers to an authentication type is in `ExecutorCalls`.
* No schedule has the id zero, and no signature is empty (see section 4). Buffers are made of cells of four bytes.
* A verifier's signature is one of `Reports`: signatures are not forged.
* `AuthAttributes` unpacks buffers that `AuthAttributes` has packed; `clear` has no
  caller. `SetAll` is a container filled by Set calls in one go;
  a Set call for a number or a boolean passes exactly one, which C++ sees to (`AreSettings`).
* The executor's own stub always has a callback, since the registry refuses to register
  without one. An executor's id is drawn when it registers; the model draws all at the start.
* A `Register` call that fails to add its recipient returns `INVALID_EXECUTOR_ID` and leaves
  the executor, alive or dead, listed: `QueryStatus`, which looks into the trusted side's list, then answers
  that it has been registered. `IdIsReal` asks for the converse only.
* The life cycle of the service (OnStart, OnStop, Init, Close) is not modelled: it runs once
  at each end of the process, with no call in progress that the models know of. The
  start of the database alone, with the file it finds, is in `IdmDatabase`. That a failing
  `Init` hangs (`useriam_common.cpp:65`) is plain to see in the code and listed as a hazard.
* The proxy that `CoAuth` and `AuthExecutorRegistry` cache, with its death recipient, is
  left out: it decides only whether the next call can be sent, which is a choice of the model.
* The thread pool has no user in the repository; adaptors are inputs of the models.
* The process may die between any two steps of a call to the database. What `fwrite` has
  taken may be lost in `fclose`; what has reached the file stays. The file is written by
  nobody else.
* What a write into freed memory does beyond the outcomes named for `IdmDatabase` (a corrupt
  heap, a process that dies at once) is left out, but for the death, which may come anywhere.
* Of lists of users and credentials the order is left out.
* One `DeleteUser` call is in its gap at a time. The limit on users is left to `IdmDatabase`.
* `CancelScheduleIdFunc`, and with it `BreakOffCoauthSchedule`, has no caller.
* Times are taken from a clock that does not go back.
* Cryptography, allocation, clock and files are inputs: their outcomes are chosen
  freely. Formatting, logging, marshalling and permission checks are left out.

## 7. The plan

Done: `CoAuth`, `ExecutorMessage`, `ExecutorPool`, `ExecutorCalls`, `IdmDatabase`, `UserAuth` and
`UserIdm`, each with its run and its proofs. What could be added, in this order:

1. A composition of `UserIdm` with the file of `IdmDatabase`: a crash between two
   enrolments; and of lists in their order, which each restart of the service reverses
   (`idm_file_manager.c:426`).
2. `Lifecycle`: OnStart, OnStop, Init, Close and the mutex, what each list
   holds after a restart.
