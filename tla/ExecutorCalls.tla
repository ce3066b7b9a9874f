---------------------------- MODULE ExecutorCalls ----------------------------
(***************************************************************************)
(* Calls that the service makes on an executor, from the client that asks to *)
(* the executor and back: SetExecutorProp and GetExecutorProp, and the       *)
(* OnBeginExecute and OnEndExecute of a schedule.  A call goes through       *)
(* client, proxy, stub, manager, FindExecutorCallback, proxy, stub, executor, *)
(* each in its own process, while executors register, die and are replaced.  *)
(* AuthAttributes says what becomes of the attributes at each hop.           *)
(***************************************************************************)
EXTENDS ExecutorPool, AuthAttributes

CONSTANTS
  Requests,     \* calls
  Settings,     \* the Set calls that filled the attributes, for each kind of request
  ScheduleType, \* the authType in the schedules of "begin" and "end"
  Held,         \* the Set calls made on the container that "get" is to fill
  Returned      \* the Set calls an executor makes to answer "get"

Kinds == {"set", "get", "begin", "end"}

ASSUME RequestsAssumption ==
  /\ ScheduleType \in [{"begin", "end"} -> AuthTypes]
  /\ DOMAIN Settings = Kinds
  /\ \A kind \in Kinds : AreSettings(Settings[kind])
  /\ DOMAIN Returned = Registrations
  /\ \A c \in Registrations : AreSettings(Returned[c])
  /\ AreSettings(Held)
  /\ "nobody" \notin Registrations

VARIABLES
  idOf,     \* the random executorIds, by which authResPool_ is ordered
  told,     \* the executors that Register has returned an id to
  request,  \* what each request is, how far, whom it has found, what it returns
  parcel,   \* the packed attributes on the way, to the executor or back
  values,   \* the container that "get" fills, at the client
  executed  \* what executors were made to do, on each request

callVars == <<request, parcel, values, executed>>
allVars == <<vars, idOf, told, callVars>>

RequestAt == {"idle", "sent", "found", "replied", "answer", "done"}

Results == {"none", "SUCCESS", "FAIL"}

CallsTypeOK ==
  /\ idOf \in [Registrations -> 1..Cardinality(Registrations)]
  /\ told \subseteq Registrations
  /\ \A r \in Requests :
       /\ request[r].kind \in Kinds /\ request[r].at \in RequestAt
       /\ request[r].target \in Registrations \cup {"nobody"}
       /\ request[r].result \in Results
       /\ request[r].at \in {"found", "replied"} => request[r].target # "nobody"
       /\ \A i \in DOMAIN parcel[r] : CheckLengthPass(parcel[r][i])
       /\ \A i \in DOMAIN executed[r] : executed[r][i].by \in Registrations

CallsInit ==
  /\ Init
  /\ idOf \in {f \in [Registrations -> 1..Cardinality(Registrations)] :
                 \A c, d \in Registrations : f[c] = f[d] => c = d}
  /\ told = {}
  /\ request = [r \in Requests |-> [kind |-> "set", at |-> "idle", target |-> "nobody", result |-> "none"]]
  /\ parcel = [r \in Requests |-> <<>>]
  /\ values = [r \in Requests |-> SetAll(Held)]
  /\ executed = [r \in Requests |-> <<>>]

-----------------------------------------------------------------------------
(* What Register returns, through the stub, the proxy and the registry.  A    *)
(* reply that is lost leaves the executor registered and without an id.       *)

\* Faulty: whatever becomes of the call, there is an id to return.
RegisterReturnsAlways(c) ==
  /\ call[c] \in {"registered", "refused"}
  /\ told' = told \cup {c}
  /\ UNCHANGED <<vars, idOf, callVars>>

RegisterReturns(c) ==
  /\ call[c] = "registered"
  /\ told' = told \cup {c}
  /\ UNCHANGED <<vars, idOf, callVars>>

-----------------------------------------------------------------------------
(* The client's half.  SetExecutorProp is asynchronous: a request that       *)
(* cannot be sent is never answered.                                         *)

SetExecutorProp(r) ==
  /\ request[r].at = "idle"
  /\ request' = [request EXCEPT ![r] = [@ EXCEPT !.kind = "set", !.at = "sent"]]
  /\ parcel' = [parcel EXCEPT ![r] = Pack(SetAll(Settings["set"]))]
  /\ UNCHANGED <<vars, idOf, told, values, executed>>

SetExecutorPropUnsent(r) ==
  /\ request[r].at = "idle"
  /\ request' = [request EXCEPT ![r] = [@ EXCEPT !.kind = "set", !.at = "done"]]
  /\ UNCHANGED <<vars, idOf, told, parcel, values, executed>>

GetExecutorProp(r) ==
  /\ request[r].at = "idle"
  /\ request' = [request EXCEPT ![r] = [@ EXCEPT !.kind = "get", !.at = "sent"]]
  /\ parcel' = [parcel EXCEPT ![r] = Pack(SetAll(Settings["get"]))]
  /\ UNCHANGED <<vars, idOf, told, values, executed>>

GetExecutorPropFails(r) ==
  /\ \/ request[r].at = "idle"
     \/ request[r].at = "answer" /\ request[r].kind = "get"
  /\ request' = [request EXCEPT ![r] =
       [@ EXCEPT !.kind = "get", !.at = "done", !.result = "FAIL"]]
  /\ UNCHANGED <<vars, idOf, told, parcel, values, executed>>

-----------------------------------------------------------------------------
(* The service's half.                                                       *)

\* Faulty: the type is left out of the comparison.
FindExecutorCallbackAny(authType) ==
  {c \in authResPool : \A d \in authResPool : idOf[c] <= idOf[d]}

\* FindExecutorCallback: the first in the order of ids, whatever its executorType.
FindExecutorCallback(authType) ==
  LET ofType == {c \in authResPool : AuthOf[c] = authType} IN
  {c \in ofType : \A d \in ofType : idOf[c] <= idOf[d]}

Found(r, kind, authType, attrs, otherwise) ==
  LET callbacks == FindExecutorCallback(authType) IN
  /\ request' = [request EXCEPT ![r] =
       IF callbacks = {} THEN [@ EXCEPT !.kind = kind, !.at = otherwise, !.result = "FAIL"]
       ELSE [@ EXCEPT !.kind = kind, !.at = "found", !.target = CHOOSE c \in callbacks : TRUE]]
  /\ parcel' = [parcel EXCEPT ![r] = Pack(IF callbacks = {} THEN NewAttributes ELSE attrs)]
  /\ UNCHANGED <<vars, idOf, told, values, executed>>

\* The stub unpacks the conditions.
PropConditions(r) == Unpack(NewAttributes, parcel[r])

\* The manager looks the type up in them, uninitialized without AUTH_TYPE, and
\* copies them by packing and unpacking.
HandleProp(r) ==
  LET conditions == PropConditions(r) IN
  /\ request[r].at = "sent"
  /\ \E authType \in IF AUTH_TYPE \in DOMAIN conditions.values
                     THEN {conditions.values[AUTH_TYPE][1]} ELSE AuthTypes :
       Found(r, request[r].kind, authType, Sent(conditions), "answer")

\* OnBeginExecute on one executor of a schedule: without a callback it is skipped.
BeginExecute(r) ==
  /\ request[r].at = "idle"
  /\ Found(r, "begin", ScheduleType["begin"], SetAll(Settings["begin"]), "done")

CancelExecute(r) ==
  /\ request[r].at = "idle"
  /\ Found(r, "end", ScheduleType["end"], SetAll(Settings["end"]), "done")

AnswerAt(r) == IF request[r].kind \in {"set", "get"} THEN "answer" ELSE "done"

\* No parcel, or no call: the executor has died, or the transfer fails.
SendRequestFails(r) ==
  /\ request[r].at = "found"
  /\ request' = [request EXCEPT ![r] = [@ EXCEPT !.at = AnswerAt(r), !.result = "FAIL"]]
  /\ parcel' = [parcel EXCEPT ![r] = Pack(NewAttributes)]
  /\ UNCHANGED <<vars, idOf, told, values, executed>>

\* The reply of the executor, or none: its process may have died after it did
\* what it was asked.
ReplyArrives(r) ==
  /\ request[r].at = "replied"
  /\ request' = [request EXCEPT ![r].at = AnswerAt(r)]
  /\ parcel' = [parcel EXCEPT ![r] = Pack(Unpack(NewAttributes, parcel[r]))]
  /\ UNCHANGED <<vars, idOf, told, values, executed>>

\* Faulty: the proxy tries again when there is no reply.
ReplyLostRetries(r) ==
  /\ request[r].at = "replied"
  /\ request' = [request EXCEPT ![r] = [@ EXCEPT !.at = "found", !.result = "none"]]
  /\ parcel' = [parcel EXCEPT ![r] = Pack(SetAll(Settings[request[r].kind]))]
  /\ UNCHANGED <<vars, idOf, told, values, executed>>

ReplyLost(r) ==
  /\ request[r].at = "replied"
  /\ request' = [request EXCEPT ![r] = [@ EXCEPT !.at = AnswerAt(r), !.result = "FAIL"]]
  /\ parcel' = [parcel EXCEPT ![r] = Pack(NewAttributes)]
  /\ UNCHANGED <<vars, idOf, told, values, executed>>

-----------------------------------------------------------------------------
(* The executor's half: its stub unpacks the attributes, and packs what the   *)
(* executor put into the container of OnGetProperty.                         *)

Executes(r, said) ==
  LET c == request[r].target IN
  /\ request[r].at = "found"
  /\ c \in alive
  /\ executed' = [executed EXCEPT ![r] =
       Append(@, [by |-> c, said |-> said,
                  attrs |-> Unpack(NewAttributes, parcel[r]).values])]
  /\ request' = [request EXCEPT ![r] = [@ EXCEPT !.at = "replied", !.result = said]]
  /\ parcel' = [parcel EXCEPT ![r] =
       Pack(IF request[r].kind = "get" THEN SetAll(Returned[c]) ELSE NewAttributes)]
  /\ UNCHANGED <<vars, idOf, told, values>>

-----------------------------------------------------------------------------
(* The answer to the client.                                                 *)

\* OnResult of the callback.
OnResult(r) ==
  /\ request[r].kind = "set" /\ request[r].at = "answer"
  /\ request' = [request EXCEPT ![r].at = "done"]
  /\ UNCHANGED <<vars, idOf, told, parcel, values, executed>>

\* Faulty: the values take the place of what the container held.
GetExecutorPropReplaces(r) ==
  /\ request[r].kind = "get" /\ request[r].at = "answer"
  /\ request' = [request EXCEPT ![r].at = "done"]
  /\ values' = [values EXCEPT ![r] = Unpack(NewAttributes, parcel[r])]
  /\ UNCHANGED <<vars, idOf, told, parcel, executed>>

\* The values are unpacked into what the client's container holds, whatever the
\* result.
GetExecutorPropReturns(r) ==
  /\ request[r].kind = "get" /\ request[r].at = "answer"
  /\ request' = [request EXCEPT ![r].at = "done"]
  /\ values' = [values EXCEPT ![r] = Unpack(@, parcel[r])]
  /\ UNCHANGED <<vars, idOf, told, parcel, executed>>

-----------------------------------------------------------------------------

PoolNext == Next /\ UNCHANGED <<idOf, told, callVars>>

CallsNext ==
  \/ PoolNext
  \/ \E c \in Registrations : RegisterReturns(c)
  \/ \E r \in Requests :
       \/ SetExecutorProp(r) \/ SetExecutorPropUnsent(r)
       \/ GetExecutorProp(r) \/ GetExecutorPropFails(r)
       \/ HandleProp(r) \/ BeginExecute(r) \/ CancelExecute(r)
       \/ SendRequestFails(r) \/ ReplyArrives(r) \/ ReplyLost(r)
       \/ \E said \in {"SUCCESS", "FAIL"} : Executes(r, said)
       \/ OnResult(r) \/ GetExecutorPropReturns(r)

CallsSpec == CallsInit /\ [][CallsNext]_allVars

-----------------------------------------------------------------------------
(* Properties.                                                              *)

TypeAsked(r) ==
  LET asked == ByTag(Settings[request[r].kind]) IN
  IF request[r].kind \in {"begin", "end"} THEN {ScheduleType[request[r].kind]}
  ELSE IF AUTH_TYPE \in DOMAIN asked THEN {asked[AUTH_TYPE][1]} ELSE AuthTypes

\* An executor is made to do a request once at most, it is of the authType the
\* request names, and after up to three trips through buffers the attributes it
\* gets are those the client set last, each of its type; an empty array of bytes
\* arrives as none.
AsAsked ==
  \A r \in Requests :
    /\ Len(executed[r]) <= 1
    /\ \A i \in DOMAIN executed[r] :
         /\ AuthOf[executed[r][i].by] \in TypeAsked(r)
         /\ Shown(executed[r][i].attrs) = Shown(ByTag(Settings[request[r].kind]))

\* Who is told SUCCESS can rely on it: an executor did it and said so, although
\* executors die in between and replies are lost.  A client that asked for values
\* then has those of that very executor, and keeps what it held besides.
SuccessIsDone ==
  \A r \in Requests :
    (request[r].at = "done" /\ request[r].result = "SUCCESS") =>
      /\ Len(executed[r]) = 1
      /\ executed[r][1].said = "SUCCESS"
      /\ request[r].kind = "get" =>
           LET got  == Shown(ByTag(Returned[executed[r][1].by]))
               held == ByTag(Held)
           IN  values[r].values = [tag \in DOMAIN got \cup DOMAIN held |->
                                     IF tag \in DOMAIN got THEN got[tag] ELSE held[tag]]

\* An executor that was given an id has its callback in the service while it
\* lives, and is listed on the trusted side until one of its kind takes its place.
IdIsReal ==
  \A c \in told \cap alive :
    /\ c \in authResPool
    /\ c \in poolList \/ \E d \in Registrations \ {c} : SameKind(c, d) /\ call[d] # "idle"
=============================================================================
