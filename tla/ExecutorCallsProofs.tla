------------------------- MODULE ExecutorCallsProofs -------------------------
(***************************************************************************)
(* Theorems about ExecutorPool, and about ExecutorCalls, whose calls find    *)
(* their executors in that pool: for any number of registrations, requests   *)
(* and types, and for any attributes.                                        *)
(***************************************************************************)
EXTENDS ExecutorCalls, AuthAttributesProofs

-----------------------------------------------------------------------------
(* The pool.                                                               *)

\* The trusted side knows no call before it is made, and the steps of a death
\* notice come after the death.
Order ==
  /\ \A c \in poolList : call[c] # "idle"
  /\ \A c \in Registrations : recipient[c] \in {"notified", "fired"} => c \notin alive

Inv == TypeOK /\ Order /\ OnePerKind /\ ListsAgree

\* SameKind is an equivalence, and taking the match out leaves no other one.
LEMMA KindsClear ==
  ASSUME TypeOK, OnePerKind, NEW c \in Registrations, NEW removed \in RemovedByType(c)
  PROVE  /\ removed \subseteq poolList
         /\ \A d \in removed : ~SameKind(c, d)
         /\ \A d \in poolList \ removed : SameKind(c, d)
<1> DEFINE matches == {d \in poolList : SameKind(c, d)}
<1>1. CASE matches = {}
  BY <1>1 DEF RemovedByType
<1>2. CASE matches # {}
  <2>1. PICK d \in matches : removed = poolList \ {d}
    BY <1>2 DEF RemovedByType
  <2>2. \A e \in matches : e = d
    BY <2>1 DEF OnePerKind, SameKind
  <2> QED BY <2>1, <2>2
<1> QED BY <1>1, <1>2

LEMMA InvInit == Init => Inv
BY DEF Init, Inv, TypeOK, Order, OnePerKind, ListsAgree, CallAt, RecipientAt

\* What a call of Register, and a notice, does to the type invariant.
LEMMA InvStep == Inv /\ [Next]_vars => Inv'
<1> SUFFICES ASSUME Inv, [Next]_vars
             PROVE  Inv'
  OBVIOUS
<1>t. /\ poolList \subseteq Registrations /\ authResPool \subseteq Registrations
      /\ alive \subseteq Registrations
      /\ recipient \in [Registrations -> RecipientAt]
      /\ call \in [Registrations -> CallAt]
      /\ \A c \in authResPool : call[c] \in {"ready", "registered"}
      /\ \A c \in Registrations : recipient[c] # "none" =>
           call[c] \in {"insert", "ready", "registered"}
  BY DEF Inv, TypeOK
<1>1. ASSUME NEW c \in Registrations, RegisterReject(c)
      PROVE  Inv'
  <2>1. c \notin poolList
    BY <1>1 DEF RegisterReject, Inv, Order
  <2> QED
    BY <1>t, <1>1, <2>1 DEF RegisterReject, Inv, TypeOK, Order, OnePerKind, ListsAgree, CallAt
<1>2. ASSUME NEW c \in Registrations, NEW stored \in BOOLEAN, RegisterExecutor(c, stored)
      PROVE  Inv'
  <2>1. PICK removed \in RemovedByType(c) :
          poolList' = IF stored THEN removed \cup {c} ELSE removed
    BY <1>2 DEF RegisterExecutor
  <2>2. /\ removed \subseteq poolList
        /\ \A d \in removed : ~SameKind(c, d)
    BY KindsClear DEF Inv
  <2>3. /\ call[c] = "idle" /\ c \notin poolList
        /\ call'[c] \in {"addDeath", "refused"} /\ (stored => call'[c] = "addDeath")
        /\ \A d \in Registrations \ {c} : call'[d] = call[d]
        /\ call' \in [Registrations -> CallAt]
        /\ UNCHANGED <<authResPool, alive, recipient>>
    BY <1>2, <1>t DEF RegisterExecutor, Inv, Order, CallAt
  <2>4. TypeOK'
    BY <1>t, <2>1, <2>2, <2>3 DEF TypeOK
  <2>5. Order'
    BY <1>t, <2>1, <2>2, <2>3 DEF Inv, Order
  <2>6. OnePerKind'
    BY <1>t, <2>1, <2>2 DEF Inv, OnePerKind, SameKind
  <2>7. ListsAgree'
    BY <1>t, <2>1, <2>2, <2>3 DEF Inv, ListsAgree
  <2> QED BY <2>4, <2>5, <2>6, <2>7 DEF Inv
<1>3. ASSUME NEW c \in Registrations, AddDeathRecipient(c)
      PROVE  Inv'
  BY <1>t, <1>3 DEF AddDeathRecipient, Inv, TypeOK, Order, OnePerKind, ListsAgree,
     CallAt, RecipientAt
<1>4. ASSUME NEW c \in Registrations, Insert(c)
      PROVE  Inv'
  BY <1>t, <1>4 DEF Insert, Inv, TypeOK, Order, OnePerKind, ListsAgree, CallAt
<1>5. ASSUME NEW c \in Registrations, OnMessengerReady(c)
      PROVE  Inv'
  BY <1>t, <1>5 DEF OnMessengerReady, Inv, TypeOK, Order, OnePerKind, ListsAgree, CallAt
<1>6. ASSUME NEW c \in Registrations, Dies(c)
      PROVE  Inv'
  BY <1>t, <1>6 DEF Dies, Inv, TypeOK, Order, OnePerKind, ListsAgree
<1>7. ASSUME NEW c \in Registrations, DeleteExecutorCallback(c)
      PROVE  Inv'
  BY <1>t, <1>7 DEF DeleteExecutorCallback, Inv, TypeOK, Order, OnePerKind, ListsAgree,
     RecipientAt
<1>8. ASSUME NEW c \in Registrations, UnregisterExecutor(c)
      PROVE  Inv'
  BY <1>t, <1>8 DEF UnregisterExecutor, Inv, TypeOK, Order, OnePerKind, ListsAgree,
     RecipientAt
<1>9. CASE UNCHANGED vars
  BY <1>9 DEF vars, Inv, TypeOK, Order, OnePerKind, ListsAgree
<1> QED
  BY <1>1, <1>2, <1>3, <1>4, <1>5, <1>6, <1>7, <1>8, <1>9
     DEF Next, RegisterStep, OnRemoteDied

\* The lists and the progress of every call stay within their types.
THEOREM TypeCorrect == Spec => []TypeOK
BY InvInit, InvStep, PTL DEF Spec, Inv

\* The trusted side never holds two executors of one kind, however many calls
\* of Register and death notices interleave.
THEOREM KindsUnique == Spec => []OnePerKind
BY InvInit, InvStep, PTL DEF Spec, Inv

\* The two lists are out of step only while a call or a notice is under way, or
\* after a process died before its death recipient was added.
THEOREM ListsStayInStep == Spec => []ListsAgree
BY InvInit, InvStep, PTL DEF Spec, Inv

\* A late death notice never takes a live executor away.
THEOREM LiveExecutorsStay == Spec => LiveStays
<1> DEFINE Stays ==
      \A c \in alive :
        /\ c \in authResPool => c \in authResPool'
        /\ c \in poolList \ poolList' =>
             \E d \in Registrations : SameKind(c, d) /\ call[d] = "idle" /\ call'[d] # "idle"
<1>1. Inv /\ [Next]_vars => [Stays]_vars
  <2> SUFFICES ASSUME Inv, Next, NEW c \in alive
               PROVE  /\ c \in authResPool => c \in authResPool'
                      /\ c \in poolList \ poolList' =>
                           \E d \in Registrations :
                             SameKind(c, d) /\ call[d] = "idle" /\ call'[d] # "idle"
    OBVIOUS
  <2>1. ASSUME NEW d \in Registrations, NEW stored \in BOOLEAN, RegisterExecutor(d, stored),
               c \in poolList \ poolList'
        PROVE  SameKind(c, d) /\ call[d] = "idle" /\ call'[d] # "idle"
    <3>1. PICK removed \in RemovedByType(d) :
            poolList' = IF stored THEN removed \cup {d} ELSE removed
      BY <2>1 DEF RegisterExecutor
    <3>2. c \in poolList \ removed
      BY <2>1, <3>1
    <3>3. SameKind(c, d)
      BY <3>2, KindsClear DEF Inv, SameKind
    <3> QED BY <2>1, <3>3 DEF RegisterExecutor, Inv, TypeOK
  <2>2. ASSUME NEW d \in Registrations, UnregisterExecutor(d)
        PROVE  d # c
    BY <2>2 DEF UnregisterExecutor, Inv, Order
  <2> QED
    BY <2>1, <2>2 DEF Next, RegisterStep, OnRemoteDied, RegisterReject, RegisterExecutor,
       AddDeathRecipient, Insert, OnMessengerReady, Dies, DeleteExecutorCallback,
       UnregisterExecutor
<1> QED BY <1>1, InvInit, InvStep, PTL DEF Spec, LiveStays

-----------------------------------------------------------------------------
(* A request.  Its record q, its parcel p, the client's container v and what  *)
(* was executed, e, at each step of the way.                                  *)

\* The authTypes that a request of this kind may be for.
Wanted(kind) ==
  LET asked == ByTag(Settings[kind]) IN
  IF kind \in {"begin", "end"} THEN {ScheduleType[kind]}
  ELSE IF AUTH_TYPE \in DOMAIN asked THEN {asked[AUTH_TYPE][1]} ELSE AuthTypes

Request == [kind : Kinds, at : RequestAt, target : Registrations \cup {"nobody"},
            result : Results]

\* One executor of the type wanted has done it, with the attributes asked for.
Done(q, e) ==
  /\ e = <<e[1]>>
  /\ e[1].by \in Registrations
  /\ AuthOf[e[1].by] \in Wanted(q.kind)
  /\ Shown(e[1].attrs) = Seen(Settings[q.kind])

\* A success is that of the executor which did it.
Earned(q, e) == q.result = "SUCCESS" => Done(q, e) /\ e[1].said = "SUCCESS"

OnTheWay(q, p, e) ==
  /\ e = <<>>
  /\ Carries(p, Seen(Settings[q.kind]))

Received(c) == Seen(Returned[c])

Good(q, p, v, e) ==
  /\ q \in Request
  /\ \E brought : Carries(p, brought)
  /\ e = <<>> \/ Done(q, e)
  /\ q.at # "done" => v = SetAll(Held)
  /\ q.at = "idle" => e = <<>> /\ q.result = "none"
  /\ q.at = "sent" => q.kind \in {"set", "get"} /\ OnTheWay(q, p, e)
  /\ q.at = "found" => /\ OnTheWay(q, p, e)
                       /\ q.target \in Registrations
                       /\ AuthOf[q.target] \in Wanted(q.kind)
  /\ q.at = "replied" =>
       /\ q.target \in Registrations
       /\ Done(q, e) /\ e[1].by = q.target /\ e[1].said = q.result
  /\ q.at \in {"replied", "answer"} =>
       /\ Earned(q, e)
       /\ q.kind = "get" /\ q.result = "SUCCESS" => Carries(p, Received(e[1].by))
  /\ q.at = "answer" => q.kind \in {"set", "get"}
  /\ q.at = "done" =>
       /\ Earned(q, e)
       /\ q.kind = "get" /\ q.result = "SUCCESS" =>
            v.values = Overlaid(Received(e[1].by), ByTag(Held))

Requested ==
  /\ DOMAIN request = Requests /\ DOMAIN parcel = Requests
  /\ DOMAIN values = Requests /\ DOMAIN executed = Requests
  /\ \A r \in Requests : Good(request[r], parcel[r], values[r], executed[r])

\* A step moves one request, and leaves it good.
Moves(r) ==
  /\ DOMAIN request' = Requests /\ DOMAIN parcel' = Requests
  /\ DOMAIN values' = Requests /\ DOMAIN executed' = Requests
  /\ \A s \in Requests \ {r} :
       /\ request'[s] = request[s] /\ parcel'[s] = parcel[s]
       /\ values'[s] = values[s] /\ executed'[s] = executed[s]
  /\ Good(request'[r], parcel'[r], values'[r], executed'[r])

LEMMA MovesGood ==
  ASSUME Requested, NEW r \in Requests, Moves(r)
  PROVE  Requested'
BY DEF Requested, Moves

LEMMA AskSettings == \A kind \in Kinds : AreSettings(Settings[kind])
BY RequestsAssumption

LEMMA WantedAtHead ==
  ASSUME NEW kind \in {"set", "get"}, NEW conditions,
         conditions.values = Seen(Settings[kind]),
         NEW authType \in IF AUTH_TYPE \in DOMAIN conditions.values
                          THEN {conditions.values[AUTH_TYPE][1]} ELSE AuthTypes
  PROVE  authType \in Wanted(kind)
<1> DEFINE asked == ByTag(Settings[kind])
<1>1. AUTH_TYPE \notin TagsOf["uint8Array"]
  BY DEF TagsOf, AUTH_TYPE, AUTH_SIGNATURE, AUTH_CALLER_NAME, AUTH_RESULT, ALGORITHM_INFO
<1>2. AUTH_TYPE \in DOMAIN conditions.values <=> AUTH_TYPE \in DOMAIN asked
  BY <1>1 DEF Seen, Shown
<1>3. AUTH_TYPE \in DOMAIN asked => conditions.values[AUTH_TYPE] = asked[AUTH_TYPE]
  BY <1>1, <1>2 DEF Seen, Shown
<1> QED BY <1>2, <1>3 DEF Wanted

LEMMA FoundMoves ==
  ASSUME TypeOK, Requested, NEW r \in Requests, NEW kind \in Kinds,
         NEW authType \in Wanted(kind), NEW attrs, NEW otherwise \in {"answer", "done"},
         Carries(Pack(attrs), Seen(Settings[kind])),
         executed[r] = <<>>, request[r].at # "done",
         otherwise = "answer" => kind \in {"set", "get"},
         Found(r, kind, authType, attrs, otherwise)
  PROVE  Moves(r)
<1> DEFINE q == request[r]
           callbacks == FindExecutorCallback(authType)
<1>1. Good(q, parcel[r], values[r], executed[r])
  BY DEF Requested
<1>2. /\ q \in Request /\ values[r] = SetAll(Held)
  BY <1>1 DEF Good
<1>3. \A c \in callbacks : c \in Registrations /\ AuthOf[c] = authType
  BY DEF FindExecutorCallback, TypeOK
<1> HIDE DEF callbacks
<1>4. CASE callbacks = {}
  <2> DEFINE new == [q EXCEPT !.kind = kind, !.at = otherwise, !.result = "FAIL"]
  <2>1. request' = [request EXCEPT ![r] = new]
        /\ parcel' = [parcel EXCEPT ![r] = Pack(NewAttributes)]
        /\ UNCHANGED <<values, executed>>
    BY <1>4 DEF Found, callbacks
  <2>2. /\ new \in Request /\ new.kind = kind /\ new.at = otherwise /\ new.result = "FAIL"
    BY <1>2 DEF Request, RequestAt, Results
  <2> HIDE DEF new
  <2>3. Good(new, Pack(NewAttributes), values[r], executed[r])
    BY <1>2, <2>2, NothingCarries DEF Good, Earned
  <2> QED BY <2>1, <2>3 DEF Moves, Requested
<1>5. CASE callbacks # {}
  <2> DEFINE c == CHOOSE c \in callbacks : TRUE
             new == [q EXCEPT !.kind = kind, !.at = "found", !.target = c]
  <2>1. request' = [request EXCEPT ![r] = new]
        /\ parcel' = [parcel EXCEPT ![r] = Pack(attrs)]
        /\ UNCHANGED <<values, executed>>
    BY <1>5 DEF Found, callbacks
  <2>2. c \in Registrations /\ AuthOf[c] \in Wanted(kind)
    BY <1>3, <1>5
  <2> HIDE DEF c
  <2>3. /\ new \in Request /\ new.kind = kind /\ new.at = "found" /\ new.target = c
    BY <1>2, <2>2 DEF Request, RequestAt
  <2> HIDE DEF new
  <2>4. Good(new, Pack(attrs), values[r], executed[r])
    BY <1>2, <2>2, <2>3 DEF Good, OnTheWay
  <2> QED BY <2>1, <2>4 DEF Moves, Requested
<1> QED BY <1>4, <1>5

LEMMA HandlePropMoves ==
  ASSUME TypeOK, Requested, NEW r \in Requests, HandleProp(r)
  PROVE  Moves(r)
<1> DEFINE q == request[r]
           conditions == PropConditions(r)
           seen == Seen(Settings[q.kind])
<1>1. Good(q, parcel[r], values[r], executed[r]) /\ q.at = "sent"
  BY DEF Requested, HandleProp
<1>2. q.kind \in {"set", "get"} /\ executed[r] = <<>> /\ Carries(parcel[r], seen)
  BY <1>1 DEF Good, OnTheWay
<1>3. conditions.values = seen /\ Carries(Pack(conditions), seen)
  BY <1>2, UnpackNew, SentCarries, SeenTwice DEF PropConditions
<1>4. Carries(Pack(Sent(conditions)), seen)
  BY <1>3, SentCarries, SeenTwice DEF Sent
<1>5. PICK authType \in IF AUTH_TYPE \in DOMAIN conditions.values
                        THEN {conditions.values[AUTH_TYPE][1]} ELSE AuthTypes :
        Found(r, q.kind, authType, Sent(conditions), "answer")
  BY DEF HandleProp
<1>6. authType \in Wanted(q.kind)
  BY <1>2, <1>3, WantedAtHead
<1> QED BY <1>1, <1>2, <1>4, <1>5, <1>6, FoundMoves DEF Kinds

LEMMA ExecuteMoves ==
  ASSUME TypeOK, Requested, NEW r \in Requests, BeginExecute(r) \/ CancelExecute(r)
  PROVE  Moves(r)
<1>1. /\ executed[r] = <<>> /\ request[r].at # "done"
  BY DEF BeginExecute, CancelExecute, Requested, Good
<1>2. ASSUME NEW kind \in {"begin", "end"},
             Found(r, kind, ScheduleType[kind], SetAll(Settings[kind]), "done")
      PROVE  Moves(r)
  <2>1. ScheduleType[kind] \in Wanted(kind)
    BY DEF Wanted
  <2>2. kind \in Kinds
    BY DEF Kinds
  <2>3. Carries(Pack(SetAll(Settings[kind])), Seen(Settings[kind]))
    BY <2>2, PackCarries, AskSettings
  <2> QED BY <1>1, <1>2, <2>1, <2>2, <2>3, FoundMoves
<1> QED BY <1>2 DEF BeginExecute, CancelExecute

LEMMA AskMoves ==
  ASSUME Requested, NEW r \in Requests, SetExecutorProp(r) \/ GetExecutorProp(r)
  PROVE  Moves(r)
<1> DEFINE q == request[r]
<1>1. PICK kind \in {"set", "get"} :
        /\ q.at = "idle"
        /\ request' = [request EXCEPT ![r] = [@ EXCEPT !.kind = kind, !.at = "sent"]]
        /\ parcel' = [parcel EXCEPT ![r] = Pack(SetAll(Settings[kind]))]
        /\ UNCHANGED <<values, executed>>
  BY DEF SetExecutorProp, GetExecutorProp
<1>2. Good(q, parcel[r], values[r], executed[r])
  BY DEF Requested
<1>3. q \in Request /\ values[r] = SetAll(Held) /\ executed[r] = <<>> /\ q.result = "none"
  BY <1>1, <1>2 DEF Good
<1> DEFINE new == [q EXCEPT !.kind = kind, !.at = "sent"]
<1>4. /\ new \in Request /\ new.kind = kind /\ new.at = "sent"
  BY <1>3 DEF Request, Kinds, RequestAt
<1>5. request' = [request EXCEPT ![r] = new]
  BY <1>1
<1> HIDE DEF new, q
<1>6. Carries(Pack(SetAll(Settings[kind])), Seen(Settings[kind]))
  BY PackCarries, AskSettings DEF Kinds
<1>7. Good(new, Pack(SetAll(Settings[kind])), values[r], executed[r])
  BY <1>3, <1>4, <1>6 DEF Good, OnTheWay
<1> QED BY <1>1, <1>5, <1>7 DEF Moves, Requested

\* Neither is sent, so there is nothing that could be undone.
LEMMA UnsentMoves ==
  ASSUME Requested, NEW r \in Requests, SetExecutorPropUnsent(r) \/ GetExecutorPropFails(r)
  PROVE  Moves(r)
<1> DEFINE q == request[r]
<1>1. Good(q, parcel[r], values[r], executed[r])
  BY DEF Requested
<1>2. q \in Request /\ (\E brought : Carries(parcel[r], brought))
  BY <1>1 DEF Good
<1>3. CASE SetExecutorPropUnsent(r)
  <2> DEFINE new == [q EXCEPT !.kind = "set", !.at = "done"]
  <2>1. /\ q.at = "idle" /\ request' = [request EXCEPT ![r] = new]
        /\ UNCHANGED <<parcel, values, executed>>
    BY <1>3 DEF SetExecutorPropUnsent
  <2>2. /\ new \in Request /\ new.kind = "set" /\ new.at = "done" /\ new.result = q.result
    BY <1>2 DEF Request, Kinds, RequestAt
  <2>3. executed[r] = <<>> /\ q.result = "none"
    BY <1>1, <2>1 DEF Good
  <2> HIDE DEF new, q
  <2>4. Good(new, parcel[r], values[r], executed[r])
    BY <1>2, <2>2, <2>3 DEF Good, Earned
  <2> QED BY <2>1, <2>4 DEF Moves, Requested
<1>4. CASE GetExecutorPropFails(r)
  <2> DEFINE new == [q EXCEPT !.kind = "get", !.at = "done", !.result = "FAIL"]
  <2>1. /\ q.at = "idle" \/ (q.at = "answer" /\ q.kind = "get")
        /\ request' = [request EXCEPT ![r] = new]
        /\ UNCHANGED <<parcel, values, executed>>
    BY <1>4 DEF GetExecutorPropFails
  <2>2. /\ new \in Request /\ new.kind = "get" /\ new.at = "done" /\ new.result = "FAIL"
    BY <1>2 DEF Request, Kinds, RequestAt, Results
  <2>3. executed[r] = <<>> \/ (q.kind = "get" /\ Done(q, executed[r]))
    BY <1>1, <2>1 DEF Good
  <2>4. executed[r] = <<>> \/ Done(new, executed[r])
    BY <2>2, <2>3 DEF Done
  <2> HIDE DEF new, q
  <2>5. Good(new, parcel[r], values[r], executed[r])
    BY <1>2, <2>2, <2>4 DEF Good, Earned
  <2> QED BY <2>1, <2>5 DEF Moves, Requested
<1> QED BY <1>3, <1>4

\* Of a request that is not done any more than before, and that FAILs.
LEMMA FailMoves ==
  ASSUME Requested, NEW r \in Requests, SendRequestFails(r) \/ ReplyLost(r)
  PROVE  Moves(r)
<1> DEFINE q == request[r]
           new == [q EXCEPT !.at = AnswerAt(r), !.result = "FAIL"]
<1>1. Good(q, parcel[r], values[r], executed[r])
  BY DEF Requested
<1>2. /\ q.at \in {"found", "replied"}
      /\ request' = [request EXCEPT ![r] = new]
      /\ parcel' = [parcel EXCEPT ![r] = Pack(NewAttributes)]
      /\ UNCHANGED <<values, executed>>
  BY DEF SendRequestFails, ReplyLost
<1>3. /\ q \in Request /\ values[r] = SetAll(Held)
      /\ executed[r] = <<>> \/ Done(q, executed[r])
  BY <1>1, <1>2 DEF Good
<1>4. /\ AnswerAt(r) \in {"answer", "done"}
      /\ AnswerAt(r) = "answer" => q.kind \in {"set", "get"}
  BY DEF AnswerAt
<1>5. /\ new \in Request /\ new.kind = q.kind /\ new.result = "FAIL"
      /\ new.at = AnswerAt(r)
  BY <1>3, <1>4 DEF Request, RequestAt, Results
<1>6. executed[r] = <<>> \/ Done(new, executed[r])
  BY <1>3, <1>5 DEF Done
<1> HIDE DEF new, q
<1>7. Good(new, Pack(NewAttributes), values[r], executed[r])
  BY <1>3, <1>4, <1>5, <1>6, NothingCarries DEF Good, Earned
<1> QED BY <1>2, <1>7 DEF Moves, Requested

LEMMA ReplyArrivesMoves ==
  ASSUME Requested, NEW r \in Requests, ReplyArrives(r)
  PROVE  Moves(r)
<1> DEFINE q == request[r]
           new == [q EXCEPT !.at = AnswerAt(r)]
           answer == Pack(Unpack(NewAttributes, parcel[r]))
<1>1. Good(q, parcel[r], values[r], executed[r])
  BY DEF Requested
<1>2. /\ q.at = "replied"
      /\ request' = [request EXCEPT ![r] = new]
      /\ parcel' = [parcel EXCEPT ![r] = answer]
      /\ UNCHANGED <<values, executed>>
  BY DEF ReplyArrives, Requested
<1>3. /\ q \in Request /\ values[r] = SetAll(Held)
      /\ Done(q, executed[r]) /\ Earned(q, executed[r])
      /\ q.kind = "get" /\ q.result = "SUCCESS" =>
           Carries(parcel[r], Received(executed[r][1].by))
      /\ \E brought : Carries(parcel[r], brought)
  BY <1>1, <1>2 DEF Good
<1>4. /\ AnswerAt(r) \in {"answer", "done"}
      /\ AnswerAt(r) = "answer" <=> q.kind \in {"set", "get"}
  BY DEF AnswerAt
<1>5. /\ new \in Request /\ new.kind = q.kind /\ new.result = q.result
      /\ new.at = AnswerAt(r)
  BY <1>3, <1>4 DEF Request, RequestAt
<1>6. Done(new, executed[r]) /\ Earned(new, executed[r])
  BY <1>3, <1>5 DEF Done, Earned
<1>7. ASSUME NEW brought, Carries(parcel[r], brought)
      PROVE  \E w : Carries(answer, w)
  <2>1. Unpack(NewAttributes, parcel[r]).values = brought
        /\ Sound(Unpack(NewAttributes, parcel[r]))
    BY <1>7, UnpackNew
  <2>2. Carries(answer, Shown(brought))
    BY <2>1, PackIs DEF Carries
  <2> QED BY <2>2
<1>8. q.kind = "get" /\ q.result = "SUCCESS" => Carries(answer, Received(executed[r][1].by))
  BY <1>3, SentCarries, SeenTwice DEF Received
<1> HIDE DEF new, q, answer
<1>9. Good(new, answer, values[r], executed[r])
  BY <1>3, <1>4, <1>5, <1>6, <1>7, <1>8 DEF Good
<1> QED BY <1>2, <1>9 DEF Moves, Requested

LEMMA ExecutesMoves ==
  ASSUME TypeOK, Requested, NEW r \in Requests, NEW said \in {"SUCCESS", "FAIL"},
         Executes(r, said)
  PROVE  Moves(r)
<1> DEFINE q == request[r]
           c == q.target
           attrs == Unpack(NewAttributes, parcel[r]).values
           did == [by |-> c, said |-> said, attrs |-> attrs]
           new == [q EXCEPT !.at = "replied", !.result = said]
           reply == Pack(IF q.kind = "get" THEN SetAll(Returned[c]) ELSE NewAttributes)
<1>1. Good(q, parcel[r], values[r], executed[r])
  BY DEF Requested
<1>2. /\ q.at = "found"
      /\ request' = [request EXCEPT ![r] = new]
      /\ parcel' = [parcel EXCEPT ![r] = reply]
      /\ executed' = [executed EXCEPT ![r] = Append(@, did)]
      /\ UNCHANGED <<values>>
  BY DEF Executes
<1>3. /\ q \in Request /\ values[r] = SetAll(Held)
      /\ executed[r] = <<>> /\ Carries(parcel[r], Seen(Settings[q.kind]))
      /\ c \in Registrations /\ AuthOf[c] \in Wanted(q.kind)
  BY <1>1, <1>2 DEF Good, OnTheWay
<1>4. Append(executed[r], did) = <<did>>
  BY <1>3
<1>5. attrs = Seen(Settings[q.kind])
  BY <1>3, UnpackNew
<1>6. /\ did.by = c /\ did.said = said /\ did.attrs = Seen(Settings[q.kind])
  BY <1>5
<1>7. /\ new \in Request /\ new.kind = q.kind /\ new.result = said
      /\ new.at = "replied" /\ new.target = c
  BY <1>3 DEF Request, RequestAt, Results
<1>8. q.kind = "get" => Carries(reply, Received(c))
  BY <1>3, PackCarries, RequestsAssumption DEF Received
<1>9. q.kind # "get" => Carries(reply, Shown(<<>>))
  BY NothingCarries
<1>10. <<did>>[1] = did
  OBVIOUS
<1> HIDE DEF new, q, reply, did, c
<1>11. Done(new, <<did>>) /\ Earned(new, <<did>>)
  BY <1>3, <1>6, <1>7, <1>10, SeenTwice DEF Done, Earned
<1>12. Good(new, reply, values[r], <<did>>)
  BY <1>3, <1>6, <1>7, <1>8, <1>9, <1>10, <1>11 DEF Good
<1>13. executed' = [executed EXCEPT ![r] = <<did>>]
  BY <1>2, <1>4
<1> QED BY <1>2, <1>12, <1>13 DEF Moves, Requested

LEMMA AnswerMoves ==
  ASSUME Requested, NEW r \in Requests, OnResult(r) \/ GetExecutorPropReturns(r)
  PROVE  Moves(r)
<1> DEFINE q == request[r]
           new == [q EXCEPT !.at = "done"]
           got == IF q.kind = "get" THEN Unpack(values[r], parcel[r]) ELSE values[r]
<1>1. Good(q, parcel[r], values[r], executed[r])
  BY DEF Requested
<1>2. /\ q.at = "answer" /\ q.kind \in {"set", "get"}
      /\ request' = [request EXCEPT ![r] = new]
      /\ DOMAIN values' = Requests /\ values'[r] = got
      /\ \A s \in Requests \ {r} : values'[s] = values[s]
      /\ UNCHANGED <<parcel, executed>>
  BY DEF OnResult, GetExecutorPropReturns, Requested
<1>3. /\ q \in Request /\ values[r] = SetAll(Held)
      /\ executed[r] = <<>> \/ Done(q, executed[r])
      /\ Earned(q, executed[r])
      /\ q.kind = "get" /\ q.result = "SUCCESS" =>
           Carries(parcel[r], Received(executed[r][1].by))
      /\ \E brought : Carries(parcel[r], brought)
  BY <1>1, <1>2 DEF Good
<1>4. /\ new \in Request /\ new.kind = q.kind /\ new.result = q.result /\ new.at = "done"
  BY <1>3 DEF Request, RequestAt
<1>5. /\ executed[r] = <<>> \/ Done(new, executed[r])
      /\ Earned(new, executed[r])
  BY <1>3, <1>4 DEF Done, Earned
<1> DEFINE c == executed[r][1].by
<1>6. q.kind = "get" /\ q.result = "SUCCESS" =>
        got.values = Overlaid(Received(c), ByTag(Held))
  BY <1>3, UnpackHeld, RequestsAssumption
<1> HIDE DEF new, q, got
<1>7. Good(new, parcel[r], got, executed[r])
  BY <1>3, <1>4, <1>5, <1>6 DEF Good
<1> QED BY <1>2, <1>7 DEF Moves, Requested

-----------------------------------------------------------------------------
(* The whole: calls on executors while executors come and go.               *)

Ids == idOf \in [Registrations -> 1..Cardinality(Registrations)]

\* Another executor of its kind has registered, or tried to.
Replaced(c) == \E d \in Registrations \ {c} : SameKind(c, d) /\ call[d] # "idle"

\* What Register has done for a live executor by the time it returns an id to it.
IdInv ==
  /\ told \subseteq {c \in Registrations : call[c] = "registered"}
  /\ \A c \in alive :
       /\ call[c] \in {"ready", "registered"} => c \in authResPool
       /\ call[c] \in {"addDeath", "insert", "ready", "registered"} =>
            c \in poolList \/ Replaced(c)

CallsInv == Inv /\ Ids /\ IdInv /\ Requested

LEMMA CallsInvInit == CallsInit => CallsInv
<1> SUFFICES ASSUME CallsInit
             PROVE  CallsInv
  OBVIOUS
<1>1. Inv
  BY InvInit DEF CallsInit
<1>2. Ids /\ IdInv
  BY DEF CallsInit, Init, Ids, IdInv
<1>3. ASSUME NEW r \in Requests
      PROVE  Good(request[r], parcel[r], values[r], executed[r])
  <2> DEFINE q == request[r]
  <2>1. q = [kind |-> "set", at |-> "idle", target |-> "nobody", result |-> "none"]
    BY DEF CallsInit
  <2>2. q \in Request /\ q.at = "idle" /\ q.result = "none"
    BY <2>1 DEF Request, Kinds, RequestAt, Results
  <2>3. parcel[r] = <<>> /\ values[r] = SetAll(Held) /\ executed[r] = <<>>
    BY DEF CallsInit
  <2> HIDE DEF q
  <2>4. Good(q, <<>>, SetAll(Held), <<>>)
    BY <2>2, NothingCarries DEF Good
  <2> QED BY <2>3, <2>4 DEF q
<1>4. Requested
  BY <1>3 DEF CallsInit, Requested
<1> QED BY <1>1, <1>2, <1>4 DEF CallsInv

LEMMA PoolSteps == [CallsNext]_allVars => [Next]_vars
BY DEF CallsNext, allVars, PoolNext, RegisterReturns, SetExecutorProp, SetExecutorPropUnsent,
   GetExecutorProp, GetExecutorPropFails, HandleProp, BeginExecute, CancelExecute, Found,
   SendRequestFails, ReplyArrives, ReplyLost, Executes, OnResult, GetExecutorPropReturns

\* A step of the pool keeps what an executor with an id was promised.
LEMMA PoolKeepsIds ==
  ASSUME Inv, IdInv, Next, UNCHANGED told
  PROVE  IdInv'
<1>t. /\ poolList \subseteq Registrations /\ authResPool \subseteq Registrations
      /\ alive \subseteq Registrations /\ told \subseteq Registrations
      /\ call \in [Registrations -> CallAt]
      /\ \A c \in Registrations : recipient[c] \in {"notified", "fired"} => c \notin alive
  BY DEF Inv, TypeOK, Order, IdInv
<1>1. ASSUME NEW d \in Registrations, RegisterReject(d)
      PROVE  IdInv'
  BY <1>t, <1>1 DEF RegisterReject, IdInv, Replaced
<1>2. ASSUME NEW d \in Registrations, NEW stored \in BOOLEAN, RegisterExecutor(d, stored)
      PROVE  IdInv'
  <2>1. PICK removed \in RemovedByType(d) :
          poolList' = IF stored THEN removed \cup {d} ELSE removed
    BY <1>2 DEF RegisterExecutor
  <2>2. \A c \in poolList \ removed : SameKind(c, d)
    BY KindsClear, <2>1 DEF Inv, SameKind
  <2>3. /\ call[d] = "idle" /\ d \notin poolList
        /\ call'[d] = (IF stored THEN "addDeath" ELSE "refused")
        /\ \A c \in Registrations \ {d} : call'[c] = call[c]
        /\ UNCHANGED <<authResPool, alive>>
    BY <1>2, <1>t DEF RegisterExecutor, Inv, Order
  <2>4. ASSUME NEW c \in alive, call'[c] \in {"addDeath", "insert", "ready", "registered"}
        PROVE  c \in poolList' \/ Replaced(c)'
    <3>1. CASE c = d
      BY <2>1, <2>3, <2>4, <3>1
    <3>2. CASE c # d
      <4>1. c \in poolList \/ Replaced(c)
        BY <1>t, <2>3, <2>4, <3>2 DEF IdInv
      <4>2. CASE Replaced(c)
        BY <2>3, <4>2 DEF Replaced
      <4>3. CASE c \in poolList
        <5>1. c \in removed \/ SameKind(c, d)
          BY <2>2, <4>3
        <5>2. SameKind(c, d) => Replaced(c)'
          BY <2>3, <3>2 DEF Replaced
        <5> QED BY <2>1, <5>1, <5>2
      <4> QED BY <4>1, <4>2, <4>3
    <3> QED BY <3>1, <3>2
  <2>5. told' \subseteq {c \in Registrations : call'[c] = "registered"}
    BY <2>3, <1>t DEF IdInv
  <2>6. \A c \in alive : call'[c] \in {"ready", "registered"} => c \in authResPool
    BY <1>t, <2>3 DEF IdInv
  <2> QED BY <2>3, <2>4, <2>5, <2>6 DEF IdInv
<1>3. ASSUME NEW d \in Registrations, RegisterStep(d)
      PROVE  IdInv'
  <2>1. /\ call[d] \in {"addDeath", "insert", "ready"}
        /\ \A c \in Registrations \ {d} : call'[c] = call[c]
        /\ call'[d] # "idle"
        /\ d \in alive => (call'[d] \in {"ready", "registered"} => d \in authResPool')
        /\ d \in alive => (call'[d] \in {"insert", "ready", "registered", "refused"})
        /\ \A c \in authResPool : c \in authResPool'
        /\ UNCHANGED <<poolList, alive>>
    BY <1>t, <1>3 DEF RegisterStep, AddDeathRecipient, Insert, OnMessengerReady, IdInv
  <2>2. \A c \in Registrations : Replaced(c) => Replaced(c)'
    BY <2>1 DEF Replaced
  <2>3. told' \subseteq {c \in Registrations : call'[c] = "registered"}
    BY <2>1, <1>t DEF IdInv
  <2>4. ASSUME NEW c \in alive
        PROVE  /\ call'[c] \in {"ready", "registered"} => c \in authResPool'
               /\ call'[c] \in {"addDeath", "insert", "ready", "registered"} =>
                    c \in poolList \/ Replaced(c)'
    BY <2>1, <2>2, <1>t DEF IdInv
  <2> QED BY <2>1, <2>3, <2>4 DEF IdInv
<1>4. ASSUME NEW d \in Registrations, Dies(d)
      PROVE  IdInv'
  BY <1>t, <1>4 DEF Dies, IdInv, Replaced
<1>5. ASSUME NEW d \in Registrations, OnRemoteDied(d)
      PROVE  IdInv'
  <2>1. d \notin alive
    BY <1>t, <1>5 DEF OnRemoteDied, DeleteExecutorCallback, UnregisterExecutor
  <2> QED
    BY <1>t, <1>5, <2>1 DEF OnRemoteDied, DeleteExecutorCallback, UnregisterExecutor, IdInv,
       Replaced
<1> QED BY <1>1, <1>2, <1>3, <1>4, <1>5 DEF Next

LEMMA CallsInvStep == CallsInv /\ [CallsNext]_allVars => CallsInv'
<1> SUFFICES ASSUME CallsInv, [CallsNext]_allVars
             PROVE  CallsInv'
  OBVIOUS
<1>1. Inv'
  BY InvStep, PoolSteps DEF CallsInv
<1>2. CASE PoolNext \/ UNCHANGED allVars
  <2>1. Requested' /\ Ids'
    BY <1>2 DEF PoolNext, allVars, callVars, CallsInv, Requested, Ids
  <2>2. IdInv'
    <3>1. CASE PoolNext
      BY <3>1, PoolKeepsIds DEF PoolNext, CallsInv
    <3>2. CASE UNCHANGED allVars
      BY <3>2 DEF allVars, vars, CallsInv, IdInv, Replaced
    <3> QED BY <1>2, <3>1, <3>2
  <2> QED BY <1>1, <2>1, <2>2 DEF CallsInv
<1>3. ASSUME NEW c \in Registrations, RegisterReturns(c)
      PROVE  CallsInv'
  <2>1. Requested' /\ Ids'
    BY <1>3 DEF RegisterReturns, callVars, CallsInv, Requested, Ids
  <2>2. IdInv'
    BY <1>3 DEF RegisterReturns, vars, CallsInv, IdInv, Replaced
  <2> QED BY <1>1, <2>1, <2>2 DEF CallsInv
<1>4. ASSUME NEW r \in Requests,
             \/ SetExecutorProp(r) \/ SetExecutorPropUnsent(r)
             \/ GetExecutorProp(r) \/ GetExecutorPropFails(r)
             \/ HandleProp(r) \/ BeginExecute(r) \/ CancelExecute(r)
             \/ SendRequestFails(r) \/ ReplyArrives(r) \/ ReplyLost(r)
             \/ \E said \in {"SUCCESS", "FAIL"} : Executes(r, said)
             \/ OnResult(r) \/ GetExecutorPropReturns(r)
      PROVE  CallsInv'
  <2>1. UNCHANGED <<vars, idOf, told>>
    BY <1>4 DEF SetExecutorProp, SetExecutorPropUnsent, GetExecutorProp, GetExecutorPropFails,
       HandleProp, BeginExecute, CancelExecute, Found, SendRequestFails, ReplyArrives,
       ReplyLost, Executes, OnResult, GetExecutorPropReturns
  <2>2. Ids' /\ IdInv'
    BY <2>1 DEF vars, CallsInv, Ids, IdInv, Replaced
  <2>3. TypeOK /\ Requested
    BY DEF CallsInv, Inv
  <2>4. Moves(r)
    BY <1>4, <2>3, AskMoves, UnsentMoves, HandlePropMoves, ExecuteMoves, FailMoves,
       ReplyArrivesMoves, ExecutesMoves, AnswerMoves
  <2>5. Requested'
    BY <2>3, <2>4, MovesGood
  <2> QED BY <1>1, <2>2, <2>5 DEF CallsInv
<1> QED BY <1>2, <1>3, <1>4 DEF CallsNext

LEMMA CallsInvAlways == CallsSpec => []CallsInv
BY CallsInvInit, CallsInvStep, PTL DEF CallsSpec

\* However requests, deaths and replacements interleave, a request is for nobody
\* or for an executor that registered, a target is known once one was found, and
\* no buffer on the way has an entry that its reader stops at.
THEOREM CallsTypeCorrect == CallsSpec => []CallsTypeOK
<1>1. CallsInv => CallsTypeOK
  <2> SUFFICES ASSUME CallsInv
               PROVE  CallsTypeOK
    OBVIOUS
  <2>1. Ids /\ told \subseteq Registrations
    BY DEF CallsInv, IdInv
  <2>2. ASSUME NEW r \in Requests
        PROVE  /\ request[r].kind \in Kinds /\ request[r].at \in RequestAt
               /\ request[r].target \in Registrations \cup {"nobody"}
               /\ request[r].result \in Results
               /\ request[r].at \in {"found", "replied"} => request[r].target # "nobody"
               /\ \A i \in DOMAIN parcel[r] : CheckLengthPass(parcel[r][i])
               /\ \A i \in DOMAIN executed[r] : executed[r][i].by \in Registrations
    <3> DEFINE q == request[r]
               e == executed[r]
    <3>1. Good(q, parcel[r], values[r], e)
      BY DEF CallsInv, Requested
    <3>2. /\ q \in Request
          /\ q.at \in {"found", "replied"} => q.target \in Registrations
          /\ \E brought : Carries(parcel[r], brought)
          /\ e = <<>> \/ Done(q, e)
      BY <3>1 DEF Good
    <3>3. \A i \in DOMAIN parcel[r] : CheckLengthPass(parcel[r][i])
      BY <3>2, CarriedFits
    <3>4. \A i \in DOMAIN e : e[i].by \in Registrations
      <4>1. CASE e = <<>>
        BY <4>1
      <4>2. CASE Done(q, e)
        <5>1. e = <<e[1]>> /\ e[1].by \in Registrations
          BY <4>2 DEF Done
        <5>2. DOMAIN e = {1}
          BY <5>1
        <5> QED BY <5>1, <5>2
      <4> QED BY <3>2, <4>1, <4>2
    <3>5. q.at \in {"found", "replied"} => q.target # "nobody"
      BY <3>2, RequestsAssumption
    <3> QED BY <3>2, <3>3, <3>4, <3>5 DEF Request
  <2> QED BY <2>1, <2>2 DEF CallsTypeOK, Ids
<1> QED BY <1>1, CallsInvAlways, PTL

\* No reply that is lost and no executor that is replaced makes the service ask
\* twice, or ask an executor of another type, and the attributes survive every hop.
THEOREM AskedOnce == CallsSpec => []AsAsked
<1>1. CallsInv => AsAsked
  <2> SUFFICES ASSUME CallsInv, NEW r \in Requests
               PROVE  /\ Len(executed[r]) <= 1
                      /\ \A i \in DOMAIN executed[r] :
                           /\ AuthOf[executed[r][i].by] \in TypeAsked(r)
                           /\ Shown(executed[r][i].attrs) =
                                Shown(ByTag(Settings[request[r].kind]))
    BY DEF AsAsked
  <2> DEFINE q == request[r]
             e == executed[r]
  <2>1. e = <<>> \/ Done(q, e)
    BY DEF CallsInv, Requested, Good
  <2>2. CASE e = <<>>
    BY <2>2
  <2>3. CASE Done(q, e)
    <3>1. /\ e = <<e[1]>>
          /\ AuthOf[e[1].by] \in Wanted(q.kind)
          /\ Shown(e[1].attrs) = Seen(Settings[q.kind])
      BY <2>3 DEF Done
    <3>2. Len(e) = 1 /\ DOMAIN e = {1}
      BY <3>1
    <3>3. Wanted(q.kind) = TypeAsked(r)
      BY DEF Wanted, TypeAsked
    <3> QED BY <3>1, <3>2, <3>3 DEF Seen
  <2> QED BY <2>1, <2>2, <2>3
<1> QED BY <1>1, CallsInvAlways, PTL

\* A SUCCESS that reaches the caller is that of the one executor which did what was
\* asked, and the values that come with it are its own.
THEOREM SuccessIsEarned == CallsSpec => []SuccessIsDone
<1>1. CallsInv => SuccessIsDone
  <2> SUFFICES ASSUME CallsInv, NEW r \in Requests,
                      request[r].at = "done", request[r].result = "SUCCESS"
               PROVE  /\ Len(executed[r]) = 1
                      /\ executed[r][1].said = "SUCCESS"
                      /\ request[r].kind = "get" =>
                           values[r].values =
                             Overlaid(Received(executed[r][1].by), ByTag(Held))
    BY DEF SuccessIsDone, Overlaid, Received, Seen
  <2> DEFINE q == request[r]
             e == executed[r]
  <2>1. Good(q, parcel[r], values[r], e)
    BY DEF CallsInv, Requested
  <2>2. /\ Earned(q, e)
        /\ q.kind = "get" => values[r].values = Overlaid(Received(e[1].by), ByTag(Held))
    BY <2>1 DEF Good
  <2>3. e = <<e[1]>> /\ e[1].said = "SUCCESS"
    BY <2>2 DEF Earned, Done
  <2>4. Len(e) = 1
    BY <2>3
  <2> QED BY <2>2, <2>3, <2>4
<1> QED BY <1>1, CallsInvAlways, PTL

\* The death of others, late notices and calls of Register that fail never take
\* the callback away from a live executor that was given an id.
THEOREM IdStaysReal == CallsSpec => []IdIsReal
<1>1. CallsInv => IdIsReal
  BY DEF CallsInv, IdInv, IdIsReal, Replaced
<1> QED BY <1>1, CallsInvAlways, PTL
=============================================================================
