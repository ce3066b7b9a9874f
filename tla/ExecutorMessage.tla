--------------------------- MODULE ExecutorMessage ---------------------------
(***************************************************************************)
(* What the trusted side does with the AUTH_RESULT of a Finish call:        *)
(* GetScheduleToken, ScheduleFinish, the three nested TLV lists that        *)
(* GetExecutorResultInfo reads (message, AUTH_ROOT, AUTH_DATA), and the     *)
(* token it signs.  The call holds GlobalLock from end to end, so nothing   *)
(* interleaves with it; what may happen at every step is that memory runs   *)
(* out.  CoAuth takes a whole call for one step: this module shows what it  *)
(* takes for granted there, that a token says what the executor signed.     *)
(***************************************************************************)
EXTENDS TlvWrapper, FiniteSets

CONSTANTS
  ScheduleIds, \* uint64 ids that g_scheduleList may hold: two cells
  Keys,        \* public keys of executors
  KeyOf,       \* the key of the first VERIFIER or ALL_IN_ONE of a schedule
  Messages,    \* what a Finish call may carry
  Reports,     \* what executors have reported and signed
  MaxSize,     \* MAX_BUFFER_SIZE, in cells
  Faults,      \* may memory or randomness run out?
  NoKey        \* a schedule without a verifier

AUTH_ROOT             == 100000
AUTH_RESULT_CODE      == 100001
AUTH_SIGNATURE        == 100004
AUTH_TEMPLATE_ID      == 100006
AUTH_SCHEDULE_ID      == 100014
AUTH_DATA             == 100020
AUTH_SUBTYPE          == 100021
AUTH_CAPABILITY_LEVEL == 100029

Uint32 == {<<a>> : a \in Cells}
Uint64 == Cells \X Cells

RESULT_SUCCESS == <<0>>

Zero64 == <<0, 0>>

\* The five fields ParseExecutorResultData reads, in that order, and their sizes.
Fields == <<[name |-> "capabilityLevel", tag |-> AUTH_CAPABILITY_LEVEL, size |-> 1],
            [name |-> "templateId", tag |-> AUTH_TEMPLATE_ID, size |-> 2],
            [name |-> "authSubType", tag |-> AUTH_SUBTYPE, size |-> 2],
            [name |-> "result", tag |-> AUTH_RESULT_CODE, size |-> 1],
            [name |-> "scheduleId", tag |-> AUTH_SCHEDULE_ID, size |-> 2]>>

\* 0 is the id of an ExecutorResultInfo that nothing was read into: that the
\* random number generator never gives it to a schedule is assumed.  An Ed25519
\* signature is not empty.
ASSUME ConstantsAssumption ==
  /\ ScheduleIds \subseteq Uint64 \ {Zero64}
  /\ KeyOf \in [ScheduleIds -> Keys \cup {NoKey}]
  /\ NoKey \notin Keys
  /\ Messages \subseteq Buffers
  /\ Reports \subseteq [key : Keys, level : Uint32, template : Uint64, subType : Uint64,
                         result : Uint32, id : Uint64, sign : Buffers \ {<<>>}]
  /\ MaxSize \in Nat
  /\ Faults \in BOOLEAN
  /\ (0..2) \cup {Fields[i].tag : i \in DOMAIN Fields} \subseteq Cells

\* The trusted side of an executor writes these five into AUTH_DATA and signs it.
Entry(tag, value) == <<tag, Len(value)>> \o value

DataOf(report) ==
  Entry(AUTH_CAPABILITY_LEVEL, report.level) \o Entry(AUTH_TEMPLATE_ID, report.template)
    \o Entry(AUTH_SUBTYPE, report.subType) \o Entry(AUTH_RESULT_CODE, report.result)
    \o Entry(AUTH_SCHEDULE_ID, report.id)

MessageOf(report) ==
  Entry(AUTH_ROOT,
        Entry(AUTH_DATA, DataOf(report)) \o Entry(AUTH_SIGNATURE, report.sign))

Levels == {"message", "root", "data"}

VARIABLES
  listed, \* g_scheduleList
  call,   \* the GetScheduleToken call: where it is, for which id, on which list
  lists,  \* the buffer, the offset and the nodes of each TLV list
  info,   \* the ExecutorResultInfo
  tokens  \* the tokens that callers have been given

vars == <<listed, call, lists, info, tokens>>

CallAt == {"idle", "list", "parse", "read", "sign", "check", "verify", "exit"}

EmptyList == [buf |-> <<>>, offset |-> 0, nodes |-> <<>>]

EmptyInfo == [capabilityLevel |-> <<0>>, templateId |-> Zero64, authSubType |-> Zero64,
              result |-> <<0>>, scheduleId |-> Zero64, data |-> <<>>, sign |-> <<>>]

Info == [capabilityLevel : Uint32, templateId : Uint64, authSubType : Uint64,
         result : Uint32, scheduleId : Uint64, data : Buffers, sign : Buffers]

Token == [id : ScheduleIds, signed : BOOLEAN, scheduleId : Uint64,
          capabilityLevel : Uint32, templateId : Uint64, authSubType : Uint64]

TypeOK ==
  /\ listed \subseteq ScheduleIds
  /\ call \in [at : CallAt, id : ScheduleIds \cup {Zero64}, level : Levels,
               field : 1..Len(Fields) + 1, failed : BOOLEAN]
  /\ call.at # "idle" => call.id \in ScheduleIds
  /\ lists \in [Levels -> [buf : Buffers, offset : Nat, nodes : Seq(Nodes)]]
  /\ info \in Info
  /\ tokens \subseteq Token

Init ==
  /\ listed = ScheduleIds
  /\ call = [at |-> "idle", id |-> Zero64, level |-> "message", field |-> 1,
             failed |-> FALSE]
  /\ lists = [l \in Levels |-> EmptyList]
  /\ info = EmptyInfo
  /\ tokens = {}

-----------------------------------------------------------------------------
(* GetScheduleToken.  An empty message only drops the schedule; one that is *)
(* too large, or finds no memory, returns with the schedule still listed.   *)

GetTokenEmpty(id) ==
  /\ call.at = "idle"
  /\ id \in listed
  /\ listed' = listed \ {id}
  /\ tokens' = tokens \cup
       {[id |-> id, signed |-> FALSE, scheduleId |-> id, capabilityLevel |-> <<0>>,
         templateId |-> Zero64, authSubType |-> Zero64]}
  /\ UNCHANGED <<call, lists, info>>

GetScheduleToken(id, msg) ==
  /\ call.at = "idle"
  /\ Len(msg) \in 1..MaxSize
  /\ call' = [at |-> "list", id |-> id, level |-> "message", field |-> 1,
              failed |-> FALSE]
  /\ lists' = [lists EXCEPT !["message"].buf = msg]
  /\ UNCHANGED <<listed, info, tokens>>

\* Every error on the way ends in the EXIT of ScheduleFinish.
Refuse(failed) == call' = [call EXCEPT !.at = "exit", !.failed = @ \/ failed]

-----------------------------------------------------------------------------
(* The three lists.                                                        *)

\* CreateTlvList, at the level the call has reached.
CreateTlvList ==
  /\ call.at = "list"
  /\ call' = [call EXCEPT !.at = "parse"]
  /\ UNCHANGED <<listed, lists, info, tokens>>

\* It finds no memory.  ParseExecutorResultData then returns false, which is
\* RESULT_SUCCESS: the five fields stay zero and the signature is read next.
CreateTlvListFails ==
  /\ Faults
  /\ call.at = "list"
  /\ IF call.level = "data"
     THEN call' = [call EXCEPT !.at = "sign", !.failed = TRUE]
     ELSE Refuse(TRUE)
  /\ UNCHANGED <<listed, lists, info, tokens>>

Current == lists[call.level]

\* Faulty: the header is left out of the new offset of a node without a value.
ParseNodeStays ==
  /\ call.at = "parse"
  /\ Current.offset < Len(Current.buf)
  /\ HeaderFits(Current.buf, Current.offset) /\ BodyFits(Current.buf, Current.offset)
  /\ LET node == PutTlvObject(Current.buf, Current.offset) IN
       lists' = [lists EXCEPT ![call.level] =
                   [@ EXCEPT !.nodes = Append(Current.nodes, node),
                             !.offset = @ + Header + Len(node.value) - 1]]
  /\ UNCHANGED <<listed, call, info, tokens>>

\* One iteration of ParseTlvWrapper.
ParseNode ==
  /\ call.at = "parse"
  /\ Current.offset < Len(Current.buf)
  /\ HeaderFits(Current.buf, Current.offset) /\ BodyFits(Current.buf, Current.offset)
  /\ LET node == PutTlvObject(Current.buf, Current.offset) IN
       lists' = [lists EXCEPT ![call.level] =
                   [@ EXCEPT !.nodes = Append(Current.nodes, node), !.offset = NodeEnd(node)]]
  /\ UNCHANGED <<listed, call, info, tokens>>

\* The buffer ends inside a header or a value, or there is no memory.
ParseFails ==
  /\ call.at = "parse"
  /\ Current.offset < Len(Current.buf)
  /\ \/ /\ ~(HeaderFits(Current.buf, Current.offset) /\ BodyFits(Current.buf, Current.offset))
        /\ Refuse(FALSE)
     \/ Faults /\ Refuse(TRUE)
  /\ UNCHANGED <<listed, lists, info, tokens>>

\* The loop is over: on with the next level, or with the fields.
ParseEnd ==
  /\ call.at = "parse"
  /\ Current.offset >= Len(Current.buf)
  /\ call' = [call EXCEPT !.at = "read"]
  /\ UNCHANGED <<listed, lists, info, tokens>>

\* GetBuffPara copies the value of a node into a buffer of its own.
Opens(from, to, tag) ==
  /\ call.at = "read" /\ call.level = from
  /\ HasBuff(lists[from].nodes, tag)
  /\ lists' = [lists EXCEPT ![to].buf = Para(lists[from].nodes, tag)]
  /\ call' = [call EXCEPT !.at = "list", !.level = to]

ParseRoot ==
  /\ Opens("message", "root", AUTH_ROOT)
  /\ UNCHANGED <<listed, info, tokens>>

ParseExecutorResultData ==
  /\ Opens("root", "data", AUTH_DATA)
  /\ info' = [info EXCEPT !.data = Para(lists["root"].nodes, AUTH_DATA)]
  /\ UNCHANGED <<listed, tokens>>

\* ParseExecutorResultAcl and the four parsers like it.
ReadField ==
  LET field == Fields[call.field] IN
  /\ call.at = "read" /\ call.level = "data"
  /\ HasPara(Current.nodes, field.tag, field.size)
  /\ info' = [info EXCEPT ![field.name] = Para(Current.nodes, field.tag)]
  /\ call' = [call EXCEPT !.field = @ + 1,
                          !.at = IF call.field = Len(Fields) THEN "sign" ELSE "read"]
  /\ UNCHANGED <<listed, lists, tokens>>

\* Back in the list of AUTH_ROOT.
ParseExecutorResultSign ==
  /\ call.at = "sign"
  /\ HasBuff(lists["root"].nodes, AUTH_SIGNATURE)
  /\ info' = [info EXCEPT !.sign = Para(lists["root"].nodes, AUTH_SIGNATURE)]
  /\ call' = [call EXCEPT !.at = "check"]
  /\ UNCHANGED <<listed, lists, tokens>>

\* A tag is missing, its value is empty or of another size, or the copy of it
\* finds no memory.
ReadFails ==
  LET nodes == IF call.at = "sign" THEN lists["root"].nodes ELSE Current.nodes
      found ==
        CASE call.at = "sign"         -> HasBuff(nodes, AUTH_SIGNATURE)
          [] call.level = "message"   -> HasBuff(nodes, AUTH_ROOT)
          [] call.level = "root"      -> HasBuff(nodes, AUTH_DATA)
          [] OTHER -> HasPara(nodes, Fields[call.field].tag, Fields[call.field].size)
      copies == call.at = "sign" \/ call.level # "data"
  IN
  /\ call.at \in {"read", "sign"}
  /\ \/ ~found /\ Refuse(FALSE)
     \/ found /\ copies /\ Faults /\ Refuse(TRUE)
  /\ UNCHANGED <<listed, lists, info, tokens>>

-----------------------------------------------------------------------------
(* ScheduleFinish on the ExecutorResultInfo.                               *)

\* Faulty: the message need not be about the schedule that is finishing.
CheckResultOnly ==
  /\ call.at = "check"
  /\ IF info.result = RESULT_SUCCESS /\ call.id \in listed
     THEN call' = [call EXCEPT !.at = "verify"]
     ELSE Refuse(FALSE)
  /\ UNCHANGED <<listed, lists, info, tokens>>

\* The ids agree, the executor reports success, the schedule is listed.
Check ==
  /\ call.at = "check"
  /\ IF info.scheduleId = call.id /\ info.result = RESULT_SUCCESS /\ call.id \in listed
     THEN call' = [call EXCEPT !.at = "verify"]
     ELSE Refuse(FALSE)
  /\ UNCHANGED <<listed, lists, info, tokens>>

Ed25519Verify ==
  \E r \in Reports :
    r.key = KeyOf[call.id] /\ DataOf(r) = info.data /\ r.sign = info.sign

TokenOf(signed) ==
  [id |-> call.id, signed |-> signed, scheduleId |-> info.scheduleId,
   capabilityLevel |-> info.capabilityLevel, templateId |-> info.templateId,
   authSubType |-> info.authSubType]

\* The signature verifies and TokenDataGetAndSign signs the token.
TokenDataGetAndSign ==
  /\ call.at = "verify"
  /\ Ed25519Verify
  /\ tokens' = tokens \cup {TokenOf(TRUE)}
  /\ call' = [call EXCEPT !.at = "exit"]
  /\ UNCHANGED <<listed, lists, info>>

\* Without a public key the code leaves with ret still RESULT_SUCCESS, and with
\* a token that says RESULT_GENERAL_ERROR, of which only the id is set.
NoPublicKey ==
  /\ call.at = "verify"
  /\ \/ KeyOf[call.id] = NoKey /\ Refuse(FALSE)
     \/ KeyOf[call.id] # NoKey /\ Faults /\ Refuse(TRUE)
  /\ tokens' = tokens \cup {[id |-> call.id, signed |-> FALSE, scheduleId |-> call.id,
                             capabilityLevel |-> <<0>>, templateId |-> Zero64,
                             authSubType |-> Zero64]}
  /\ UNCHANGED <<listed, lists, info>>

\* The signature does not verify, or verifying or signing finds no memory.
VerifyFails ==
  /\ call.at = "verify"
  /\ KeyOf[call.id] # NoKey
  /\ \/ ~Ed25519Verify /\ Refuse(FALSE)
     \/ Faults /\ Refuse(TRUE)
  /\ UNCHANGED <<listed, lists, info, tokens>>

\* EXIT: the message is freed and the schedule dropped, granted or not.
Exit ==
  /\ call.at = "exit"
  /\ listed' = listed \ {call.id}
  /\ call' = [call EXCEPT !.at = "idle", !.level = "message", !.field = 1,
                          !.failed = FALSE, !.id = Zero64]
  /\ lists' = [l \in Levels |-> EmptyList]
  /\ info' = EmptyInfo
  /\ UNCHANGED tokens

-----------------------------------------------------------------------------

Next ==
  \/ \E id \in ScheduleIds : GetTokenEmpty(id)
  \/ \E id \in ScheduleIds, msg \in Messages : GetScheduleToken(id, msg)
  \/ CreateTlvList \/ CreateTlvListFails
  \/ ParseNode \/ ParseFails \/ ParseEnd
  \/ ParseRoot \/ ParseExecutorResultData \/ ReadField
  \/ ParseExecutorResultSign \/ ReadFails
  \/ Check \/ TokenDataGetAndSign \/ NoPublicKey \/ VerifyFails \/ Exit

Spec == Init /\ [][Next]_vars

-----------------------------------------------------------------------------
(* Properties.                                                             *)

\* Where node i of a list must begin.
Begins(nodes, i) == IF i = 1 THEN 0 ELSE NodeEnd(nodes[i - 1])

TilesBuffer(list) ==
  /\ list.offset <= Len(list.buf)
  /\ list.offset = Begins(list.nodes, Len(list.nodes) + 1)
  /\ \A i \in DOMAIN list.nodes :
       LET node == list.nodes[i] IN
       /\ node.from = Begins(list.nodes, i)
       /\ NodeEnd(node) <= list.offset
       /\ Entry(node.tag, node.value) = SubSeq(list.buf, node.from + 1, NodeEnd(node))

\* The nodes of a list tile what has been read of its buffer: no cell is
\* skipped, none is read twice, and each value is the one its length announces.
Tiled == \A l \in Levels : TilesBuffer(lists[l])

\* A signed token says, field by field, what the verifier of that very schedule
\* reported of it, and reported as a success: whatever else the message holds,
\* wherever it is cut, and at whatever step memory runs out.
TokenIsReported ==
  \A t \in tokens : t.signed =>
    \E r \in Reports :
      /\ r.key = KeyOf[t.id]
      /\ r.result = RESULT_SUCCESS
      /\ r.id = t.id /\ r.id = t.scheduleId
      /\ r.level = t.capabilityLevel
      /\ r.template = t.templateId
      /\ r.subType = t.authSubType

\* And a success is not lost: the message of a verifier about a listed schedule
\* is granted whenever memory lasts.
HonestIsGranted ==
  \A r \in Reports :
    (/\ call.at = "exit" /\ ~call.failed
     /\ lists["message"].buf = MessageOf(r)
     /\ r.id = call.id /\ r.key = KeyOf[call.id] /\ r.result = RESULT_SUCCESS
     /\ call.id \in listed)
    => \E t \in tokens : t.id = r.id /\ t.signed /\ t.templateId = r.template
=============================================================================
