-------------------------- MODULE MCExecutorCalls --------------------------
(***************************************************************************)
(* Instances of ExecutorCalls for TLC.                                       *)
(***************************************************************************)
EXTENDS ExecutorCalls

CONSTANTS c0, c1, c2, r1

PIN  == 1
FACE == 2

\* Two calls register the same kind of executor.
MCAuthOf == [c \in Registrations |-> PIN]
MCTypeOf == [c \in Registrations |-> "all in one"]

Set(type, tag, value) == [type |-> type, tag |-> tag, value |-> value]

\* A schedule that begins, and one of a type nobody registers that is cancelled.
MCScheduleType == [begin |-> PIN, end |-> FACE]

\* A type set twice, a tag given a value of another type, arrays with and without
\* items; "get" names no type; "begin" and "end" are what SetAuthAttributes sets for
\* a caller without a name.
MCSettings ==
  [kind \in Kinds |->
     CASE kind = "set" ->
            <<Set("uint32", AUTH_TYPE, <<FACE>>), Set("uint8Array", AUTH_SIGNATURE, <<7>>),
              Set("uint32", AUTH_TYPE, <<PIN>>), Set("uint32", AUTH_TEMPLATE_ID, <<3>>),
              Set("uint64Array", AUTH_TEMPLATE_ID_LIST, <<>>),
              Set("uint8Array", AUTH_RESULT, <<7>>), Set("uint8Array", AUTH_RESULT, <<>>)>>
       [] kind = "get" ->
            <<Set("uint64Array", AUTH_TEMPLATE_ID_LIST, <<3, 4>>),
              Set("bool", AUTH_CONTROLLER, <<TRUE>>)>>
       [] OTHER ->
            <<Set("uint32", AUTH_SCHEDULE_MODE, <<1>>), Set("uint64", AUTH_SUBTYPE, <<0>>),
              Set("uint64", AUTH_TEMPLATE_ID, <<3>>), Set("uint64", AUTH_CALLER_UID, <<5>>),
              Set("uint8Array", AUTH_CALLER_NAME, <<>>)>>]

MCHeld ==
  <<Set("uint32", AUTH_REMAIN_COUNT, <<c0>>), Set("uint64", AUTH_SUBTYPE, <<0>>)>>

MCReturned ==
  [c \in Registrations |-> <<Set("uint32", AUTH_REMAIN_COUNT, <<c>>)>>]
=============================================================================
