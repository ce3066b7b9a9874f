---------------------------- MODULE ExecutorPool ----------------------------
(***************************************************************************)
(* Registration of executors: AuthResManager::Register, the death notice of *)
(* an executor, QueryStatus, and the two lists that must agree.  g_poolList *)
(* on the trusted side says which executors exist and feeds the schedules;  *)
(* authResPool_ in the service holds the callback that is called when a     *)
(* schedule begins.  They are changed one after the other, each under its   *)
(* own lock, by the binder thread of Register and by the thread that brings *)
(* the death notice, so other calls come in between.                        *)
(***************************************************************************)
EXTENDS Integers, FiniteSets

CONSTANTS
  Registrations, \* calls of Register; a call also names its callback
  AuthTypes,     \* authentication types
  ExecutorTypes, \* collector, verifier, all in one
  AuthOf,        \* the authType a call carries
  TypeOf,        \* the executorType a call carries
  Faults         \* may the trusted side run out of memory or randomness?

ASSUME ConstantsAssumption ==
  /\ AuthOf \in [Registrations -> AuthTypes]
  /\ TypeOf \in [Registrations -> ExecutorTypes]
  /\ Faults \in BOOLEAN

VARIABLES
  poolList,    \* g_poolList: the calls whose executor the trusted side holds
  authResPool, \* authResPool_: the calls whose callback the service holds
  alive,       \* the callbacks whose process lives
  recipient,   \* the death recipient on each callback, and its notice
  call         \* how far each call of Register has come

vars == <<poolList, authResPool, alive, recipient, call>>

CallAt == {"idle", "addDeath", "insert", "ready", "registered", "refused"}

\* "notified": the notice has deleted the callback, and is yet to unregister.
RecipientAt == {"none", "armed", "notified", "fired"}

TypeOK ==
  /\ poolList \subseteq Registrations
  /\ authResPool \subseteq Registrations
  /\ alive \subseteq Registrations
  /\ recipient \in [Registrations -> RecipientAt]
  /\ call \in [Registrations -> CallAt]
  /\ \A c \in authResPool : call[c] \in {"ready", "registered"}
  /\ \A c \in Registrations : recipient[c] # "none" =>
       call[c] \in {"insert", "ready", "registered"}

Init ==
  /\ poolList = {}
  /\ authResPool = {}
  /\ alive = Registrations
  /\ recipient = [c \in Registrations |-> "none"]
  /\ call = [c \in Registrations |-> "idle"]

-----------------------------------------------------------------------------
(* The trusted side.  A 64-bit random executorId stands for the call it was *)
(* given to.                                                                *)

SameKind(c, d) == AuthOf[c] = AuthOf[d] /\ TypeOf[c] = TypeOf[d]

\* Faulty: the same executor is registered beside its old self.
RemovedNever(c) == {poolList}

\* remove() with IsExecutorIdMatchByType takes the first match out, if any.
RemovedByType(c) ==
  LET matches == {d \in poolList : SameKind(c, d)} IN
  IF matches = {} THEN {poolList} ELSE {poolList \ {d} : d \in matches}

IsExecutorExist(a) == \E c \in poolList : AuthOf[c] = a

-----------------------------------------------------------------------------
(* AuthResManager::Register on a binder thread.                            *)

\* A public key that is too long.
RegisterReject(c) ==
  /\ call[c] = "idle"
  /\ call' = [call EXCEPT ![c] = "refused"]
  /\ UNCHANGED <<poolList, authResPool, alive, recipient>>

\* RegisterExecutorToPool: a failure comes after the old one has been removed.
RegisterExecutor(c, stored) ==
  /\ call[c] = "idle"
  /\ stored \/ Faults
  /\ \E removed \in RemovedByType(c) :
       poolList' = IF stored THEN removed \cup {c} ELSE removed
  /\ call' = [call EXCEPT ![c] = IF stored THEN "addDeath" ELSE "refused"]
  /\ UNCHANGED <<authResPool, alive, recipient>>

\* Faulty: the recipient counts as added although the callback refused it.
AddDeathRecipientAnyway(c) ==
  /\ call[c] = "addDeath"
  /\ recipient' = [recipient EXCEPT ![c] = "armed"]
  /\ \E added \in IF c \in alive THEN BOOLEAN ELSE {FALSE} :
       call' = [call EXCEPT ![c] = IF added THEN "insert" ELSE "refused"]
  /\ UNCHANGED <<poolList, authResPool, alive>>

\* No memory for the recipient, a callback without a remote object, or one that
\* refuses the recipient, as a dead one does: Register gives up, and leaves the
\* executor in g_poolList.
AddDeathRecipient(c) ==
  /\ call[c] = "addDeath"
  /\ \E added \in IF c \in alive THEN BOOLEAN ELSE {FALSE} :
       /\ recipient' = [recipient EXCEPT ![c] = IF added THEN "armed" ELSE @]
       /\ call' = [call EXCEPT ![c] = IF added THEN "insert" ELSE "refused"]
  /\ UNCHANGED <<poolList, authResPool, alive>>

\* Faulty: the map is keyed by authType, and insert keeps what is there.
InsertByType(c) ==
  /\ call[c] = "insert"
  /\ authResPool' = IF \E d \in authResPool : AuthOf[d] = AuthOf[c]
                    THEN authResPool ELSE authResPool \cup {c}
  /\ call' = [call EXCEPT ![c] = "ready"]
  /\ UNCHANGED <<poolList, alive, recipient>>

Insert(c) ==
  /\ call[c] = "insert"
  /\ authResPool' = authResPool \cup {c}
  /\ call' = [call EXCEPT ![c] = "ready"]
  /\ UNCHANGED <<poolList, alive, recipient>>

OnMessengerReady(c) ==
  /\ call[c] = "ready"
  /\ call' = [call EXCEPT ![c] = "registered"]
  /\ UNCHANGED <<poolList, authResPool, alive, recipient>>

RegisterStep(c) == AddDeathRecipient(c) \/ Insert(c) \/ OnMessengerReady(c)

-----------------------------------------------------------------------------
(* The process of an executor dies; its notice comes some time later.      *)

Dies(c) ==
  /\ c \in alive
  /\ alive' = alive \ {c}
  /\ UNCHANGED <<poolList, authResPool, recipient, call>>

\* Faulty: the notice gives up when it finds no callback to delete.
DeleteExecutorCallbackReturns(c) ==
  /\ c \notin alive
  /\ recipient[c] = "armed"
  /\ authResPool' = authResPool \ {c}
  /\ recipient' = [recipient EXCEPT ![c] =
                     IF c \in authResPool THEN "notified" ELSE "fired"]
  /\ UNCHANGED <<poolList, alive, call>>

DeleteExecutorCallback(c) ==
  /\ c \notin alive
  /\ recipient[c] = "armed"
  /\ authResPool' = authResPool \ {c}
  /\ recipient' = [recipient EXCEPT ![c] = "notified"]
  /\ UNCHANGED <<poolList, alive, call>>

\* Faulty: the executor is unregistered by its type and not by its id.
UnregisterByType(c) ==
  /\ recipient[c] = "notified"
  /\ poolList' = {d \in poolList : ~SameKind(c, d)}
  /\ recipient' = [recipient EXCEPT ![c] = "fired"]
  /\ UNCHANGED <<authResPool, alive, call>>

UnregisterExecutor(c) ==
  /\ recipient[c] = "notified"
  /\ poolList' = poolList \ {c}
  /\ recipient' = [recipient EXCEPT ![c] = "fired"]
  /\ UNCHANGED <<authResPool, alive, call>>

OnRemoteDied(c) == DeleteExecutorCallback(c) \/ UnregisterExecutor(c)

-----------------------------------------------------------------------------

Next ==
  \E c \in Registrations :
    \/ RegisterReject(c)
    \/ \E stored \in BOOLEAN : RegisterExecutor(c, stored)
    \/ RegisterStep(c)
    \/ Dies(c)
    \/ OnRemoteDied(c)

Spec == Init /\ [][Next]_vars

\* A Register call that is under way goes on, and death notices arrive.
Fairness ==
  \A c \in Registrations : WF_vars(RegisterStep(c)) /\ WF_vars(OnRemoteDied(c))

FairSpec == Spec /\ Fairness

-----------------------------------------------------------------------------
(* Properties.                                                             *)

\* RegisterExecutorToPool takes out one executor at most before it puts one in,
\* and still the trusted side never holds two of the same kind, whose schedule
\* would be ambiguous.
OnePerKind ==
  \A c, d \in poolList : SameKind(c, d) => c = d

\* An executor that a schedule can be generated for has its callback in the
\* service, unless one of the two lists is about to change: Register has yet to
\* insert it, the death notice has yet to unregister it.  The one way out of
\* step is a Register call that failed after ExecutorRegister: its executor stays
\* listed, alive or dead, and no callback of it was ever held.
ListsAgree ==
  \A c \in poolList :
    \/ c \in authResPool
    \/ call[c] \in {"addDeath", "insert"}
    \/ recipient[c] = "notified"
    \/ call[c] = "refused" /\ recipient[c] = "none"

\* The late death notice of an old executor never takes away the one that has
\* come in its place: a live executor leaves g_poolList only when one of its kind
\* registers, and leaves authResPool_ never.
LiveStays ==
  [][\A c \in alive :
       /\ c \in authResPool => c \in authResPool'
       /\ c \in poolList \ poolList' =>
            \E d \in Registrations : SameKind(c, d) /\ call[d] = "idle" /\ call'[d] # "idle"
    ]_vars

\* An executor that died after its recipient was added is gone from the trusted
\* side in the end, and for good: no schedule is generated for it any more.
DeadLeave ==
  \A c \in Registrations :
    (c \notin alive /\ recipient[c] = "armed") ~> [](c \notin poolList)
=============================================================================
