------------------------------ MODULE UserAuth ------------------------------
(***************************************************************************)
(* Authentication on the trusted side (common/user_auth).  A context is     *)
(* generated for a user and a type of authentication, together with one     *)
(* schedule that the executors of the type carry out; the token that a      *)
(* successful schedule was granted is exchanged, once, for a signed result. *)
(* Meanwhile executors come and go, credentials are enrolled, with          *)
(* schedules of their own, and deleted, tokens expire, and the caller may   *)
(* cancel and use its contextId again.                                      *)
(*                                                                         *)
(* Every entry point holds the global lock, so each is one action.  How a   *)
(* schedule gets to its end is what CoAuth is about; here it is granted or  *)
(* dropped, once, which is what ScheduleToken promises.                     *)
(***************************************************************************)
EXTENDS Credentials

CONSTANTS
  Users,        \* userIds
  Contexts,     \* contextIds, which callers may use again
  Schedules,    \* random scheduleIds
  Challenges,   \* challenges that callers ask to be put into the result
  Executors,    \* executors that may register
  AuthOf, Esl,  \* the authType and the secure level of each
  Acl,          \* the capabilityLevel of the credential with an id
  MaxExecutors, \* MAX_EXECUTOR_SIZE
  Asked,        \* the authTrustLevels asked for
  Skips,        \* may a query lose an executor, when memory for its copy runs out?
  Period,       \* TOKEN_VALIDITY_PERIOD
  MaxTime       \* bound of the clock

ASSUME AuthAssumption ==
  /\ Pin \in AuthTypes
  /\ AuthOf \in [Executors -> AuthTypes]
  /\ Esl \in [Executors -> Nat]
  /\ Acl \in [Ids -> Nat]
  /\ Asked \subseteq Nat
  /\ Skips \in BOOLEAN
  /\ {MaxExecutors, Period, MaxTime} \subseteq Nat
  /\ IsFiniteSet(Executors)
  /\ None \notin Ids

VARIABLES
  now,        \* GetSystemTime
  pool,       \* g_poolList
  users,      \* g_userInfoList, by userId
  schedules,  \* g_scheduleList, and what became of the schedules taken off it
  contexts,   \* g_contextList, by contextId
  authTokens, \* the results signed so far
  results     \* how many of them each schedule has led to

authVars == <<now, pool, users, schedules, contexts, authTokens, results>>

Times == 0..MaxTime

Schedule ==
  [at : {"new", "listed", "granted", "dropped"}, mode : {"auth", "enrol"},
   type : AuthTypes, executors : SUBSET Executors, template : Ids \cup {None},
   time : Times]

Context ==
  [user : Users, type : AuthTypes, challenge : Challenges, atl : Asked,
   waits : SUBSET Schedules]

AuthToken ==
  [from : Schedules, user : Users, type : AuthTypes, challenge : Challenges,
   atl : Asked, time : Times]

NewSchedule == [at |-> "new", mode |-> "auth", type |-> Pin, executors |-> {},
                template |-> None, time |-> 0]

AuthTypeOK ==
  /\ now \in Times
  /\ pool \subseteq Executors
  /\ users \in [Users -> UserInfo]
  /\ schedules \in [Schedules -> Schedule]
  /\ contexts \in [Contexts -> Context \cup {None}]
  /\ authTokens \subseteq AuthToken
  /\ results \in [Schedules -> Nat]

AuthInit ==
  /\ now = 0
  /\ pool = {}
  /\ users = [u \in Users |-> NoUser]
  /\ schedules = [s \in Schedules |-> NewSchedule]
  /\ contexts = [c \in Contexts |-> None]
  /\ authTokens = {}
  /\ results = [s \in Schedules |-> 0]

-----------------------------------------------------------------------------
(* The authentication trust level (auth_level.c).                          *)

MAX_ASL == 4

g_generationAtl ==
  << [atl |-> 40000, acl |-> 3, asl |-> 2], [atl |-> 30000, acl |-> 2, asl |-> 2],
     [atl |-> 20000, acl |-> 2, asl |-> 1], [atl |-> 20000, acl |-> 1, asl |-> 2],
     [atl |-> 10000, acl |-> 1, asl |-> 0], [atl |-> 0, acl |-> 0, asl |-> 0] >>

Satisfies(asl, acl, row) == asl >= row.asl /\ acl >= row.acl

\* The row that the code's loop stops at.
FirstRow(asl, acl) ==
  CHOOSE i \in DOMAIN g_generationAtl :
    /\ Satisfies(asl, acl, g_generationAtl[i])
    /\ \A j \in 1..(i - 1) : ~Satisfies(asl, acl, g_generationAtl[j])

TrustLevel(asl, acl) == g_generationAtl[FirstRow(asl, acl)].atl

ExecutorsOf(t) == {e \in pool : AuthOf[e] = t}

\* What a query may find.  An executor that cannot be copied is passed over.
QueryExecutor(t) == IF Skips THEN SUBSET ExecutorsOf(t) ELSE {ExecutorsOf(t)}

\* Faulty: the strongest executor counts.
GetAslMax(es) ==
  CHOOSE l \in 0..MAX_ASL : /\ \A e \in es : l >= Esl[e]
                            /\ l = 0 \/ \E e \in es : l = Esl[e]

\* The least secure level of the executors found.
GetAsl(es) ==
  CHOOSE l \in 0..MAX_ASL : /\ \A e \in es : l <= Esl[e]
                            /\ l = MAX_ASL \/ \E e \in es : l = Esl[e]

\* SingleAuthTrustLevel: the levels the code may find for a user's credential.
TrustLevels(t, d) ==
  {TrustLevel(GetAsl(es), Acl[d.id]) : es \in QueryExecutor(t) \ {{}}}

-----------------------------------------------------------------------------
(* Schedules (coauth.c).                                                   *)

\* MountExecutor
Mountable(es) == Cardinality(es) \in 1..MaxExecutors

\* GenerateAuthSchedule, GenerateIdmSchedule and AddCoAuthSchedule
AddSchedule(s, m, t, i) ==
  /\ schedules[s].at = "new"
  /\ \E es \in QueryExecutor(t) :
       /\ Mountable(es)
       /\ schedules' = [schedules EXCEPT ![s] =
            [at |-> "listed", mode |-> m, type |-> t, executors |-> es,
             template |-> i, time |-> 0]]

\* ScheduleFinish grants a token, and takes the schedule off the list.
ScheduleFinish(s) ==
  /\ schedules[s].at = "listed"
  /\ schedules' = [schedules EXCEPT ![s] = [@ EXCEPT !.at = "granted", !.time = now]]
  /\ UNCHANGED <<now, pool, users, contexts, authTokens, results>>

\* A report that is refused, a Cancel, the timeout.
RemoveSchedule(s) ==
  /\ schedules[s].at = "listed"
  /\ schedules' = [schedules EXCEPT ![s] = [@ EXCEPT !.at = "dropped"]]
  /\ UNCHANGED <<now, pool, users, contexts, authTokens, results>>

Fresh(time) == now - time <= Period

\* CoAuthTokenVerify
CoAuthTokenValid(s) == schedules[s].at = "granted" /\ Fresh(schedules[s].time)

-----------------------------------------------------------------------------
(* Contexts (context_manager.c, user_auth_funcs.c).                        *)

\* Faulty: the level that was found is kept, not the one asked for.
GenerateContextComputed(c, u, t, challenge, atl) ==
  /\ contexts[c] = None
  /\ \E d \in OfType(users[u], t), s \in Schedules :
       /\ AddSchedule(s, "auth", t, d.id)
       /\ \E level \in TrustLevels(t, d) :
            /\ atl <= level
            /\ contexts' = [contexts EXCEPT ![c] =
                 [user |-> u, type |-> t, challenge |-> challenge, atl |-> level,
                  waits |-> {s}]]
  /\ UNCHANGED <<now, pool, users, authTokens, results>>

\* GenerateContext, called by GenerateSolution: the context and its schedule, or,
\* when memory runs out, the schedule alone.  Of several credentials of a type the
\* first of the list counts.
GenerateContext(c, u, t, challenge, atl) ==
  /\ contexts[c] = None
  /\ \E d \in OfType(users[u], t), s \in Schedules :
       /\ \E level \in TrustLevels(t, d) : atl <= level
       /\ AddSchedule(s, "auth", t, d.id)
       /\ \/ contexts' = [contexts EXCEPT ![c] =
               [user |-> u, type |-> t, challenge |-> challenge, atl |-> atl,
                waits |-> {s}]]
          \/ Faults /\ UNCHANGED contexts
  /\ UNCHANGED <<now, pool, users, authTokens, results>>

DestoryContext(c) == contexts' = [contexts EXCEPT ![c] = None]

\* GetTokenDataAndSign
Sign(c, s) ==
  /\ contexts[c].type \in users[contexts[c].user].enrolled
  /\ authTokens' = authTokens \cup
       {[from |-> s, user |-> contexts[c].user, type |-> contexts[c].type,
         challenge |-> contexts[c].challenge, atl |-> contexts[c].atl, time |-> now]}
  /\ results' = [results EXCEPT ![s] = @ + 1]

CannotSign(c) ==
  /\ Faults \/ contexts[c].type \notin users[contexts[c].user].enrolled
  /\ UNCHANGED <<authTokens, results>>

\* Faulty: any schedule's token is good enough.
RequestAuthResultOfAny(c, s) ==
  /\ contexts[c] # None
  /\ CoAuthTokenValid(s)
  /\ Sign(c, s) \/ CannotSign(c)
  /\ DestoryContext(c)
  /\ UNCHANGED <<now, pool, users, schedules>>

\* Faulty: the context is left for another try.
RequestAuthResultLeaves(c, s) ==
  /\ contexts[c] # None
  /\ CoAuthTokenValid(s)
  /\ \/ /\ s \in contexts[c].waits
        /\ Sign(c, s) \/ CannotSign(c)
     \/ s \notin contexts[c].waits /\ UNCHANGED <<authTokens, results>>
  /\ UNCHANGED <<now, pool, users, schedules, contexts>>

\* Faulty: a failure to sign returns before the context is destroyed.
RequestAuthResultReturns(c, s) ==
  /\ contexts[c] # None
  /\ CoAuthTokenValid(s)
  /\ \/ s \in contexts[c].waits /\ Sign(c, s) /\ DestoryContext(c)
     \/ s \in contexts[c].waits /\ CannotSign(c)
        /\ contexts' = [contexts EXCEPT ![c] = [@ EXCEPT !.waits = @ \ {s}]]
     \/ s \notin contexts[c].waits /\ DestoryContext(c) /\ UNCHANGED <<authTokens, results>>
  /\ UNCHANGED <<now, pool, users, schedules>>

\* Whatever comes of it, a token that verifies ends the context it is presented for,
\* even when it is the token of another schedule.  A schedule token is signed for a
\* success only: the branch for other results is never taken.
RequestAuthResult(c, s) ==
  /\ contexts[c] # None
  /\ CoAuthTokenValid(s)
  /\ \/ /\ s \in contexts[c].waits
        /\ Sign(c, s) \/ CannotSign(c)
     \/ s \notin contexts[c].waits /\ UNCHANGED <<authTokens, results>>
  /\ DestoryContext(c)
  /\ UNCHANGED <<now, pool, users, schedules>>

\* The schedules are the caller's to cancel.
CancelContext(c) ==
  /\ contexts[c] # None
  /\ DestoryContext(c)
  /\ UNCHANGED <<now, pool, users, schedules, authTokens, results>>

-----------------------------------------------------------------------------
(* What goes on around.                                                    *)

Tick ==
  /\ now < MaxTime
  /\ now' = now + 1
  /\ UNCHANGED <<pool, users, schedules, contexts, authTokens, results>>

\* An executor registers, or is taken out of the pool.
PoolChanges(e) ==
  /\ pool' \in {pool \cup {e}, pool \ {e}}
  /\ UNCHANGED <<now, users, schedules, contexts, authTokens, results>>

\* A schedule is generated to enrol a credential.
GenerateIdmSchedule(s, t) ==
  /\ AddSchedule(s, "enrol", t, None)
  /\ UNCHANGED <<now, pool, users, contexts, authTokens, results>>

\* A credential is added, updated or deleted, or the user is deleted.
EnrolmentChanges(u) ==
  /\ \/ \E t \in AuthTypes : \E new \in Enrolments(users[u], t) :
          users' = [users EXCEPT ![u] = new.info]
     \/ \E d \in PinOf(users[u]) : \E new \in Enrolments(Without(users[u], d), Pin) :
          users' = [users EXCEPT ![u] = new.info]
     \/ \E d \in users[u].creds : users' = [users EXCEPT ![u] = Without(users[u], d)]
     \/ users[u].creds # {} /\ users' = [users EXCEPT ![u] = NoUser]
  /\ UNCHANGED <<now, pool, schedules, contexts, authTokens, results>>

ContextCall(c) ==
  \/ \E u \in Users, t \in AuthTypes, challenge \in Challenges, atl \in Asked :
       GenerateContext(c, u, t, challenge, atl)
  \/ \E s \in Schedules : RequestAuthResult(c, s)
  \/ CancelContext(c)

AuthStep ==
  \/ \E c \in Contexts : ContextCall(c)
  \/ \E s \in Schedules : ScheduleFinish(s) \/ RemoveSchedule(s)
  \/ \E e \in Executors : PoolChanges(e)
  \/ Tick

AuthNext ==
  \/ AuthStep
  \/ \E s \in Schedules, t \in AuthTypes : GenerateIdmSchedule(s, t)
  \/ \E u \in Users : EnrolmentChanges(u)

AuthSpec == AuthInit /\ [][AuthNext]_authVars

-----------------------------------------------------------------------------
(* Properties.                                                             *)

Awaited(s) == \E c \in Contexts : contexts[c] # None /\ s \in contexts[c].waits

\* Every context waits for one schedule, its own, of its own type: none is left with
\* nothing to wait for, holding its contextId for ever, and no two share a schedule.
EachAwaitsItsOwn ==
  \A c \in Contexts : contexts[c] # None =>
    \E s \in Schedules :
      /\ contexts[c].waits = {s}
      /\ schedules[s].at # "new" /\ schedules[s].mode = "auth"
      /\ schedules[s].type = contexts[c].type
      /\ \A d \in Contexts \ {c} : contexts[d] # None => s \notin contexts[d].waits

\* However often a token is presented, and for whichever context, a schedule leads to
\* one result at most, of its own type, and only after it was granted.
OneResult ==
  \A s \in Schedules :
    /\ results[s] <= 1
    /\ Awaited(s) => results[s] = 0
    /\ \A a \in authTokens :
         a.from = s => schedules[s].at = "granted" /\ schedules[s].type = a.type

\* Once the context of a schedule has ended (answered, cancelled, or never stored)
\* the schedule leads to nothing, even if it ends well later and its contextId is
\* in use again.
EndedStaysEnded ==
  [][\A s \in Schedules :
       schedules[s].at # "new" /\ ~Awaited(s) =>
         ~Awaited(s)' /\ results'[s] = results[s]]_authVars

\* The trust level a result claims is one that a row of the table grants to the
\* credential and to the weakest executor that the schedule was carried out with,
\* whoever registers or leaves in the meantime.  (Unless one was passed over: the
\* level and the schedule are made from two queries.)
LevelIsBacked ==
  \A a \in authTokens : \E i \in DOMAIN g_generationAtl :
    LET row == g_generationAtl[i] IN
      /\ a.atl <= row.atl
      /\ Acl[schedules[a.from].template] >= row.acl
      /\ \A e \in schedules[a.from].executors : Esl[e] >= row.asl
=============================================================================
