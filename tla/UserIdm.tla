------------------------------ MODULE UserIdm ------------------------------
(***************************************************************************)
(* Management of credentials on the trusted side (common/idm): the one edit *)
(* session, and enrolling, updating and deleting the credentials of its     *)
(* user.  It is composed with UserAuth: the proof that a user is present is *)
(* a result signed there, for the challenge of the session, and credentials *)
(* enrolled here are what users authenticate with there.                    *)
(*                                                                         *)
(* Every entry point holds the global lock, but DeleteUser, which gives it  *)
(* up half way.  The calls come from the user_idm service, with any userId, *)
(* and with the result of any user: neither is compared with the user of    *)
(* the session, to whom credentials are added.                              *)
(***************************************************************************)
EXTENDS UserAuth

CONSTANT SessionPeriod  \* SESSION_VALIDITY_PERIOD

ASSUME IdmAssumption == SessionPeriod \in Nat /\ None \notin Schedules

VARIABLES
  session,  \* g_session
  renewed,  \* when a call last succeeded in deleting the user or updating the PIN
  deleting  \* the userId of a DeleteUser call that has verified its token

idmVars == <<session, renewed, deleting>>
vars == <<authVars, idmVars>>

Session ==
  [user : Users, challenge : Challenges, time : Times, validAuthTokenTime : Times,
   schedule : Schedules \cup {None}]

IdmTypeOK ==
  /\ AuthTypeOK
  /\ session \in Session \cup {None}
  /\ renewed \in [Users -> Times]
  /\ deleting \in Users \cup {None}

Init ==
  /\ AuthInit
  /\ session = None
  /\ renewed = [u \in Users |-> 0]
  /\ deleting = None

-----------------------------------------------------------------------------
(* The session (idm_session.c).                                            *)

\* A session that is open is closed first, and lost when no challenge is found.
OpenEditSession(u) ==
  /\ \/ \E h \in Challenges :
          session' = [user |-> u, challenge |-> h, time |-> now,
                      validAuthTokenTime |-> now, schedule |-> None]
     \/ Faults /\ session' = None
  /\ UNCHANGED <<authVars, renewed, deleting>>

CloseEditSession ==
  /\ session # None
  /\ session' = None
  /\ UNCHANGED <<authVars, renewed, deleting>>

IsSessionTimeout == now - session.time > SessionPeriod

\* Faulty: tokens of the very moment are refused, too.
RefreshedLate ==
  IF session = None THEN None ELSE [session EXCEPT !.validAuthTokenTime = now + 1]

\* The value of session after RefreshValidTokenTime.
Refreshed ==
  IF session = None THEN None ELSE [session EXCEPT !.validAuthTokenTime = now]

-----------------------------------------------------------------------------
(* Permission to enrol (user_idm_funcs.c).                                 *)

\* UserAuthTokenVerify, and the challenge.
TokenVerified(a) ==
  /\ session # None
  /\ a.challenge = session.challenge
  /\ Fresh(a.time)

IsValidTokenTime(a) == a.time >= session.validAuthTokenTime

\* PinPermissionCheck, FacePermissionCheck
Permitted(u, t) ==
  \/ t = Pin /\ PinOf(users[u]) = {}
  \/ /\ t # Pin => OfType(users[u], t) = {}
     /\ \E a \in authTokens : a.type = Pin /\ TokenVerified(a) /\ IsValidTokenTime(a)

\* CheckEnrollPermission, with the credentials of user u looked at, and the schedule
\* for the session of any user.  Without a session a first PIN is permitted, and the
\* schedule that is generated for it belongs to nobody.
InitSchedulation(u, t) ==
  /\ Permitted(u, t)
  /\ \E s \in Schedules :
       /\ GenerateIdmSchedule(s, t)
       /\ session' = IF session = None THEN None ELSE [session EXCEPT !.schedule = s]
  /\ UNCHANGED <<renewed, deleting>>

-----------------------------------------------------------------------------
(* Credentials.                                                            *)

\* The checks that AddCredential and UpdateCredential share.
ScheduleMatches(s) ==
  /\ session # None
  /\ session.schedule = s
  /\ ~IsSessionTimeout
  /\ CoAuthTokenValid(s)

\* Faulty: the token of any schedule is good enough.
AddCredentialOfAny(s) ==
  /\ session # None
  /\ ~IsSessionTimeout
  /\ CoAuthTokenValid(s)
  /\ \E new \in Enrolments(users[session.user], schedules[s].type) :
       users' = [users EXCEPT ![session.user] = new.info]
  /\ UNCHANGED <<now, pool, schedules, contexts, authTokens, results, idmVars>>

\* The schedule stays the session's: the same token may be brought again.
AddCredential(s) ==
  /\ ScheduleMatches(s)
  /\ \E new \in Enrolments(users[session.user], schedules[s].type) :
       users' = [users EXCEPT ![session.user] = new.info]
  /\ UNCHANGED <<now, pool, schedules, contexts, authTokens, results, idmVars>>

\* Faulty: tokens of the time before the update stay valid.
UpdateCredentialNoRefresh(s) ==
  /\ ScheduleMatches(s)
  /\ schedules[s].type = Pin
  /\ \E d \in PinOf(users[session.user]) :
     \E new \in Enrolments(Without(users[session.user], d), Pin) :
       /\ users' = [users EXCEPT ![session.user] = new.info]
       /\ renewed' = [renewed EXCEPT ![session.user] = IF new.id = None THEN @ ELSE now]
  /\ UNCHANGED <<now, pool, schedules, contexts, authTokens, results, session, deleting>>

\* The old PIN is deleted and then the new one added.  Only when both succeed, and
\* are in the file, are older tokens refused.
UpdateCredential(s) ==
  /\ ScheduleMatches(s)
  /\ schedules[s].type = Pin
  /\ \E d \in PinOf(users[session.user]) :
     \E new \in Enrolments(Without(users[session.user], d), Pin) :
       /\ users' = [users EXCEPT ![session.user] = new.info]
       /\ \/ /\ new.id # None
             /\ session' = Refreshed
             /\ renewed' = [renewed EXCEPT ![session.user] = now]
          \/ (new.id = None \/ Faults) /\ UNCHANGED <<session, renewed>>
  /\ UNCHANGED <<now, pool, schedules, contexts, authTokens, results, deleting>>

\* The time of the last update is not looked at, nor whose session it is.
DeleteCredential(u) ==
  /\ \E a \in authTokens : TokenVerified(a)
  /\ ~IsSessionTimeout
  /\ \E d \in users[u].creds : users' = [users EXCEPT ![u] = Without(@, d)]
  /\ UNCHANGED <<now, pool, schedules, contexts, authTokens, results, idmVars>>

\* DeleteUserInfo and RefreshValidTokenTime, which a failure to write the file skips.
Delete(u) ==
  IF users[u].creds = {} THEN UNCHANGED <<users, session, renewed>>
  ELSE /\ users' = [users EXCEPT ![u] = NoUser]
       /\ \/ /\ session' = Refreshed
             /\ renewed' = [renewed EXCEPT ![u] = now]
          \/ Faults /\ UNCHANGED <<session, renewed>>

DeleteUserEnforce(u) ==
  /\ Delete(u)
  /\ UNCHANGED <<now, pool, schedules, contexts, authTokens, results, deleting>>

\* DeleteUser, up to the point where it gives up the lock.
DeleteUserVerifies(u) ==
  /\ deleting = None
  /\ \E a \in authTokens : TokenVerified(a) /\ IsValidTokenTime(a)
  /\ deleting' = u
  /\ UNCHANGED <<authVars, session, renewed>>

\* It takes the lock again, and looks at neither the session nor the token.
DeleteUserDeletes(u) ==
  /\ deleting = u
  /\ Delete(u)
  /\ deleting' = None
  /\ UNCHANGED <<now, pool, schedules, contexts, authTokens, results>>

-----------------------------------------------------------------------------

IdmStep ==
  \/ \E u \in Users :
       \/ OpenEditSession(u) \/ DeleteCredential(u)
       \/ DeleteUserEnforce(u) \/ DeleteUserVerifies(u) \/ DeleteUserDeletes(u)
       \/ \E t \in AuthTypes : InitSchedulation(u, t)
  \/ \E s \in Schedules : AddCredential(s) \/ UpdateCredential(s)
  \/ CloseEditSession

Next ==
  \/ AuthStep /\ UNCHANGED idmVars
  \/ IdmStep

Spec == Init /\ [][Next]_vars

-----------------------------------------------------------------------------
(* Properties.                                                             *)

Added(u) == users'[u].creds \ users[u].creds

\* A credential comes from a schedule that was generated to enrol its type in the
\* session that is open, and that was granted: no schedule of an authentication, of
\* an earlier session, or that a later one has replaced, enrols anything.
EnrolmentIsScheduled ==
  [][\A u \in Users : Added(u) # {} =>
       /\ session # None /\ session.user = u /\ session.schedule # None
       /\ LET s == schedules[session.schedule] IN
            /\ s.at = "granted" /\ s.mode = "enrol"
            /\ \A d \in Added(u) : d.type = s.type]_vars

\* Whatever was enrolled, updated, deleted and opened again before, a credential
\* other than a PIN is only enrolled with a PIN proved in this very session, since it
\* was opened, and not before the last update of the PIN or deletion of the user that
\* succeeded.  (Whose PIN it was is compared with nothing: the property says no more.)
OldProofIsRefused ==
  [][\A u \in Users : \A d \in Added(u) : d.type # Pin =>
       \E a \in authTokens :
         /\ a.type = Pin /\ a.challenge = session.challenge
         /\ a.time >= session.time /\ a.time >= renewed[u]]_vars

=============================================================================
