---------------------------- MODULE UserIdmProofs ----------------------------
(***************************************************************************)
(* Theorems about UserAuth, and about UserIdm, which extends it.            *)
(***************************************************************************)
EXTENDS UserIdm, TLAPS

-----------------------------------------------------------------------------
(* UserAuth.                                                               *)

\* A row of the table grants level l to what the schedule was carried out with.
Backed(l, schedule) == ~Skips =>
  \E i \in DOMAIN g_generationAtl :
    /\ l <= g_generationAtl[i].atl
    /\ Acl[schedule.template] >= g_generationAtl[i].acl
    /\ \A e \in schedule.executors : Esl[e] >= g_generationAtl[i].asl

\* The level of a context is backed before there is a result that claims it.
ContextsBacked ==
  \A c \in Contexts : contexts[c] # None =>
    \A s \in contexts[c].waits : Backed(contexts[c].atl, schedules[s])

TokensBacked == \A a \in authTokens : Backed(a.atl, schedules[a.from])

NewLedToNothing == \A s \in Schedules : schedules[s].at = "new" => results[s] = 0

\* All that is said of contexts, schedules and results.
AuthInv ==
  EachAwaitsItsOwn /\ OneResult /\ NewLedToNothing /\ ContextsBacked /\ TokensBacked

\* What a step may make of the schedules: what one was generated with stays, and
\* one that was granted stays as it is.
Kept(s) ==
  schedules[s].at # "new" =>
    /\ schedules'[s].at # "new"
    /\ schedules'[s].mode = schedules[s].mode
    /\ schedules'[s].type = schedules[s].type
    /\ schedules'[s].template = schedules[s].template
    /\ schedules'[s].executors = schedules[s].executors
    /\ schedules[s].at = "granted" => schedules'[s] = schedules[s]

-----------------------------------------------------------------------------
(* The trust level.                                                        *)

LEMMA RowsTyped ==
  /\ DOMAIN g_generationAtl = 1..6
  /\ \A i \in 1..6 : /\ g_generationAtl[i].atl \in Nat
                     /\ g_generationAtl[i].acl \in Nat
                     /\ g_generationAtl[i].asl \in Nat
  /\ g_generationAtl[6] = [atl |-> 0, acl |-> 0, asl |-> 0]
  /\ \A i, j \in 1..6 : i <= j => g_generationAtl[j].atl <= g_generationAtl[i].atl
BY DEF g_generationAtl

\* The loop always stops at a row: the last one asks for nothing.
LEMMA FirstRowFound ==
  ASSUME NEW asl \in Nat, NEW acl \in Nat
  PROVE  /\ FirstRow(asl, acl) \in 1..6
         /\ Satisfies(asl, acl, g_generationAtl[FirstRow(asl, acl)])
         /\ \A j \in 1..(FirstRow(asl, acl) - 1) : ~Satisfies(asl, acl, g_generationAtl[j])
<1> DEFINE S(i) == Satisfies(asl, acl, g_generationAtl[i])
<1>1. S(6)
  BY RowsTyped DEF Satisfies
<1>2. \E i \in 1..6 : S(i) /\ \A j \in 1..(i - 1) : ~S(j)
  <2> HIDE DEF S
  <2>1. CASE S(1)
    BY <2>1
  <2>2. CASE ~S(1) /\ S(2)
    BY <2>2
  <2>3. CASE ~S(1) /\ ~S(2) /\ S(3)
    BY <2>3
  <2>4. CASE ~S(1) /\ ~S(2) /\ ~S(3) /\ S(4)
    BY <2>4
  <2>5. CASE ~S(1) /\ ~S(2) /\ ~S(3) /\ ~S(4) /\ S(5)
    BY <2>5
  <2>6. CASE ~S(1) /\ ~S(2) /\ ~S(3) /\ ~S(4) /\ ~S(5)
    BY <1>1, <2>6
  <2>. QED BY <2>1, <2>2, <2>3, <2>4, <2>5, <2>6
<1>. QED BY <1>2, RowsTyped DEF FirstRow

\* The level the code computes (auth_level.c:123) is the highest that any row of its
\* table gives to the secure level of the executors and the capability level of the
\* credential: stopping at the first row that is satisfied loses nothing.
THEOREM TrustLevelIsHighest ==
  ASSUME NEW asl \in Nat, NEW acl \in Nat
  PROVE  /\ \E i \in 1..6 : /\ Satisfies(asl, acl, g_generationAtl[i])
                            /\ TrustLevel(asl, acl) = g_generationAtl[i].atl
         /\ \A i \in 1..6 : Satisfies(asl, acl, g_generationAtl[i]) =>
              g_generationAtl[i].atl <= TrustLevel(asl, acl)
<1> DEFINE f == FirstRow(asl, acl)
<1>1. /\ f \in 1..6 /\ Satisfies(asl, acl, g_generationAtl[f])
      /\ \A j \in 1..(f - 1) : ~Satisfies(asl, acl, g_generationAtl[j])
  BY FirstRowFound
<1>2. TrustLevel(asl, acl) = g_generationAtl[f].atl
  BY DEF TrustLevel
<1> HIDE DEF f
<1>3. ASSUME NEW i \in 1..6, Satisfies(asl, acl, g_generationAtl[i])
      PROVE  g_generationAtl[i].atl <= g_generationAtl[f].atl
  <2>1. ~(i \in 1..(f - 1))
    BY <1>1, <1>3
  <2>2. f <= i
    BY <2>1, <1>1
  <2>. QED BY <2>2, <1>1, RowsTyped
<1>. QED BY <1>1, <1>2, <1>3

\* More secure executors and more capable credentials never lower the trust level.
THEOREM TrustLevelMonotone ==
  ASSUME NEW asl \in Nat, NEW acl \in Nat, NEW asl2 \in Nat, NEW acl2 \in Nat,
         asl <= asl2, acl <= acl2
  PROVE  TrustLevel(asl, acl) <= TrustLevel(asl2, acl2)
<1>1. PICK i \in 1..6 : /\ Satisfies(asl, acl, g_generationAtl[i])
                        /\ TrustLevel(asl, acl) = g_generationAtl[i].atl
  BY TrustLevelIsHighest
<1>2. Satisfies(asl2, acl2, g_generationAtl[i])
  BY <1>1, RowsTyped DEF Satisfies
<1>. QED BY <1>1, <1>2, TrustLevelIsHighest

\* The level GetAsl finds is one that no executor is below.
LEMMA AslIsLowest ==
  ASSUME NEW es \in SUBSET Executors
  PROVE  GetAsl(es) \in 0..4 /\ \A e \in es : GetAsl(es) <= Esl[e]
<1> DEFINE P(l) == \A e \in es : l <= Esl[e]
           Q(l) == \E e \in es : l = Esl[e]
<1>1. \A e \in es : Esl[e] \in Nat
  BY AuthAssumption
<1>2. P(0)
  BY <1>1
<1>3. \A l \in 0..3 : P(l) /\ ~Q(l) => P(l + 1)
  BY <1>1
<1>4. \E l \in 0..4 : P(l) /\ (l = 4 \/ Q(l))
  <2> HIDE DEF P, Q
  <2>1. CASE \E l \in 0..3 : P(l) /\ Q(l)
    BY <2>1
  <2>2. CASE \A l \in 0..3 : P(l) => ~Q(l)
    <3>1. P(1)
      BY <1>2, <1>3, <2>2
    <3>2. P(2)
      BY <3>1, <1>3, <2>2
    <3>3. P(3)
      BY <3>2, <1>3, <2>2
    <3>4. P(4)
      BY <3>3, <1>3, <2>2
    <3>. QED BY <3>4
  <2>. QED BY <2>1, <2>2
<1>5. GetAsl(es) = CHOOSE l \in 0..4 : P(l) /\ (l = 4 \/ Q(l))
  BY Zenon DEF GetAsl, MAX_ASL
<1>6. GetAsl(es) \in 0..4 /\ P(GetAsl(es))
  <2> HIDE DEF P, Q
  <2>. QED BY <1>4, <1>5
<1>. QED BY <1>6

-----------------------------------------------------------------------------
(* What adding and deleting make of a user is a user.                      *)

LEMMA AdditionsTyped ==
  ASSUME NEW info \in UserInfo, NEW t \in AuthTypes, NEW new \in Additions(info, t)
  PROVE  /\ new.info \in UserInfo /\ new.id \in Ids \cup {None}
         /\ \A d \in new.info.creds \ info.creds : d.type = t
<1>1. CASE new = [info |-> info, id |-> None]
  BY <1>1
<1>2. ASSUME NEW i \in Ids,
             new = [info |-> [info EXCEPT !.creds = @ \cup {[id |-> i, type |-> t]},
                                          !.enrolled = @ \cup {t}],
                    id |-> i]
      PROVE  /\ new.info \in UserInfo /\ new.id \in Ids \cup {None}
             /\ \A d \in new.info.creds \ info.creds : d.type = t
  <2> DEFINE added == [info EXCEPT !.creds = @ \cup {[id |-> i, type |-> t]},
                                   !.enrolled = @ \cup {t}]
  <2>1. new.info = added /\ new.id = i
    BY <1>2
  <2>2. info.creds \cup {[id |-> i, type |-> t]} \subseteq Credential
    BY DEF UserInfo, Credential
  <2>3. info.enrolled \cup {t} \subseteq AuthTypes
    BY DEF UserInfo
  <2>4. added \in UserInfo
    BY <2>2, <2>3 DEF UserInfo
  <2>5. \A d \in added.creds \ info.creds : d = [id |-> i, type |-> t]
    BY DEF UserInfo
  <2>. QED BY <2>1, <2>4, <2>5
<1>3. ASSUME NEW e \in SUBSET AuthTypes,
             new = [info |-> [info EXCEPT !.enrolled = e], id |-> None]
      PROVE  /\ new.info \in UserInfo /\ new.id \in Ids \cup {None}
             /\ \A d \in new.info.creds \ info.creds : d.type = t
  BY <1>3 DEF UserInfo
<1>4. info.enrolled \in SUBSET AuthTypes /\ info.enrolled \cup {t} \in SUBSET AuthTypes
  BY DEF UserInfo
<1>5. \/ new = [info |-> info, id |-> None]
      \/ \E i \in Ids :
           new = [info |-> [info EXCEPT !.creds = @ \cup {[id |-> i, type |-> t]},
                                        !.enrolled = @ \cup {t}],
                  id |-> i]
      \/ \E e \in SUBSET AuthTypes :
           new = [info |-> [info EXCEPT !.enrolled = e], id |-> None]
  BY <1>4 DEF Additions, FreshIds
<1>. QED BY <1>1, <1>2, <1>3, <1>5

LEMMA EnrolmentsTyped ==
  ASSUME NEW info \in UserInfo, NEW t \in AuthTypes, NEW new \in Enrolments(info, t)
  PROVE  /\ new.info \in UserInfo /\ new.id \in Ids \cup {None}
         /\ \A d \in new.info.creds \ info.creds : d.type = t
         /\ t # Pin => info.listed
<1>1. CASE info.listed
  <2>1. new \in Additions(info, t)
    BY <1>1 DEF Enrolments
  <2>. QED BY <1>1, <2>1, AdditionsTyped
<1>2. CASE ~info.listed
  <2>1. t = Pin
    BY <1>2 DEF Enrolments
  <2>2. PICK n \in Additions(info, t) :
          new = [info |-> [n.info EXCEPT !.listed = TRUE], id |-> n.id]
    BY <1>2, <2>1 DEF Enrolments
  <2>3. /\ n.info \in UserInfo /\ n.id \in Ids \cup {None}
        /\ \A d \in n.info.creds \ info.creds : d.type = t
    BY <2>2, AdditionsTyped
  <2>4. [n.info EXCEPT !.listed = TRUE] \in UserInfo
        /\ [n.info EXCEPT !.listed = TRUE].creds = n.info.creds
    BY <2>3 DEF UserInfo
  <2>. QED BY <2>1, <2>2, <2>3, <2>4
<1>. QED BY <1>1, <1>2

LEMMA WithoutTyped ==
  ASSUME NEW info \in UserInfo, NEW d
  PROVE  Without(info, d) \in UserInfo /\ Without(info, d).creds \subseteq info.creds
         /\ Without(info, d).listed = info.listed
BY DEF Without, UserInfo

LEMMA NoUserTyped == NoUser \in UserInfo /\ NoUser.creds = {} /\ NoUser.listed = FALSE
BY DEF NoUser, UserInfo

-----------------------------------------------------------------------------
(* Type correctness.                                                       *)

LEMMA FoundAreExecutors ==
  ASSUME AuthTypeOK, NEW t \in AuthTypes, NEW es \in QueryExecutor(t)
  PROVE  es \subseteq ExecutorsOf(t) /\ es \subseteq Executors
         /\ (~Skips => es = ExecutorsOf(t))
BY DEF QueryExecutor, ExecutorsOf, AuthTypeOK

LEMMA AddScheduleTyped ==
  ASSUME AuthTypeOK, NEW s \in Schedules, NEW m \in {"auth", "enrol"}, NEW t \in AuthTypes,
         NEW i \in Ids \cup {None}, AddSchedule(s, m, t, i)
  PROVE  schedules' \in [Schedules -> Schedule]
<1>1. PICK es \in QueryExecutor(t) :
        schedules' = [schedules EXCEPT ![s] =
          [at |-> "listed", mode |-> m, type |-> t, executors |-> es,
           template |-> i, time |-> 0]]
  BY DEF AddSchedule
<1>2. es \subseteq Executors /\ 0 \in Times
  BY FoundAreExecutors, AuthAssumption DEF Times
<1>3. [at |-> "listed", mode |-> m, type |-> t, executors |-> es,
       template |-> i, time |-> 0] \in Schedule
  BY <1>2 DEF Schedule
<1>. QED BY <1>1, <1>3 DEF AuthTypeOK

LEMMA InitTyped == AuthInit => AuthTypeOK
<1> SUFFICES ASSUME AuthInit PROVE AuthTypeOK
  OBVIOUS
<1>1. 0 \in Times
  BY AuthAssumption DEF Times
<1>2. NewSchedule \in Schedule
  BY <1>1, AuthAssumption DEF NewSchedule, Schedule
<1>. QED BY <1>1, <1>2, NoUserTyped DEF AuthInit, AuthTypeOK

LEMMA GenerateTyped ==
  ASSUME AuthTypeOK, NEW c \in Contexts, NEW u \in Users, NEW t \in AuthTypes,
         NEW h \in Challenges, NEW l \in Asked, GenerateContext(c, u, t, h, l)
  PROVE  AuthTypeOK'
<1>1. PICK d \in OfType(users[u], t), s \in Schedules :
        /\ AddSchedule(s, "auth", t, d.id)
        /\ \/ contexts' = [contexts EXCEPT ![c] =
                [user |-> u, type |-> t, challenge |-> h, atl |-> l, waits |-> {s}]]
           \/ UNCHANGED contexts
  BY DEF GenerateContext
<1>2. d.id \in Ids
  BY DEF AuthTypeOK, OfType, UserInfo, Credential
<1>3. schedules' \in [Schedules -> Schedule]
  BY <1>1, <1>2, AddScheduleTyped
<1>4. [user |-> u, type |-> t, challenge |-> h, atl |-> l, waits |-> {s}] \in Context
  BY DEF Context
<1>5. contexts' \in [Contexts -> Context \cup {None}]
  BY <1>1, <1>4 DEF AuthTypeOK
<1>. QED BY <1>3, <1>5 DEF AuthTypeOK, GenerateContext

LEMMA SignTyped ==
  ASSUME AuthTypeOK, NEW c \in Contexts, NEW s \in Schedules, contexts[c] # None,
         Sign(c, s) \/ CannotSign(c)
  PROVE  authTokens' \subseteq AuthToken /\ results' \in [Schedules -> Nat]
<1>1. contexts[c] \in Context
  BY DEF AuthTypeOK
<1>2. CASE CannotSign(c)
  BY <1>2 DEF CannotSign, AuthTypeOK
<1>3. CASE Sign(c, s)
  <2>1. [from |-> s, user |-> contexts[c].user, type |-> contexts[c].type,
         challenge |-> contexts[c].challenge, atl |-> contexts[c].atl, time |-> now]
          \in AuthToken
    BY <1>1 DEF Context, AuthToken, AuthTypeOK
  <2>2. authTokens' \subseteq AuthToken
    BY <1>3, <2>1 DEF Sign, AuthTypeOK
  <2>3. results' \in [Schedules -> Nat]
    BY <1>3 DEF Sign, AuthTypeOK
  <2>. QED BY <2>2, <2>3
<1>. QED BY <1>2, <1>3

LEMMA AuthStepTyped ==
  ASSUME AuthTypeOK, AuthStep
  PROVE  AuthTypeOK'
<1>1. ASSUME NEW c \in Contexts, ContextCall(c)
      PROVE  AuthTypeOK'
  <2>1. ASSUME NEW u \in Users, NEW t \in AuthTypes, NEW h \in Challenges, NEW l \in Asked,
               GenerateContext(c, u, t, h, l)
        PROVE  AuthTypeOK'
    BY <2>1, GenerateTyped
  <2>2. ASSUME NEW s \in Schedules, RequestAuthResult(c, s)
        PROVE  AuthTypeOK'
    <3>1. authTokens' \subseteq AuthToken /\ results' \in [Schedules -> Nat]
      <4>1. CASE UNCHANGED <<authTokens, results>>
        BY <4>1 DEF AuthTypeOK
      <4>2. CASE Sign(c, s) \/ CannotSign(c)
        BY <4>2, <2>2, SignTyped DEF RequestAuthResult
      <4>. QED BY <4>1, <4>2, <2>2 DEF RequestAuthResult
    <3>. QED BY <3>1, <2>2 DEF RequestAuthResult, DestoryContext, AuthTypeOK
  <2>3. CASE CancelContext(c)
    BY <2>3 DEF CancelContext, DestoryContext, AuthTypeOK
  <2>. QED BY <1>1, <2>1, <2>2, <2>3 DEF ContextCall
<1>2. ASSUME NEW s \in Schedules, ScheduleFinish(s) \/ RemoveSchedule(s)
      PROVE  AuthTypeOK'
  <2>1. schedules[s] \in Schedule /\ now \in Times
    BY DEF AuthTypeOK
  <2>2. /\ [schedules[s] EXCEPT !.at = "granted", !.time = now] \in Schedule
        /\ [schedules[s] EXCEPT !.at = "dropped"] \in Schedule
    BY <2>1 DEF Schedule
  <2>3. schedules' \in [Schedules -> Schedule]
    BY <1>2, <2>2 DEF ScheduleFinish, RemoveSchedule, AuthTypeOK
  <2>. QED BY <1>2, <2>3 DEF ScheduleFinish, RemoveSchedule, AuthTypeOK
<1>3. ASSUME NEW e \in Executors, PoolChanges(e)
      PROVE  AuthTypeOK'
  BY <1>3 DEF PoolChanges, AuthTypeOK
<1>4. CASE Tick
  BY <1>4, AuthAssumption DEF Tick, AuthTypeOK, Times
<1>. QED BY <1>1, <1>2, <1>3, <1>4 DEF AuthStep

LEMMA EnrolmentTyped ==
  ASSUME AuthTypeOK, NEW u \in Users, EnrolmentChanges(u)
  PROVE  AuthTypeOK'
<1>1. users[u] \in UserInfo
  BY DEF AuthTypeOK
<1>2. ASSUME NEW info \in UserInfo, users' = [users EXCEPT ![u] = info]
      PROVE  users' \in [Users -> UserInfo]
  BY <1>2 DEF AuthTypeOK
<1>3. users' \in [Users -> UserInfo]
  <2>1. ASSUME NEW d \in PinOf(users[u]), NEW new \in Enrolments(Without(users[u], d), Pin),
               users' = [users EXCEPT ![u] = new.info]
        PROVE  users' \in [Users -> UserInfo]
    BY <1>1, <1>2, <2>1, EnrolmentsTyped, WithoutTyped, AuthAssumption
  <2>. QED BY <1>1, <1>2, <2>1, EnrolmentsTyped, WithoutTyped, NoUserTyped
           DEF EnrolmentChanges
<1>. QED BY <1>3 DEF EnrolmentChanges, AuthTypeOK

LEMMA GenerateIdmScheduleTyped ==
  ASSUME AuthTypeOK, NEW s \in Schedules, NEW t \in AuthTypes, GenerateIdmSchedule(s, t)
  PROVE  AuthTypeOK'
<1>1. schedules' \in [Schedules -> Schedule]
  BY AddScheduleTyped DEF GenerateIdmSchedule
<1>. QED BY <1>1 DEF GenerateIdmSchedule, AuthTypeOK

\* Whatever is called in whatever order, every variable keeps to its type: a context
\* waits for schedules there are, a result claims a level that was asked for.
THEOREM AuthTypeCorrect == AuthSpec => []AuthTypeOK
<1>1. AuthTypeOK /\ [AuthNext]_authVars => AuthTypeOK'
  <2> SUFFICES ASSUME AuthTypeOK, [AuthNext]_authVars PROVE AuthTypeOK'
    OBVIOUS
  <2>1. CASE AuthStep
    BY <2>1, AuthStepTyped
  <2>2. ASSUME NEW u \in Users, EnrolmentChanges(u) PROVE AuthTypeOK'
    BY <2>2, EnrolmentTyped
  <2>3. ASSUME NEW s \in Schedules, NEW t \in AuthTypes, GenerateIdmSchedule(s, t)
        PROVE  AuthTypeOK'
    BY <2>3, GenerateIdmScheduleTyped
  <2>4. CASE UNCHANGED authVars
    BY <2>4 DEF authVars, AuthTypeOK
  <2>. QED BY <2>1, <2>2, <2>3, <2>4 DEF AuthNext
<1>. QED BY InitTyped, <1>1, PTL DEF AuthSpec

-----------------------------------------------------------------------------
(* The invariant.                                                          *)

LEMMA AddScheduleKeeps ==
  ASSUME AuthTypeOK, NEW s \in Schedules, NEW m, NEW t, NEW i, AddSchedule(s, m, t, i)
  PROVE  /\ \A r \in Schedules : Kept(r) /\ (r # s => schedules'[r] = schedules[r])
         /\ schedules[s].at = "new"
         /\ \E es \in QueryExecutor(t) :
              schedules'[s] = [at |-> "listed", mode |-> m, type |-> t,
                               executors |-> es, template |-> i, time |-> 0]
<1>1. PICK es \in QueryExecutor(t) :
        schedules' = [schedules EXCEPT ![s] =
          [at |-> "listed", mode |-> m, type |-> t, executors |-> es,
           template |-> i, time |-> 0]]
  BY DEF AddSchedule
<1>. QED BY <1>1 DEF AddSchedule, AuthTypeOK, Kept

LEMMA EndKeeps ==
  ASSUME AuthTypeOK, NEW s \in Schedules, ScheduleFinish(s) \/ RemoveSchedule(s)
  PROVE  \A r \in Schedules :
           /\ Kept(r)
           /\ schedules'[r].at = "new" => schedules[r].at = "new"
<1>1. schedules[s] \in Schedule
  BY DEF AuthTypeOK
<1>2. \A r \in Schedules : r # s => schedules'[r] = schedules[r]
  BY DEF ScheduleFinish, RemoveSchedule, AuthTypeOK
<1>3. /\ schedules[s].at = "listed"
      /\ \/ schedules'[s] = [schedules[s] EXCEPT !.at = "granted", !.time = now]
         \/ schedules'[s] = [schedules[s] EXCEPT !.at = "dropped"]
  BY DEF ScheduleFinish, RemoveSchedule, AuthTypeOK
<1>4. Kept(s) /\ schedules'[s].at # "new"
  BY <1>1, <1>3 DEF Kept, Schedule
<1>. QED BY <1>2, <1>4 DEF Kept

\* Steps that only touch schedules preserve what is said of the rest.
LEMMA KeptPreserves ==
  ASSUME AuthTypeOK, AuthInv, UNCHANGED <<contexts, authTokens, results>>,
         \A r \in Schedules : Kept(r) /\ (schedules'[r].at = "new" => schedules[r].at = "new")
  PROVE  AuthInv'
<1>1. EachAwaitsItsOwn'
  BY DEF AuthInv, EachAwaitsItsOwn, Kept
<1>2. OneResult'
  <2> SUFFICES ASSUME NEW s \in Schedules
               PROVE  /\ results'[s] <= 1
                      /\ Awaited(s)' => results'[s] = 0
                      /\ \A a \in authTokens' : a.from = s =>
                           schedules'[s].at = "granted" /\ schedules'[s].type = a.type
    BY DEF OneResult
  <2>1. results'[s] <= 1 /\ (Awaited(s)' => results'[s] = 0)
    BY DEF AuthInv, OneResult, Awaited
  <2>2. ASSUME NEW a \in authTokens', a.from = s
        PROVE  schedules'[s].at = "granted" /\ schedules'[s].type = a.type
    BY <2>2 DEF AuthInv, OneResult, Kept
  <2>. QED BY <2>1, <2>2
<1>3. NewLedToNothing'
  BY DEF AuthInv, NewLedToNothing
<1>4. ContextsBacked'
  <2> SUFFICES ASSUME NEW c \in Contexts, contexts[c] # None, NEW s \in contexts[c].waits
               PROVE  Backed(contexts[c].atl, schedules'[s])
    BY DEF ContextsBacked, Backed
  <2>1. s \in Schedules /\ schedules[s].at # "new"
    BY DEF AuthInv, EachAwaitsItsOwn
  <2>2. Backed(contexts[c].atl, schedules[s])
    BY DEF AuthInv, ContextsBacked
  <2>. QED BY <2>1, <2>2 DEF Kept, Backed
<1>5. TokensBacked'
  <2> SUFFICES ASSUME NEW a \in authTokens PROVE Backed(a.atl, schedules'[a.from])
    BY DEF TokensBacked, Backed
  <2>1. a.from \in Schedules /\ schedules[a.from].at = "granted"
    BY DEF AuthInv, OneResult, AuthTypeOK, AuthToken
  <2>2. schedules'[a.from] = schedules[a.from]
    BY <2>1 DEF Kept
  <2>. QED BY <2>2 DEF AuthInv, TokensBacked
<1>. QED BY <1>1, <1>2, <1>3, <1>4, <1>5 DEF AuthInv

\* The level that GenerateContext accepts is backed by the schedule it generates.
LEMMA LevelAccepted ==
  ASSUME AuthTypeOK, NEW t \in AuthTypes, NEW d, d.id \in Ids, NEW l \in Asked,
         NEW level \in TrustLevels(t, d), l <= level,
         NEW schedule, schedule.template = d.id, schedule.executors \in QueryExecutor(t)
  PROVE  Backed(l, schedule)
<1> SUFFICES ASSUME ~Skips
             PROVE  \E i \in DOMAIN g_generationAtl :
                      /\ l <= g_generationAtl[i].atl
                      /\ Acl[d.id] >= g_generationAtl[i].acl
                      /\ \A e \in schedule.executors : Esl[e] >= g_generationAtl[i].asl
  BY DEF Backed
<1> DEFINE es == schedule.executors
<1>1. es \in SUBSET Executors /\ level = TrustLevel(GetAsl(es), Acl[d.id])
  BY FoundAreExecutors DEF TrustLevels
<1>2. /\ GetAsl(es) \in 0..4 /\ Acl[d.id] \in Nat /\ l \in Nat
      /\ \A e \in es : Esl[e] \in Nat /\ GetAsl(es) <= Esl[e]
  BY <1>1, AslIsLowest, AuthAssumption
<1>3. PICK r \in 1..6 : /\ Satisfies(GetAsl(es), Acl[d.id], g_generationAtl[r])
                        /\ TrustLevel(GetAsl(es), Acl[d.id]) = g_generationAtl[r].atl
  <2> DEFINE asl == GetAsl(es)
             acl == Acl[d.id]
  <2>1. asl \in 0..4 /\ acl \in Nat
    BY <1>2
  <2>. HIDE DEF asl, acl
  <2>2. asl \in Nat
    BY <2>1
  <2>3. \E r \in 1..6 : /\ Satisfies(asl, acl, g_generationAtl[r])
                       /\ TrustLevel(asl, acl) = g_generationAtl[r].atl
    BY <2>1, <2>2, TrustLevelIsHighest, Zenon
  <2>. QED BY <2>3 DEF asl, acl
<1>4. \A e \in es : Esl[e] >= g_generationAtl[r].asl
  BY <1>2, <1>3, RowsTyped DEF Satisfies
<1>. QED BY <1>1, <1>2, <1>3, <1>4, RowsTyped DEF Satisfies

LEMMA GenerateKeepsInv ==
  ASSUME AuthTypeOK, AuthInv, NEW c \in Contexts, NEW u \in Users, NEW t \in AuthTypes,
         NEW h \in Challenges, NEW l \in Asked, GenerateContext(c, u, t, h, l)
  PROVE  AuthInv'
<1>1. PICK d \in OfType(users[u], t), s \in Schedules :
        /\ \E level \in TrustLevels(t, d) : l <= level
        /\ AddSchedule(s, "auth", t, d.id)
        /\ \/ contexts' = [contexts EXCEPT ![c] =
                [user |-> u, type |-> t, challenge |-> h, atl |-> l, waits |-> {s}]]
           \/ UNCHANGED contexts
  BY DEF GenerateContext
<1>2. d.id \in Ids
  BY DEF AuthTypeOK, OfType, UserInfo, Credential
<1>3. /\ \A r \in Schedules : Kept(r) /\ (r # s => schedules'[r] = schedules[r])
      /\ schedules[s].at = "new"
      /\ schedules'[s].at = "listed" /\ schedules'[s].mode = "auth"
      /\ schedules'[s].type = t /\ schedules'[s].template = d.id
      /\ schedules'[s].executors \in QueryExecutor(t)
  <2>1. AddSchedule(s, "auth", t, d.id)
    BY <1>1
  <2>2. /\ \A r \in Schedules : Kept(r) /\ (r # s => schedules'[r] = schedules[r])
        /\ schedules[s].at = "new"
    BY <2>1, AddScheduleKeeps
  <2>3. PICK es \in QueryExecutor(t) :
          schedules'[s] = [at |-> "listed", mode |-> "auth", type |-> t,
                           executors |-> es, template |-> d.id, time |-> 0]
    BY <2>1, AddScheduleKeeps
  <2>. QED BY <2>2, <2>3
<1>4. UNCHANGED <<authTokens, results>> /\ contexts[c] = None
  BY DEF GenerateContext
<1>5. CASE UNCHANGED contexts
  BY <1>3, <1>4, <1>5, KeptPreserves
<1>6. CASE contexts' = [contexts EXCEPT ![c] =
             [user |-> u, type |-> t, challenge |-> h, atl |-> l, waits |-> {s}]]
  <2>1. /\ contexts'[c] = [user |-> u, type |-> t, challenge |-> h, atl |-> l, waits |-> {s}]
        /\ \A b \in Contexts \ {c} : contexts'[b] = contexts[b]
    BY <1>6 DEF AuthTypeOK
  <2>2. \A b \in Contexts : contexts[b] # None => s \notin contexts[b].waits
    BY <1>3 DEF AuthInv, EachAwaitsItsOwn
  <2>3. EachAwaitsItsOwn'
    <3> SUFFICES ASSUME NEW b \in Contexts, contexts'[b] # None
                 PROVE  \E r \in Schedules :
                          /\ contexts'[b].waits = {r}
                          /\ schedules'[r].at # "new" /\ schedules'[r].mode = "auth"
                          /\ schedules'[r].type = contexts'[b].type
                          /\ \A e \in Contexts \ {b} :
                               contexts'[e] # None => r \notin contexts'[e].waits
      BY DEF EachAwaitsItsOwn
    <3>1. CASE b = c
      BY <3>1, <2>1, <2>2, <1>3
    <3>2. CASE b # c
      <4>1. PICK r \in Schedules :
              /\ contexts[b].waits = {r}
              /\ schedules[r].at # "new" /\ schedules[r].mode = "auth"
              /\ schedules[r].type = contexts[b].type
              /\ \A e \in Contexts \ {b} : contexts[e] # None => r \notin contexts[e].waits
        BY <3>2, <2>1 DEF AuthInv, EachAwaitsItsOwn
      <4>2. r # s
        BY <4>1, <1>3
      <4>3. \A e \in Contexts \ {b} : contexts'[e] # None => r \notin contexts'[e].waits
        BY <4>1, <4>2, <2>1
      <4>. QED BY <3>2, <2>1, <4>1, <4>3, <1>3 DEF Kept
    <3>. QED BY <3>1, <3>2
  <2>4. OneResult'
    <3> SUFFICES ASSUME NEW r \in Schedules
                 PROVE  /\ results'[r] <= 1
                        /\ Awaited(r)' => results'[r] = 0
                        /\ \A a \in authTokens' : a.from = r =>
                             schedules'[r].at = "granted" /\ schedules'[r].type = a.type
      BY DEF OneResult
    <3>1. Awaited(r)' => Awaited(r) \/ r = s
      BY <2>1 DEF Awaited
    <3>2. Awaited(r)' => results'[r] = 0
      BY <3>1, <1>3, <1>4 DEF AuthInv, OneResult, NewLedToNothing
    <3>3. ASSUME NEW a \in authTokens', a.from = r
          PROVE  schedules'[r].at = "granted" /\ schedules'[r].type = a.type
      BY <3>3, <1>3, <1>4 DEF AuthInv, OneResult, Kept
    <3>. QED BY <3>2, <3>3, <1>4 DEF AuthInv, OneResult
  <2>5. NewLedToNothing'
    BY <1>3, <1>4 DEF AuthInv, NewLedToNothing
  <2>6. ContextsBacked'
    <3> SUFFICES ASSUME NEW b \in Contexts, contexts'[b] # None, NEW r \in contexts'[b].waits
                 PROVE  Backed(contexts'[b].atl, schedules'[r])
      BY DEF ContextsBacked, Backed
    <3>1. CASE b = c
      <4>1. r = s /\ contexts'[b].atl = l
        BY <3>1, <2>1
      <4>. QED BY <4>1, <1>1, <1>2, <1>3, LevelAccepted
    <3>2. CASE b # c
      <4>1. contexts'[b] = contexts[b] /\ r # s /\ r \in Schedules
        BY <3>2, <2>1, <2>2 DEF AuthTypeOK, Context
      <4>. QED BY <4>1, <1>3 DEF AuthInv, ContextsBacked
    <3>. QED BY <3>1, <3>2
  <2>7. TokensBacked'
    <3> SUFFICES ASSUME NEW a \in authTokens PROVE Backed(a.atl, schedules'[a.from])
      BY <1>4 DEF TokensBacked, Backed
    <3>1. a.from \in Schedules /\ schedules[a.from].at = "granted"
      BY DEF AuthInv, OneResult, AuthTypeOK, AuthToken
    <3>. QED BY <3>1, <1>3 DEF AuthInv, TokensBacked, Kept
  <2>. QED BY <2>3, <2>4, <2>5, <2>6, <2>7 DEF AuthInv
<1>. QED BY <1>1, <1>5, <1>6

\* Ending a context, with no result.
LEMMA DestroyKeepsInv ==
  ASSUME AuthTypeOK, AuthInv, NEW c \in Contexts, DestoryContext(c),
         UNCHANGED <<schedules, authTokens, results>>
  PROVE  AuthInv'
<1>1. contexts'[c] = None /\ \A b \in Contexts \ {c} : contexts'[b] = contexts[b]
  BY DEF DestoryContext, AuthTypeOK
<1>2. EachAwaitsItsOwn'
  BY <1>1 DEF AuthInv, EachAwaitsItsOwn
<1>3. OneResult' /\ NewLedToNothing'
  BY <1>1 DEF AuthInv, OneResult, NewLedToNothing, Awaited
<1>4. ContextsBacked'
  BY <1>1 DEF AuthInv, ContextsBacked, Backed
<1>5. TokensBacked'
  BY DEF AuthInv, TokensBacked, Backed
<1>. QED BY <1>2, <1>3, <1>4, <1>5 DEF AuthInv

LEMMA SignKeepsInv ==
  ASSUME AuthTypeOK, AuthInv, NEW c \in Contexts, NEW s \in Schedules, contexts[c] # None,
         s \in contexts[c].waits, schedules[s].at = "granted",
         Sign(c, s), DestoryContext(c), UNCHANGED schedules
  PROVE  AuthInv'
<1>1. contexts'[c] = None /\ \A b \in Contexts \ {c} : contexts'[b] = contexts[b]
  BY DEF DestoryContext, AuthTypeOK
<1>2. /\ contexts[c].waits = {s} /\ schedules[s].type = contexts[c].type
      /\ \A b \in Contexts \ {c} : contexts[b] # None => s \notin contexts[b].waits
  BY DEF AuthInv, EachAwaitsItsOwn
<1>3. results[s] = 0
  BY DEF AuthInv, OneResult, Awaited
<1>4. results'[s] = 1 /\ \A r \in Schedules \ {s} : results'[r] = results[r]
  BY <1>3 DEF Sign, AuthTypeOK
<1>5. \A a \in authTokens' : \/ a \in authTokens
                            \/ /\ a.from = s /\ a.type = contexts[c].type
                               /\ a.atl = contexts[c].atl
  BY DEF Sign
<1>6. EachAwaitsItsOwn'
  BY <1>1 DEF AuthInv, EachAwaitsItsOwn
<1>7. OneResult'
  <2> SUFFICES ASSUME NEW r \in Schedules
               PROVE  /\ results'[r] <= 1
                      /\ Awaited(r)' => results'[r] = 0
                      /\ \A a \in authTokens' : a.from = r =>
                           schedules'[r].at = "granted" /\ schedules'[r].type = a.type
    BY DEF OneResult
  <2>1. results'[r] <= 1
    BY <1>4 DEF AuthInv, OneResult
  <2>2. Awaited(r)' => Awaited(r) /\ r # s
    BY <1>1, <1>2 DEF Awaited
  <2>3. Awaited(r)' => results'[r] = 0
    BY <2>2, <1>4 DEF AuthInv, OneResult
  <2>4. ASSUME NEW a \in authTokens', a.from = r
        PROVE  schedules'[r].at = "granted" /\ schedules'[r].type = a.type
    BY <2>4, <1>2, <1>5 DEF AuthInv, OneResult
  <2>. QED BY <2>1, <2>3, <2>4
<1>8. NewLedToNothing'
  BY <1>4 DEF AuthInv, NewLedToNothing
<1>9. ContextsBacked'
  BY <1>1 DEF AuthInv, ContextsBacked, Backed
<1>10. TokensBacked'
  <2> SUFFICES ASSUME NEW a \in authTokens' PROVE Backed(a.atl, schedules[a.from])
    BY DEF TokensBacked, Backed
  <2>. QED BY <1>5 DEF AuthInv, TokensBacked, ContextsBacked
<1>. QED BY <1>6, <1>7, <1>8, <1>9, <1>10 DEF AuthInv

LEMMA AuthStepKeepsInv ==
  ASSUME AuthTypeOK, AuthInv, AuthStep
  PROVE  AuthInv'
<1>1. ASSUME NEW c \in Contexts, ContextCall(c)
      PROVE  AuthInv'
  <2>1. ASSUME NEW u \in Users, NEW t \in AuthTypes, NEW h \in Challenges, NEW l \in Asked,
               GenerateContext(c, u, t, h, l)
        PROVE  AuthInv'
    BY <2>1, GenerateKeepsInv
  <2>2. ASSUME NEW s \in Schedules, RequestAuthResult(c, s)
        PROVE  AuthInv'
    <3>1. contexts[c] # None /\ schedules[s].at = "granted" /\ DestoryContext(c)
          /\ UNCHANGED schedules
      BY <2>2 DEF RequestAuthResult, CoAuthTokenValid
    <3>2. CASE s \in contexts[c].waits /\ Sign(c, s)
      BY <3>1, <3>2, SignKeepsInv
    <3>3. CASE UNCHANGED <<authTokens, results>>
      BY <3>1, <3>3, DestroyKeepsInv
    <3>. QED BY <2>2, <3>2, <3>3 DEF RequestAuthResult, CannotSign
  <2>3. CASE CancelContext(c)
    BY <2>3, DestroyKeepsInv DEF CancelContext
  <2>. QED BY <1>1, <2>1, <2>2, <2>3 DEF ContextCall
<1>2. ASSUME NEW s \in Schedules, ScheduleFinish(s) \/ RemoveSchedule(s)
      PROVE  AuthInv'
  <2>1. UNCHANGED <<contexts, authTokens, results>>
    BY <1>2 DEF ScheduleFinish, RemoveSchedule
  <2>. QED BY <1>2, <2>1, EndKeeps, KeptPreserves
<1>3. CASE UNCHANGED <<schedules, contexts, authTokens, results>>
  BY <1>3, KeptPreserves DEF Kept
<1>. QED BY <1>1, <1>2, <1>3 DEF AuthStep, PoolChanges, Tick

LEMMA AuthInitInv == AuthInit => AuthInv
BY DEF AuthInit, AuthInv, EachAwaitsItsOwn, OneResult, NewLedToNothing, ContextsBacked,
       TokensBacked, Awaited

\* No interleaving of calls, results, expiries and changes of executors breaks the
\* invariant of contexts.
THEOREM AuthInvariant == AuthSpec => [](AuthTypeOK /\ AuthInv)
<1>1. AuthInit => AuthTypeOK /\ AuthInv
  BY InitTyped, AuthInitInv
<1>2. AuthTypeOK /\ AuthInv /\ [AuthNext]_authVars => (AuthTypeOK /\ AuthInv)'
  <2> SUFFICES ASSUME AuthTypeOK, AuthInv, [AuthNext]_authVars
               PROVE  AuthTypeOK' /\ AuthInv'
    OBVIOUS
  <2>1. CASE AuthStep
    BY <2>1, AuthStepTyped, AuthStepKeepsInv
  <2>2. ASSUME NEW u \in Users, EnrolmentChanges(u) PROVE AuthTypeOK' /\ AuthInv'
    <3>1. UNCHANGED <<schedules, contexts, authTokens, results>>
      BY <2>2 DEF EnrolmentChanges
    <3>. QED BY <2>2, <3>1, EnrolmentTyped, KeptPreserves DEF Kept
  <2>3. ASSUME NEW s \in Schedules, NEW t \in AuthTypes, GenerateIdmSchedule(s, t)
        PROVE  AuthTypeOK' /\ AuthInv'
    <3>1. UNCHANGED <<contexts, authTokens, results>>
      BY <2>3 DEF GenerateIdmSchedule
    <3>2. AddSchedule(s, "enrol", t, None)
      BY <2>3 DEF GenerateIdmSchedule
    <3>3. \A r \in Schedules :
            Kept(r) /\ (schedules'[r].at = "new" => schedules[r].at = "new")
      <4>1. /\ \A r \in Schedules : Kept(r) /\ (r # s => schedules'[r] = schedules[r])
            /\ schedules[s].at = "new"
        BY <3>2, AddScheduleKeeps
      <4>. QED BY <4>1
    <3>. QED BY <2>3, <3>1, <3>3, GenerateIdmScheduleTyped, KeptPreserves
  <2>4. CASE UNCHANGED authVars
    <3>1. AuthTypeOK'
      BY <2>4 DEF authVars, AuthTypeOK
    <3>. QED BY <2>4, <3>1, KeptPreserves DEF authVars, Kept
  <2>. QED BY <2>1, <2>2, <2>3, <2>4 DEF AuthNext
<1>. QED BY <1>1, <1>2, PTL DEF AuthSpec

\* Every context waits for one schedule of its own, so no answer is lost to another.
THEOREM AwaitsItsOwn == AuthSpec => []EachAwaitsItsOwn
<1>1. AuthInv => EachAwaitsItsOwn
  BY DEF AuthInv
<1>. QED BY <1>1, AuthInvariant, PTL

\* A schedule leads to one signed result at most, and only after it was granted.
THEOREM ResultAtMostOnce == AuthSpec => []OneResult
<1>1. AuthInv => OneResult
  BY DEF AuthInv
<1>. QED BY <1>1, AuthInvariant, PTL

\* No result claims a level that its credential and its weakest executor do not have,
\* for any number of executors and any levels, as long as no query passes one over.
THEOREM LevelBacked == ~Skips => (AuthSpec => []LevelIsBacked)
<1> SUFFICES ASSUME ~Skips
             PROVE  AuthSpec => []LevelIsBacked
  OBVIOUS
<1>1. AuthInv => LevelIsBacked
  BY DEF AuthInv, TokensBacked, Backed, LevelIsBacked
<1>. QED BY <1>1, AuthInvariant, PTL

\* What a step may never do to a schedule that nothing waits for any more.
LeftAlone(s) ==
  schedules[s].at # "new" /\ ~Awaited(s) => ~Awaited(s)' /\ results'[s] = results[s]

LEMMA AuthStepLeavesAlone ==
  ASSUME AuthTypeOK, AuthInv, AuthStep, NEW s \in Schedules
  PROVE  LeftAlone(s)
<1>1. ASSUME NEW c \in Contexts, ContextCall(c)
      PROVE  LeftAlone(s)
  <2>1. ASSUME NEW u \in Users, NEW t \in AuthTypes, NEW h \in Challenges, NEW l \in Asked,
               GenerateContext(c, u, t, h, l)
        PROVE  LeftAlone(s)
    <3>1. PICK d, r \in Schedules :
            /\ schedules[r].at = "new"
            /\ \/ contexts' = [contexts EXCEPT ![c] =
                    [user |-> u, type |-> t, challenge |-> h, atl |-> l, waits |-> {r}]]
               \/ UNCHANGED contexts
      BY <2>1 DEF GenerateContext, AddSchedule
    <3>2. schedules[s].at # "new" => (Awaited(s)' => Awaited(s))
      BY <3>1 DEF Awaited, AuthTypeOK
    <3>. QED BY <2>1, <3>2 DEF GenerateContext, LeftAlone
  <2>2. ASSUME NEW r \in Schedules, RequestAuthResult(c, r)
        PROVE  LeftAlone(s)
    <3>1. Awaited(s)' => Awaited(s)
      BY <2>2 DEF RequestAuthResult, DestoryContext, Awaited, AuthTypeOK
    <3>2. ~Awaited(s) => results'[s] = results[s]
      BY <2>2 DEF RequestAuthResult, Sign, CannotSign, Awaited, AuthTypeOK
    <3>. QED BY <3>1, <3>2 DEF LeftAlone
  <2>3. CASE CancelContext(c)
    BY <2>3 DEF CancelContext, DestoryContext, Awaited, AuthTypeOK, LeftAlone
  <2>. QED BY <1>1, <2>1, <2>2, <2>3 DEF ContextCall
<1>2. CASE UNCHANGED <<contexts, results>>
  BY <1>2 DEF Awaited, LeftAlone
<1>. QED BY <1>1, <1>2 DEF AuthStep, ScheduleFinish, RemoveSchedule, PoolChanges, Tick

\* A schedule whose context is gone leads to nothing for ever after: not for the next
\* context with the same contextId, nor for any other.
THEOREM EndedStays == AuthSpec => EndedStaysEnded
<1>1. AuthTypeOK /\ AuthInv /\ [AuthNext]_authVars =>
        [\A s \in Schedules :
           schedules[s].at # "new" /\ ~Awaited(s) =>
             ~Awaited(s)' /\ results'[s] = results[s]]_authVars
  <2> SUFFICES ASSUME AuthTypeOK, AuthInv, AuthNext
               PROVE  \A s \in Schedules : LeftAlone(s)
    BY DEF LeftAlone
  <2>1. CASE AuthStep
    BY <2>1, AuthStepLeavesAlone
  <2>2. CASE UNCHANGED <<contexts, results>>
    BY <2>2 DEF Awaited, LeftAlone
  <2>. QED BY <2>1, <2>2 DEF AuthNext, EnrolmentChanges, GenerateIdmSchedule
<1>. QED BY <1>1, AuthInvariant, PTL DEF AuthSpec, EndedStaysEnded

-----------------------------------------------------------------------------
(* What UserAuth takes schedules to be is what ScheduleToken promises.      *)

PhaseOf(s) ==
  CASE schedules[s].at = "new" -> "none"
    [] schedules[s].at = "listed" -> "open"
    [] schedules[s].at \in {"granted", "dropped"} -> "ended"

HoldersOf(s) == IF schedules[s].at = "granted" THEN {"Finish"} ELSE {}

Phases == [s \in Schedules |-> PhaseOf(s)]
Holders == [s \in Schedules |-> HoldersOf(s)]

Token == INSTANCE ScheduleToken
           WITH Calls <- {"Finish"}, phase <- Phases, holders <- Holders

LEMMA SameSchedules ==
  ASSUME UNCHANGED schedules
  PROVE  UNCHANGED <<Phases, Holders>>
BY DEF Phases, Holders, PhaseOf, HoldersOf

LEMMA AddScheduleIsGenerate ==
  ASSUME AuthTypeOK, NEW s \in Schedules, NEW m, NEW t, NEW i, AddSchedule(s, m, t, i)
  PROVE  Token!Next
<1>1. schedules[s].at = "new" /\ schedules'[s].at = "listed"
  <2>1. schedules[s].at = "new"
    BY AddScheduleKeeps
  <2>2. PICK es \in QueryExecutor(t) :
          schedules' = [schedules EXCEPT ![s] =
            [at |-> "listed", mode |-> m, type |-> t, executors |-> es,
             template |-> i, time |-> 0]]
    BY DEF AddSchedule
  <2>. QED BY <2>1, <2>2 DEF AuthTypeOK
<1>2. \A r \in Schedules \ {s} : schedules'[r] = schedules[r]
  BY AddScheduleKeeps
<1>3. PhaseOf(s) = "none" /\ PhaseOf(s)' = "open" /\ HoldersOf(s) = {} /\ HoldersOf(s)' = {}
  BY <1>1 DEF PhaseOf, HoldersOf
<1>4. \A r \in Schedules \ {s} : PhaseOf(r)' = PhaseOf(r) /\ HoldersOf(r)' = HoldersOf(r)
  BY <1>2 DEF PhaseOf, HoldersOf
<1>5. Phases' = [Phases EXCEPT ![s] = "open"] /\ Holders' = Holders /\ Phases[s] = "none"
  BY <1>3, <1>4 DEF Phases, Holders
<1>. QED BY <1>5 DEF Token!Next, Token!Generate

LEMMA EndIsGrantOrDrop ==
  ASSUME AuthTypeOK, NEW s \in Schedules, ScheduleFinish(s) \/ RemoveSchedule(s)
  PROVE  Token!Next
<1>0. schedules[s] \in Schedule
  BY DEF AuthTypeOK
<1>1. \A r \in Schedules \ {s} : schedules'[r] = schedules[r]
  BY DEF ScheduleFinish, RemoveSchedule, AuthTypeOK
<1>2. \A r \in Schedules \ {s} : PhaseOf(r)' = PhaseOf(r) /\ HoldersOf(r)' = HoldersOf(r)
  BY <1>1 DEF PhaseOf, HoldersOf
<1>3. schedules[s].at = "listed" /\ PhaseOf(s) = "open" /\ HoldersOf(s) = {}
  BY DEF ScheduleFinish, RemoveSchedule, PhaseOf, HoldersOf
<1>4. CASE ScheduleFinish(s)
  <2>1. schedules'[s].at = "granted"
    BY <1>0, <1>4 DEF ScheduleFinish, AuthTypeOK, Schedule
  <2>2. PhaseOf(s)' = "ended" /\ HoldersOf(s)' = {"Finish"}
    BY <2>1 DEF PhaseOf, HoldersOf
  <2>3. /\ Phases[s] = "open" /\ Phases' = [Phases EXCEPT ![s] = "ended"]
        /\ Holders' = [Holders EXCEPT ![s] = {"Finish"}]
    BY <1>2, <1>3, <2>2 DEF Phases, Holders
  <2>. QED BY <2>3 DEF Token!Next, Token!Grant
<1>5. CASE RemoveSchedule(s)
  <2>1. schedules'[s].at = "dropped"
    BY <1>0, <1>5 DEF RemoveSchedule, AuthTypeOK, Schedule
  <2>2. PhaseOf(s)' = "ended" /\ HoldersOf(s)' = {}
    BY <2>1 DEF PhaseOf, HoldersOf
  <2>3. /\ Phases[s] = "open" /\ Phases' = [Phases EXCEPT ![s] = "ended"]
        /\ Holders' = Holders
    BY <1>2, <1>3, <2>2 DEF Phases, Holders
  <2>. QED BY <2>3 DEF Token!Next, Token!Drop
<1>. QED BY <1>4, <1>5

\* Authentication relies on no more of a schedule (coauth.c, coauth_funcs.c:71) than
\* CoAuth is shown to give: it is opened once, granted to one call at most, and ends.
THEOREM SchedulesAreTokens == AuthSpec => Token!Spec
<1>1. AuthInit => Token!Init
  BY DEF AuthInit, NewSchedule, Token!Init, Phases, Holders, PhaseOf, HoldersOf
<1>2. AuthTypeOK /\ [AuthNext]_authVars => [Token!Next]_<<Phases, Holders>>
  <2> SUFFICES ASSUME AuthTypeOK, [AuthNext]_authVars
               PROVE  Token!Next \/ UNCHANGED <<Phases, Holders>>
    OBVIOUS
  <2>1. CASE UNCHANGED schedules
    BY <2>1, SameSchedules
  <2>2. ASSUME NEW c \in Contexts, NEW u \in Users, NEW t \in AuthTypes,
               NEW h \in Challenges, NEW l \in Asked, GenerateContext(c, u, t, h, l)
        PROVE  Token!Next
    <3>1. PICK d \in OfType(users[u], t), s \in Schedules : AddSchedule(s, "auth", t, d.id)
      BY <2>2 DEF GenerateContext
    <3>. QED BY <3>1, AddScheduleIsGenerate
  <2>3. ASSUME NEW s \in Schedules, NEW t \in AuthTypes, GenerateIdmSchedule(s, t)
        PROVE  Token!Next
    BY <2>3, AddScheduleIsGenerate DEF GenerateIdmSchedule
  <2>4. ASSUME NEW s \in Schedules, ScheduleFinish(s) \/ RemoveSchedule(s)
        PROVE  Token!Next
    BY <2>4, EndIsGrantOrDrop
  <2>. QED BY <2>1, <2>2, <2>3, <2>4
           DEF AuthNext, AuthStep, ContextCall, RequestAuthResult, CancelContext,
               PoolChanges, EnrolmentChanges, Tick, authVars
<1>. QED BY <1>1, <1>2, AuthTypeCorrect, PTL DEF AuthSpec, Token!Spec

-----------------------------------------------------------------------------
(* UserIdm.                                                                *)

\* A session refuses tokens of before it was opened, and of before the last renewal.
SessionBacked ==
  session # None =>
    /\ session.time <= session.validAuthTokenTime
    /\ renewed[session.user] <= session.validAuthTokenTime

RenewedBefore == \A u \in Users : renewed[u] <= now

OpenedBefore == session # None => session.time <= now

\* Has a PIN been proved in the session, since it was opened and u was renewed?
Proved(u) ==
  \E a \in authTokens :
    /\ a.type = Pin /\ a.challenge = session.challenge
    /\ a.time >= session.time /\ a.time >= renewed[u]

\* The schedule of a session is one to enrol, and, if it is not for a PIN, a PIN has
\* been proved.
ScheduleBacked ==
  session # None /\ session.schedule # None =>
    /\ schedules[session.schedule].at # "new"
    /\ schedules[session.schedule].mode = "enrol"
    /\ schedules[session.schedule].type # Pin /\ users[session.user].listed =>
         Proved(session.user)

IdmInv == SessionBacked /\ RenewedBefore /\ OpenedBefore /\ ScheduleBacked

-----------------------------------------------------------------------------
(* What a step of UserAuth may do.                                         *)

LEMMA AuthStepKeeps ==
  ASSUME AuthTypeOK, AuthStep
  PROVE  /\ UNCHANGED users
         /\ now' \in Nat /\ now <= now'
         /\ \A r \in Schedules : Kept(r)
         /\ authTokens \subseteq authTokens'
<1> DEFINE All == /\ UNCHANGED users
                  /\ now' \in Nat /\ now <= now'
                  /\ \A r \in Schedules : Kept(r)
                  /\ authTokens \subseteq authTokens'
<1>0. now \in Nat
  BY AuthAssumption DEF AuthTypeOK, Times
<1>1. ASSUME NEW c \in Contexts, ContextCall(c)
      PROVE  All
  <2>1. ASSUME NEW u \in Users, NEW t \in AuthTypes, NEW h \in Challenges, NEW l \in Asked,
               GenerateContext(c, u, t, h, l)
        PROVE  All
    <3>1. PICK d \in OfType(users[u], t), s \in Schedules : AddSchedule(s, "auth", t, d.id)
      BY <2>1 DEF GenerateContext
    <3>2. \A r \in Schedules : Kept(r)
      BY <3>1, AddScheduleKeeps
    <3>3. UNCHANGED <<now, users, authTokens>>
      BY <2>1 DEF GenerateContext
    <3>. QED BY <1>0, <3>2, <3>3
  <2>2. ASSUME NEW s \in Schedules, RequestAuthResult(c, s)
        PROVE  All
    <3>1. authTokens \subseteq authTokens'
      BY <2>2 DEF RequestAuthResult, Sign, CannotSign
    <3>2. UNCHANGED <<now, users, schedules>>
      BY <2>2 DEF RequestAuthResult
    <3>. QED BY <1>0, <3>1, <3>2 DEF Kept
  <2>3. CASE CancelContext(c)
    BY <1>0, <2>3 DEF CancelContext, Kept
  <2>. QED BY <1>1, <2>1, <2>2, <2>3 DEF ContextCall
<1>2. ASSUME NEW s \in Schedules, ScheduleFinish(s) \/ RemoveSchedule(s)
      PROVE  All
  <2>1. \A r \in Schedules : Kept(r)
    BY <1>2, EndKeeps
  <2>2. UNCHANGED <<now, users, authTokens>>
    BY <1>2 DEF ScheduleFinish, RemoveSchedule
  <2>. QED BY <1>0, <2>1, <2>2
<1>3. ASSUME NEW e \in Executors, PoolChanges(e)
      PROVE  All
  BY <1>0, <1>3 DEF PoolChanges, Kept
<1>4. CASE Tick
  BY <1>0, <1>4 DEF Tick, Kept
<1>5. All
  BY <1>1, <1>2, <1>3, <1>4 DEF AuthStep
<1>. QED BY <1>5

-----------------------------------------------------------------------------
(* What a step of UserIdm makes of the user and of the session.            *)

\* Adding: what AddCredential and UpdateCredential may make of the user.
LEMMA AddsTyped ==
  ASSUME IdmTypeOK, NEW s \in Schedules, ScheduleMatches(s),
         AddCredential(s) \/ UpdateCredential(s)
  PROVE  /\ users' \in [Users -> UserInfo]
         /\ session \in Session /\ session.user \in Users /\ session.schedule = s
         /\ \A u \in Users \ {session.user} : users'[u] = users[u]
         /\ \A d \in Added(session.user) : d.type = schedules[s].type
         /\ schedules[s].type # Pin => users[session.user].listed
<1> DEFINE u == session.user
           t == schedules[s].type
<1>1. session \in Session /\ u \in Users /\ session.schedule = s
  BY DEF ScheduleMatches, IdmTypeOK, Session
<1>2. users[u] \in UserInfo /\ t \in AuthTypes /\ users \in [Users -> UserInfo]
  BY <1>1 DEF IdmTypeOK, AuthTypeOK, Schedule
<1>3. CASE AddCredential(s)
  <2>1. PICK new \in Enrolments(users[u], t) : users' = [users EXCEPT ![u] = new.info]
    BY <1>3 DEF AddCredential
  <2>2. /\ new.info \in UserInfo /\ \A d \in new.info.creds \ users[u].creds : d.type = t
        /\ t # Pin => users[u].listed
    BY <1>2, <2>1, EnrolmentsTyped
  <2>3. /\ users' \in [Users -> UserInfo] /\ users'[u] = new.info
        /\ \A v \in Users \ {u} : users'[v] = users[v]
    BY <1>1, <1>2, <2>1, <2>2
  <2>. QED BY <1>1, <2>2, <2>3 DEF Added
<1>4. CASE UpdateCredential(s)
  <2>1. PICK d \in PinOf(users[u]) :
          \E new \in Enrolments(Without(users[u], d), Pin) :
            users' = [users EXCEPT ![u] = new.info]
    BY <1>4 DEF UpdateCredential
  <2>2. PICK new \in Enrolments(Without(users[u], d), Pin) :
          users' = [users EXCEPT ![u] = new.info]
    BY <2>1
  <2>3. /\ Without(users[u], d) \in UserInfo
        /\ Without(users[u], d).creds \subseteq users[u].creds
    BY <1>2, WithoutTyped
  <2>4. /\ new.info \in UserInfo
        /\ \A e \in new.info.creds \ Without(users[u], d).creds : e.type = Pin
    BY <2>2, <2>3, EnrolmentsTyped, AuthAssumption
  <2>5. /\ users' \in [Users -> UserInfo] /\ users'[u] = new.info
        /\ \A v \in Users \ {u} : users'[v] = users[v]
    BY <1>1, <1>2, <2>2, <2>4
  <2>6. t = Pin
    BY <1>4 DEF UpdateCredential
  <2>. QED BY <1>1, <2>3, <2>4, <2>5, <2>6 DEF Added
<1>. QED BY <1>3, <1>4

LEMMA RefreshedTyped ==
  ASSUME IdmTypeOK
  PROVE  /\ Refreshed \in Session \cup {None}
         /\ session = None => Refreshed = None
         /\ session # None => /\ Refreshed.user = session.user
                              /\ Refreshed.challenge = session.challenge
                              /\ Refreshed.time = session.time
                              /\ Refreshed.schedule = session.schedule
                              /\ Refreshed.validAuthTokenTime = now
BY DEF Refreshed, IdmTypeOK, AuthTypeOK, Session

LEMMA InitScheduleTyped ==
  ASSUME IdmTypeOK, NEW u \in Users, NEW t \in AuthTypes, InitSchedulation(u, t)
  PROVE  IdmTypeOK'
<1>1. PICK s \in Schedules :
        /\ AddSchedule(s, "enrol", t, None)
        /\ session' = IF session = None THEN None ELSE [session EXCEPT !.schedule = s]
  BY DEF InitSchedulation, GenerateIdmSchedule
<1>2. schedules' \in [Schedules -> Schedule]
  BY <1>1, AddScheduleTyped DEF IdmTypeOK
<1>3. session' \in Session \cup {None}
  BY <1>1 DEF IdmTypeOK, Session
<1>. QED BY <1>2, <1>3 DEF InitSchedulation, GenerateIdmSchedule, IdmTypeOK, AuthTypeOK

LEMMA DeleteTyped ==
  ASSUME IdmTypeOK, NEW u \in Users, Delete(u)
  PROVE  /\ users' \in [Users -> UserInfo] /\ session' \in Session \cup {None}
         /\ renewed' \in [Users -> Times]
BY RefreshedTyped, NoUserTyped DEF Delete, IdmTypeOK, AuthTypeOK

LEMMA DeletesNothingNew ==
  ASSUME IdmTypeOK, NEW u \in Users, DeleteCredential(u)
  PROVE  /\ users' \in [Users -> UserInfo]
         /\ \A v \in Users : Added(v) = {} /\ users'[v].listed = users[v].listed
<1>1. PICK d : users' = [users EXCEPT ![u] = Without(@, d)]
  BY DEF DeleteCredential
<1>2. users \in [Users -> UserInfo]
  BY DEF IdmTypeOK, AuthTypeOK
<1>3. /\ Without(users[u], d) \in UserInfo
      /\ Without(users[u], d).creds \subseteq users[u].creds
      /\ Without(users[u], d).listed = users[u].listed
  BY <1>2, WithoutTyped
<1>. QED BY <1>1, <1>2, <1>3 DEF Added

LEMMA IdmStepTyped ==
  ASSUME IdmTypeOK, IdmStep
  PROVE  IdmTypeOK'
<1>1. ASSUME NEW u \in Users, OpenEditSession(u) PROVE IdmTypeOK'
  <2>1. CASE session' = None
    BY <1>1, <2>1 DEF OpenEditSession, IdmTypeOK, AuthTypeOK, authVars
  <2>2. ASSUME NEW h \in Challenges,
               session' = [user |-> u, challenge |-> h, time |-> now,
                           validAuthTokenTime |-> now, schedule |-> None]
        PROVE  IdmTypeOK'
    <3>1. session' \in Session
      BY <2>2 DEF Session, IdmTypeOK, AuthTypeOK
    <3>. QED BY <1>1, <2>2, <3>1 DEF OpenEditSession, IdmTypeOK, AuthTypeOK, authVars
  <2>. QED BY <1>1, <2>1, <2>2 DEF OpenEditSession
<1>2. ASSUME NEW u \in Users, DeleteUserEnforce(u) \/ DeleteUserDeletes(u) PROVE IdmTypeOK'
  BY <1>2, DeleteTyped DEF DeleteUserEnforce, DeleteUserDeletes, IdmTypeOK, AuthTypeOK
<1>3. ASSUME NEW u \in Users, NEW t \in AuthTypes, InitSchedulation(u, t) PROVE IdmTypeOK'
  BY <1>3, InitScheduleTyped
<1>4. ASSUME NEW s \in Schedules, AddCredential(s) PROVE IdmTypeOK'
  <2>1. users' \in [Users -> UserInfo]
    BY <1>4, AddsTyped DEF AddCredential
  <2>. QED BY <1>4, <2>1 DEF AddCredential, IdmTypeOK, AuthTypeOK, idmVars
<1>5. ASSUME NEW s \in Schedules, UpdateCredential(s) PROVE IdmTypeOK'
  <2>1. users' \in [Users -> UserInfo]
    BY <1>5, AddsTyped DEF UpdateCredential
  <2>2. session' \in Session \cup {None} /\ renewed' \in [Users -> Times]
    BY <1>5, RefreshedTyped DEF UpdateCredential, IdmTypeOK, AuthTypeOK
  <2>. QED BY <1>5, <2>1, <2>2 DEF UpdateCredential, IdmTypeOK, AuthTypeOK
<1>6. ASSUME NEW u \in Users, DeleteCredential(u) PROVE IdmTypeOK'
  <2>1. users' \in [Users -> UserInfo]
    BY <1>6, DeletesNothingNew DEF DeleteCredential
  <2>. QED BY <1>6, <2>1 DEF DeleteCredential, IdmTypeOK, AuthTypeOK, idmVars
<1>7. ASSUME NEW u \in Users, DeleteUserVerifies(u) PROVE IdmTypeOK'
  BY <1>7 DEF DeleteUserVerifies, IdmTypeOK, AuthTypeOK, authVars
<1>8. CASE CloseEditSession
  BY <1>8 DEF CloseEditSession, IdmTypeOK, AuthTypeOK, authVars
<1>. QED BY <1>1, <1>2, <1>3, <1>4, <1>5, <1>6, <1>7, <1>8 DEF IdmStep

\* Whatever is called in whatever order, every variable keeps to its type.
THEOREM IdmTypeCorrect == Spec => []IdmTypeOK
<1>1. Init => IdmTypeOK
  <2>1. 0 \in Times
    BY AuthAssumption DEF Times
  <2>. QED BY <2>1, InitTyped DEF Init, IdmTypeOK
<1>2. IdmTypeOK /\ [Next]_vars => IdmTypeOK'
  <2> SUFFICES ASSUME IdmTypeOK, [Next]_vars PROVE IdmTypeOK'
    OBVIOUS
  <2>1. CASE AuthStep /\ UNCHANGED idmVars
    BY <2>1, AuthStepTyped DEF IdmTypeOK, idmVars
  <2>2. CASE IdmStep
    BY <2>2, IdmStepTyped
  <2>3. CASE UNCHANGED vars
    BY <2>3 DEF vars, authVars, idmVars, IdmTypeOK, AuthTypeOK
  <2>. QED BY <2>1, <2>2, <2>3 DEF Next
<1>. QED BY <1>1, <1>2, PTL DEF Spec

-----------------------------------------------------------------------------
(* The invariant.                                                          *)

LEMMA IdmInitInv == Init => IdmInv
BY DEF Init, AuthInit, IdmInv, SessionBacked, RenewedBefore, OpenedBefore, ScheduleBacked

LEMMA AuthStepKeepsIdmInv ==
  ASSUME IdmTypeOK, IdmInv, AuthStep, UNCHANGED idmVars
  PROVE  IdmInv'
<1>1. /\ UNCHANGED users
      /\ now' \in Nat /\ now <= now'
      /\ \A r \in Schedules : Kept(r)
      /\ authTokens \subseteq authTokens'
  BY AuthStepKeeps DEF IdmTypeOK
<1>2. SessionBacked'
  BY DEF IdmInv, SessionBacked, idmVars
<1>3. RenewedBefore'
  <2>1. \A u \in Users : renewed[u] \in Nat /\ now \in Nat
    BY AuthAssumption DEF IdmTypeOK, AuthTypeOK, Times
  <2>. QED BY <1>1, <2>1 DEF IdmInv, RenewedBefore, idmVars
<1>4. OpenedBefore'
  <2>1. session # None => session.time \in Nat /\ now \in Nat
    BY AuthAssumption DEF IdmTypeOK, AuthTypeOK, Times, Session
  <2>. QED BY <1>1, <2>1 DEF IdmInv, OpenedBefore, idmVars
<1>5. ScheduleBacked'
  <2> SUFFICES ASSUME session # None, session.schedule # None
               PROVE  /\ schedules'[session.schedule].at # "new"
                      /\ schedules'[session.schedule].mode = "enrol"
                      /\ schedules'[session.schedule].type # Pin /\ users[session.user].listed =>
                           \E a \in authTokens' :
                             /\ a.type = Pin /\ a.challenge = session.challenge
                             /\ a.time >= session.time
                             /\ a.time >= renewed[session.user]
    BY <1>1 DEF ScheduleBacked, Proved, idmVars
  <2>1. session.schedule \in Schedules
    BY DEF IdmTypeOK, Session
  <2>2. Kept(session.schedule)
    BY <1>1, <2>1
  <2>. QED BY <1>1, <2>1, <2>2 DEF IdmInv, ScheduleBacked, Proved, Kept
<1>. QED BY <1>2, <1>3, <1>4, <1>5 DEF IdmInv

\* Steps that leave the tokens and renewals alone, and the session but for ending it,
\* and make no user listed while a schedule waits that is not for a PIN.
LEMMA QuietKeepsIdmInv ==
  ASSUME IdmInv, UNCHANGED <<now, schedules, authTokens, renewed>>,
         session' = None
           \/ (UNCHANGED session
                /\ (session # None /\ session.schedule # None
                      /\ schedules[session.schedule].type # Pin
                      /\ users'[session.user].listed => users[session.user].listed))
  PROVE  IdmInv'
BY DEF IdmInv, SessionBacked, RenewedBefore, OpenedBefore, ScheduleBacked, Proved

LEMMA OpenKeepsIdmInv ==
  ASSUME IdmTypeOK, IdmInv, NEW u \in Users, OpenEditSession(u)
  PROVE  IdmInv'
<1>1. UNCHANGED <<now, users, schedules, contexts, authTokens, renewed>>
  BY DEF OpenEditSession, authVars
<1>2. CASE session' = None
  BY <1>1, <1>2, QuietKeepsIdmInv
<1>3. ASSUME NEW h \in Challenges,
             session' = [user |-> u, challenge |-> h, time |-> now,
                         validAuthTokenTime |-> now, schedule |-> None]
      PROVE  IdmInv'
  <2>1. now \in Nat
    BY AuthAssumption DEF IdmTypeOK, AuthTypeOK, Times
  <2>. QED BY <1>1, <1>3, <2>1
           DEF IdmInv, SessionBacked, RenewedBefore, OpenedBefore, ScheduleBacked
<1>. QED BY <1>2, <1>3 DEF OpenEditSession

\* A token that permits to enrol something other than a PIN, for whatever user, proves
\* a PIN in the session, since its user was renewed.
LEMMA PermittedIsProved ==
  ASSUME IdmTypeOK, IdmInv, session # None, NEW u \in Users, NEW t \in AuthTypes \ {Pin},
         Permitted(u, t)
  PROVE  Proved(session.user)
<1>1. PICK a \in authTokens : a.type = Pin /\ TokenVerified(a) /\ IsValidTokenTime(a)
  BY DEF Permitted
<1>2. /\ session.user \in Users /\ renewed[session.user] \in Nat /\ session.time \in Nat
      /\ session.validAuthTokenTime \in Nat /\ a.time \in Nat
  BY AuthAssumption DEF IdmTypeOK, AuthTypeOK, Session, AuthToken, Times
<1>3. /\ a.challenge = session.challenge
      /\ a.time >= session.time /\ a.time >= renewed[session.user]
  BY <1>1, <1>2 DEF TokenVerified, IsValidTokenTime, IdmInv, SessionBacked
<1>. QED BY <1>1, <1>3 DEF Proved

LEMMA InitScheduleKeepsIdmInv ==
  ASSUME IdmTypeOK, IdmInv, NEW u \in Users, NEW t \in AuthTypes, InitSchedulation(u, t)
  PROVE  IdmInv'
<1>1. PICK s \in Schedules :
        /\ AddSchedule(s, "enrol", t, None)
        /\ session' = IF session = None THEN None ELSE [session EXCEPT !.schedule = s]
  BY DEF InitSchedulation, GenerateIdmSchedule
<1>2. schedules'[s].at = "listed" /\ schedules'[s].mode = "enrol" /\ schedules'[s].type = t
  BY <1>1 DEF AddSchedule, IdmTypeOK, AuthTypeOK
<1>3. UNCHANGED <<now, users, contexts, authTokens, renewed>>
  BY DEF InitSchedulation, GenerateIdmSchedule
<1>4. CASE session = None
  BY <1>1, <1>3, <1>4 DEF IdmInv, SessionBacked, RenewedBefore, OpenedBefore, ScheduleBacked
<1>5. CASE session # None
  <2>1. Permitted(u, t)
    BY DEF InitSchedulation
  <2>2. t # Pin => Proved(session.user)
    BY <1>5, <2>1, PermittedIsProved
  <2>3. /\ session'.user = session.user /\ session'.challenge = session.challenge
        /\ session'.validAuthTokenTime = session.validAuthTokenTime
        /\ session'.time = session.time /\ session'.schedule = s
    BY <1>1, <1>5 DEF IdmTypeOK, Session
  <2>4. ScheduleBacked'
    BY <1>2, <1>3, <2>2, <2>3 DEF ScheduleBacked, Proved
  <2>5. SessionBacked' /\ RenewedBefore' /\ OpenedBefore'
    BY <1>3, <1>5, <2>3 DEF IdmInv, SessionBacked, RenewedBefore, OpenedBefore
  <2>. QED BY <2>4, <2>5 DEF IdmInv
<1>. QED BY <1>4, <1>5

\* Renewing a user: older tokens are refused from now on, and what waits to be
\* enrolled is for a PIN, or for a user who is not there any more.
LEMMA RenewKeepsIdmInv ==
  ASSUME IdmTypeOK, IdmInv, NEW u \in Users,
         UNCHANGED <<now, schedules, contexts, authTokens>>,
         session' = Refreshed, renewed' = [renewed EXCEPT ![u] = now],
         \A v \in Users \ {u} : users'[v] = users[v],
         session # None /\ session.user = u /\ session.schedule # None =>
           schedules[session.schedule].type = Pin \/ ~users'[u].listed
  PROVE  IdmInv'
<1>1. renewed'[u] = now /\ \A v \in Users \ {u} : renewed'[v] = renewed[v]
  BY DEF IdmTypeOK
<1>2. now \in Nat
  BY AuthAssumption DEF IdmTypeOK, AuthTypeOK, Times
<1>3. RenewedBefore'
  BY <1>1, <1>2 DEF IdmInv, RenewedBefore
<1>4. CASE session = None
  <2>1. session' = None
    BY <1>4, RefreshedTyped
  <2>. QED BY <1>3, <2>1 DEF IdmInv, SessionBacked, OpenedBefore, ScheduleBacked
<1>5. CASE session # None
  <2>1. /\ session'.user = session.user /\ session'.challenge = session.challenge
        /\ session'.schedule = session.schedule /\ session'.validAuthTokenTime = now
        /\ session'.time = session.time /\ session.user \in Users
    BY <1>5, RefreshedTyped DEF IdmTypeOK, Session
  <2>2. SessionBacked' /\ OpenedBefore'
    BY <1>3, <1>5, <2>1 DEF IdmInv, SessionBacked, RenewedBefore, OpenedBefore
  <2>3. ScheduleBacked'
    <3>1. CASE session.user = u
      BY <1>5, <2>1, <3>1 DEF IdmInv, ScheduleBacked
    <3>2. CASE session.user # u
      BY <1>1, <1>5, <2>1, <3>2 DEF IdmInv, ScheduleBacked, Proved
    <3>. QED BY <3>1, <3>2
  <2>. QED BY <1>3, <2>2, <2>3 DEF IdmInv
<1>. QED BY <1>4, <1>5

LEMMA DeleteKeepsIdmInv ==
  ASSUME IdmTypeOK, IdmInv, NEW u \in Users, Delete(u),
         UNCHANGED <<now, schedules, contexts, authTokens>>
  PROVE  IdmInv'
<1>1. CASE UNCHANGED <<users, session, renewed>>
  BY <1>1, QuietKeepsIdmInv
<1>2. CASE /\ users' = [users EXCEPT ![u] = NoUser]
           /\ session' = Refreshed
           /\ renewed' = [renewed EXCEPT ![u] = now]
  <2>1. ~users'[u].listed /\ \A v \in Users \ {u} : users'[v] = users[v]
    BY <1>2, NoUserTyped DEF IdmTypeOK, AuthTypeOK
  <2>. QED BY <1>2, <2>1, RenewKeepsIdmInv
<1>3. CASE users' = [users EXCEPT ![u] = NoUser] /\ UNCHANGED <<session, renewed>>
  <2>1. \A v \in Users : users'[v].listed => users[v].listed
    BY <1>3, NoUserTyped DEF IdmTypeOK, AuthTypeOK
  <2>2. session # None => session.user \in Users
    BY DEF IdmTypeOK, Session
  <2>. QED BY <1>3, <2>1, <2>2, QuietKeepsIdmInv
<1>. QED BY <1>1, <1>2, <1>3 DEF Delete

LEMMA IdmStepKeepsIdmInv ==
  ASSUME IdmTypeOK, IdmInv, IdmStep
  PROVE  IdmInv'
<1>1. ASSUME NEW u \in Users, OpenEditSession(u) PROVE IdmInv'
  BY <1>1, OpenKeepsIdmInv
<1>2. ASSUME NEW u \in Users, DeleteUserEnforce(u) \/ DeleteUserDeletes(u) PROVE IdmInv'
  BY <1>2, DeleteKeepsIdmInv DEF DeleteUserEnforce, DeleteUserDeletes
<1>3. ASSUME NEW u \in Users, NEW t \in AuthTypes, InitSchedulation(u, t) PROVE IdmInv'
  BY <1>3, InitScheduleKeepsIdmInv
<1>4. ASSUME NEW s \in Schedules, AddCredential(s) PROVE IdmInv'
  <2>1. session.schedule = s /\ (schedules[s].type # Pin => users[session.user].listed)
    BY <1>4, AddsTyped DEF AddCredential
  <2>2. UNCHANGED <<now, schedules, contexts, authTokens, idmVars>>
    BY <1>4 DEF AddCredential
  <2>. QED BY <2>1, <2>2, QuietKeepsIdmInv DEF idmVars
<1>5. ASSUME NEW s \in Schedules, UpdateCredential(s) PROVE IdmInv'
  <2>1. /\ session.schedule = s /\ session.user \in Users
        /\ \A v \in Users \ {session.user} : users'[v] = users[v]
    BY <1>5, AddsTyped DEF UpdateCredential
  <2>2. /\ schedules[s].type = Pin
        /\ UNCHANGED <<now, schedules, contexts, authTokens>>
    BY <1>5 DEF UpdateCredential
  <2>3. CASE UNCHANGED <<session, renewed>>
    BY <2>1, <2>2, <2>3, QuietKeepsIdmInv
  <2>4. CASE session' = Refreshed /\ renewed' = [renewed EXCEPT ![session.user] = now]
    BY <2>1, <2>2, <2>4, RenewKeepsIdmInv
  <2>. QED BY <1>5, <2>3, <2>4 DEF UpdateCredential
<1>6. ASSUME NEW u \in Users, DeleteCredential(u) PROVE IdmInv'
  <2>1. session.user \in Users /\ \A v \in Users : users'[v].listed = users[v].listed
    BY <1>6, DeletesNothingNew DEF DeleteCredential, TokenVerified, IdmTypeOK, Session
  <2>2. UNCHANGED <<now, schedules, contexts, authTokens, idmVars>>
    BY <1>6 DEF DeleteCredential
  <2>. QED BY <2>1, <2>2, QuietKeepsIdmInv DEF idmVars
<1>7. ASSUME NEW u \in Users, DeleteUserVerifies(u) PROVE IdmInv'
  BY <1>7, QuietKeepsIdmInv DEF DeleteUserVerifies, authVars
<1>8. CASE CloseEditSession
  BY <1>8, QuietKeepsIdmInv DEF CloseEditSession, authVars
<1>. QED BY <1>1, <1>2, <1>3, <1>4, <1>5, <1>6, <1>7, <1>8 DEF IdmStep

\* Nor the invariant of sessions, their schedules and their proofs.
THEOREM IdmInvariant == Spec => [](IdmTypeOK /\ IdmInv)
<1>1. IdmTypeOK /\ IdmInv /\ [Next]_vars => IdmInv'
  <2> SUFFICES ASSUME IdmTypeOK, IdmInv, [Next]_vars PROVE IdmInv'
    OBVIOUS
  <2>1. CASE AuthStep /\ UNCHANGED idmVars
    BY <2>1, AuthStepKeepsIdmInv
  <2>2. CASE IdmStep
    BY <2>2, IdmStepKeepsIdmInv
  <2>3. CASE UNCHANGED vars
    BY <2>3, QuietKeepsIdmInv DEF vars, authVars, idmVars
  <2>. QED BY <2>1, <2>2, <2>3 DEF Next
<1>. QED BY IdmInitInv, IdmTypeCorrect, <1>1, PTL DEF Spec

-----------------------------------------------------------------------------
(* UserIdm is an environment that UserAuth allows for.                     *)

LEMMA DeleteChanges ==
  ASSUME IdmTypeOK, NEW u \in Users, Delete(u),
         UNCHANGED <<now, pool, schedules, contexts, authTokens, results>>
  PROVE  [AuthNext]_authVars
<1>1. CASE UNCHANGED users
  BY <1>1 DEF authVars
<1>2. CASE users[u].creds # {} /\ users' = [users EXCEPT ![u] = NoUser]
  <2>1. EnrolmentChanges(u)
    BY <1>2 DEF EnrolmentChanges
  <2>. QED BY <2>1 DEF AuthNext
<1>. QED BY <1>1, <1>2 DEF Delete

LEMMA IdmStepIsAllowed ==
  ASSUME IdmTypeOK, IdmStep
  PROVE  [AuthNext]_authVars
<1>1. ASSUME NEW u \in Users, OpenEditSession(u) PROVE [AuthNext]_authVars
  BY <1>1 DEF OpenEditSession
<1>2. ASSUME NEW u \in Users, DeleteUserEnforce(u) \/ DeleteUserDeletes(u)
      PROVE  [AuthNext]_authVars
  BY <1>2, DeleteChanges DEF DeleteUserEnforce, DeleteUserDeletes
<1>3. ASSUME NEW u \in Users, NEW t \in AuthTypes, InitSchedulation(u, t)
      PROVE  [AuthNext]_authVars
  BY <1>3 DEF InitSchedulation, AuthNext
<1>4. ASSUME NEW s \in Schedules, AddCredential(s) PROVE [AuthNext]_authVars
  <2>1. session.user \in Users /\ schedules[s].type \in AuthTypes
    BY <1>4 DEF AddCredential, ScheduleMatches, IdmTypeOK, Session, AuthTypeOK, Schedule
  <2>2. EnrolmentChanges(session.user)
    BY <1>4, <2>1 DEF AddCredential, EnrolmentChanges
  <2>. QED BY <2>1, <2>2 DEF AuthNext
<1>5. ASSUME NEW s \in Schedules, UpdateCredential(s) PROVE [AuthNext]_authVars
  <2>1. session.user \in Users
    BY <1>5 DEF UpdateCredential, ScheduleMatches, IdmTypeOK, Session
  <2>2. EnrolmentChanges(session.user)
    BY <1>5 DEF UpdateCredential, EnrolmentChanges
  <2>. QED BY <2>1, <2>2 DEF AuthNext
<1>6. ASSUME NEW u \in Users, DeleteCredential(u) PROVE [AuthNext]_authVars
  <2>1. EnrolmentChanges(u)
    BY <1>6 DEF DeleteCredential, EnrolmentChanges
  <2>. QED BY <2>1 DEF AuthNext
<1>7. ASSUME NEW u \in Users, DeleteUserVerifies(u) PROVE [AuthNext]_authVars
  BY <1>7 DEF DeleteUserVerifies
<1>8. CASE CloseEditSession
  BY <1>8 DEF CloseEditSession
<1>. QED BY <1>1, <1>2, <1>3, <1>4, <1>5, <1>6, <1>7, <1>8 DEF IdmStep

\* Sessions, enrolment and deletion (user_idm_funcs.c) do nothing to the state they
\* share with authentication (user_auth_funcs.c) that UserAuth does not reckon with:
\* the composition implements UserAuth, and whatever is proved there holds for it.
THEOREM IdmImplementsAuth == Spec => AuthSpec
<1>1. Init => AuthInit
  BY DEF Init
<1>2. IdmTypeOK /\ [Next]_vars => [AuthNext]_authVars
  <2> SUFFICES ASSUME IdmTypeOK, [Next]_vars PROVE [AuthNext]_authVars
    OBVIOUS
  <2>1. CASE AuthStep
    BY <2>1 DEF AuthNext
  <2>2. CASE IdmStep
    BY <2>2, IdmStepIsAllowed
  <2>3. CASE UNCHANGED vars
    BY <2>3 DEF vars
  <2>. QED BY <2>1, <2>2, <2>3 DEF Next
<1>. QED BY <1>1, <1>2, IdmTypeCorrect, PTL DEF Spec, AuthSpec

\* With sessions opened and closed, credentials replaced and users deleted in between,
\* a schedule still leads to one signed result at most (user_auth_funcs.c:98), and one
\* that no context waits for, as those that enrol, to nothing that it has not led to.
THEOREM ResultAtMostOnceComposed == Spec => []OneResult /\ EndedStaysEnded
<1>. QED BY IdmImplementsAuth, ResultAtMostOnce, EndedStays, PTL

-----------------------------------------------------------------------------
(* What is enrolled.                                                       *)

\* Only AddCredential and UpdateCredential add anything, and to the session's user.
LEMMA WhoAdds ==
  ASSUME IdmTypeOK, [Next]_vars, NEW u \in Users, Added(u) # {}
  PROVE  /\ session # None /\ session.user = u /\ session.schedule \in Schedules
         /\ schedules[session.schedule].at = "granted"
         /\ \A d \in Added(u) : d.type = schedules[session.schedule].type
         /\ schedules[session.schedule].type # Pin => users[u].listed
<1>1. ~UNCHANGED users
  BY DEF Added
<1>2. ~(AuthStep /\ UNCHANGED idmVars)
  BY <1>1, AuthStepKeeps DEF IdmTypeOK
<1>3. \A v \in Users : ~Delete(v)
  <2> SUFFICES ASSUME NEW v \in Users, users' = [users EXCEPT ![v] = NoUser] PROVE FALSE
    BY <1>1 DEF Delete
  <2>1. users'[u] = users[u] \/ users'[u].creds = {}
    BY NoUserTyped DEF IdmTypeOK, AuthTypeOK
  <2>. QED BY <2>1 DEF Added
<1>4. \A v \in Users : ~DeleteCredential(v)
  BY DeletesNothingNew
<1>5. PICK s \in Schedules : AddCredential(s) \/ UpdateCredential(s)
  BY <1>1, <1>2, <1>3, <1>4
     DEF Next, IdmStep, vars, authVars, OpenEditSession, DeleteUserEnforce,
         DeleteUserDeletes, InitSchedulation, GenerateIdmSchedule, DeleteUserVerifies,
         CloseEditSession
<1>6. ScheduleMatches(s)
  BY <1>5 DEF AddCredential, UpdateCredential
<1>7. /\ session.user \in Users /\ session.schedule = s
      /\ \A v \in Users \ {session.user} : users'[v] = users[v]
      /\ \A d \in Added(session.user) : d.type = schedules[s].type
      /\ schedules[s].type # Pin => users[session.user].listed
  BY <1>5, <1>6, AddsTyped
<1>8. u = session.user
  BY <1>7 DEF Added
<1>. QED BY <1>6, <1>7, <1>8 DEF ScheduleMatches, CoAuthTokenValid

\* A credential comes from a granted schedule that was generated to enrol its type in
\* the session that is open, in every order of sessions, schedules and calls.
THEOREM EnrolmentScheduled == Spec => EnrolmentIsScheduled
<1>1. IdmTypeOK /\ IdmInv /\ [Next]_vars =>
        [\A u \in Users : Added(u) # {} =>
           /\ session # None /\ session.user = u /\ session.schedule # None
           /\ LET s == schedules[session.schedule] IN
                /\ s.at = "granted" /\ s.mode = "enrol"
                /\ \A d \in Added(u) : d.type = s.type]_vars
  <2> SUFFICES ASSUME IdmTypeOK, IdmInv, [Next]_vars, NEW u \in Users, Added(u) # {}
               PROVE  /\ session # None /\ session.user = u /\ session.schedule # None
                      /\ schedules[session.schedule].at = "granted"
                      /\ schedules[session.schedule].mode = "enrol"
                      /\ \A d \in Added(u) : d.type = schedules[session.schedule].type
    OBVIOUS
  <2>1. /\ session # None /\ session.user = u /\ session.schedule \in Schedules
        /\ schedules[session.schedule].at = "granted"
        /\ \A d \in Added(u) : d.type = schedules[session.schedule].type
    BY WhoAdds
  <2>2. session.schedule # None
    BY <2>1, IdmAssumption
  <2>. QED BY <2>1, <2>2 DEF IdmInv, ScheduleBacked
<1>. QED BY <1>1, IdmInvariant, PTL DEF Spec, EnrolmentIsScheduled

\* A credential other than a PIN is only enrolled with a PIN proved in this very
\* session, since it was opened, and not before the PIN of its user was updated or the
\* user deleted: PermittedIsProved, and nothing that comes between lowers the times.
THEOREM OldProofRefused == Spec => OldProofIsRefused
<1>1. IdmTypeOK /\ IdmInv /\ [Next]_vars =>
        [\A u \in Users : \A d \in Added(u) : d.type # Pin =>
           \E a \in authTokens :
             /\ a.type = Pin /\ a.challenge = session.challenge
             /\ a.time >= session.time /\ a.time >= renewed[u]]_vars
  <2> SUFFICES ASSUME IdmTypeOK, IdmInv, [Next]_vars,
                      NEW u \in Users, NEW d \in Added(u), d.type # Pin
               PROVE  Proved(u)
    BY DEF Proved
  <2>1. /\ session # None /\ session.user = u /\ session.schedule \in Schedules
        /\ d.type = schedules[session.schedule].type
        /\ schedules[session.schedule].type # Pin => users[u].listed
    BY WhoAdds
  <2>2. session.schedule # None
    BY <2>1, IdmAssumption
  <2>. QED BY <2>1, <2>2 DEF IdmInv, ScheduleBacked
<1>. QED BY <1>1, IdmInvariant, PTL DEF Spec, OldProofIsRefused
=============================================================================
