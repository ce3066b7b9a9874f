------------------------- MODULE CoAuthCallerProofs -------------------------
(***************************************************************************)
(* Theorems about what callers hear, whether or not ids are shared: it is   *)
(* about their own schedule, of one success at most, and nothing once the   *)
(* schedule is over.                                                        *)
(***************************************************************************)
EXTENDS CoAuthPoolProofs

\* Whoever holds a callback holds that of a request which began the very id:
\* an entry of the pool, a Finish call, a SendData call.
NamesInv ==
  /\ \A r \in Requests : begin[r].at = "idle" => begin[r].id = None
  /\ \A s \in Schedules : Present(s) => begin[callback[s]].id = s
  /\ \A f \in Finishes :
       /\ fin[f].at = "idle" => fin[f].callback = None
       /\ fin[f].callback # None => begin[fin[f].callback].id = fin[f].id
  /\ \A m \in Infos : info[m].callback # None =>
       info[m].id \in Schedules /\ begin[info[m].callback].id = info[m].id

\* A message is traced back to the thread it came from, and a success to the
\* token of a Finish call.
Traced(r, m) ==
  /\ m.code = "SUCCESS" => m.by \in Finishes /\ fin[m.by].token # "none"
  /\ m.by \in Finishes =>
       fin[m.by].callback = r /\ fin[m.by].at \in {"delete", "done"}
  /\ m.by \in Infos => info[m.by].callback = r /\ info[m.by].at = "done"
  /\ m.by \in Requests => m.by = r

HeardInv ==
  /\ \A r \in Requests : begin[r].at = "notify" => begin[r].ret # "SUCCESS"
  /\ \A f \in Finishes :
       fin[f].at = "notify" /\ fin[f].code = "SUCCESS" => fin[f].token # "none"
  /\ \A r \in Requests : \A m \in told[r] : Traced(r, m)

\* A Finish call that moves on keeps its callback, or finds that of its id.
LEMMA CallbackFound ==
  ASSUME TypeOK, NEW f \in Finishes, FinishStep(f)
  PROVE  /\ \A g \in Finishes \ {f} : fin'[g] = fin[g]
         /\ fin'[f].id = fin[f].id
         /\ fin'[f].at # "idle"
         /\ fin'[f].callback \in {fin[f].callback, callback[fin[f].id]}
         /\ ~FinishFind(f) => fin'[f].callback = fin[f].callback
         /\ FinishFind(f) => fin[f].at = "find"
         /\ UNCHANGED <<begin, info>>
<1>t. fin \in [Finishes -> Finish]
  BY DEF TypeOK
<1>u. UNCHANGED <<begin, info>>
  BY DEF FinishStep, FinishMinus, FinishRemoveTimer, FinishFind, FinishDropInfo,
         FinishSign, FinishNotify, FinishDelete, finishing
<1>1. CASE FinishSign(f)
  <2>1. PICK token, code :
          fin' = [fin EXCEPT ![f] = [@ EXCEPT !.token = token, !.code = code,
                                              !.at = "notify"]]
    BY <1>1, Zenon DEF FinishSign
  <2>2. fin[f].at = "sign" /\ ~FinishFind(f)
    BY <1>1 DEF FinishSign, FinishFind
  <2> QED BY <1>t, <1>u, <2>1, <2>2, SignMoves, <1>1 DEF Finish
<1>2. CASE FinishFind(f)
  <2>1. PICK at :
          fin' = [fin EXCEPT ![f] = [@ EXCEPT !.callback = callback[fin[f].id], !.at = at]]
    BY <1>2, Zenon DEF FinishFind
  <2>2. ~FinishSign(f) /\ fin[f].at = "find"
    BY <1>2 DEF FinishFind, FinishSign
  <2>3. /\ \A g \in Finishes \ {f} : fin'[g] = fin[g]
        /\ fin'[f].id = fin[f].id
        /\ fin'[f].at # "idle"
    BY <2>2, FinishMoves
  <2> QED BY <1>t, <1>u, <1>2, <2>1, <2>2, <2>3 DEF Finish
<1>3. CASE ~FinishSign(f) /\ ~FinishFind(f)
  <2>1. fin'[f].callback = fin[f].callback
    BY <1>t, <1>3 DEF FinishStep, FinishMinus, FinishRemoveTimer, FinishDropInfo,
       FinishNotify, FinishDelete, Finish
  <2>2. /\ \A g \in Finishes \ {f} : fin'[g] = fin[g]
        /\ fin'[f].id = fin[f].id
        /\ fin'[f].at # "idle"
    BY <1>3, FinishMoves
  <2> QED BY <1>u, <1>3, <2>1, <2>2
<1> QED BY <1>1, <1>2, <1>3

\* Only Finish calls touch fin, and only SendData calls touch info.
LEMMA HeldFrame ==
  ASSUME [Next]_vars, \A f \in Finishes : ~FinishStep(f),
         \A f \in Finishes, s \in Schedules, report \in Reports : ~FinishCount(f, s, report)
  PROVE  /\ UNCHANGED fin
         /\ \/ \E m \in Infos, s \in Schedules, sizeOk \in BOOLEAN : SendDataFind(m, s, sizeOk)
            \/ \E m \in Infos : SendDataNotify(m)
            \/ UNCHANGED info
<1>1. ASSUME NEW r \in Requests, BeginStep(r)
      PROVE  UNCHANGED <<fin, info>>
  BY <1>1 DEF BeginStep, BeginReject, BeginAddDeath, BeginSave, BeginMonitor, BeginSkip,
     BeginCall, BeginReturn, BeginNotify, BeginDelete, BeginRemoveTimer, begun
<1>2. ASSUME NEW c, CancelStep(c)
      PROVE  UNCHANGED <<fin, info>>
  BY <1>2 DEF CancelStep, CancelGetInfo, CancelEnd, CancelDrop, cancelling
<1>3. ASSUME \/ \E s \in Schedules : AddCoAuthSchedule(s) \/ TimerFires(s)
             \/ \E r \in Requests, s \in Schedules : BeginGetInfo(r, s)
             \/ \E c \in Cancels, s \in Schedules : CancelCall(c, s)
             \/ TimeOutFind \/ TimeOutNotify \/ TimeOutDelete \/ ExecutorsChange
             \/ \E r \in Requests : CallerDies(r) \/ OnRemoteDied(r)
             \/ UNCHANGED vars
      PROVE  UNCHANGED <<fin, info>>
  BY <1>3 DEF AddCoAuthSchedule, TimerFires, BeginGetInfo, CancelCall, TimeOutFind,
     TimeOutNotify, TimeOutDelete, ExecutorsChange, CallerDies, OnRemoteDied, vars,
     begun, cancelling
<1>4. ASSUME \/ \E m \in Infos, s \in Schedules, sizeOk \in BOOLEAN : SendDataFind(m, s, sizeOk)
             \/ \E m \in Infos : SendDataNotify(m)
      PROVE  UNCHANGED fin
  BY <1>4 DEF SendDataFind, SendDataNotify
<1> QED
  BY <1>1, <1>2, <1>3, <1>4 DEF Next, TimeOutStep

\* What BeginSave does to the pool.
LEMMA SaveKeeps ==
  ASSUME TypeOK, NEW r \in Requests, BeginSave(r)
  PROVE  /\ \A s \in Schedules \ {begin[r].id} : callback'[s] = callback[s]
         /\ callback'[begin[r].id] \in {r, callback[begin[r].id]}
<1>1. callback \in [Schedules -> Requests \cup {None}] /\ begin[r].id \in Schedules
  BY DEF TypeOK, BeginSave
<1> QED BY <1>1 DEF BeginSave, SaveScheduleCallback, pool

\* A step of CoAuthHandle touches neither kind of holder.
LEMMA BeginKeepsHolders ==
  ASSUME NEW r \in Requests, BeginStep(r)
  PROVE  UNCHANGED <<fin, info>>
BY DEF BeginStep, BeginReject, BeginAddDeath, BeginSave, BeginMonitor, BeginSkip,
   BeginCall, BeginReturn, BeginNotify, BeginDelete, BeginRemoveTimer, begun

\* NamesInv is inductive.
LEMMA NamesInvariant ==
  /\ Init => NamesInv
  /\ TypeOK /\ NamesInv /\ [Next]_vars => NamesInv'
<1>1. Init => NamesInv
  BY DEF Init, NamesInv, Present
<1>2. ASSUME TypeOK, NamesInv, [Next]_vars
      PROVE  NamesInv'
  <2>t. /\ begin \in [Requests -> Begin]
        /\ callback \in [Schedules -> Requests \cup {None}]
        /\ fin \in [Finishes -> Finish]
        /\ info \in [Infos -> Info]
        /\ \A r \in Requests : begin[r].at # "idle" => begin[r].id \in Schedules
        /\ \A f \in Finishes : fin[f].at # "idle" => fin[f].id \in Schedules
        /\ None \notin Schedules \cup Requests
    BY <1>2, ConstantsAssumption DEF TypeOK, ConstantsAssumption
  <2>h. /\ \A f \in Finishes : fin[f].callback \in Requests \cup {None}
        /\ \A m \in Infos : info[m].callback \in Requests \cup {None}
    BY <2>t DEF Finish, Info
  <2>1. ASSUME NEW r \in Requests, NEW s \in Schedules, BeginGetInfo(r, s)
        PROVE  NamesInv'
    <3>1. /\ \A q \in Requests \ {r} : begin'[q] = begin[q]
          /\ begin'[r].id = s /\ begin'[r].at \in {"addDeath", "reject"}
          /\ begin[r].id = None
          /\ UNCHANGED <<callback, fin, info>>
      BY <1>2, <2>1, <2>t DEF BeginGetInfo, Begin, pool, begun, NamesInv
    <3>2. /\ \A u \in Schedules : callback[u] # r
          /\ \A f \in Finishes : fin[f].callback # r
          /\ \A m \in Infos : info[m].callback # r
      BY <1>2, <3>1, <2>t DEF NamesInv, Present
    <3> QED BY <1>2, <2>t, <2>h, <3>1, <3>2 DEF NamesInv, Present
  <2>2. ASSUME NEW r \in Requests, BeginStep(r)
        PROVE  NamesInv'
    <3>m. /\ \A q \in Requests : begin'[q].id = begin[q].id
          /\ \A q \in Requests \ {r} : begin'[q] = begin[q]
          /\ begin[r].id \in Schedules /\ begin'[r].at # "idle"
      BY <1>2, <2>2, BeginMoves
    <3>h. UNCHANGED <<fin, info>>
      BY <2>2, BeginKeepsHolders
    <3>1. \A s \in Schedules : callback'[s] # None => begin[callback'[s]].id = s
      <4>1. CASE BeginSave(r)
        BY <1>2, <4>1, <3>m, SaveKeeps DEF NamesInv, Present
      <4>2. CASE ~BeginSave(r)
        <5>1. \A s \in Schedules : callback'[s] \in {callback[s], None}
          <6>1. \A q \in Requests : ~BeginSave(q)
            <7> SUFFICES ASSUME NEW q \in Requests, BeginSave(q), q # r
                         PROVE  FALSE
              BY <4>2
            <7>1. begin'[q].at = "monitor" /\ begin[q].at = "save"
              BY <1>2, BeginMoves DEF BeginStep
            <7> QED BY <3>m, <7>1
          <6> QED BY <1>2, <6>1, EntriesShrink
        <5> QED BY <1>2, <5>1 DEF NamesInv, Present
      <4> QED BY <4>1, <4>2
    <3>2. \A s \in Schedules : callback'[s] \in Requests \cup {None}
      BY <1>2, NextType DEF TypeOK
    <3> QED BY <1>2, <2>h, <3>m, <3>h, <3>1, <3>2 DEF NamesInv, Present
  <2>3. CASE /\ \A r \in Requests, s \in Schedules : ~BeginGetInfo(r, s)
             /\ \A r \in Requests : ~BeginStep(r)
    <3>1. UNCHANGED begin
      BY <1>2, <2>3, BeginFrame
    <3>2. \A s \in Schedules : callback'[s] \in {callback[s], None}
      BY <1>2, <2>3, EntriesShrink DEF BeginStep
    <3> DEFINE FinishesKept ==
                 \A f \in Finishes :
                   /\ fin'[f].at = "idle" => fin'[f].callback = None
                   /\ fin'[f].callback # None => begin[fin'[f].callback].id = fin'[f].id
               InfosKept ==
                 \A m \in Infos : info'[m].callback # None =>
                   info'[m].id \in Schedules /\ begin[info'[m].callback].id = info'[m].id
    <3>3. FinishesKept
      <4>1. ASSUME NEW f \in Finishes, FinishStep(f)
            PROVE  FinishesKept
        <5>m. /\ \A g \in Finishes \ {f} : fin'[g] = fin[g]
              /\ fin'[f].id = fin[f].id
              /\ fin'[f].at # "idle"
              /\ fin'[f].callback \in {fin[f].callback, callback[fin[f].id]}
              /\ ~FinishFind(f) => fin'[f].callback = fin[f].callback
              /\ FinishFind(f) => fin[f].at = "find"
          BY <1>2, <4>1, CallbackFound
        <5>1. FinishFind(f) => fin[f].id \in Schedules
          BY <2>t, <5>m
        <5> QED BY <1>2, <5>m, <5>1 DEF NamesInv, Present
      <4>2. ASSUME NEW f \in Finishes, NEW s \in Schedules, NEW report \in Reports,
                   FinishCount(f, s, report)
            PROVE  FinishesKept
        <5>1. /\ \A g \in Finishes \ {f} : fin'[g] = fin[g]
              /\ fin'[f].callback = fin[f].callback
              /\ fin'[f].at # "idle" /\ fin[f].at = "idle"
          BY <2>t, <4>2 DEF FinishCount, Finish
        <5> QED BY <1>2, <5>1 DEF NamesInv
      <4>3. CASE /\ \A f \in Finishes : ~FinishStep(f)
                 /\ \A f \in Finishes, s \in Schedules, report \in Reports :
                      ~FinishCount(f, s, report)
        <5>1. UNCHANGED fin
          BY <1>2, <4>3, HeldFrame
        <5> QED BY <1>2, <5>1 DEF NamesInv
      <4> QED BY <4>1, <4>2, <4>3
    <3>4. InfosKept
      <4>1. ASSUME NEW m \in Infos, NEW s \in Schedules, NEW sizeOk \in BOOLEAN,
                   SendDataFind(m, s, sizeOk)
            PROVE  InfosKept
        <5>1. /\ \A n \in Infos \ {m} : info'[n] = info[n]
              /\ info'[m].id = s /\ info'[m].callback = callback[s]
          BY <2>t, <4>1 DEF SendDataFind
        <5> QED BY <1>2, <5>1 DEF NamesInv, Present
      <4>2. ASSUME NEW m \in Infos, SendDataNotify(m)
            PROVE  InfosKept
        <5>1. /\ \A n \in Infos \ {m} : info'[n] = info[n]
              /\ info'[m].id = info[m].id /\ info'[m].callback = info[m].callback
          BY <2>t, <4>2 DEF SendDataNotify, Info
        <5> QED BY <1>2, <5>1 DEF NamesInv
      <4>3. CASE UNCHANGED info
        BY <1>2, <4>3 DEF NamesInv
      <4>4. CASE \/ \E f \in Finishes : FinishStep(f)
                 \/ \E f \in Finishes, s \in Schedules, report \in Reports :
                      FinishCount(f, s, report)
        BY <1>2, <4>3, <4>4, CallbackFound DEF FinishCount, finishing
      <4> QED BY <1>2, <4>1, <4>2, <4>3, <4>4, HeldFrame
    <3> QED BY <1>2, <3>1, <3>2, <3>3, <3>4 DEF NamesInv, Present
  <2> QED BY <2>1, <2>2, <2>3
<1> QED BY <1>1, <1>2

-----------------------------------------------------------------------------
(* What callers hear.                                                      *)

\* A caller hears what is told, or what it has heard before.
LEMMA Hears ==
  ASSUME TypeOK, NEW q \in Requests \cup {None}, NEW t, NEW c, Tell(q, t, c),
         NEW r \in Requests, NEW m \in told'[r]
  PROVE  \/ m \in told[r]
         \/ r = q /\ m.by = t /\ m.code = c
BY DEF TypeOK, Tell

\* CoAuthHandle tells its own callback, and tells it of failures only.
LEMMA BeginTells ==
  ASSUME TypeOK, HeardInv, NEW r \in Requests, BeginStep(r)
  PROVE  /\ begin'[r].at = "notify" => begin'[r].ret # "SUCCESS"
         /\ \A q \in Requests : \A m \in told'[q] :
              m \in told[q] \/ (q = r /\ m.by = r /\ m.code # "SUCCESS")
<1>b. begin \in [Requests -> Begin]
  BY DEF TypeOK
<1>n. ASSUME NEW ret, NextExecutor(r, ret)
      PROVE  begin'[r].at = "notify" => begin'[r].ret # "SUCCESS"
  <2> DEFINE next == begin[r].i + 1
             at == IF next < ExecutorNum[begin[r].id] THEN "execute"
                   ELSE IF ret = "SUCCESS" THEN "done" ELSE "notify"
  <2>1. begin' = [begin EXCEPT ![r] = [@ EXCEPT !.i = next, !.ret = ret, !.at = at]]
    BY <1>n DEF NextExecutor
  <2>2. at = "notify" => ret # "SUCCESS"
    OBVIOUS
  <2> HIDE DEF next, at
  <2> QED BY <1>b, <2>1, <2>2 DEF Begin
<1>1. CASE BeginReject(r)
  <2>1. begin'[r].at = "done"
    BY <1>b, <1>1 DEF BeginReject, Begin
  <2>2. Tell(r, r, "FAIL")
    BY <1>1 DEF BeginReject
  <2> QED BY <2>1, <2>2, Hears
<1>2. CASE BeginNotify(r)
  <2>1. begin'[r].at = "delete"
    BY <1>b, <1>2 DEF BeginNotify, Begin
  <2>2. Tell(r, r, begin[r].ret) /\ begin[r].ret # "SUCCESS"
    BY <1>2 DEF BeginNotify, HeardInv
  <2> QED BY <2>1, <2>2, Hears
<1>3. CASE BeginSkip(r)
  BY <1>3, <1>n DEF BeginSkip
<1>4. CASE \E ret \in {"SUCCESS", "FAIL"} : BeginReturn(r, ret)
  BY <1>4, <1>n DEF BeginReturn
<1>5. CASE \/ BeginAddDeath(r) \/ BeginSave(r) \/ BeginMonitor(r) \/ BeginCall(r)
           \/ BeginDelete(r) \/ BeginRemoveTimer(r)
  BY <1>b, <1>5 DEF BeginAddDeath, BeginSave, BeginMonitor, BeginCall, BeginDelete,
     BeginRemoveTimer, Begin
<1> QED BY <1>1, <1>2, <1>3, <1>4, <1>5 DEF BeginStep

\* Finish tells the callback it has found, once, and of a success only with a
\* token.
LEMMA FinishTells ==
  ASSUME TypeOK, HeardInv, NEW f \in Finishes, FinishStep(f)
  PROVE  /\ fin'[f].at = "notify" /\ fin'[f].code = "SUCCESS" => fin'[f].token # "none"
         /\ fin[f].at \in {"delete", "done"} =>
              /\ fin'[f].at \in {"delete", "done"}
              /\ fin'[f].callback = fin[f].callback
              /\ fin'[f].token = fin[f].token
         /\ \A q \in Requests : \A m \in told'[q] :
              \/ m \in told[q]
              \/ /\ m.by = f /\ fin'[f].callback = q /\ fin'[f].at = "delete"
                 /\ m.code = "SUCCESS" => fin'[f].token # "none"
<1>t. fin \in [Finishes -> Finish]
  BY DEF TypeOK
<1>1. CASE FinishNotify(f)
  <2>1. /\ fin'[f].at = "delete" /\ fin'[f].callback = fin[f].callback
        /\ fin'[f].token = fin[f].token
        /\ fin[f].at = "notify"
    BY <1>t, <1>1 DEF FinishNotify, Finish
  <2>2. Tell(fin[f].callback, f, fin[f].code) /\ fin[f].callback \in Requests \cup {None}
    BY <1>t, <1>1 DEF FinishNotify, Finish
  <2>3. fin[f].code = "SUCCESS" => fin[f].token # "none"
    BY <2>1 DEF HeardInv
  <2> QED BY <2>1, <2>2, <2>3, Hears
<1>2. CASE FinishSign(f)
  <2> DEFINE s == fin[f].id
             report == fin[f].report
             token == IF Signs(s, report) THEN "signed"
                      ELSE IF Grants(s, report) THEN "unsigned" ELSE "none"
             code == IF Grants(s, report) THEN "SUCCESS" ELSE "FAIL"
  <2>1. fin' = [fin EXCEPT ![f] = [@ EXCEPT !.token = token, !.code = code, !.at = "notify"]]
    BY <1>2 DEF FinishSign
  <2>2. code = "SUCCESS" => token # "none"
    OBVIOUS
  <2>3. fin[f].at = "sign" /\ UNCHANGED told
    BY <1>2 DEF FinishSign
  <2> HIDE DEF token, code
  <2> QED BY <1>t, <2>1, <2>2, <2>3 DEF Finish
<1>3. CASE FinishFind(f)
  <2> DEFINE at == IF ~Present(fin[f].id) THEN "dropInfo"
                   ELSE IF fin[f].code = "SUCCESS" THEN "sign" ELSE "notify"
  <2>1. fin' = [fin EXCEPT ![f] = [@ EXCEPT !.callback = callback[fin[f].id], !.at = at]]
    BY <1>3 DEF FinishFind
  <2>2. at = "notify" => fin[f].code # "SUCCESS"
    OBVIOUS
  <2>3. fin[f].at = "find" /\ UNCHANGED told
    BY <1>3 DEF FinishFind
  <2> HIDE DEF at
  <2> QED BY <1>t, <2>1, <2>2, <2>3 DEF Finish
<1>4. CASE \/ FinishMinus(f) \/ FinishRemoveTimer(f) \/ FinishDropInfo(f)
           \/ FinishDelete(f)
  BY <1>t, <1>4 DEF FinishMinus, FinishRemoveTimer, FinishDropInfo, FinishDelete, Finish
<1> QED BY <1>1, <1>2, <1>3, <1>4 DEF FinishStep

\* HeardInv is inductive.
LEMMA HeardInvariant ==
  /\ Init => HeardInv
  /\ TypeOK /\ HeardInv /\ [Next]_vars => HeardInv'
<1>1. Init => HeardInv
  BY DEF Init, HeardInv
<1>2. ASSUME TypeOK, HeardInv, [Next]_vars
      PROVE  HeardInv'
  <2>t. /\ begin \in [Requests -> Begin]
        /\ fin \in [Finishes -> Finish]
        /\ info \in [Infos -> Info]
        /\ told \in [Requests -> SUBSET Message]
    BY <1>2 DEF TypeOK
  <2>d. /\ Requests \cap Finishes = {} /\ Requests \cap Infos = {} /\ Finishes \cap Infos = {}
        /\ Monitor \notin Requests \cup Finishes \cup Infos
    BY ThreadsDistinct DEF ThreadsDistinct
  <2>1. ASSUME NEW r \in Requests, NEW s \in Schedules, BeginGetInfo(r, s)
        PROVE  HeardInv'
    <3>1. /\ \A q \in Requests \ {r} : begin'[q] = begin[q]
          /\ begin'[r].at # "notify"
          /\ UNCHANGED <<fin, info, told>>
      BY <2>1, <2>t DEF BeginGetInfo, Begin, begun
    <3> QED BY <1>2, <3>1 DEF HeardInv, Traced
  <2>2. ASSUME NEW r \in Requests, BeginStep(r)
        PROVE  HeardInv'
    <3>1. UNCHANGED <<fin, info>> /\ \A q \in Requests \ {r} : begin'[q] = begin[q]
      BY <1>2, <2>2, BeginMoves, BeginKeepsHolders
    <3>2. /\ begin'[r].at = "notify" => begin'[r].ret # "SUCCESS"
          /\ \A q \in Requests : \A m \in told'[q] :
               m \in told[q] \/ (q = r /\ m.by = r /\ m.code # "SUCCESS")
      BY <1>2, <2>2, BeginTells
    <3>3. ASSUME NEW q \in Requests, NEW m \in told'[q]
          PROVE  Traced(q, m)'
      BY <1>2, <2>d, <3>1, <3>2, <3>3 DEF HeardInv, Traced
    <3>4. \A q \in Requests : begin'[q].at = "notify" => begin'[q].ret # "SUCCESS"
      BY <1>2, <3>1, <3>2 DEF HeardInv
    <3>5. \A f \in Finishes :
            fin'[f].at = "notify" /\ fin'[f].code = "SUCCESS" => fin'[f].token # "none"
      BY <1>2, <3>1 DEF HeardInv
    <3> QED BY <3>3, <3>4, <3>5 DEF HeardInv
  <2>3. ASSUME NEW f \in Finishes, FinishStep(f)
        PROVE  HeardInv'
    <3>1. UNCHANGED <<begin, info>> /\ \A g \in Finishes \ {f} : fin'[g] = fin[g]
      BY <1>2, <2>3, CallbackFound
    <3>2. /\ fin'[f].at = "notify" /\ fin'[f].code = "SUCCESS" => fin'[f].token # "none"
          /\ fin[f].at \in {"delete", "done"} =>
               /\ fin'[f].at \in {"delete", "done"}
               /\ fin'[f].callback = fin[f].callback
               /\ fin'[f].token = fin[f].token
          /\ \A q \in Requests : \A m \in told'[q] :
               \/ m \in told[q]
               \/ /\ m.by = f /\ fin'[f].callback = q /\ fin'[f].at = "delete"
                  /\ m.code = "SUCCESS" => fin'[f].token # "none"
      BY <1>2, <2>3, FinishTells
    <3>3. ASSUME NEW q \in Requests, NEW m \in told'[q]
          PROVE  Traced(q, m)'
      <4>1. CASE m \in told[q]
        <5>1. Traced(q, m)
          BY <1>2, <4>1 DEF HeardInv
        <5>2. CASE m.by = f
          BY <2>d, <3>1, <3>2, <5>1, <5>2 DEF Traced
        <5>3. CASE m.by # f
          BY <3>1, <5>1, <5>3 DEF Traced
        <5> QED BY <5>2, <5>3
      <4>2. CASE m \notin told[q]
        BY <2>d, <3>2, <3>3, <4>2 DEF Traced
      <4> QED BY <4>1, <4>2
    <3>4. \A g \in Finishes :
            fin'[g].at = "notify" /\ fin'[g].code = "SUCCESS" => fin'[g].token # "none"
      BY <1>2, <3>1, <3>2 DEF HeardInv
    <3> QED BY <1>2, <3>1, <3>3, <3>4 DEF HeardInv
  <2>4. ASSUME NEW f \in Finishes, NEW s \in Schedules, NEW report \in Reports,
               FinishCount(f, s, report)
        PROVE  HeardInv'
    <3>1. /\ \A g \in Finishes \ {f} : fin'[g] = fin[g]
          /\ fin'[f].at # "notify" /\ fin[f].at = "idle"
          /\ UNCHANGED <<begin, info, told>>
      BY <2>4, <2>t DEF FinishCount, finishing, Finish
    <3>2. ASSUME NEW q \in Requests, NEW m \in told[q]
          PROVE  Traced(q, m)'
      <4>1. Traced(q, m)
        BY <1>2 DEF HeardInv
      <4>2. m.by # f
        BY <3>1, <4>1 DEF Traced
      <4> QED BY <3>1, <4>1, <4>2 DEF Traced
    <3> QED BY <1>2, <3>1, <3>2 DEF HeardInv
  <2>5. ASSUME NEW n \in Infos, NEW s \in Schedules, NEW sizeOk \in BOOLEAN,
               SendDataFind(n, s, sizeOk)
        PROVE  HeardInv'
    <3>1. /\ \A i \in Infos \ {n} : info'[i] = info[i]
          /\ info[n].at = "idle"
          /\ UNCHANGED <<begin, fin, told>>
      BY <2>5, <2>t DEF SendDataFind
    <3>2. ASSUME NEW q \in Requests, NEW m \in told[q]
          PROVE  Traced(q, m)'
      <4>1. Traced(q, m)
        BY <1>2 DEF HeardInv
      <4>2. m.by # n
        BY <3>1, <4>1 DEF Traced
      <4> QED BY <3>1, <4>1, <4>2 DEF Traced
    <3> QED BY <1>2, <3>1, <3>2 DEF HeardInv
  <2>6. ASSUME NEW n \in Infos, SendDataNotify(n)
        PROVE  HeardInv'
    <3>1. /\ \A i \in Infos \ {n} : info'[i] = info[i]
          /\ info[n].at = "notify" /\ info'[n].at = "done"
          /\ info'[n].callback = info[n].callback
          /\ info[n].callback \in Requests \cup {None}
          /\ UNCHANGED <<begin, fin>>
          /\ Tell(info[n].callback, n, "ACQUIRE")
      BY <2>6, <2>t DEF SendDataNotify, Info
    <3>2. ASSUME NEW q \in Requests, NEW m \in told'[q]
          PROVE  Traced(q, m)'
      <4>1. \/ m \in told[q]
            \/ q = info[n].callback /\ m.by = n /\ m.code = "ACQUIRE"
        BY <1>2, <3>1, Hears
      <4>2. CASE m \in told[q]
        <5>1. Traced(q, m)
          BY <1>2, <4>2 DEF HeardInv
        <5>2. m.by # n
          BY <3>1, <5>1 DEF Traced
        <5> QED BY <3>1, <5>1, <5>2 DEF Traced
      <4>3. CASE q = info[n].callback /\ m.by = n /\ m.code = "ACQUIRE"
        BY <2>d, <3>1, <4>3 DEF Traced
      <4> QED BY <4>1, <4>2, <4>3
    <3> QED BY <1>2, <3>1, <3>2 DEF HeardInv
  <2>7. CASE TimeOutNotify
    <3>1. /\ UNCHANGED <<begin, fin, info>>
          /\ Tell(job[Monitor].callback, Monitor, "TIMEOUT")
          /\ job[Monitor].callback \in Requests \cup {None}
      BY <1>2, <2>7 DEF TimeOutNotify, cancelling, TypeOK, Job
    <3>2. ASSUME NEW q \in Requests, NEW m \in told'[q]
          PROVE  Traced(q, m)'
      <4>1. m \in told[q] \/ (m.by = Monitor /\ m.code = "TIMEOUT")
        BY <1>2, <3>1, Hears
      <4> QED BY <1>2, <2>d, <3>1, <4>1 DEF HeardInv, Traced
    <3> QED BY <1>2, <3>1, <3>2 DEF HeardInv
  <2>8. ASSUME \/ \E s \in Schedules : AddCoAuthSchedule(s) \/ TimerFires(s)
               \/ \E c \in Cancels, s \in Schedules : CancelCall(c, s)
               \/ TimeOutFind \/ TimeOutDelete \/ ExecutorsChange
               \/ \E r \in Requests : CallerDies(r) \/ OnRemoteDied(r)
               \/ UNCHANGED vars
        PROVE  UNCHANGED <<begin, fin, info, told>>
    BY <2>8 DEF AddCoAuthSchedule, TimerFires, CancelCall, TimeOutFind, TimeOutDelete,
       ExecutorsChange, CallerDies, OnRemoteDied, vars, cancelling
  <2>9. ASSUME NEW c, CancelStep(c)
        PROVE  UNCHANGED <<begin, fin, info, told>>
    BY <2>9 DEF CancelStep, CancelGetInfo, CancelEnd, CancelDrop, cancelling
  <2>10. CASE UNCHANGED <<begin, fin, info, told>>
    BY <1>2, <2>10 DEF HeardInv, Traced
  <2> QED
    BY <1>2, <2>1, <2>2, <2>3, <2>4, <2>5, <2>6, <2>7, <2>8, <2>9, <2>10
    DEF Next, TimeOutStep
<1> QED BY <1>1, <1>2

\* The invariants together.
LEMMA CallerInvariant == Spec => [](TypeOK /\ TokenInv /\ NamesInv /\ HeardInv)
<1> DEFINE Inv == TypeOK /\ TokenInv /\ NamesInv /\ HeardInv
<1>1. Init => Inv
  BY InitType, TokenInvariant, NamesInvariant, HeardInvariant
<1>2. Inv /\ [Next]_vars => Inv'
  BY NextType, TokenInvariant, NamesInvariant, HeardInvariant
<1> QED BY <1>1, <1>2, PTL DEF Spec

\* ICoAuthCallback: what executors say of a schedule, its result and the data
\* they send, reaches a request that began this very schedule.
THEOREM OwnersTold == Spec => []OwnerIsTold
<1>1. TypeOK /\ NamesInv /\ HeardInv => OwnerIsTold
  <2> SUFFICES ASSUME TypeOK, NamesInv, HeardInv, NEW r \in Requests, NEW m \in told[r]
               PROVE  /\ m.by \in Finishes => fin[m.by].id = begin[r].id
                      /\ m.by \in Infos => info[m.by].id = begin[r].id
                      /\ m.by \in Requests => m.by = r
    BY DEF OwnerIsTold
  <2>1. Traced(r, m) /\ r # None
    BY ConstantsAssumption DEF HeardInv, ConstantsAssumption
  <2> QED BY <2>1 DEF Traced, NamesInv
<1> QED BY <1>1, CallerInvariant, PTL

\* Whatever the order of the last answer, the timeout and a begin thread that
\* fails, and even when two callers began the same id, one success is told for a
\* schedule, by one Finish call and to one caller.
THEOREM SuccessAtMostOnce == Spec => []OneSuccess
<1>1. TypeOK /\ TokenInv /\ NamesInv /\ HeardInv => OneSuccess
  <2> SUFFICES ASSUME TypeOK, TokenInv, NamesInv, HeardInv,
                      NEW r \in Requests, NEW q \in Requests,
                      NEW m \in told[r], NEW n \in told[q],
                      begin[r].id = begin[q].id, m.code = "SUCCESS", n.code = "SUCCESS"
               PROVE  m.by = n.by /\ r = q
    BY DEF OneSuccess
  <2>1. /\ m.by \in Finishes /\ fin[m.by].token # "none" /\ fin[m.by].callback = r
        /\ n.by \in Finishes /\ fin[n.by].token # "none" /\ fin[n.by].callback = q
    BY DEF HeardInv, Traced
  <2>2. r # None /\ q # None
    BY ConstantsAssumption DEF ConstantsAssumption
  <2>3. fin[m.by].id = begin[r].id /\ fin[n.by].id = begin[q].id
    BY <2>1, <2>2 DEF NamesInv
  <2>4. m.by = n.by
    BY <2>1, <2>3 DEF TokenInv
  <2> QED BY <2>1, <2>4
<1> QED BY <1>1, CallerInvariant, PTL

-----------------------------------------------------------------------------
(* Nothing is heard once the schedule is over.                             *)

\* CoAuthHandle neither tells nor saves the callback of another request.
LEMMA BeginIsQuiet ==
  ASSUME TypeOK, [Next]_vars, NEW q \in Requests, BeginStep(q),
         NEW r \in Requests, ~MayTell(r)
  PROVE  ~MayTell(r)' /\ told'[r] = told[r]
<1>t. /\ begin \in [Requests -> Begin]
      /\ callback \in [Schedules -> Requests \cup {None}]
      /\ told \in [Requests -> SUBSET Message]
      /\ None \notin Requests
  BY ConstantsAssumption DEF TypeOK, ConstantsAssumption
<1>1. begin[r].at = "done" /\ begin[q].at # "done" /\ q # r
  BY DEF MayTell, BeginStep, BeginReject, BeginAddDeath, BeginSave, BeginMonitor,
     BeginSkip, BeginCall, BeginReturn, BeginNotify, BeginDelete, BeginRemoveTimer
<1>2. begin'[r] = begin[r]
  BY <1>1, BeginMoves
<1>3. UNCHANGED <<fin, info, job>>
  BY DEF BeginStep, BeginReject, BeginAddDeath, BeginSave, BeginMonitor, BeginSkip,
     BeginCall, BeginReturn, BeginNotify, BeginDelete, BeginRemoveTimer, begun
<1>4. \A s \in Schedules : callback'[s] # r
  <2>1. CASE BeginSave(q)
    <3>1. begin[q].id \in Schedules /\ \A s \in Schedules : callback[s] # r
      BY BeginMoves DEF MayTell
    <3> QED BY <1>1, <2>1, <3>1, SaveKeeps
  <2>2. CASE ~BeginSave(q)
    <3>1. callback' = callback \/ DeleteScheduleCallback(begin[q].id)
      BY <2>2 DEF BeginStep, BeginReject, BeginAddDeath, BeginMonitor, BeginSkip,
         BeginCall, BeginReturn, BeginNotify, BeginDelete, BeginRemoveTimer, pool
    <3> QED BY <1>t, <3>1 DEF DeleteScheduleCallback, MayTell
  <2> QED BY <2>1, <2>2
<1>5. told'[r] = told[r]
  <2>1. told' = told \/ \E code : Tell(q, q, code)
    BY DEF BeginStep, BeginReject, BeginAddDeath, BeginSave, BeginMonitor, BeginSkip,
       BeginCall, BeginReturn, BeginNotify, BeginDelete, BeginRemoveTimer
  <2> QED BY <1>t, <1>1, <2>1 DEF Tell
<1> QED BY <1>1, <1>2, <1>3, <1>4, <1>5 DEF MayTell

\* Cancel moves its own thread only, and never to where TimeOut tells.
LEMMA CancelIsQuiet ==
  ASSUME TypeOK, NEW c \in Cancels \cup {Monitor}, CancelStep(c)
  PROVE  /\ \A d \in Cancels \cup {Monitor} : d # c => job'[d] = job[d]
         /\ job'[c].at # "notify"
         /\ UNCHANGED told
<1>t. job \in [Cancels \cup {Monitor} -> Job]
  BY DEF TypeOK
<1>r. Return(c) # "notify"
  BY DEF Return
<1>1. CASE CancelGetInfo(c)
  <2>1. PICK ret \in {"SUCCESS", "FAIL"}, at \in {"end", Return(c)} :
          job' = [job EXCEPT ![c] = [@ EXCEPT !.i = 0, !.ret = ret, !.at = at]]
    BY <1>1 DEF CancelGetInfo
  <2> QED BY <1>t, <1>r, <1>1, <2>1 DEF Job, CancelGetInfo
<1>2. ASSUME NEW ret \in {"SUCCESS", "FAIL"}, CancelEnd(c, ret)
      PROVE  /\ \A d \in Cancels \cup {Monitor} : d # c => job'[d] = job[d]
             /\ job'[c].at # "notify"
             /\ UNCHANGED told
  <2> DEFINE next == job[c].i + 1
             sum == IF ret = "SUCCESS" THEN job[c].ret ELSE ret
             at == IF next < ExecutorNum[job[c].id] THEN "end"
                   ELSE IF sum = "SUCCESS" THEN "drop" ELSE Return(c)
  <2>1. job' = [job EXCEPT ![c] = [@ EXCEPT !.i = next, !.ret = sum, !.at = at]]
    BY <1>2 DEF CancelEnd
  <2>2. at # "notify"
    BY <1>r
  <2>3. UNCHANGED told
    BY <1>2 DEF CancelEnd
  <2> HIDE DEF next, sum, at
  <2> QED BY <1>t, <2>1, <2>2, <2>3 DEF Job
<1>3. CASE CancelDrop(c)
  BY <1>t, <1>r, <1>3 DEF CancelDrop, Job
<1> QED BY <1>1, <1>2, <1>3 DEF CancelStep

\* No thread outside CoAuthHandle comes by a callback but from the pool.
LEMMA OthersAreQuiet ==
  ASSUME TypeOK, [Next]_vars, \A q \in Requests : ~BeginStep(q),
         NEW r \in Requests, ~MayTell(r)
  PROVE  ~MayTell(r)' /\ told'[r] = told[r]
<1>t. /\ begin \in [Requests -> Begin]
      /\ fin \in [Finishes -> Finish]
      /\ info \in [Infos -> Info]
      /\ job \in [Cancels \cup {Monitor} -> Job]
      /\ told \in [Requests -> SUBSET Message]
      /\ \A f \in Finishes : fin[f].at # "idle" => fin[f].id \in Schedules
      /\ job[Monitor].at # "idle" => job[Monitor].id \in Schedules
      /\ r # None
  BY ConstantsAssumption DEF TypeOK, ConstantsAssumption
<1>q. /\ begin[r].at = "done"
      /\ \A s \in Schedules : callback[s] # r
      /\ \A f \in Finishes : fin[f].callback = r => fin[f].at \notin {"sign", "notify"}
      /\ job[Monitor].callback = r => job[Monitor].at # "notify"
      /\ \A m \in Infos : info[m].callback = r => info[m].at # "notify"
  BY DEF MayTell
<1>1. begin'[r].at = "done"
  <2>1. CASE \E q \in Requests, s \in Schedules : BeginGetInfo(q, s)
    BY <1>t, <1>q, <2>1 DEF BeginGetInfo
  <2>2. CASE \A q \in Requests, s \in Schedules : ~BeginGetInfo(q, s)
    BY <1>q, <2>2, BeginFrame
  <2> QED BY <2>1, <2>2
<1>2. \A s \in Schedules : callback'[s] # r
  BY <1>t, <1>q, EntriesShrink DEF BeginStep
<1>3. \A f \in Finishes : fin'[f].callback = r => fin'[f].at \notin {"sign", "notify"}
  <2> DEFINE FinishesQuiet ==
               \A f \in Finishes : fin'[f].callback = r => fin'[f].at \notin {"sign", "notify"}
  <2>1. ASSUME NEW f \in Finishes, FinishStep(f)
        PROVE  FinishesQuiet
    <3>m. /\ \A g \in Finishes \ {f} : fin'[g] = fin[g]
          /\ fin'[f].callback \in {fin[f].callback, callback[fin[f].id]}
          /\ ~FinishFind(f) => fin'[f].callback = fin[f].callback
          /\ FinishFind(f) => fin[f].at = "find"
      BY <2>1, CallbackFound
    <3>1. CASE FinishFind(f)
      <4>1. fin'[f].callback = callback[fin[f].id] /\ fin[f].id \in Schedules
        <5>1. PICK at :
                fin' = [fin EXCEPT ![f] = [@ EXCEPT !.callback = callback[fin[f].id], !.at = at]]
          BY <3>1, Zenon DEF FinishFind
        <5> QED BY <1>t, <3>1, <3>m, <5>1 DEF Finish
      <4> QED BY <1>q, <3>m, <4>1
    <3>2. CASE FinishSign(f)
      <4>1. fin[f].at = "sign" /\ ~FinishFind(f)
        BY <3>2 DEF FinishSign, FinishFind
      <4> QED BY <1>q, <3>m, <4>1
    <3>3. CASE ~FinishFind(f) /\ ~FinishSign(f)
      <4>1. fin'[f].at \notin {"sign", "notify"}
        BY <1>t, <2>1, <3>3 DEF FinishStep, FinishMinus, FinishRemoveTimer, FinishDropInfo,
           FinishNotify, FinishDelete, Finish
      <4> QED BY <1>q, <3>m, <4>1
    <3> QED BY <3>1, <3>2, <3>3
  <2>2. ASSUME NEW f \in Finishes, NEW s \in Schedules, NEW report \in Reports,
               FinishCount(f, s, report)
        PROVE  FinishesQuiet
    <3>1. /\ \A g \in Finishes \ {f} : fin'[g] = fin[g]
          /\ fin'[f].at \in {"minus", "removeTimer"}
      BY <1>t, <2>2 DEF FinishCount, Finish
    <3> QED BY <1>q, <3>1
  <2>3. CASE /\ \A f \in Finishes : ~FinishStep(f)
             /\ \A f \in Finishes, s \in Schedules, report \in Reports :
                  ~FinishCount(f, s, report)
    BY <1>q, <2>3, HeldFrame
  <2> QED BY <2>1, <2>2, <2>3
<1>4. \A m \in Infos : info'[m].callback = r => info'[m].at # "notify"
  <2> DEFINE InfosQuiet == \A m \in Infos : info'[m].callback = r => info'[m].at # "notify"
  <2>1. ASSUME NEW m \in Infos, NEW s \in Schedules, NEW sizeOk \in BOOLEAN,
               SendDataFind(m, s, sizeOk)
        PROVE  InfosQuiet
    BY <1>t, <1>q, <2>1 DEF SendDataFind
  <2>2. ASSUME NEW m \in Infos, SendDataNotify(m)
        PROVE  InfosQuiet
    BY <1>t, <1>q, <2>2 DEF SendDataNotify, Info
  <2>3. CASE UNCHANGED info
    BY <1>q, <2>3
  <2>4. CASE \/ \E f \in Finishes : FinishStep(f)
             \/ \E f \in Finishes, s \in Schedules, report \in Reports :
                  FinishCount(f, s, report)
    BY <2>3, <2>4, CallbackFound DEF FinishCount, finishing
  <2> QED BY <2>1, <2>2, <2>3, <2>4, HeldFrame
<1>5. job'[Monitor].callback = r => job'[Monitor].at # "notify"
  <2> DEFINE JobQuiet == job'[Monitor].callback = r => job'[Monitor].at # "notify"
  <2>1. CASE TimeOutFind
    <3>1. PICK at :
            job' = [job EXCEPT ![Monitor] =
                      [@ EXCEPT !.callback = callback[job[Monitor].id], !.at = at]]
      BY <2>1, Zenon DEF TimeOutFind
    <3>2. job'[Monitor].callback = callback[job[Monitor].id] /\ job[Monitor].id \in Schedules
      BY <1>t, <2>1, <3>1 DEF TimeOutFind, Job
    <3> QED BY <1>q, <3>2
  <2>2. CASE TimeOutNotify \/ TimeOutDelete \/ \E s \in Schedules : TimerFires(s)
    <3>1. CASE TimeOutNotify
      BY <1>t, <3>1 DEF TimeOutNotify, Job
    <3>2. CASE TimeOutDelete
      BY <1>t, <3>2 DEF TimeOutDelete, Job
    <3>3. ASSUME NEW s \in Schedules, TimerFires(s)
          PROVE  JobQuiet
      <4>1. job' = [job EXCEPT ![Monitor] = [@ EXCEPT !.id = s, !.at = "find"]]
        BY <3>3 DEF TimerFires
      <4> QED BY <1>t, <4>1 DEF Job
    <3> QED BY <2>2, <3>1, <3>2, <3>3
  <2>3. ASSUME NEW c \in Cancels \cup {Monitor}, CancelStep(c)
        PROVE  JobQuiet
    BY <1>q, <2>3, CancelIsQuiet
  <2>4. CASE UNCHANGED job
    BY <1>q, <2>4
  <2>5. ASSUME NEW c \in Cancels, NEW s \in Schedules, CancelCall(c, s)
        PROVE  job'[Monitor] = job[Monitor]
    BY <1>t, <2>5, ThreadsDistinct DEF CancelCall, ThreadsDistinct
  <2>6. ASSUME \/ \E s \in Schedules : AddCoAuthSchedule(s)
               \/ \E q \in Requests, s \in Schedules : BeginGetInfo(q, s)
               \/ \E f \in Finishes, s \in Schedules, report \in Reports : FinishCount(f, s, report)
               \/ \E m \in Infos, s \in Schedules, sizeOk \in BOOLEAN : SendDataFind(m, s, sizeOk)
               \/ \E m \in Infos : SendDataNotify(m)
               \/ \E q \in Requests : CallerDies(q) \/ OnRemoteDied(q)
               \/ ExecutorsChange
               \/ UNCHANGED vars
        PROVE  UNCHANGED job
    BY <2>6 DEF AddCoAuthSchedule, BeginGetInfo, FinishCount, SendDataFind, SendDataNotify,
       CallerDies, OnRemoteDied, ExecutorsChange, vars, begun, finishing
  <2>7. ASSUME NEW f \in Finishes, FinishStep(f)
        PROVE  UNCHANGED job
    BY <2>7 DEF FinishStep, FinishMinus, FinishRemoveTimer, FinishFind, FinishDropInfo,
       FinishSign, FinishNotify, FinishDelete, finishing
  <2> QED BY <1>q, <2>1, <2>2, <2>3, <2>4, <2>5, <2>6, <2>7 DEF Next, TimeOutStep
<1>6. told'[r] = told[r]
  <2>1. ASSUME NEW f \in Finishes, FinishStep(f)
        PROVE  told'[r] = told[r]
    <3>1. CASE FinishNotify(f)
      <4>1. fin[f].callback # r /\ Tell(fin[f].callback, f, fin[f].code)
        BY <1>q, <3>1 DEF FinishNotify
      <4> QED BY <1>t, <4>1 DEF Tell
    <3>2. CASE ~FinishNotify(f)
      BY <2>1, <3>2 DEF FinishStep, FinishMinus, FinishRemoveTimer, FinishFind,
         FinishDropInfo, FinishSign, FinishDelete
    <3> QED BY <3>1, <3>2
  <2>2. ASSUME NEW m \in Infos, SendDataNotify(m)
        PROVE  told'[r] = told[r]
    BY <1>t, <1>q, <2>2 DEF SendDataNotify, Tell
  <2>3. CASE TimeOutNotify
    BY <1>t, <1>q, <2>3 DEF TimeOutNotify, Tell
  <2>4. ASSUME \/ \E s \in Schedules : AddCoAuthSchedule(s) \/ TimerFires(s)
               \/ \E q \in Requests, s \in Schedules : BeginGetInfo(q, s)
               \/ \E f \in Finishes, s \in Schedules, report \in Reports : FinishCount(f, s, report)
               \/ \E m \in Infos, s \in Schedules, sizeOk \in BOOLEAN : SendDataFind(m, s, sizeOk)
               \/ \E c \in Cancels, s \in Schedules : CancelCall(c, s)
               \/ TimeOutFind \/ TimeOutDelete \/ ExecutorsChange
               \/ \E q \in Requests : CallerDies(q) \/ OnRemoteDied(q)
               \/ UNCHANGED vars
        PROVE  UNCHANGED told
    BY <2>4 DEF AddCoAuthSchedule, TimerFires, BeginGetInfo, FinishCount, SendDataFind,
       CancelCall, TimeOutFind, TimeOutDelete, ExecutorsChange, CallerDies, OnRemoteDied, vars
  <2> QED BY <2>1, <2>2, <2>3, <2>4, CancelIsQuiet DEF Next, TimeOutStep
<1> QED BY <1>1, <1>2, <1>3, <1>4, <1>5, <1>6 DEF MayTell

\* Once the entry has gone and no thread holds the callback any more, a late
\* Finish, SendData or timeout has no way to reach the caller: nobody revives it.
THEOREM QuietOnceOver == Spec => QuietAfterEnd
<1>1. TypeOK /\ [Next]_vars =>
        \A r \in Requests : ~MayTell(r) => ~MayTell(r)' /\ told'[r] = told[r]
  BY BeginIsQuiet, OthersAreQuiet
<1> QED BY <1>1, TypeCorrect, PTL DEF QuietAfterEnd, Spec
=============================================================================
