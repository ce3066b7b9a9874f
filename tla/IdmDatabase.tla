----------------------------- MODULE IdmDatabase -----------------------------
(***************************************************************************)
(* The credential database of the trusted side: the list of users kept in   *)
(* memory (idm_database.c), the pointer to the user looked at last, and the *)
(* file the list is written to after a change and loaded from when the      *)
(* service starts (idm_file_manager.c, file_operator.c).                    *)
(*                                                                         *)
(* Calls come one at a time, under the global lock, but the process can die *)
(* at any point.  A call that changes the list is therefore three steps:    *)
(* the change in memory, the opening of the file, which truncates it, and   *)
(* the writing.                                                            *)
(***************************************************************************)
EXTENDS Credentials, FiniteSetsExt

CONSTANTS
  Users,         \* userIds
  MaxUser,       \* MAX_USER
  Capacity,      \* PRE_APPLY_LEN, which CapacityExpansion never exceeds
  Dangling       \* a pointer to a user that has been freed

ASSUME ConstantsAssumption ==
  /\ IsFiniteSet(Users)
  /\ Pin \in AuthTypes
  /\ {MaxUser, MaxCredential, MaxAuthType, Capacity} \subseteq Nat
  /\ MaxAuthType < MaxCredential
  /\ MaxUser > 0
  /\ Faults \in BOOLEAN
  /\ None \notin Users \cup Ids
  /\ Dangling \notin Users \cup {None}

VARIABLES
  loaded,  \* is there a g_userInfoList?
  mem,     \* g_userInfoList, by userId
  current, \* g_currentUser, named by the userId it points to
  file,    \* "none", "torn" (truncated or cut short) or "whole"
  disk,    \* what a whole file holds
  call,    \* how far the call that holds the lock has come
  acked,   \* credentials whose addition was reported a SUCCESS, until deleted
  hollow   \* those of them that no user in the list was given

reports == <<acked, hollow>>
vars == <<loaded, mem, current, file, disk, call, reports>>

\* The credentialId a call will report; has that credential been added?
Call == [at : {"idle", "open", "write"}, user : Users \cup {None},
         id : Ids \cup {None}, added : BOOLEAN]

Empty    == [u \in Users |-> NoUser]
Returned == [at |-> "idle", user |-> None, id |-> None, added |-> FALSE]

\* A call is under way only while there is a list.
TypeOK ==
  /\ loaded \in BOOLEAN
  /\ mem \in [Users -> UserInfo]
  /\ current \in Users \cup {None, Dangling}
  /\ file \in {"none", "torn", "whole"}
  /\ disk \in [Users -> UserInfo]
  /\ call \in Call
  /\ acked \subseteq Users \X Ids
  /\ hollow \subseteq Users \X Ids
  /\ call.at # "idle" => loaded

Init ==
  /\ loaded = FALSE
  /\ mem = Empty
  /\ current = None
  /\ file = "none"
  /\ disk = Empty
  /\ call = Returned
  /\ acked = {}
  /\ hollow = {}

-----------------------------------------------------------------------------
(* What the file can hold, and what is read back.                          *)

\* sizeof(EnrolledInfoHal) = 16, sizeof(CredentialInfoHal) = 40, 20 bytes for a
\* user, 8 for the version and the number of users.
UserSize(info) ==
  IF info.listed THEN 20 + 40 * Cardinality(info.creds) + 16 * Cardinality(info.enrolled)
  ELSE 0

Size(content) == 8 + MapThenSumSet(LAMBDA u : UserSize(content[u]), Users)

ListedUsers(content) == {u \in Users : content[u].listed}

\* The limits that StreamReadFileInfo puts on a file.
Loadable(content) ==
  /\ Cardinality(ListedUsers(content)) <= MaxUser
  /\ \A u \in Users : /\ Cardinality(content[u].creds) <= MaxCredential
                      /\ Cardinality(content[u].enrolled) <= MaxCredential

-----------------------------------------------------------------------------
(* Users and credentials in memory.                                        *)

\* QueryUserInfo trusts the cached pointer, and walks the list for another user.
Found(u) == current = u \/ mem[u].listed

Save(u, id) ==
  call' = [at |-> "open", user |-> u, id |-> id, added |-> id # None]

\* Nothing was added; the file is written, and its SUCCESS returned, all the same.
SaveHollow(u, id) ==
  call' = [at |-> "open", user |-> u, id |-> id, added |-> FALSE]

Forget(credentials) ==
  /\ acked' = acked \ credentials
  /\ hollow' = hollow \ credentials

\* Every query, and every call that is refused: all it changes is the cache.
QueryUserInfo(u) ==
  /\ loaded /\ call.at = "idle"
  /\ current' = IF Found(u) THEN u ELSE current
  /\ UNCHANGED <<loaded, mem, file, disk, call, reports>>

\* AddCredentialInfo for an unknown user.  The new user may get the block that
\* a dangling pointer points to.
AddUser(u) ==
  /\ loaded /\ call.at = "idle"
  /\ ~Found(u)
  /\ Cardinality(ListedUsers(mem)) < MaxUser
  /\ \E new \in Additions(NoUser, Pin) :
       /\ new.id # None
       /\ mem' = [mem EXCEPT ![u] = [new.info EXCEPT !.listed = TRUE]]
       /\ Save(u, new.id)
  /\ current' \in IF current = Dangling THEN {Dangling, u} ELSE {current}
  /\ UNCHANGED <<loaded, file, disk, reports>>

\* AddUser fails, and its result is overwritten by that of UpdateFileInfo.  The
\* id that is reported has been generated for nothing, or is whatever the caller's
\* memory held.
AddUserFails(u) ==
  /\ loaded /\ call.at = "idle"
  /\ ~Found(u)
  /\ \/ Cardinality(ListedUsers(mem)) >= MaxUser
     \/ \E new \in Additions(NoUser, Pin) : new.id = None
  /\ \E id \in Ids : SaveHollow(u, id)
  /\ UNCHANGED <<loaded, mem, current, file, disk, reports>>

\* Faulty: a second PIN is taken.
AddCredentialAnyPin(u, t) ==
  /\ loaded /\ call.at = "idle"
  /\ Found(u)
  /\ current' = u
  /\ \E new \in Additions(mem[u], t) :
       /\ mem' = [mem EXCEPT ![u] = new.info]
       /\ IF new.id = None THEN UNCHANGED call ELSE Save(u, new.id)
  /\ UNCHANGED <<loaded, file, disk, reports>>

\* AddCredentialInfo for a known user.
AddCredential(u, t) ==
  /\ loaded /\ call.at = "idle"
  /\ Found(u)
  /\ t = Pin => PinOf(mem[u]) = {}
  /\ current' = u
  /\ \E new \in Additions(mem[u], t) :
       /\ mem' = [mem EXCEPT ![u] = new.info]
       /\ IF new.id = None THEN UNCHANGED call ELSE Save(u, new.id)
  /\ UNCHANGED <<loaded, file, disk, reports>>

\* While another credential of the type is left, the call returns SUCCESS without
\* writing the file.
DeleteCredentialInfo(u, c) ==
  /\ loaded /\ call.at = "idle"
  /\ Found(u)
  /\ c \in mem[u].creds
  /\ current' = u
  /\ mem' = [mem EXCEPT ![u] = Without(mem[u], c)]
  /\ IF IsLast(mem[u], c) /\ c.type \in mem[u].enrolled
     THEN Save(u, None) ELSE UNCHANGED call
  /\ Forget({<<u, c.id>>})
  /\ UNCHANGED <<loaded, file, disk>>

\* Faulty: the cached pointer is left to the user that is freed.
DeleteUserInfoKeepsCurrent(u) ==
  /\ loaded /\ call.at = "idle"
  /\ Found(u)
  /\ mem[u].creds # {}
  /\ current' = u
  /\ mem' = [mem EXCEPT ![u] = NoUser]
  /\ Save(u, None)
  /\ Forget({u} \X Ids)
  /\ UNCHANGED <<loaded, file, disk>>

\* A user without credentials cannot be deleted: Malloc(0) fails.
DeleteUserInfo(u) ==
  /\ loaded /\ call.at = "idle"
  /\ Found(u)
  /\ mem[u].creds # {}
  /\ current' = None
  /\ mem' = [mem EXCEPT ![u] = NoUser]
  /\ Save(u, None)
  /\ Forget({u} \X Ids)
  /\ UNCHANGED <<loaded, file, disk>>

-----------------------------------------------------------------------------
(* After Close and Init g_currentUser may point to a user that has been freed. *)
(* The freed memory may still read as user u and its credentials: then a call *)
(* works on that, while the file is written from the list.  What writes into  *)
(* freed memory do to the rest of the process is left out.                    *)

Stale == loaded /\ call.at = "idle" /\ current = Dangling

\* The new credential goes to the freed user, and SUCCESS to the caller.
AddToFreed(u) ==
  /\ Stale
  /\ \E id \in FreshIds(mem[u]) : SaveHollow(u, id)
  /\ UNCHANGED <<loaded, mem, current, file, disk, reports>>

\* A credential is deleted of the freed user only.
DeleteFromFreed(u) ==
  /\ Stale
  /\ \E id \in Ids : Forget({<<u, id>>})
  /\ Save(u, None) \/ UNCHANGED call
  /\ UNCHANGED <<loaded, mem, current, file, disk>>

\* DeleteUser looks in the list again, after g_currentUser has been reset.
DeleteFreedUser(u) ==
  /\ Stale
  /\ current' = None
  /\ mem' = [mem EXCEPT ![u] = NoUser]
  /\ IF mem[u].listed THEN Save(u, None) /\ Forget({u} \X Ids)
                      ELSE UNCHANGED <<call, reports>>
  /\ UNCHANGED <<loaded, file, disk>>

-----------------------------------------------------------------------------
(* UpdateFileInfo, at the end of a call.                                   *)

Reported == <<call.user, call.id>>

\* The call returns SUCCESS.
Acknowledge ==
  IF call.id = None THEN UNCHANGED reports
  ELSE /\ acked' = acked \cup {Reported}
       /\ hollow' = IF call.added THEN hollow \ {Reported}
                    ELSE hollow \cup ({Reported} \ acked)

\* Faulty: the result of UpdateFileInfo is not looked at.
SaveRefusedAcks ==
  /\ call.at = "open"
  /\ Faults \/ Size(mem) > Capacity
  /\ call' = Returned
  /\ Acknowledge
  /\ UNCHANGED <<loaded, mem, current, file, disk>>

\* The list does not fit the buffer, or the file cannot be opened: the call fails,
\* and what it did in memory stays.
SaveRefused ==
  /\ call.at = "open"
  /\ Faults \/ Size(mem) > Capacity
  /\ call' = Returned
  /\ UNCHANGED <<loaded, mem, current, file, disk, reports>>

\* fopen(..., "wb")
SaveOpens ==
  /\ call.at = "open"
  /\ Size(mem) <= Capacity
  /\ file' = "torn"
  /\ disk' = Empty
  /\ call' = [call EXCEPT !.at = "write"]
  /\ UNCHANGED <<loaded, mem, current, reports>>

\* fwrite fails.
SaveFails ==
  /\ call.at = "write"
  /\ Faults
  /\ call' = Returned
  /\ UNCHANGED <<loaded, mem, current, file, disk, reports>>

\* The stream cannot be flushed: fclose fails, and nobody looks at its result.
SaveIsLost ==
  /\ call.at = "write"
  /\ Faults
  /\ call' = Returned
  /\ Acknowledge
  /\ UNCHANGED <<loaded, mem, current, file, disk>>

SaveWrites ==
  /\ call.at = "write"
  /\ file' = "whole"
  /\ disk' = mem
  /\ call' = Returned
  /\ Acknowledge
  /\ UNCHANGED <<loaded, mem, current>>

-----------------------------------------------------------------------------
(* The service starts and stops.                                           *)

\* LoadFileInfo: no file is an empty list; a torn file ends the start for good.
\* A user that is read may get the block that a dangling pointer points to.
InitUserInfoList ==
  /\ ~loaded
  /\ \/ file = "none" /\ mem' = Empty
     \/ file = "whole" /\ Loadable(disk) /\ mem' = disk
  /\ current' \in IF current = Dangling THEN {Dangling} \cup ListedUsers(mem') ELSE {current}
  /\ loaded' = TRUE
  /\ UNCHANGED <<file, disk, call, reports>>

\* Faulty: Close does not wait for the lock.
DestroyUserInfoListAtOnce ==
  /\ loaded
  /\ loaded' = FALSE
  /\ mem' = Empty
  /\ current' = IF current = None THEN None ELSE Dangling
  /\ UNCHANGED <<file, disk, call, reports>>

\* Close: the users are freed, the pointer to one of them stays.
DestroyUserInfoList ==
  /\ loaded /\ call.at = "idle"
  /\ loaded' = FALSE
  /\ mem' = Empty
  /\ current' = IF current = None THEN None ELSE Dangling
  /\ UNCHANGED <<file, disk, call, reports>>

\* The process dies, and a new one knows the file only.
Crash ==
  /\ loaded' = FALSE
  /\ mem' = Empty
  /\ current' = None
  /\ call' = Returned
  /\ UNCHANGED <<file, disk, reports>>

-----------------------------------------------------------------------------

Change(u) ==
  \/ AddUser(u) \/ AddUserFails(u)
  \/ \E t \in AuthTypes : AddCredential(u, t)
  \/ \E c \in Credential : DeleteCredentialInfo(u, c)
  \/ DeleteUserInfo(u)
  \/ AddToFreed(u) \/ DeleteFromFreed(u) \/ DeleteFreedUser(u)

UpdateFileInfo == SaveRefused \/ SaveOpens \/ SaveFails \/ SaveIsLost \/ SaveWrites

Next ==
  \/ \E u \in Users : QueryUserInfo(u) \/ Change(u)
  \/ UpdateFileInfo
  \/ InitUserInfoList \/ DestroyUserInfoList \/ Crash

Spec == Init /\ [][Next]_vars

-----------------------------------------------------------------------------
(* Properties.                                                             *)

\* However adding, deleting, failing half way and reloading follow each other,
\* the users in memory and in the file are well formed.
WellFormed ==
  \A u \in Users : UserWellFormed(mem[u]) /\ UserWellFormed(disk[u])

\* What is written can be read: no file that the limits of the loader reject, and
\* that would keep the service from starting, is ever written by the limits of
\* the adding side.
FileLoads == file = "whole" => Loadable(disk)

\* g_currentUser points into g_userInfoList whenever it is about to be trusted,
\* but for the dangling pointer that Close leaves.
CurrentIsListed == current \in Users => mem[current].listed

Has(content, u, i) == \E c \in content[u].creds : c.id = i

\* A credential that was added, with SUCCESS reported, outlives crashes, restarts and
\* failed calls until it is deleted: it is in memory while the service runs, and in
\* the file unless a write was cut off, be it a later one or its own, whose flush is
\* not looked at.  The other exception are the reports that were hollow from the
\* start: of a user that AddUser did not add, and of additions to a freed user.
AckedSurvive ==
  \A a \in acked \ hollow :
    /\ loaded => Has(mem, a[1], a[2])
    /\ file = "torn" \/ (file = "whole" /\ Has(disk, a[1], a[2]))

-----------------------------------------------------------------------------
(* What a comment says of the program.                                     *)

\* idm_database.c:29, g_userInfoList "Caches IDM user information": when no call is
\* under way and none has failed, the cache holds what the file holds.
CacheAgrees ==
  (loaded /\ call.at = "idle" /\ file = "whole") => disk = mem
=============================================================================
