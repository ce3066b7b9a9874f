---------------------------- MODULE Credentials ----------------------------
(***************************************************************************)
(* One user of the credential database and what adding and deleting a       *)
(* credential makes of it (idm_database.c), as operators that the modules   *)
(* of the database and of enrolment share.  The order of the lists is left  *)
(* out: it decides which of two credentials of one type a query returns.    *)
(***************************************************************************)
EXTENDS Integers, FiniteSets

CONSTANTS
  AuthTypes,     \* authTypes a credential can be enrolled with
  Pin,           \* PIN_AUTH
  Ids,           \* random credentialIds
  MaxCredential, \* MAX_CREDENTIAL
  MaxAuthType,   \* MAX_AUTH_TYPE
  Faults,        \* may memory, randomness or a file operation fail?
  None           \* a null pointer, no credentialId

Credential == [id : Ids, type : AuthTypes]
UserInfo   == [listed : BOOLEAN, creds : SUBSET Credential, enrolled : SUBSET AuthTypes]

NoUser == [listed |-> FALSE, creds |-> {}, enrolled |-> {}]

OfType(info, t) == {c \in info.creds : c.type = t}

PinOf(info) == OfType(info, Pin)

\* Faulty: one more credential than can be loaded again.
FullLate(info) ==
  \/ Cardinality(info.enrolled) > MaxAuthType
  \/ Cardinality(info.creds) > MaxCredential

Full(info) ==
  \/ Cardinality(info.enrolled) > MaxAuthType
  \/ Cardinality(info.creds) >= MaxCredential

FreshIds(info) == {i \in Ids : \A c \in info.creds : c.id # i}

\* AddCredentialToUser: what it may leave of the user, and the new credentialId.
\* A failure after UpdateEnrolledId leaves the type enrolled.
Additions(info, t) ==
  IF Full(info) THEN {[info |-> info, id |-> None]}
  ELSE    {[info |-> [info EXCEPT !.creds = @ \cup {[id |-> i, type |-> t]},
                                  !.enrolled = @ \cup {t}],
            id |-> i] : i \in FreshIds(info)}
     \cup {[info |-> [info EXCEPT !.enrolled = e], id |-> None] :
             e \in IF Faults THEN {info.enrolled, info.enrolled \cup {t}} ELSE {}}

\* AddCredentialInfo: what it may leave of a user, and the new credentialId.
Enrolments(info, t) ==
  IF info.listed
  THEN IF t = Pin /\ PinOf(info) # {} THEN {} ELSE Additions(info, t)
  ELSE IF t # Pin THEN {}
  ELSE {[info |-> [new.info EXCEPT !.listed = TRUE], id |-> new.id] :
          new \in {n \in Additions(info, t) : n.id # None}}

IsLast(info, c) == \A d \in info.creds \ {c} : d.type # c.type

Without(info, c) ==
  [info EXCEPT !.creds = @ \ {c},
               !.enrolled = IF IsLast(info, c) THEN @ \ {c.type} ELSE @]

-----------------------------------------------------------------------------
\* One PIN at most, ids that tell credentials apart, no credential of a type that
\* is not enrolled, and nothing left of a user that is not there.
UserWellFormed(info) ==
  /\ \A c, d \in PinOf(info) : c = d
  /\ \A c, d \in info.creds : c.id = d.id => c = d
  /\ \A c \in info.creds : c.type \in info.enrolled
  /\ ~info.listed => info = NoUser
=============================================================================
