-------------------------- MODULE IdmDatabaseProofs --------------------------
(***************************************************************************)
(* Theorems about IdmDatabase, for any number of users and credentials, any *)
(* limits, and whatever may fail.                                           *)
(***************************************************************************)
EXTENDS IdmDatabase, FiniteSetTheorems, TLAPS

Limits(info) ==
  /\ IsFiniteSet(info.creds)    /\ Cardinality(info.creds) <= MaxCredential
  /\ IsFiniteSet(info.enrolled) /\ Cardinality(info.enrolled) <= MaxCredential

\* What every user keeps, in memory and in the file.
Good(info) == info \in UserInfo /\ UserWellFormed(info) /\ Limits(info)

GoodContent(content) ==
  /\ content \in [Users -> UserInfo]
  /\ \A u \in Users : Good(content[u])
  /\ Cardinality(ListedUsers(content)) <= MaxUser

\* Without a list nothing is in memory; the file is torn while it is written, and
\* the credential that is about to be reported is in memory, if it was added.
Steps ==
  /\ ~loaded => mem = Empty /\ current \notin Users
  /\ call.at = "write" => file = "torn"
  /\ call.id # None => call.at # "idle" /\ call.user \in Users
  /\ call.id # None /\ call.added => Has(mem, call.user, call.id)

Inv == TypeOK /\ GoodContent(mem) /\ GoodContent(disk) /\ Steps
         /\ CurrentIsListed /\ AckedSurvive

-----------------------------------------------------------------------------
(* What is done to one user.                                               *)

LEMMA NoUserGood == Good(NoUser)
<1>1. NoUser \in UserInfo /\ UserWellFormed(NoUser)
  BY DEF NoUser, UserInfo, UserWellFormed, PinOf, OfType
<1>2. IsFiniteSet({}) /\ Cardinality({}) = 0
  BY FS_EmptySet
<1> QED
  BY <1>1, <1>2, ConstantsAssumption DEF Good, Limits, NoUser

\* The empty list is a good one.
LEMMA EmptyGood == GoodContent(Empty)
<1>1. Empty \in [Users -> UserInfo] /\ \A u \in Users : Empty[u] = NoUser
  BY NoUserGood DEF Empty, Good
<1>2. ListedUsers(Empty) = {}
  BY <1>1 DEF ListedUsers, NoUser
<1>3. Cardinality({}) = 0
  BY FS_EmptySet
<1> QED
  BY <1>1, <1>2, <1>3, NoUserGood, ConstantsAssumption DEF GoodContent

\* A good user stays good when AddCredentialToUser succeeds, and when it fails half
\* way, and keeps what it had.
LEMMA AdditionsGood ==
  ASSUME NEW info \in UserInfo, NEW t \in AuthTypes, UserWellFormed([info EXCEPT !.listed = TRUE]),
         Limits(info), t = Pin => PinOf(info) = {}, NEW new \in Additions(info, t)
  PROVE  /\ Good([new.info EXCEPT !.listed = TRUE])
         /\ new.info \in UserInfo
         /\ new.info.listed = info.listed
         /\ info.creds \subseteq new.info.creds
         /\ new.id \in Ids \cup {None}
         /\ new.id # None => \E c \in new.info.creds : c.id = new.id
<1> DEFINE full == [info EXCEPT !.creds = @ \cup {[id |-> new.id, type |-> t]},
                                !.enrolled = @ \cup {t}]
<1>i. /\ info.listed \in BOOLEAN
      /\ info.creds \in SUBSET Credential
      /\ info.enrolled \in SUBSET AuthTypes
  BY DEF UserInfo
<1>w. /\ \A c, d \in PinOf(info) : c = d
      /\ \A c, d \in info.creds : c.id = d.id => c = d
      /\ \A c \in info.creds : c.type \in info.enrolled
  <2>1. [info EXCEPT !.listed = TRUE].creds = info.creds
        /\ [info EXCEPT !.listed = TRUE].enrolled = info.enrolled
    BY DEF UserInfo
  <2> QED
    BY <2>1 DEF UserWellFormed, PinOf, OfType
<1>e. IsFiniteSet(info.enrolled \cup {t})
      /\ (~Full(info) => Cardinality(info.enrolled \cup {t}) <= MaxCredential)
  <2>1. /\ Cardinality(info.enrolled \cup {t}) = Cardinality(info.enrolled)
           \/ Cardinality(info.enrolled \cup {t}) = Cardinality(info.enrolled) + 1
        /\ IsFiniteSet(info.enrolled \cup {t})
        /\ Cardinality(info.enrolled) \in Nat
    BY FS_AddElement, FS_CardinalityType DEF Limits
  <2> QED
    BY <2>1, ConstantsAssumption DEF Full, Limits
<1>1. CASE new = [info |-> info, id |-> None]
  <2>1. new.info = info /\ new.id = None
    BY <1>1
  <2>2. [info EXCEPT !.listed = TRUE] \in UserInfo /\ Limits([info EXCEPT !.listed = TRUE])
    BY DEF UserInfo, Limits
  <2> QED
    BY <2>1, <2>2 DEF Good
<1>2. CASE /\ ~Full(info)
           /\ new = [info |-> [info EXCEPT !.enrolled = info.enrolled \cup {t}], id |-> None]
  <2> DEFINE r == [info EXCEPT !.enrolled = info.enrolled \cup {t}]
  <2>1. new.info = r /\ new.id = None
    BY <1>2
  <2>2. r \in UserInfo /\ r.creds = info.creds /\ r.enrolled = info.enrolled \cup {t}
        /\ r.listed = info.listed
    BY <1>i DEF UserInfo
  <2>3. [r EXCEPT !.listed = TRUE] \in UserInfo
        /\ [r EXCEPT !.listed = TRUE].creds = info.creds
        /\ [r EXCEPT !.listed = TRUE].enrolled = info.enrolled \cup {t}
        /\ [r EXCEPT !.listed = TRUE].listed = TRUE
    BY <1>i, <2>2 DEF UserInfo
  <2> HIDE DEF r
  <2>4. Good([r EXCEPT !.listed = TRUE])
    BY <1>w, <1>e, <1>2, <2>3 DEF Good, Limits, UserWellFormed, PinOf, OfType
  <2> QED
    BY <2>1, <2>2, <2>4
<1>3. CASE /\ ~Full(info)
           /\ new.id \in FreshIds(info)
           /\ new = [info |-> full, id |-> new.id]
  <2> DEFINE n == [id |-> new.id, type |-> t]
  <2>n. n \in Credential /\ n.id = new.id /\ n.type = t /\ new.id \in Ids
    BY <1>3 DEF Credential, FreshIds
  <2>1. full \in UserInfo /\ full.creds = info.creds \cup {n}
        /\ full.enrolled = info.enrolled \cup {t} /\ full.listed = info.listed
    BY <1>i, <2>n DEF UserInfo
  <2>2. new.info = full
    BY <1>3
  <2> HIDE DEF full
  <2>3. [full EXCEPT !.listed = TRUE] \in UserInfo
        /\ [full EXCEPT !.listed = TRUE].creds = info.creds \cup {n}
        /\ [full EXCEPT !.listed = TRUE].enrolled = info.enrolled \cup {t}
        /\ [full EXCEPT !.listed = TRUE].listed = TRUE
    BY <2>1 DEF UserInfo
  <2> HIDE DEF n
  <2>4. \A c \in info.creds : c.id # n.id
    BY <1>3, <2>n DEF FreshIds
  <2>5. UserWellFormed([full EXCEPT !.listed = TRUE])
    <3>1. \A c, d \in PinOf([full EXCEPT !.listed = TRUE]) : c = d
      BY <1>w, <2>3, <2>n DEF PinOf, OfType
    <3>2. \A c, d \in info.creds \cup {n} : c.id = d.id => c = d
      BY <1>w, <2>4
    <3>3. \A c \in info.creds \cup {n} : c.type \in info.enrolled \cup {t}
      BY <1>w, <2>n
    <3> QED
      BY <2>3, <3>1, <3>2, <3>3 DEF UserWellFormed
  <2>6. IsFiniteSet(info.creds \cup {n}) /\ Cardinality(info.creds \cup {n}) <= MaxCredential
    <3>1. /\ Cardinality(info.creds \cup {n}) \in
               {Cardinality(info.creds), Cardinality(info.creds) + 1}
          /\ IsFiniteSet(info.creds \cup {n})
          /\ Cardinality(info.creds) \in Nat
      BY FS_AddElement, FS_CardinalityType DEF Limits
    <3>2. Cardinality(info.creds) < MaxCredential
      BY <1>3, <3>1, ConstantsAssumption DEF Full
    <3>3. Cardinality(info.creds \cup {n}) \in Nat
      BY <3>1, FS_CardinalityType
    <3> QED
      BY <3>1, <3>2, <3>3, ConstantsAssumption
  <2>7. Good([full EXCEPT !.listed = TRUE])
    BY <1>e, <1>3, <2>3, <2>5, <2>6 DEF Good, Limits
  <2> QED
    BY <2>1, <2>2, <2>7, <2>n
<1>4. \/ new = [info |-> info, id |-> None]
      \/ /\ ~Full(info)
         /\ new = [info |-> [info EXCEPT !.enrolled = info.enrolled \cup {t}], id |-> None]
      \/ /\ ~Full(info)
         /\ \E i \in FreshIds(info) :
              new = [info |-> [info EXCEPT !.creds = @ \cup {[id |-> i, type |-> t]},
                                           !.enrolled = @ \cup {t}],
                     id |-> i]
  <2>1. [info EXCEPT !.enrolled = info.enrolled] = info
    BY DEF UserInfo
  <2>2. CASE Full(info)
    BY <2>2 DEF Additions
  <2>3. CASE ~Full(info)
    <3> DEFINE es == IF Faults THEN {info.enrolled, info.enrolled \cup {t}} ELSE {}
    <3>1. \/ \E i \in FreshIds(info) :
               new = [info |-> [info EXCEPT !.creds = @ \cup {[id |-> i, type |-> t]},
                                            !.enrolled = @ \cup {t}],
                      id |-> i]
          \/ \E e \in es : new = [info |-> [info EXCEPT !.enrolled = e], id |-> None]
      BY <2>3, Zenon DEF Additions
    <3>2. es \subseteq {info.enrolled, info.enrolled \cup {t}}
      OBVIOUS
    <3> QED
      BY <2>1, <2>3, <3>1, <3>2
  <2> QED
    BY <2>2, <2>3
<1>5. (\E i \in FreshIds(info) :
         new = [info |-> [info EXCEPT !.creds = @ \cup {[id |-> i, type |-> t]},
                                      !.enrolled = @ \cup {t}],
                id |-> i])
      => new.id \in FreshIds(info) /\ new = [info |-> full, id |-> new.id]
  OBVIOUS
<1> QED
  BY <1>1, <1>2, <1>3, <1>4, <1>5

-----------------------------------------------------------------------------
(* What that does to the list of users.                                    *)

\* Replacing one user by a good one keeps the list good; a user that comes new
\* needs room in the list.
LEMMA ReplaceGood ==
  ASSUME NEW m, GoodContent(m), NEW u \in Users, NEW info, Good(info),
         info.listed => m[u].listed \/ Cardinality(ListedUsers(m)) < MaxUser
  PROVE  GoodContent([m EXCEPT ![u] = info])
<1> DEFINE n == [m EXCEPT ![u] = info]
<1>1. /\ n \in [Users -> UserInfo] /\ \A v \in Users : Good(n[v])
      /\ \A v \in Users : v # u => n[v] = m[v]
      /\ n[u] = info
  BY DEF GoodContent, Good
<1> HIDE DEF n
<1>2. IsFiniteSet(ListedUsers(m)) /\ Cardinality(ListedUsers(m)) \in Nat
  BY FS_Subset, FS_CardinalityType, ConstantsAssumption DEF ListedUsers
<1>3. Cardinality(ListedUsers(n)) <= MaxUser
  <2>1. CASE info.listed /\ ~m[u].listed
    <3>1. ListedUsers(n) = ListedUsers(m) \cup {u} /\ u \notin ListedUsers(m)
      BY <1>1, <2>1 DEF ListedUsers
    <3>2. Cardinality(ListedUsers(n)) = Cardinality(ListedUsers(m)) + 1
      BY <1>2, <3>1, FS_AddElement
    <3> QED
      BY <1>2, <2>1, <3>2, ConstantsAssumption
  <2>2. CASE ~info.listed \/ m[u].listed
    <3>1. ListedUsers(n) \subseteq ListedUsers(m)
      BY <1>1, <2>2 DEF ListedUsers
    <3>2. Cardinality(ListedUsers(n)) \in Nat
          /\ Cardinality(ListedUsers(n)) <= Cardinality(ListedUsers(m))
      BY <1>2, <3>1, FS_Subset, FS_CardinalityType
    <3> QED
      BY <1>2, <3>2, ConstantsAssumption DEF GoodContent
  <2> QED
    BY <2>1, <2>2
<1> QED
  BY <1>1, <1>3 DEF GoodContent, n

\* A pointer that is trusted names a user of the list.
LEMMA FoundListed ==
  ASSUME Inv, NEW u \in Users, Found(u)
  PROVE  mem[u].listed
BY DEF Inv, CurrentIsListed, Found

\* Adding to a good user that is in the list.
LEMMA ListedAdditions ==
  ASSUME Inv, NEW u \in Users, mem[u].listed, NEW t \in AuthTypes,
         t = Pin => PinOf(mem[u]) = {}, NEW new \in Additions(mem[u], t)
  PROVE  /\ Good(new.info) /\ new.info.listed
         /\ mem[u].creds \subseteq new.info.creds
         /\ new.id \in Ids \cup {None}
         /\ new.id # None => \E c \in new.info.creds : c.id = new.id
<1>1. Good(mem[u])
  BY DEF Inv, GoodContent
<1>2. [mem[u] EXCEPT !.listed = TRUE] = mem[u]
  BY <1>1 DEF Good, UserInfo
<1>3. /\ Good([new.info EXCEPT !.listed = TRUE])
      /\ new.info \in UserInfo /\ new.info.listed
      /\ mem[u].creds \subseteq new.info.creds
      /\ new.id \in Ids \cup {None}
      /\ new.id # None => \E c \in new.info.creds : c.id = new.id
  BY <1>1, <1>2, AdditionsGood DEF Good
<1>4. [new.info EXCEPT !.listed = TRUE] = new.info
  BY <1>3 DEF UserInfo
<1> QED
  BY <1>3, <1>4

\* Adding the first credential of a new user.
LEMMA NewUserAdditions ==
  ASSUME NEW new \in Additions(NoUser, Pin)
  PROVE  /\ Good([new.info EXCEPT !.listed = TRUE])
         /\ new.info \in UserInfo
         /\ new.id \in Ids \cup {None}
         /\ new.id # None => \E c \in new.info.creds : c.id = new.id
<1>1. NoUser \in UserInfo /\ Limits(NoUser) /\ PinOf(NoUser) = {}
  BY NoUserGood DEF Good, PinOf, OfType, NoUser
<1>2. UserWellFormed([NoUser EXCEPT !.listed = TRUE])
  BY DEF NoUser, UserWellFormed, PinOf, OfType
<1> QED
  BY <1>1, <1>2, AdditionsGood, ConstantsAssumption

\* Taking a credential out of a good user, with its type if it was the last one.
LEMMA RemovalGood ==
  ASSUME NEW info, Good(info), info.listed, NEW c \in info.creds
  PROVE  /\ Good(Without(info, c)) /\ Without(info, c).listed
         /\ Without(info, c).creds = info.creds \ {c}
<1> DEFINE r == Without(info, c)
           e == IF IsLast(info, c) THEN info.enrolled \ {c.type} ELSE info.enrolled
<1>1. /\ e \subseteq info.enrolled
      /\ \A d \in info.creds \ {c} : d.type \in e
  BY DEF Good, UserWellFormed, IsLast
<1>2. r = [info EXCEPT !.creds = info.creds \ {c}, !.enrolled = e]
  BY DEF Without
<1> HIDE DEF r
<1> HIDE DEF e
<1>3. r \in UserInfo /\ r.creds = info.creds \ {c} /\ r.enrolled = e /\ r.listed
  BY <1>1, <1>2 DEF Good, UserInfo
<1>4. UserWellFormed(r)
  BY <1>1, <1>3 DEF Good, UserWellFormed, PinOf, OfType
<1>5. Limits(r)
  <2>1. /\ IsFiniteSet(r.creds) /\ Cardinality(r.creds) <= Cardinality(info.creds)
        /\ IsFiniteSet(r.enrolled) /\ Cardinality(r.enrolled) <= Cardinality(info.enrolled)
    BY <1>1, <1>3, FS_Subset DEF Good, Limits
  <2>2. {Cardinality(r.creds), Cardinality(info.creds), Cardinality(r.enrolled),
         Cardinality(info.enrolled)} \subseteq Nat
    BY <2>1, FS_CardinalityType DEF Good, Limits
  <2> QED
    BY <2>1, <2>2, ConstantsAssumption DEF Good, Limits
<1> QED
  BY <1>3, <1>4, <1>5 DEF Good, r

-----------------------------------------------------------------------------
(* The steps of the database.                                              *)

LEMMA InitInv == Init => Inv
<1> SUFFICES ASSUME Init PROVE Inv
  OBVIOUS
<1>1. GoodContent(mem) /\ GoodContent(disk)
  BY EmptyGood DEF Init
<1>2. TypeOK
  BY <1>1 DEF Init, TypeOK, GoodContent, Call, Returned
<1>3. Steps /\ CurrentIsListed /\ AckedSurvive
  BY ConstantsAssumption DEF Init, Steps, CurrentIsListed, AckedSurvive, Returned
<1> QED
  BY <1>1, <1>2, <1>3 DEF Inv

\* AddUser adds a credential to nobody's list but that of the new user.
LEMMA AddUserInv ==
  ASSUME Inv, NEW u \in Users, AddUser(u)
  PROVE  Inv'
<1>0. TypeOK /\ GoodContent(mem) /\ Steps /\ CurrentIsListed /\ AckedSurvive
  BY DEF Inv
<1>n. ~mem[u].listed /\ mem[u] = NoUser
  BY <1>0 DEF AddUser, Found, GoodContent, Good, UserWellFormed
<1>1. PICK new \in Additions(NoUser, Pin) :
         /\ new.id # None
         /\ mem' = [mem EXCEPT ![u] = [new.info EXCEPT !.listed = TRUE]]
         /\ Save(u, new.id)
  BY DEF AddUser
<1> DEFINE info == [new.info EXCEPT !.listed = TRUE]
<1>2. /\ Good(info) /\ info.listed /\ info.creds = new.info.creds
      /\ new.id \in Ids
      /\ \E c \in info.creds : c.id = new.id
  BY <1>1, NewUserAdditions DEF UserInfo
<1>3. /\ loaded /\ loaded' = loaded /\ file' = file
      /\ disk' = disk /\ acked' = acked /\ hollow' = hollow
      /\ current' \in {current, u}
      /\ Cardinality(ListedUsers(mem)) < MaxUser
  BY DEF AddUser, reports
<1>4. /\ mem' = [mem EXCEPT ![u] = info]
      /\ call' = [at |-> "open", user |-> u, id |-> new.id, added |-> TRUE]
  BY <1>1 DEF Save
<1> HIDE DEF info
<1>5. GoodContent(mem')
  BY <1>0, <1>2, <1>3, <1>4, ReplaceGood
<1>6. /\ \A v \in Users : v # u => mem'[v] = mem[v]
      /\ mem'[u] = info
  BY <1>0, <1>4 DEF GoodContent
<1>7. \A a \in acked \ hollow : a[1] \in Users \ {u} /\ Has(mem, a[1], a[2])
  BY <1>0, <1>n, <1>3 DEF AckedSurvive, Has, NoUser, TypeOK
<1>8. TypeOK'
  BY <1>0, <1>2, <1>3, <1>4, <1>5, ConstantsAssumption DEF TypeOK, Call, GoodContent
<1>9. Steps'
  <2>1. Has(mem', u, call'.id)
    BY <1>2, <1>4, <1>6 DEF Has
  <2> QED
    BY <1>3, <1>4, <2>1 DEF Steps
<1>10. CurrentIsListed'
  BY <1>0, <1>2, <1>3, <1>6 DEF CurrentIsListed
<1>11. AckedSurvive'
  BY <1>0, <1>3, <1>6, <1>7 DEF AckedSurvive, Has
<1> QED
  BY <1>0, <1>3, <1>5, <1>8, <1>9, <1>10, <1>11 DEF Inv

\* A call that will report what it has not added promises nothing.
LEMMA HollowInv ==
  ASSUME Inv, NEW u \in Users, AddUserFails(u) \/ AddToFreed(u)
  PROVE  Inv'
<1>0. TypeOK /\ Steps /\ CurrentIsListed /\ AckedSurvive
  BY DEF Inv
<1>1. PICK id \in Ids : call' = [at |-> "open", user |-> u, id |-> id, added |-> FALSE]
  BY DEF AddUserFails, AddToFreed, SaveHollow, FreshIds
<1>2. UNCHANGED <<loaded, mem, current, file, disk, acked, hollow>> /\ loaded
  BY DEF AddUserFails, AddToFreed, Stale, reports
<1>3. TypeOK' /\ Steps' /\ CurrentIsListed' /\ AckedSurvive'
  BY <1>0, <1>1, <1>2 DEF TypeOK, Call, Steps, CurrentIsListed, AckedSurvive
<1> QED
  BY <1>2, <1>3 DEF Inv

\* AddCredential only adds.
LEMMA AddCredentialInv ==
  ASSUME Inv, NEW u \in Users, NEW t \in AuthTypes, AddCredential(u, t)
  PROVE  Inv'
<1>0. TypeOK /\ GoodContent(mem) /\ Steps /\ CurrentIsListed /\ AckedSurvive
  BY DEF Inv
<1>n. mem[u].listed
  BY FoundListed DEF AddCredential
<1>1. PICK new \in Additions(mem[u], t) :
         /\ mem' = [mem EXCEPT ![u] = new.info]
         /\ IF new.id = None THEN UNCHANGED call ELSE Save(u, new.id)
  BY DEF AddCredential
<1>2. /\ Good(new.info) /\ new.info.listed
      /\ mem[u].creds \subseteq new.info.creds
      /\ new.id \in Ids \cup {None}
      /\ new.id # None => \E c \in new.info.creds : c.id = new.id
  BY <1>n, ListedAdditions DEF AddCredential
<1>3. /\ loaded /\ loaded' = loaded /\ current' = u /\ file' = file
      /\ disk' = disk /\ acked' = acked /\ hollow' = hollow /\ call.at = "idle"
  BY DEF AddCredential, reports
<1>5. GoodContent(mem')
  BY <1>0, <1>1, <1>2, <1>n, ReplaceGood
<1>6. /\ \A v \in Users : mem[v].creds \subseteq mem'[v].creds
      /\ mem'[u] = new.info
  BY <1>0, <1>1, <1>2 DEF GoodContent
<1>7. \/ call' = call /\ call.id = None
      \/ call' = [at |-> "open", user |-> u, id |-> new.id, added |-> new.id # None]
  BY <1>0, <1>1, <1>3 DEF Save, Steps
<1>r. [at |-> "open", user |-> u, id |-> new.id, added |-> new.id # None] \in Call
  BY <1>2 DEF Call
<1>c. call' \in Call
  BY <1>0, <1>7, <1>r DEF TypeOK
<1>8. TypeOK'
  BY <1>0, <1>3, <1>5, <1>c DEF TypeOK, GoodContent
<1>9. Steps'
  <2>1. call'.id # None =>
          call' = [at |-> "open", user |-> u, id |-> new.id, added |-> new.id # None]
    BY <1>7
  <2>2. call'.id # None => Has(mem', u, call'.id)
    BY <1>2, <1>6, <2>1 DEF Has
  <2>3. call'.at # "write"
    BY <1>3, <1>7
  <2> QED
    BY <1>3, <2>1, <2>2, <2>3 DEF Steps
<1>10. CurrentIsListed'
  BY <1>2, <1>3, <1>6 DEF CurrentIsListed
<1>11. AckedSurvive'
  <2>1. \A a \in acked \ hollow : a[1] \in Users
    BY <1>0 DEF TypeOK
  <2> QED
    BY <1>0, <1>3, <1>6, <2>1 DEF AckedSurvive, Has
<1> QED
  BY <1>0, <1>3, <1>5, <1>8, <1>9, <1>10, <1>11 DEF Inv

\* DeleteCredentialInfo takes out one credential, and the promise about it.
LEMMA DeleteCredentialInv ==
  ASSUME Inv, NEW u \in Users, NEW c \in Credential, DeleteCredentialInfo(u, c)
  PROVE  Inv'
<1>0. TypeOK /\ GoodContent(mem) /\ Steps /\ CurrentIsListed /\ AckedSurvive
  BY DEF Inv
<1>n. mem[u].listed /\ c \in mem[u].creds /\ Good(mem[u])
  BY <1>0, FoundListed DEF DeleteCredentialInfo, GoodContent
<1> DEFINE r == Without(mem[u], c)
<1>1. mem' = [mem EXCEPT ![u] = r]
  BY DEF DeleteCredentialInfo
<1>2. Good(r) /\ r.listed /\ r.creds = mem[u].creds \ {c}
  BY <1>n, RemovalGood
<1> HIDE DEF r
<1>3. /\ loaded /\ loaded' = loaded /\ current' = u /\ file' = file
      /\ disk' = disk /\ acked' = acked \ {<<u, c.id>>} /\ call.at = "idle"
      /\ hollow' = hollow \ {<<u, c.id>>}
  BY DEF DeleteCredentialInfo, Forget
<1>5. GoodContent(mem')
  BY <1>0, <1>1, <1>2, <1>n, ReplaceGood
<1>6. /\ \A v \in Users : v # u => mem'[v] = mem[v]
      /\ mem'[u] = r
  BY <1>0, <1>1 DEF GoodContent
<1>7. \/ call' = call /\ call.id = None
      \/ call' = [at |-> "open", user |-> u, id |-> None, added |-> FALSE]
  BY <1>0, <1>3 DEF DeleteCredentialInfo, Save, Steps
<1>r. [at |-> "open", user |-> u, id |-> None, added |-> FALSE] \in Call
  BY DEF Call
<1>c. call' \in Call
  BY <1>0, <1>7, <1>r DEF TypeOK
<1>8. TypeOK'
  BY <1>0, <1>3, <1>5, <1>c DEF TypeOK, GoodContent
<1>9. Steps'
  BY <1>3, <1>7 DEF Steps
<1>10. CurrentIsListed'
  BY <1>2, <1>3, <1>6 DEF CurrentIsListed
<1>11. AckedSurvive'
  <2> SUFFICES ASSUME NEW a \in acked' \ hollow'
               PROVE  Has(mem', a[1], a[2]) /\ (file = "torn" \/ (file = "whole" /\ Has(disk, a[1], a[2])))
    BY <1>3 DEF AckedSurvive
  <2>1. /\ a \in acked \ hollow /\ a \in Users \X Ids /\ a # <<u, c.id>>
        /\ Has(mem, a[1], a[2])
        /\ file = "torn" \/ (file = "whole" /\ Has(disk, a[1], a[2]))
    BY <1>0, <1>3 DEF AckedSurvive, TypeOK
  <2>2. a[1] = u => a[2] # c.id
    BY <2>1
  <2>3. Has(mem', a[1], a[2])
    BY <1>2, <1>6, <2>1, <2>2 DEF Has
  <2> QED
    BY <2>1, <2>3
<1> QED
  BY <1>0, <1>3, <1>5, <1>8, <1>9, <1>10, <1>11 DEF Inv

\* DeleteUserInfo frees the user, and the pointer with it.
LEMMA DeleteUserInv ==
  ASSUME Inv, NEW u \in Users, DeleteUserInfo(u) \/ (DeleteFreedUser(u) /\ mem[u].listed)
  PROVE  Inv'
<1>0. TypeOK /\ GoodContent(mem) /\ Steps /\ CurrentIsListed /\ AckedSurvive
  BY DEF Inv
<1>3. /\ loaded /\ loaded' = loaded /\ current' = None /\ file' = file
      /\ disk' = disk /\ acked' = acked \ ({u} \X Ids) /\ hollow' = hollow \ ({u} \X Ids)
      /\ mem' = [mem EXCEPT ![u] = NoUser]
      /\ call' = [at |-> "open", user |-> u, id |-> None, added |-> FALSE]
  BY DEF DeleteUserInfo, DeleteFreedUser, Stale, Save, Forget
<1>5. GoodContent(mem')
  BY <1>0, <1>3, NoUserGood, ReplaceGood DEF NoUser
<1>6. \A v \in Users : v # u => mem'[v] = mem[v]
  BY <1>0, <1>3 DEF GoodContent
<1>8. TypeOK'
  BY <1>0, <1>3, <1>5 DEF TypeOK, Call, GoodContent
<1>9. Steps'
  BY <1>3 DEF Steps
<1>10. CurrentIsListed'
  BY <1>3, ConstantsAssumption DEF CurrentIsListed
<1>11. AckedSurvive'
  <2> SUFFICES ASSUME NEW a \in acked' \ hollow'
               PROVE  Has(mem', a[1], a[2]) /\ (file = "torn" \/ (file = "whole" /\ Has(disk, a[1], a[2])))
    BY <1>3 DEF AckedSurvive
  <2>1. /\ a \in acked \ hollow /\ a \in Users \X Ids /\ a \notin {u} \X Ids
        /\ Has(mem, a[1], a[2])
        /\ file = "torn" \/ (file = "whole" /\ Has(disk, a[1], a[2]))
    BY <1>0, <1>3 DEF AckedSurvive, TypeOK
  <2>2. a[1] \in Users /\ a[1] # u
    BY <2>1
  <2> QED
    BY <1>6, <2>1, <2>2 DEF Has
<1> QED
  BY <1>0, <1>3, <1>5, <1>8, <1>9, <1>10, <1>11 DEF Inv

\* What is done to a freed user leaves the list alone.
LEMMA FreedInv ==
  ASSUME Inv, NEW u \in Users,
         DeleteFromFreed(u) \/ (DeleteFreedUser(u) /\ ~mem[u].listed)
  PROVE  Inv'
<1>0. TypeOK /\ GoodContent(mem) /\ Steps /\ CurrentIsListed /\ AckedSurvive
  BY DEF Inv
<1>1. mem[u] = NoUser => [mem EXCEPT ![u] = NoUser] = mem
  BY <1>0 DEF TypeOK
<1>2. ~mem[u].listed => mem[u] = NoUser
  BY <1>0 DEF GoodContent, Good, UserWellFormed
<1>3. /\ loaded /\ UNCHANGED <<loaded, mem, file, disk>>
      /\ current' \in {current, None}
      /\ call' \in {call, [at |-> "open", user |-> u, id |-> None, added |-> FALSE]}
      /\ acked' \subseteq acked /\ hollow' \subseteq hollow
      /\ acked' \ hollow' \subseteq acked \ hollow
  BY <1>1, <1>2 DEF DeleteFromFreed, DeleteFreedUser, Stale, Forget, Save, reports
<1>r. [at |-> "open", user |-> u, id |-> None, added |-> FALSE] \in Call
  BY DEF Call
<1>c. call' \in Call
  BY <1>0, <1>3, <1>r DEF TypeOK
<1>4. TypeOK' /\ CurrentIsListed'
  BY <1>0, <1>3, <1>c, ConstantsAssumption DEF TypeOK, CurrentIsListed
<1>5. Steps'
  BY <1>0, <1>3 DEF Steps, TypeOK
<1>6. AckedSurvive'
  BY <1>0, <1>3 DEF AckedSurvive
<1> QED
  BY <1>3, <1>4, <1>5, <1>6 DEF Inv

\* Queries and refused calls change the cached pointer only.
LEMMA QueryInv ==
  ASSUME Inv, NEW u \in Users, QueryUserInfo(u)
  PROVE  Inv'
<1>1. /\ (current' = u /\ mem[u].listed) \/ current' = current
      /\ UNCHANGED <<loaded, mem, file, disk, call, acked, hollow>> /\ loaded
  BY FoundListed DEF QueryUserInfo, reports
<1>2. TypeOK' /\ Steps' /\ CurrentIsListed' /\ AckedSurvive'
  BY <1>1 DEF Inv, TypeOK, Steps, CurrentIsListed, AckedSurvive
<1> QED
  BY <1>1, <1>2 DEF Inv

\* What a call reports as added is in memory.
LEMMA AcknowledgeKeeps ==
  ASSUME Inv, loaded, Acknowledge
  PROVE  /\ acked' \subseteq Users \X Ids /\ hollow' \subseteq Users \X Ids
         /\ \A a \in acked' \ hollow' : Has(mem, a[1], a[2])
<1>0. /\ acked \subseteq Users \X Ids /\ hollow \subseteq Users \X Ids /\ call \in Call
      /\ \A a \in acked \ hollow : Has(mem, a[1], a[2])
  BY DEF Inv, TypeOK, AckedSurvive
<1>1. CASE call.id = None
  BY <1>0, <1>1 DEF Acknowledge, reports
<1>2. CASE call.id # None
  <2>1. /\ call.user \in Users /\ call.id \in Ids
        /\ call.added => Has(mem, call.user, call.id)
    BY <1>0, <1>2 DEF Inv, Steps, Call
  <2>2. /\ acked' = acked \cup {<<call.user, call.id>>}
        /\ hollow' = IF call.added THEN hollow \ {<<call.user, call.id>>}
                     ELSE hollow \cup ({<<call.user, call.id>>} \ acked)
    BY <1>2 DEF Acknowledge, Reported
  <2> QED
    BY <1>0, <2>1, <2>2
<1> QED
  BY <1>1, <1>2

\* The file changes only while its call holds the lock, and takes all of memory.
LEMMA SaveInv ==
  ASSUME Inv, UpdateFileInfo
  PROVE  Inv'
<1>0. TypeOK /\ GoodContent(mem) /\ GoodContent(disk) /\ Steps /\ CurrentIsListed /\ AckedSurvive
  BY DEF Inv
<1>l. loaded /\ \A a \in acked \ hollow : Has(mem, a[1], a[2])
  BY <1>0 DEF UpdateFileInfo, SaveRefused, SaveOpens, SaveFails, SaveIsLost, SaveWrites,
              TypeOK, AckedSurvive
<1>r. Returned \in Call /\ Returned.at = "idle" /\ Returned.id = None
  BY DEF Returned, Call
<1>1. CASE SaveRefused \/ SaveFails
  <2>1. call' = Returned /\ UNCHANGED <<loaded, mem, current, file, disk, acked, hollow>>
    BY <1>1 DEF SaveRefused, SaveFails, reports
  <2>2. TypeOK' /\ Steps' /\ CurrentIsListed' /\ AckedSurvive'
    BY <1>0, <1>r, <2>1 DEF TypeOK, Steps, CurrentIsListed, AckedSurvive
  <2> QED
    BY <1>0, <2>1, <2>2 DEF Inv
<1>2. CASE SaveOpens
  <2>1. /\ call' = [call EXCEPT !.at = "write"] /\ file' = "torn" /\ disk' = Empty
        /\ UNCHANGED <<loaded, mem, current, acked, hollow>>
    BY <1>2 DEF SaveOpens, reports
  <2>2. /\ call' \in Call /\ call'.at = "write" /\ call'.id = call.id
        /\ call'.user = call.user /\ call'.added = call.added
    BY <1>0, <2>1 DEF TypeOK, Call
  <2>3. GoodContent(disk')
    BY <2>1, EmptyGood
  <2>4. TypeOK' /\ Steps' /\ CurrentIsListed' /\ AckedSurvive'
    BY <1>0, <1>l, <2>1, <2>2, <2>3
    DEF TypeOK, Steps, CurrentIsListed, AckedSurvive, GoodContent
  <2> QED
    BY <1>0, <2>1, <2>3, <2>4 DEF Inv
<1>3. CASE SaveIsLost
  <2>1. /\ call' = Returned /\ Acknowledge /\ file = "torn"
        /\ UNCHANGED <<loaded, mem, current, file, disk>>
    BY <1>0, <1>3 DEF SaveIsLost, Steps
  <2>2. /\ acked' \subseteq Users \X Ids /\ hollow' \subseteq Users \X Ids
        /\ \A a \in acked' \ hollow' : Has(mem, a[1], a[2])
    BY <1>l, <2>1, AcknowledgeKeeps
  <2>3. TypeOK' /\ Steps' /\ CurrentIsListed' /\ AckedSurvive'
    BY <1>0, <1>r, <2>1, <2>2 DEF TypeOK, Steps, CurrentIsListed, AckedSurvive
  <2> QED
    BY <1>0, <2>1, <2>3 DEF Inv
<1>4. CASE SaveWrites
  <2>1. /\ call' = Returned /\ file' = "whole" /\ disk' = mem /\ Acknowledge
        /\ UNCHANGED <<loaded, mem, current>>
    BY <1>4 DEF SaveWrites
  <2>2. /\ acked' \subseteq Users \X Ids /\ hollow' \subseteq Users \X Ids
        /\ \A a \in acked' \ hollow' : Has(mem, a[1], a[2])
    BY <1>l, <2>1, AcknowledgeKeeps
  <2>3. GoodContent(disk')
    BY <1>0, <2>1
  <2>4. TypeOK' /\ Steps' /\ CurrentIsListed'
    BY <1>0, <1>l, <1>r, <2>1, <2>2, <2>3
    DEF TypeOK, Steps, CurrentIsListed, GoodContent
  <2>5. AckedSurvive'
    BY <2>1, <2>2 DEF AckedSurvive
  <2> QED
    BY <1>0, <2>1, <2>3, <2>4, <2>5 DEF Inv
<1> QED
  BY <1>1, <1>2, <1>3, <1>4 DEF UpdateFileInfo

\* What is loaded was written, and what is lost with the process is in the file.
LEMMA LifeInv ==
  ASSUME Inv, InitUserInfoList \/ DestroyUserInfoList \/ Crash
  PROVE  Inv'
<1>0. TypeOK /\ GoodContent(mem) /\ GoodContent(disk) /\ Steps /\ CurrentIsListed /\ AckedSurvive
  BY DEF Inv
<1>r. Returned \in Call /\ Returned.at = "idle" /\ Returned.id = None
  BY DEF Returned, Call
<1>1. CASE InitUserInfoList
  <2>1. /\ loaded' = TRUE /\ UNCHANGED <<file, disk, call, acked, hollow>>
        /\ ~loaded /\ current \notin Users /\ call.at = "idle" /\ call.id = None
        /\ current' \in {current} \cup ListedUsers(mem')
    BY <1>0, <1>1 DEF InitUserInfoList, Steps, TypeOK, reports
  <2>2. GoodContent(mem') /\ \A a \in acked \ hollow : Has(mem', a[1], a[2])
    BY <1>0, <1>1, EmptyGood DEF InitUserInfoList, AckedSurvive
  <2>3. TypeOK' /\ Steps' /\ CurrentIsListed' /\ AckedSurvive'
    BY <1>0, <2>1, <2>2
    DEF TypeOK, Steps, CurrentIsListed, AckedSurvive, GoodContent, ListedUsers
  <2> QED
    BY <1>0, <2>1, <2>2, <2>3 DEF Inv
<1>2. CASE DestroyUserInfoList \/ Crash
  <2>1. /\ loaded' = FALSE /\ mem' = Empty /\ current' \in {None, Dangling}
        /\ call' \in {call, Returned} /\ call'.at = "idle"
        /\ UNCHANGED <<file, disk, acked, hollow>>
    BY <1>2, <1>r DEF DestroyUserInfoList, Crash, reports
  <2>2. current' \notin Users
    BY <2>1, ConstantsAssumption
  <2>3. call'.id = None
    BY <1>0, <1>r, <2>1 DEF Steps
  <2>4. GoodContent(mem')
    BY <2>1, EmptyGood
  <2>5. TypeOK' /\ Steps' /\ CurrentIsListed' /\ AckedSurvive'
    BY <1>0, <1>r, <2>1, <2>2, <2>3, <2>4
    DEF TypeOK, Steps, CurrentIsListed, AckedSurvive, GoodContent
  <2> QED
    BY <1>0, <2>1, <2>4, <2>5 DEF Inv
<1> QED
  BY <1>1, <1>2

LEMMA NextInv == Inv /\ [Next]_vars => Inv'
<1> SUFFICES ASSUME Inv, [Next]_vars PROVE Inv'
  OBVIOUS
<1>1. CASE \E u \in Users : QueryUserInfo(u) \/ Change(u)
  BY <1>1, QueryInv, AddUserInv, HollowInv, AddCredentialInv, DeleteCredentialInv,
     DeleteUserInv, FreedInv
  DEF Change
<1>2. CASE UpdateFileInfo
  BY <1>2, SaveInv
<1>3. CASE InitUserInfoList \/ DestroyUserInfoList \/ Crash
  BY <1>3, LifeInv
<1>4. CASE UNCHANGED vars
  BY <1>4 DEF vars, reports, Inv, TypeOK, Steps, CurrentIsListed, AckedSurvive
<1> QED
  BY <1>1, <1>2, <1>3, <1>4 DEF Next

\* The inductive invariant holds in every reachable state.
THEOREM InvAlways == Spec => []Inv
BY InitInv, NextInv, PTL DEF Spec

-----------------------------------------------------------------------------
(* The theorems.                                                           *)

\* The list, the file and the call under way keep their types, and a call is
\* under way only while there is a list.
THEOREM TypeCorrect == Spec => []TypeOK
<1>1. Inv => TypeOK
  BY DEF Inv
<1> QED
  BY <1>1, InvAlways, PTL

\* However calls succeed, fail half way, and restarts come in between: one PIN
\* for a user, ids that differ, no credential of a type that is not enrolled.
THEOREM UsersWellFormed == Spec => []WellFormed
<1>1. Inv => WellFormed
  BY DEF Inv, GoodContent, Good, WellFormed
<1> QED
  BY <1>1, InvAlways, PTL

\* The limits of adding keep every file within the limits of loading, for any
\* MAX_USER, MAX_CREDENTIAL and MAX_AUTH_TYPE with the last below the second.
THEOREM FilesLoad == Spec => []FileLoads
<1>1. Inv => FileLoads
  BY DEF Inv, GoodContent, Good, Limits, FileLoads, Loadable
<1> QED
  BY <1>1, InvAlways, PTL

\* A cached user is in the list.
THEOREM CachedIsListed == Spec => []CurrentIsListed
<1>1. Inv => CurrentIsListed
  BY DEF Inv
<1> QED
  BY <1>1, InvAlways, PTL

\* No credential that was added, and reported so, is lost but by deletion or by a
\* write that was cut off, whatever fails and whatever g_currentUser points to.
THEOREM NoCredentialLost == Spec => []AckedSurvive
<1>1. Inv => AckedSurvive
  BY DEF Inv
<1> QED
  BY <1>1, InvAlways, PTL
=============================================================================
