------------------------ MODULE AuthAttributesProofs -------------------------
(***************************************************************************)
(* Theorems about AuthAttributes: what a container has after a trip to       *)
(* another process, for any Set calls.  Unpack and Pack go through sequences *)
(* whose length is any number, so each of their loops gets an invariant, and *)
(* AllUpTo, which the well-foundedness of the naturals yields, carries it.   *)
(***************************************************************************)
EXTENDS AuthAttributes, FiniteSetTheorems, SequenceTheorems, WellFoundedInduction, TLAPS

Less == OpToRel(<, Nat)

LEMMA LessWellFounded == IsWellFoundedOn(Less, Nat)
  BY Zenon, NatLessThanWellFounded DEF Less

LEMMA LessPairs == \A x, y \in Nat : x < y => <<x, y>> \in Less
  BY Zenon DEF Less, OpToRel

\* Induction, for a set of numbers: it has all up to a bound if it has 0 and the
\* number after each.
LEMMA AllUpTo ==
  ASSUME NEW N \in Nat, NEW S, 0 \in S,
         \A n \in 0..N - 1 : n \in S => n + 1 \in S
  PROVE  0..N \subseteq S
<1> DEFINE T == (0..N) \ S
<1>1. SUFFICES ASSUME T # {} PROVE FALSE
  OBVIOUS
<1>2. T \subseteq Nat
  OBVIOUS
<1>3. PICK x \in T : \A y \in T : <<y, x>> \notin Less
  BY <1>1, <1>2, LessWellFounded, WFMin
<1>4. x # 0 /\ x \in Nat /\ x - 1 \in 0..N - 1
  BY <1>2
<1>5. x - 1 \notin T
  <2>1. x - 1 \in Nat /\ x - 1 < x
    BY <1>4
  <2>2. <<x - 1, x>> \in Less
    BY <1>4, <2>1, LessPairs
  <2> HIDE DEF T
  <2> QED BY <1>3, <2>2
<1>6. x - 1 \in S
  BY <1>4, <1>5
<1> QED BY <1>4, <1>6

-----------------------------------------------------------------------------
(* The container.                                                          *)

\* A container that Set calls have filled.
Sound(attrs) ==
  /\ attrs.values = [t \in DOMAIN attrs.values |-> attrs.values[t]]
  /\ attrs.exist \in Seq(DOMAIN attrs.values)
  /\ \A t \in DOMAIN attrs.values :
       /\ \E i \in DOMAIN attrs.exist : attrs.exist[i] = t
       /\ \E type \in DOMAIN TagsOf : t \in TagsOf[type]
       /\ IsSequence(attrs.values[t])
       /\ TypeOfTag(t) \in Scalars => Len(attrs.values[t]) = 1

\* The tags of the types differ, and none is that of a header.
LEMMA TagsApart ==
  ASSUME NEW type \in DOMAIN TagsOf, NEW tag \in TagsOf[type]
  PROVE  /\ \A other \in DOMAIN TagsOf : tag \in TagsOf[other] => other = type
         /\ tag \notin {AUTH_ROOT, AUTH_DATA}
BY DEF TagsOf, AUTH_ROOT, AUTH_RESULT_CODE, AUTH_SIGNATURE, AUTH_IDENTIFY_MODE,
   AUTH_TEMPLATE_ID, AUTH_TEMPLATE_ID_LIST, AUTH_REMAIN_COUNT, AUTH_REMAIN_TIME,
   AUTH_SCHEDULE_ID, AUTH_CALLER_NAME, AUTH_SCHEDULE_VERSION, AUTH_LOCK_OUT_TEMPLATE,
   AUTH_UNLOCK_TEMPLATE, AUTH_DATA, AUTH_SUBTYPE, AUTH_SCHEDULE_MODE,
   AUTH_PROPERTY_MODE, AUTH_TYPE, AUTH_CREDENTIAL_ID, AUTH_CONTROLLER,
   AUTH_CALLER_UID, AUTH_RESULT, ALGORITHM_INFO

LEMMA TypeIs ==
  ASSUME NEW type \in DOMAIN TagsOf, NEW tag \in TagsOf[type]
  PROVE  TypeOfTag(tag) = type
BY TagsApart DEF TypeOfTag

LEMMA Typed ==
  ASSUME NEW attrs, Sound(attrs), NEW tag \in DOMAIN attrs.values
  PROVE  TypeOfTag(tag) \in DOMAIN TagsOf /\ tag \in TagsOf[TypeOfTag(tag)]
BY TypeIs DEF Sound

LEMMA NewSound == Sound(NewAttributes)
BY EmptySeq DEF Sound, NewAttributes

LEMMA SetSound ==
  ASSUME NEW attrs, Sound(attrs), NEW type \in DOMAIN TagsOf, NEW tag, NEW value,
         IsSequence(value), type \in Scalars => Len(value) = 1
  PROVE  /\ Sound(SetValue(attrs, type, tag, value))
         /\ tag \notin TagsOf[type] =>
              SetValue(attrs, type, tag, value).values = attrs.values
         /\ tag \in TagsOf[type] =>
              SetValue(attrs, type, tag, value).values = Updated(attrs.values, tag, value)
<1>1. CASE tag \notin TagsOf[type]
  BY <1>1 DEF SetValue
<1>2. CASE tag \in TagsOf[type]
  <2> DEFINE new == SetValue(attrs, type, tag, value)
             values == [t \in {tag} \cup DOMAIN attrs.values |->
                          IF t = tag THEN value ELSE attrs.values[t]]
  <2>1. new.values = values /\ new.exist = Append(attrs.exist, tag)
    BY <1>2 DEF SetValue, Updated
  <2>2. DOMAIN values = {tag} \cup DOMAIN attrs.values
    OBVIOUS
  <2>3. attrs.exist \in Seq({tag} \cup DOMAIN attrs.values)
    BY <2>2 DEF Sound
  <2>4. /\ new.exist \in Seq({tag} \cup DOMAIN attrs.values)
        /\ \A i \in DOMAIN attrs.exist : i \in DOMAIN new.exist /\ new.exist[i] = attrs.exist[i]
        /\ \E i \in DOMAIN new.exist : new.exist[i] = tag
    BY <2>1, <2>3
  <2>5. TypeOfTag(tag) = type
    BY <1>2, TypeIs
  <2>6. ASSUME NEW t \in DOMAIN values
        PROVE  /\ \E i \in DOMAIN new.exist : new.exist[i] = t
               /\ \E any \in DOMAIN TagsOf : t \in TagsOf[any]
               /\ IsSequence(values[t])
               /\ TypeOfTag(t) \in Scalars => Len(values[t]) = 1
    <3>1. CASE t = tag
      BY <3>1, <2>4, <2>5, <1>2
    <3>2. CASE t # tag
      <4>1. t \in DOMAIN attrs.values /\ values[t] = attrs.values[t]
        BY <3>2
      <4>2. PICK i \in DOMAIN attrs.exist : attrs.exist[i] = t
        BY <4>1 DEF Sound
      <4> QED BY <4>1, <4>2, <2>4 DEF Sound
    <3> QED BY <3>1, <3>2
  <2>7. values = [t \in DOMAIN values |-> values[t]]
    OBVIOUS
  <2>8. new.exist \in Seq(DOMAIN values)
    BY <2>2, <2>4
  <2> HIDE DEF new, values
  <2>9. Sound(new)
    <3>1. new.values = [t \in DOMAIN new.values |-> new.values[t]]
      BY <2>1, <2>7
    <3>2. new.exist \in Seq(DOMAIN new.values)
      BY <2>1, <2>8
    <3> QED BY <2>1, <2>6, <3>1, <3>2 DEF Sound
  <2> QED BY <1>2, <2>1, <2>9 DEF new, values, Updated
<1> QED BY <1>1, <1>2

-----------------------------------------------------------------------------
(* SetAll.                                                                 *)

\* The containers after the first Set calls.
Fills(f, settings, m) ==
  f = [n \in 0..m |->
         IF n = 0 THEN NewAttributes
         ELSE SetValue(f[n - 1], settings[n].type, settings[n].tag, settings[n].value)]

LEMMA SetAllSteps ==
  ASSUME NEW settings, Len(settings) \in Nat
  PROVE  \E f : Fills(f, settings, Len(settings)) /\ SetAll(settings) = f[Len(settings)]
<1> DEFINE S == {m \in Nat : \E f : Fills(f, settings, m)}
<1>1. 0 \in S
  <2> DEFINE g == [n \in 0..0 |-> NewAttributes]
  <2>1. Fills(g, settings, 0)
    BY DEF Fills
  <2> QED BY <2>1
<1>2. ASSUME NEW m \in 0..Len(settings) - 1, m \in S
      PROVE  m + 1 \in S
  <2>1. PICK f : Fills(f, settings, m)
    BY <1>2
  <2> DEFINE g == [n \in 0..m + 1 |-> IF n = m + 1
                     THEN SetValue(f[m], settings[m + 1].type, settings[m + 1].tag,
                                   settings[m + 1].value)
                     ELSE f[n]]
  <2>2. ASSUME NEW n \in 0..m + 1
        PROVE  g[n] = IF n = 0 THEN NewAttributes
                      ELSE SetValue(g[n - 1], settings[n].type, settings[n].tag,
                                    settings[n].value)
    BY <2>1 DEF Fills
  <2> HIDE DEF g
  <2>3. Fills(g, settings, m + 1)
    BY <2>2 DEF Fills, g
  <2> QED BY <2>3
<1>3. Len(settings) \in S
  <2> HIDE DEF S
  <2>1. \A m \in 0..Len(settings) - 1 : m \in S => m + 1 \in S
    BY <1>2
  <2>2. 0..Len(settings) \subseteq S
    BY <1>1, <2>1, AllUpTo
  <2> QED BY <2>2
<1> QED BY <1>3 DEF SetAll, Fills

Accepts(settings, i) == settings[i].tag \in TagsOf[settings[i].type]

\* What a container holds after the first n Set calls.
HoldsFirst(attrs, settings, n) ==
  /\ Sound(attrs)
  /\ \A i \in 1..n : Accepts(settings, i) => settings[i].tag \in DOMAIN attrs.values
  /\ \A t \in DOMAIN attrs.values :
       \E i \in 1..n :
         /\ Accepts(settings, i) /\ settings[i].tag = t
         /\ attrs.values[t] = settings[i].value
         /\ \A j \in i + 1..n : Accepts(settings, j) => settings[j].tag # t

LEMMA SetHolds ==
  ASSUME NEW settings, AreSettings(settings), NEW attrs, NEW n \in 0..Len(settings) - 1,
         HoldsFirst(attrs, settings, n)
  PROVE  HoldsFirst(SetValue(attrs, settings[n + 1].type, settings[n + 1].tag,
                             settings[n + 1].value), settings, n + 1)
<1> DEFINE s == settings[n + 1]
           new == SetValue(attrs, s.type, s.tag, s.value)
<1>0. n \in Nat /\ n + 1 \in DOMAIN settings
  BY DEF AreSettings, IsSequence
<1>1. /\ Sound(new)
      /\ s.tag \notin TagsOf[s.type] => new.values = attrs.values
      /\ s.tag \in TagsOf[s.type] =>
           new.values = Updated(attrs.values, s.tag, s.value)
  <2>1. s.type \in DOMAIN TagsOf /\ IsSequence(s.value)
        /\ (s.type \in Scalars => Len(s.value) = 1)
    BY <1>0 DEF AreSettings
  <2>2. Sound(attrs)
    BY DEF HoldsFirst
  <2> HIDE DEF s
  <2> QED BY <2>1, <2>2, SetSound
<1> HIDE DEF new
<1>2. CASE ~Accepts(settings, n + 1)
  <2>1. new.values = attrs.values
    BY <1>1, <1>2 DEF Accepts
  <2>2. ASSUME NEW i \in 1..n + 1, Accepts(settings, i)
        PROVE  settings[i].tag \in DOMAIN attrs.values
    BY <1>0, <1>2, <2>2 DEF HoldsFirst
  <2>3. ASSUME NEW t \in DOMAIN attrs.values
        PROVE  \E i \in 1..n + 1 :
                 /\ Accepts(settings, i) /\ settings[i].tag = t
                 /\ attrs.values[t] = settings[i].value
                 /\ \A j \in i + 1..n + 1 : Accepts(settings, j) => settings[j].tag # t
    <3>1. PICK i \in 1..n :
            /\ Accepts(settings, i) /\ settings[i].tag = t
            /\ attrs.values[t] = settings[i].value
            /\ \A j \in i + 1..n : Accepts(settings, j) => settings[j].tag # t
      BY DEF HoldsFirst
    <3>2. \A j \in i + 1..n + 1 : Accepts(settings, j) => settings[j].tag # t
      BY <1>0, <1>2, <3>1
    <3> QED BY <1>0, <3>1, <3>2
  <2>4. HoldsFirst(new, settings, n + 1)
    <3>1. Sound(new)
      BY <1>1
    <3> QED BY <2>1, <2>2, <2>3, <3>1 DEF HoldsFirst
  <2> QED BY <2>4 DEF new
<1>3. CASE Accepts(settings, n + 1)
  <2>1. new.values = [t \in {s.tag} \cup DOMAIN attrs.values |->
                        IF t = s.tag THEN s.value ELSE attrs.values[t]]
    BY <1>1, <1>3 DEF Accepts, Updated
  <2>2. ASSUME NEW i \in 1..n + 1, Accepts(settings, i)
        PROVE  settings[i].tag \in DOMAIN new.values
    <3>1. CASE i = n + 1
      BY <2>1, <3>1
    <3>2. CASE i # n + 1
      <4>1. i \in 1..n
        BY <1>0, <3>2
      <4> QED BY <2>1, <2>2, <4>1 DEF HoldsFirst
    <3> QED BY <3>1, <3>2
  <2>3. ASSUME NEW t \in DOMAIN new.values
        PROVE  \E i \in 1..n + 1 :
                 /\ Accepts(settings, i) /\ settings[i].tag = t
                 /\ new.values[t] = settings[i].value
                 /\ \A j \in i + 1..n + 1 : Accepts(settings, j) => settings[j].tag # t
    <3>1. CASE t = s.tag
      <4>1. n + 1 \in 1..n + 1 /\ n + 1 + 1..n + 1 = {}
        BY <1>0
      <4> QED BY <1>3, <2>1, <3>1, <4>1
    <3>2. CASE t # s.tag
      <4>1. t \in DOMAIN attrs.values /\ new.values[t] = attrs.values[t]
        BY <2>1, <3>2
      <4>2. PICK i \in 1..n :
              /\ Accepts(settings, i) /\ settings[i].tag = t
              /\ attrs.values[t] = settings[i].value
              /\ \A j \in i + 1..n : Accepts(settings, j) => settings[j].tag # t
        BY <4>1 DEF HoldsFirst
      <4>3. \A j \in i + 1..n + 1 : Accepts(settings, j) => settings[j].tag # t
        BY <1>0, <3>2, <4>2
      <4> QED BY <1>0, <4>1, <4>2, <4>3
    <3> QED BY <3>1, <3>2
  <2>4. HoldsFirst(new, settings, n + 1)
    BY <1>1, <2>2, <2>3 DEF HoldsFirst
  <2> QED BY <2>4 DEF new
<1> QED BY <1>2, <1>3

\* SetAll leaves in a container the last value that was accepted for each tag.
LEMMA SetAllIsByTag ==
  ASSUME NEW settings, AreSettings(settings)
  PROVE  Sound(SetAll(settings)) /\ SetAll(settings).values = ByTag(settings)
<1>0. Len(settings) \in Nat /\ DOMAIN settings = 1..Len(settings)
  BY DEF AreSettings, IsSequence
<1>1. PICK f : Fills(f, settings, Len(settings)) /\ SetAll(settings) = f[Len(settings)]
  BY <1>0, SetAllSteps
<1> DEFINE S == {n \in 0..Len(settings) : HoldsFirst(f[n], settings, n)}
<1>2. 0 \in S
  <2>1. f[0] = NewAttributes
    BY <1>0, <1>1 DEF Fills
  <2>2. DOMAIN NewAttributes.values = {} /\ 1..0 = {}
    BY DEF NewAttributes
  <2> QED BY <1>0, <2>1, <2>2, NewSound DEF HoldsFirst
<1>3. ASSUME NEW n \in 0..Len(settings) - 1, n \in S
      PROVE  n + 1 \in S
  <2>1. f[n + 1] = SetValue(f[n], settings[n + 1].type, settings[n + 1].tag,
                            settings[n + 1].value)
    BY <1>0, <1>1 DEF Fills
  <2>2. HoldsFirst(f[n], settings, n)
    BY <1>3
  <2>3. HoldsFirst(f[n + 1], settings, n + 1)
    BY <2>1, <2>2, SetHolds
  <2> QED BY <1>0, <2>3
<1>4. HoldsFirst(SetAll(settings), settings, Len(settings))
  <2> HIDE DEF S
  <2>1. \A n \in 0..Len(settings) - 1 : n \in S => n + 1 \in S
    BY <1>3
  <2>2. 0..Len(settings) \subseteq S
    BY <1>0, <1>2, <2>1, AllUpTo
  <2>3. Len(settings) \in S
    BY <1>0, <2>2
  <2> QED BY <1>1, <2>3 DEF S
<1> DEFINE values == SetAll(settings).values
           tags == {settings[i].tag : i \in
                      {i \in DOMAIN settings : settings[i].tag \in TagsOf[settings[i].type]}}
<1>5. DOMAIN values = tags
  BY <1>0, <1>4 DEF HoldsFirst, Accepts
<1>6. ASSUME NEW t \in DOMAIN values
      PROVE  values[t] = LastValue(settings, t)
  <2>1. PICK i \in 1..Len(settings) :
          /\ Accepts(settings, i) /\ settings[i].tag = t
          /\ values[t] = settings[i].value
          /\ \A j \in i + 1..Len(settings) : Accepts(settings, j) => settings[j].tag # t
    BY <1>4 DEF HoldsFirst
  <2>2. i \in Accepted(settings, t)
    BY <1>0, <2>1 DEF Accepted, Accepts
  <2>3. \A j \in Accepted(settings, t) : j \in 1..Len(settings) /\ j <= i
    BY <1>0, <2>1 DEF Accepted, Accepts
  <2>4. \A k \in Accepted(settings, t) : (\A j \in Accepted(settings, t) : j <= k) => k = i
    BY <1>0, <2>2, <2>3
  <2> QED BY <2>1, <2>2, <2>3, <2>4 DEF LastValue
<1>7. values = [t \in DOMAIN values |-> values[t]]
  BY <1>4 DEF HoldsFirst, Sound
<1> HIDE DEF values
<1>8. values = ByTag(settings)
  BY <1>5, <1>6, <1>7 DEF ByTag
<1> QED BY <1>4, <1>8 DEF HoldsFirst, values

-----------------------------------------------------------------------------
(* Pack.                                                                   *)

\* Nothing is lost by it.
Keeps(new, tags, tag) ==
  /\ \A i \in DOMAIN tags : \E k \in DOMAIN new : new[k] = tags[i]
  /\ \E k \in DOMAIN new : new[k] = tag

LEMMA InsertedIs ==
  ASSUME NEW T, NEW tags \in Seq(T), NEW tag \in T
  PROVE  /\ Inserted(tags, tag) \in Seq(T)
         /\ Keeps(Inserted(tags, tag), tags, tag)
<1> DEFINE below == {i \in DOMAIN tags : tags[i] <= tag}
           place == Cardinality(below) + 1
           new == [i \in 1..Len(tags) + 1 |->
                     IF i < place THEN tags[i] ELSE IF i = place THEN tag ELSE tags[i - 1]]
<1>1. Len(tags) \in Nat /\ DOMAIN tags = 1..Len(tags)
  OBVIOUS
<1>2. place \in 1..Len(tags) + 1
  <2>1. IsFiniteSet(1..Len(tags)) /\ Cardinality(1..Len(tags)) = Len(tags)
    BY <1>1, FS_Interval
  <2>2. below \subseteq 1..Len(tags)
    BY <1>1
  <2> HIDE DEF below
  <2>3. IsFiniteSet(below) /\ Cardinality(below) <= Len(tags)
    BY <2>1, <2>2, FS_Subset
  <2>4. Cardinality(below) \in Nat
    BY <2>3, FS_CardinalityType
  <2> QED BY <1>1, <2>3, <2>4
<1> HIDE DEF place, below
<1>3. \A i \in 1..Len(tags) + 1 : new[i] \in T
  BY <1>1, <1>2
<1>4. new \in Seq(T) /\ DOMAIN new = 1..Len(tags) + 1
  BY <1>1, <1>3
<1>5. ASSUME NEW i \in DOMAIN tags
      PROVE  \E k \in DOMAIN new : new[k] = tags[i]
  <2>1. CASE i < place
    BY <1>1, <1>2, <1>4, <2>1
  <2>2. CASE ~(i < place)
    <3>1. i + 1 \in DOMAIN new /\ new[i + 1] = tags[i]
      BY <1>1, <1>2, <1>4, <2>2
    <3> QED BY <3>1
  <2> QED BY <2>1, <2>2
<1>6. place \in DOMAIN new /\ new[place] = tag
  BY <1>2, <1>4
<1>7. new = Inserted(tags, tag)
  BY DEF Inserted, place, below
<1> HIDE DEF new
<1> QED BY <1>4, <1>5, <1>6, <1>7 DEF Keeps

\* The tags sorted so far.
Sorts(f, tags, m) ==
  f = [n \in 0..m |->
         IF n = 0 THEN <<>>
         ELSE IF tags[n] \in Skipped THEN f[n - 1]
         ELSE Inserted(f[n - 1], tags[n])]

LEMMA SortedSteps ==
  ASSUME NEW tags, Len(tags) \in Nat
  PROVE  \E f : Sorts(f, tags, Len(tags)) /\ Sorted(tags) = f[Len(tags)]
<1> DEFINE S == {m \in Nat : \E f : Sorts(f, tags, m)}
<1>1. 0 \in S
  <2> DEFINE g == [n \in 0..0 |-> <<>>]
  <2>1. Sorts(g, tags, 0)
    BY DEF Sorts
  <2> QED BY <2>1
<1>2. ASSUME NEW m \in 0..Len(tags) - 1, m \in S
      PROVE  m + 1 \in S
  <2>1. PICK f : Sorts(f, tags, m)
    BY <1>2
  <2> DEFINE g == [n \in 0..m + 1 |->
                     IF n = m + 1
                     THEN IF tags[m + 1] \in Skipped THEN f[m] ELSE Inserted(f[m], tags[m + 1])
                     ELSE f[n]]
  <2>2. ASSUME NEW n \in 0..m + 1
        PROVE  g[n] = IF n = 0 THEN <<>>
                      ELSE IF tags[n] \in Skipped THEN g[n - 1]
                      ELSE Inserted(g[n - 1], tags[n])
    BY <2>1 DEF Sorts
  <2> HIDE DEF g
  <2>3. Sorts(g, tags, m + 1)
    BY <2>2 DEF Sorts, g
  <2> QED BY <2>3
<1>3. Len(tags) \in S
  <2> HIDE DEF S
  <2>1. \A m \in 0..Len(tags) - 1 : m \in S => m + 1 \in S
    BY <1>2
  <2>2. 0..Len(tags) \subseteq S
    BY <1>1, <2>1, AllUpTo
  <2> QED BY <2>2
<1> QED BY <1>3 DEF Sorted, Sorts

\* No tag is lost in the order, but those that are skipped.
SortsFirst(sorted, tags, n) ==
  \A i \in 1..n : tags[i] \notin Skipped => \E k \in DOMAIN sorted : sorted[k] = tags[i]

LEMMA SortedIs ==
  ASSUME NEW T, NEW tags \in Seq(T)
  PROVE  /\ Sorted(tags) \in Seq(T)
         /\ SortsFirst(Sorted(tags), tags, Len(tags))
<1>0. Len(tags) \in Nat /\ DOMAIN tags = 1..Len(tags)
  OBVIOUS
<1>1. PICK f : Sorts(f, tags, Len(tags)) /\ Sorted(tags) = f[Len(tags)]
  BY <1>0, SortedSteps
<1> DEFINE S == {n \in 0..Len(tags) : f[n] \in Seq(T) /\ SortsFirst(f[n], tags, n)}
<1>2. 0 \in S
  <2>1. f[0] = <<>>
    BY <1>0, <1>1 DEF Sorts
  <2>2. f[0] \in Seq(T)
    BY <2>1, EmptySeq
  <2>3. SortsFirst(f[0], tags, 0)
    BY DEF SortsFirst
  <2> QED BY <1>0, <2>2, <2>3
<1>3. ASSUME NEW n \in 0..Len(tags) - 1, n \in S
      PROVE  n + 1 \in S
  <2>1. f[n + 1] = IF tags[n + 1] \in Skipped THEN f[n] ELSE Inserted(f[n], tags[n + 1])
    BY <1>0, <1>1 DEF Sorts
  <2>2. f[n] \in Seq(T) /\ SortsFirst(f[n], tags, n)
    BY <1>3
  <2>3. n \in Nat /\ n + 1 \in 1..Len(tags) /\ tags[n + 1] \in T
    BY <1>0
  <2>4. CASE tags[n + 1] \in Skipped
    <3>1. f[n + 1] = f[n]
      BY <2>1, <2>4
    <3>2. SortsFirst(f[n], tags, n + 1)
      BY <2>2, <2>3, <2>4 DEF SortsFirst
    <3> QED BY <2>2, <2>3, <3>1, <3>2
  <2>5. CASE tags[n + 1] \notin Skipped
    <3>1. f[n + 1] = Inserted(f[n], tags[n + 1])
      BY <2>1, <2>5
    <3>2. /\ f[n + 1] \in Seq(T)
          /\ \A i \in DOMAIN f[n] : \E k \in DOMAIN f[n + 1] : f[n + 1][k] = f[n][i]
          /\ \E k \in DOMAIN f[n + 1] : f[n + 1][k] = tags[n + 1]
      <4>1. f[n + 1] \in Seq(T) /\ Keeps(f[n + 1], f[n], tags[n + 1])
        BY <2>2, <2>3, <3>1, InsertedIs
      <4> QED BY <4>1 DEF Keeps
    <3>3. ASSUME NEW i \in 1..n + 1, tags[i] \notin Skipped
          PROVE  \E k \in DOMAIN f[n + 1] : f[n + 1][k] = tags[i]
      <4>1. CASE i = n + 1
        BY <3>2, <4>1
      <4>2. CASE i # n + 1
        <5>1. i \in 1..n
          BY <2>3, <4>2
        <5>2. PICK k \in DOMAIN f[n] : f[n][k] = tags[i]
          BY <2>2, <3>3, <5>1 DEF SortsFirst
        <5> QED BY <3>2, <5>2
      <4> QED BY <4>1, <4>2
    <3> QED BY <2>3, <3>2, <3>3 DEF SortsFirst
  <2> QED BY <2>4, <2>5
<1>4. Len(tags) \in S
  <2> HIDE DEF S
  <2>1. \A n \in 0..Len(tags) - 1 : n \in S => n + 1 \in S
    BY <1>3
  <2>2. 0..Len(tags) \subseteq S
    BY <1>0, <1>2, <2>1, AllUpTo
  <2> QED BY <1>0, <2>2
<1> QED BY <1>1, <1>4

\* The entries of a packed container: one of each of its tags, no other but that
\* of a signature, and each of them right.
Packs(buffer, attrs) ==
  /\ IsSequence(buffer)
  /\ \A i \in 1..Len(buffer) : \E t \in {AUTH_SIGNATURE} \cup DOMAIN attrs.values :
       buffer[i] = PackToBuffer(attrs, t)
  /\ \A t \in DOMAIN attrs.values :
       \E i \in 1..Len(buffer) : buffer[i] = PackToBuffer(attrs, t)

LEMMA PackIs ==
  ASSUME NEW attrs, Sound(attrs)
  PROVE  Packs(Pack(attrs), attrs)
<1> DEFINE T == DOMAIN attrs.values
           body == Sorted(attrs.exist)
           entries == [i \in DOMAIN body |-> PackToBuffer(attrs, body[i])]
           last == PackToBuffer(attrs, AUTH_SIGNATURE)
           E == {PackToBuffer(attrs, t) : t \in {AUTH_SIGNATURE} \cup T}
<1>1. attrs.exist \in Seq(T) /\ Len(attrs.exist) \in Nat
      /\ DOMAIN attrs.exist = 1..Len(attrs.exist)
  BY DEF Sound
<1>2. body \in Seq(T) /\ SortsFirst(body, attrs.exist, Len(attrs.exist))
  BY <1>1, SortedIs
<1> HIDE DEF body
<1>3. Len(body) \in Nat /\ DOMAIN body = 1..Len(body)
  BY <1>2
<1>4. ASSUME NEW i \in 1..Len(body)
      PROVE  entries[i] = PackToBuffer(attrs, body[i]) /\ body[i] \in T /\ entries[i] \in E
  BY <1>2, <1>3
<1>5. entries \in Seq(E) /\ Len(entries) = Len(body)
  BY <1>3, <1>4
<1>6. last \in E
  OBVIOUS
<1>7. Pack(attrs) = Append(entries, last)
  BY DEF Pack, body
<1> HIDE DEF entries, E, last
<1>8. /\ Pack(attrs) \in Seq(E) /\ Len(Pack(attrs)) = Len(body) + 1
      /\ \A i \in 1..Len(body) : Pack(attrs)[i] = entries[i]
      /\ Pack(attrs)[Len(body) + 1] = last
  BY <1>3, <1>5, <1>6, <1>7
<1>9. IsSequence(Pack(attrs))
  BY <1>8 DEF IsSequence
<1>10. ASSUME NEW i \in 1..Len(Pack(attrs))
       PROVE  \E t \in {AUTH_SIGNATURE} \cup T : Pack(attrs)[i] = PackToBuffer(attrs, t)
  <2>1. Pack(attrs)[i] \in E
    BY <1>8
  <2> QED BY <2>1 DEF E
<1>11. ASSUME NEW t \in T
       PROVE  \E i \in 1..Len(Pack(attrs)) : Pack(attrs)[i] = PackToBuffer(attrs, t)
  <2>1. CASE t = AUTH_SIGNATURE
    BY <1>3, <1>8, <2>1 DEF last
  <2>2. CASE t # AUTH_SIGNATURE
    <3>1. t \notin Skipped
      <4>1. PICK type \in DOMAIN TagsOf : t \in TagsOf[type]
        BY DEF Sound
      <4>2. t \notin {AUTH_ROOT, AUTH_DATA}
        BY <4>1, TagsApart
      <4> QED BY <2>2, <4>2 DEF Skipped
    <3>2. PICK i \in 1..Len(attrs.exist) : attrs.exist[i] = t
      BY <1>1 DEF Sound
    <3>3. PICK k \in 1..Len(body) : body[k] = t
      BY <1>2, <1>3, <3>1, <3>2 DEF SortsFirst
    <3> QED BY <1>3, <1>4, <1>8, <3>3
  <2> QED BY <2>1, <2>2
<1> QED BY <1>9, <1>10, <1>11 DEF Packs

-----------------------------------------------------------------------------
(* Unpack.                                                                 *)

\* What has been read after each of the first entries.
Reads(f, attrs, buffer, m) ==
  f = [n \in 0..m |->
         IF n = 0 THEN Unread(attrs)
         ELSE ReadEntry(f[n - 1], buffer[n])]

LEMMA UnpackSteps ==
  ASSUME NEW attrs, NEW buffer, Len(buffer) \in Nat
  PROVE  \E f : /\ Reads(f, attrs, buffer, Len(buffer))
                /\ Unpack(attrs, buffer) = f[Len(buffer)].attrs
<1> DEFINE S == {m \in Nat : \E f : Reads(f, attrs, buffer, m)}
<1>1. 0 \in S
  <2> DEFINE g == [n \in 0..0 |-> Unread(attrs)]
  <2>1. Reads(g, attrs, buffer, 0)
    BY DEF Reads
  <2> QED BY <2>1
<1>2. ASSUME NEW m \in 0..Len(buffer) - 1, m \in S
      PROVE  m + 1 \in S
  <2>1. PICK f : Reads(f, attrs, buffer, m)
    BY <1>2
  <2> DEFINE g == [n \in 0..m + 1 |->
                     IF n = m + 1 THEN ReadEntry(f[m], buffer[m + 1]) ELSE f[n]]
  <2>2. ASSUME NEW n \in 0..m + 1
        PROVE  g[n] = IF n = 0 THEN Unread(attrs)
                      ELSE ReadEntry(g[n - 1], buffer[n])
    BY <2>1 DEF Reads
  <2> HIDE DEF g
  <2>3. Reads(g, attrs, buffer, m + 1)
    BY <2>2 DEF Reads, g
  <2> QED BY <2>3
<1>3. Len(buffer) \in S
  <2> HIDE DEF S
  <2>1. \A m \in 0..Len(buffer) - 1 : m \in S => m + 1 \in S
    BY <1>2
  <2>2. 0..Len(buffer) \subseteq S
    BY <1>1, <2>1, AllUpTo
  <2> QED BY <2>2
<1> QED BY <1>3 DEF Unpack, Reads

\* A value that reaches the other side.
IsShown(attrs, t) ==
  t \in DOMAIN attrs.values /\ ~(t \in TagsOf["uint8Array"] /\ attrs.values[t] = <<>>)

LEMMA SignatureType ==
  /\ "uint8Array" \in DOMAIN TagsOf
  /\ AUTH_SIGNATURE \in TagsOf["uint8Array"]
  /\ TypeOfTag(AUTH_SIGNATURE) = "uint8Array"
<1>1. "uint8Array" \in DOMAIN TagsOf /\ AUTH_SIGNATURE \in TagsOf["uint8Array"]
  BY DEF TagsOf
<1> QED BY <1>1, TypeIs

LEMMA EntryFits ==
  ASSUME NEW attrs, Sound(attrs), NEW t \in {AUTH_SIGNATURE} \cup DOMAIN attrs.values
  PROVE  CheckLengthPass(PackToBuffer(attrs, t))
<1> DEFINE entry == PackToBuffer(attrs, t)
<1>1. entry.tag = t /\ entry.length = Bytes[TypeOfTag(t)] * Len(Value(attrs, t))
  BY DEF PackToBuffer
<1>2. CASE t = AUTH_SIGNATURE
  BY <1>1, <1>2, SignatureType DEF CheckLengthPass, Scalars
<1>3. CASE t \in DOMAIN attrs.values
  <2>1. TypeOfTag(t) \in Scalars => Len(Value(attrs, t)) = 1
    BY <1>3 DEF Sound, Value
  <2>2. TypeOfTag(t) \in Scalars => Bytes[TypeOfTag(t)] \in Nat
    BY DEF Scalars, Bytes
  <2>3. TypeOfTag(t) \in Scalars => entry.length = Bytes[TypeOfTag(t)]
    <3> HIDE DEF entry
    <3> SUFFICES ASSUME TypeOfTag(t) \in Scalars
                 PROVE  entry.length = Bytes[TypeOfTag(t)]
      OBVIOUS
    <3>1. /\ entry.length = Bytes[TypeOfTag(t)] * 1
          /\ Bytes[TypeOfTag(t)] \in Nat
      BY <1>1, <2>1, <2>2
    <3> QED BY <3>1
  <2> QED BY <1>1, <2>3 DEF CheckLengthPass
<1> QED BY <1>2, <1>3

LEMMA EntryRead ==
  ASSUME NEW attrs, Sound(attrs), NEW t \in {AUTH_SIGNATURE} \cup DOMAIN attrs.values,
         NEW into, Sound(into)
  PROVE  /\ Sound(UnpackEntry(into, PackToBuffer(attrs, t)))
         /\ IsShown(attrs, t) =>
              UnpackEntry(into, PackToBuffer(attrs, t)).values
                = Updated(into.values, t, attrs.values[t])
         /\ ~IsShown(attrs, t) => UnpackEntry(into, PackToBuffer(attrs, t)) = into
<1> DEFINE entry == PackToBuffer(attrs, t)
           type == TypeOfTag(t)
<1>1. /\ entry.tag = t /\ entry.value = Value(attrs, t)
      /\ entry.length = Bytes[type] * Len(Value(attrs, t))
  BY DEF PackToBuffer
<1>2. type \in DOMAIN TagsOf /\ t \in TagsOf[type]
  BY SignatureType, Typed
<1>3. type = "uint8Array" <=> t \in TagsOf["uint8Array"]
  BY <1>2, SignatureType, TypeIs
<1>4. Bytes["uint8Array"] = 1 /\ Bytes[type] \in Nat \ {0}
  BY <1>2 DEF Bytes, TagsOf
<1>5. CASE ~IsShown(attrs, t)
  <2>1. Value(attrs, t) = <<>> /\ type = "uint8Array"
    BY <1>3, <1>5, SignatureType DEF IsShown, Value
  <2>2. entry.length = 0
    BY <1>1, <1>4, <2>1
  <2>3. UnpackEntry(into, entry) = into
    BY <1>1, <2>1, <2>2 DEF UnpackEntry
  <2> QED BY <1>5, <2>3
<1>6. CASE IsShown(attrs, t)
  <2>1. /\ Value(attrs, t) = attrs.values[t] /\ IsSequence(attrs.values[t])
        /\ type \in Scalars => Len(attrs.values[t]) = 1
    BY <1>6 DEF IsShown, Value, Sound
  <2>2. ~(type = "uint8Array" /\ entry.length = 0)
    <3>1. SUFFICES ASSUME type = "uint8Array", entry.length = 0
                   PROVE  FALSE
      OBVIOUS
    <3>2. Len(attrs.values[t]) = 0
      BY <1>1, <1>4, <2>1, <3>1 DEF IsSequence
    <3>3. attrs.values[t] = <<>>
      BY <2>1, <3>2 DEF IsSequence
    <3> QED BY <1>3, <1>6, <3>1, <3>3 DEF IsShown
  <2>3. UnpackEntry(into, entry) = SetValue(into, type, t, attrs.values[t])
    BY <1>1, <2>1, <2>2 DEF UnpackEntry
  <2> HIDE DEF entry, type
  <2>4. /\ Sound(UnpackEntry(into, entry))
        /\ UnpackEntry(into, entry).values = Updated(into.values, t, attrs.values[t])
    BY <1>2, <2>1, <2>3, SetSound
  <2> QED BY <1>6, <2>4 DEF entry
<1> QED BY <1>5, <1>6

\* What a container holds after the first n entries have been unpacked into it.
ReadsFirst(now, into, attrs, buffer, n) ==
  /\ Sound(now)
  /\ \A t \in DOMAIN into.values : t \in DOMAIN now.values
  /\ \A i \in 1..n : IsShown(attrs, buffer[i].tag) => buffer[i].tag \in DOMAIN now.values
  /\ \A t \in DOMAIN now.values :
       \/ IsShown(attrs, t) /\ now.values[t] = attrs.values[t]
       \/ /\ t \in DOMAIN into.values /\ now.values[t] = into.values[t]
          /\ \A i \in 1..n : buffer[i].tag = t => ~IsShown(attrs, t)

LEMMA EntryReads ==
  ASSUME NEW attrs, Sound(attrs), NEW into, Sound(into), NEW buffer, Packs(buffer, attrs),
         NEW n \in 0..Len(buffer) - 1, NEW now, ReadsFirst(now, into, attrs, buffer, n)
  PROVE  /\ CheckLengthPass(buffer[n + 1])
         /\ ReadsFirst(UnpackEntry(now, buffer[n + 1]), into, attrs, buffer, n + 1)
<1>0. n \in Nat /\ n + 1 \in 1..Len(buffer)
  BY DEF Packs, IsSequence
<1>1. PICK t \in {AUTH_SIGNATURE} \cup DOMAIN attrs.values :
        buffer[n + 1] = PackToBuffer(attrs, t)
  BY <1>0 DEF Packs
<1> DEFINE next == UnpackEntry(now, buffer[n + 1])
<1>2. CheckLengthPass(buffer[n + 1])
  BY <1>1, EntryFits
<1>3. buffer[n + 1].tag = t
  BY <1>1 DEF PackToBuffer
<1>4. Sound(now)
  BY DEF ReadsFirst
<1>5. /\ Sound(next)
      /\ IsShown(attrs, t) => next.values = Updated(now.values, t, attrs.values[t])
      /\ ~IsShown(attrs, t) => next = now
  BY <1>1, <1>4, EntryRead
<1> HIDE DEF next
<1>6. \A i \in 1..n + 1 : i \in 1..n \/ i = n + 1
  BY <1>0
<1>7. CASE ~IsShown(attrs, t)
  <2>1. ReadsFirst(now, into, attrs, buffer, n + 1)
    BY <1>3, <1>6, <1>7 DEF ReadsFirst
  <2> QED BY <1>2, <1>5, <1>7, <2>1 DEF next
<1>8. CASE IsShown(attrs, t)
  <2>1. /\ DOMAIN next.values = {t} \cup DOMAIN now.values
        /\ next.values[t] = attrs.values[t]
        /\ \A u \in DOMAIN now.values : u # t => next.values[u] = now.values[u]
    BY <1>5, <1>8 DEF Updated
  <2>2. ASSUME NEW i \in 1..n + 1, IsShown(attrs, buffer[i].tag)
        PROVE  buffer[i].tag \in DOMAIN next.values
    BY <1>3, <1>6, <2>1, <2>2 DEF ReadsFirst
  <2>3. ASSUME NEW u \in DOMAIN next.values
        PROVE  \/ IsShown(attrs, u) /\ next.values[u] = attrs.values[u]
               \/ /\ u \in DOMAIN into.values /\ next.values[u] = into.values[u]
                  /\ \A i \in 1..n + 1 : buffer[i].tag = u => ~IsShown(attrs, u)
    <3>1. CASE u = t
      BY <1>8, <2>1, <3>1
    <3>2. CASE u # t
      BY <1>3, <1>6, <2>1, <3>2 DEF ReadsFirst
    <3> QED BY <3>1, <3>2
  <2>4. ReadsFirst(next, into, attrs, buffer, n + 1)
    BY <1>5, <2>1, <2>2, <2>3 DEF ReadsFirst
  <2> QED BY <1>2, <2>4 DEF next
<1> QED BY <1>7, <1>8

\* What becomes of a container into which another is unpacked: it has the values
\* of that one, and keeps its own values of the other tags.
Merged(into, attrs) ==
  [t \in DOMAIN Shown(attrs.values) \cup DOMAIN into.values |->
     IF t \in DOMAIN Shown(attrs.values) THEN attrs.values[t] ELSE into.values[t]]

LEMMA UnpackIsMerged ==
  ASSUME NEW attrs, Sound(attrs), NEW into, Sound(into), NEW buffer, Packs(buffer, attrs)
  PROVE  Sound(Unpack(into, buffer)) /\ Unpack(into, buffer).values = Merged(into, attrs)
<1>0. Len(buffer) \in Nat
  BY DEF Packs, IsSequence
<1>1. PICK f : /\ Reads(f, into, buffer, Len(buffer))
               /\ Unpack(into, buffer) = f[Len(buffer)].attrs
  BY <1>0, UnpackSteps
<1> DEFINE S == {n \in 0..Len(buffer) :
                   f[n].fits = TRUE /\ ReadsFirst(f[n].attrs, into, attrs, buffer, n)}
<1>2. 0 \in S
  <2>1. f[0] = Unread(into)
    BY <1>0, <1>1 DEF Reads
  <2>2. f[0].fits = TRUE /\ f[0].attrs = into
    BY <2>1 DEF Unread
  <2>3. ReadsFirst(into, into, attrs, buffer, 0)
    BY DEF ReadsFirst
  <2> QED BY <1>0, <2>2, <2>3
<1>3. ASSUME NEW n \in 0..Len(buffer) - 1, n \in S
      PROVE  n + 1 \in S
  <2>1. f[n].fits = TRUE /\ ReadsFirst(f[n].attrs, into, attrs, buffer, n)
    BY <1>3
  <2>2. /\ CheckLengthPass(buffer[n + 1])
        /\ ReadsFirst(UnpackEntry(f[n].attrs, buffer[n + 1]), into, attrs, buffer, n + 1)
    BY <2>1, EntryReads
  <2>3. f[n + 1] = ReadEntry(f[n], buffer[n + 1])
    BY <1>0, <1>1 DEF Reads
  <2>4. f[n + 1].fits = TRUE /\ f[n + 1].attrs = UnpackEntry(f[n].attrs, buffer[n + 1])
    BY <2>1, <2>2, <2>3 DEF ReadEntry
  <2> QED BY <1>0, <2>2, <2>4
<1>4. ReadsFirst(Unpack(into, buffer), into, attrs, buffer, Len(buffer))
  <2> HIDE DEF S
  <2>1. \A n \in 0..Len(buffer) - 1 : n \in S => n + 1 \in S
    BY <1>3
  <2>2. 0..Len(buffer) \subseteq S
    BY <1>0, <1>2, <2>1, AllUpTo
  <2>3. Len(buffer) \in S
    BY <1>0, <2>2
  <2> QED BY <1>1, <2>3 DEF S
<1> DEFINE now == Unpack(into, buffer)
<1>5. Sound(now) /\ now.values = [t \in DOMAIN now.values |-> now.values[t]]
  BY <1>4 DEF ReadsFirst, Sound
<1>6. \A t : t \in DOMAIN Shown(attrs.values) <=> IsShown(attrs, t)
  BY DEF Shown, IsShown
<1>7. \A t : IsShown(attrs, t) => \E i \in 1..Len(buffer) : buffer[i].tag = t
  <2>1. ASSUME NEW t, IsShown(attrs, t)
        PROVE  \E i \in 1..Len(buffer) : buffer[i].tag = t
    <3>1. PICK i \in 1..Len(buffer) : buffer[i] = PackToBuffer(attrs, t)
      BY <2>1 DEF IsShown, Packs
    <3>2. buffer[i].tag = t
      BY <3>1 DEF PackToBuffer
    <3> QED BY <3>2
  <2> QED BY <2>1
<1> HIDE DEF now
<1>8. DOMAIN now.values = DOMAIN Shown(attrs.values) \cup DOMAIN into.values
  BY <1>4, <1>6, <1>7 DEF ReadsFirst, now
<1>9. ASSUME NEW t \in DOMAIN now.values
      PROVE  now.values[t] = IF t \in DOMAIN Shown(attrs.values) THEN attrs.values[t]
                             ELSE into.values[t]
  BY <1>4, <1>6, <1>7 DEF ReadsFirst, now
<1>10. now.values = Merged(into, attrs)
  BY <1>5, <1>8, <1>9 DEF Merged
<1> QED BY <1>5, <1>10 DEF now

-----------------------------------------------------------------------------
(* Trips to another process.                                               *)

\* The values with which a container was filled, as another process sees them.
Seen(settings) == Shown(ByTag(settings))

\* A buffer that brings these values to another process.
Carries(buffer, values) ==
  \E attrs : Sound(attrs) /\ Packs(buffer, attrs) /\ Shown(attrs.values) = values

LEMMA PackCarries ==
  ASSUME NEW settings, AreSettings(settings)
  PROVE  Carries(Pack(SetAll(settings)), Seen(settings))
BY SetAllIsByTag, PackIs DEF Carries, Seen

LEMMA ShownTwice == \A values : Shown(Shown(values)) = Shown(values)
BY DEF Shown

LEMMA NothingCarries ==
  /\ Carries(Pack(NewAttributes), Shown(<<>>))
  /\ Carries(<<>>, Shown(<<>>))
<1>1. NewAttributes.values = <<>>
  BY DEF NewAttributes
<1>2. Packs(<<>>, NewAttributes)
  BY <1>1 DEF Packs, IsSequence
<1> QED BY <1>1, <1>2, NewSound, PackIs DEF Carries

\* A new container has what the buffer brings, and nothing else.
LEMMA UnpackNew ==
  ASSUME NEW buffer, NEW values, Carries(buffer, values)
  PROVE  Unpack(NewAttributes, buffer).values = values /\ Sound(Unpack(NewAttributes, buffer))
<1>1. PICK attrs : Sound(attrs) /\ Packs(buffer, attrs) /\ Shown(attrs.values) = values
  BY DEF Carries
<1>2. /\ Sound(Unpack(NewAttributes, buffer))
      /\ Unpack(NewAttributes, buffer).values = Merged(NewAttributes, attrs)
  BY <1>1, NewSound, UnpackIsMerged
<1>3. DOMAIN NewAttributes.values = {}
  BY DEF NewAttributes
<1>4. Merged(NewAttributes, attrs) = Shown(attrs.values)
  BY <1>3 DEF Merged, Shown
<1> QED BY <1>1, <1>2, <1>4

\* Unpacked and packed again, it brings the same.
LEMMA SentCarries ==
  ASSUME NEW buffer, NEW values, Carries(buffer, values), Shown(values) = values
  PROVE  /\ Shown(Unpack(NewAttributes, buffer).values) = values
         /\ Carries(Pack(Unpack(NewAttributes, buffer)), values)
<1>1. Unpack(NewAttributes, buffer).values = values /\ Sound(Unpack(NewAttributes, buffer))
  BY UnpackNew
<1> QED BY <1>1, PackIs DEF Carries

\* These values, and besides them what was held.
Overlaid(values, held) ==
  [tag \in DOMAIN values \cup DOMAIN held |->
     IF tag \in DOMAIN values THEN values[tag] ELSE held[tag]]

LEMMA UnpackHeld ==
  ASSUME NEW settings, AreSettings(settings),
         NEW buffer, NEW values, Carries(buffer, values)
  PROVE  Unpack(SetAll(settings), buffer).values = Overlaid(values, ByTag(settings))
<1>1. PICK attrs : Sound(attrs) /\ Packs(buffer, attrs) /\ Shown(attrs.values) = values
  BY DEF Carries
<1>2. Sound(SetAll(settings)) /\ SetAll(settings).values = ByTag(settings)
  BY SetAllIsByTag
<1>3. Unpack(SetAll(settings), buffer).values = Merged(SetAll(settings), attrs)
  BY <1>1, <1>2, UnpackIsMerged
<1>4. \A t \in DOMAIN Shown(attrs.values) : attrs.values[t] = Shown(attrs.values)[t]
  BY DEF Shown
<1>5. Merged(SetAll(settings), attrs) = Overlaid(values, ByTag(settings))
  BY <1>1, <1>2, <1>4 DEF Merged, Overlaid
<1> QED BY <1>3, <1>5

\* What has been packed can be unpacked to the end.
LEMMA CarriedFits ==
  ASSUME NEW buffer, NEW values, Carries(buffer, values), NEW i \in DOMAIN buffer
  PROVE  CheckLengthPass(buffer[i])
<1>1. PICK attrs : Sound(attrs) /\ Packs(buffer, attrs)
  BY DEF Carries
<1>2. i \in 1..Len(buffer)
  BY <1>1 DEF Packs, IsSequence
<1>3. PICK t \in {AUTH_SIGNATURE} \cup DOMAIN attrs.values : buffer[i] = PackToBuffer(attrs, t)
  BY <1>1, <1>2 DEF Packs
<1> QED BY <1>1, <1>3, EntryFits

LEMMA SeenTwice == \A settings : Shown(Seen(settings)) = Seen(settings)
BY ShownTwice DEF Seen

\* A container that is packed, sent and unpacked in another process brings there
\* the last value set of each tag, over what the other container held: however
\* many Set calls there were, of whatever tags and in whatever order.
THEOREM RoundTrip ==
  ASSUME NEW settings, AreSettings(settings), NEW held, AreSettings(held)
  PROVE  Unpack(SetAll(held), Pack(SetAll(settings))).values =
           [tag \in DOMAIN Shown(ByTag(settings)) \cup DOMAIN ByTag(held) |->
              IF tag \in DOMAIN Shown(ByTag(settings)) THEN Shown(ByTag(settings))[tag]
              ELSE ByTag(held)[tag]]
<1>1. Carries(Pack(SetAll(settings)), Seen(settings))
  BY PackCarries
<1>2. Unpack(SetAll(held), Pack(SetAll(settings))).values
        = Overlaid(Seen(settings), ByTag(held))
  BY <1>1, UnpackHeld
<1> QED BY <1>2 DEF Seen, Overlaid
=============================================================================
