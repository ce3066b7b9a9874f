--------------------------- MODULE AuthAttributes ---------------------------
(***************************************************************************)
(* AuthAttributes of interfaces/innerkits: a container of values by tag, and *)
(* what becomes of it when it is packed, sent to another process and         *)
(* unpacked there.  A value is the sequence of its items: one item for a      *)
(* number or a boolean.  A buffer is the sequence of its entries; the headers *)
(* AUTH_ROOT and AUTH_DATA in front of them are written by Pack and skipped   *)
(* unread by Unpack.                                                          *)
(***************************************************************************)
EXTENDS Integers, Sequences, FiniteSets

AUTH_ROOT             == 100000
AUTH_RESULT_CODE      == 100001
AUTH_SIGNATURE        == 100004
AUTH_IDENTIFY_MODE    == 100005
AUTH_TEMPLATE_ID      == 100006
AUTH_TEMPLATE_ID_LIST == 100007
AUTH_REMAIN_COUNT     == 100009
AUTH_REMAIN_TIME      == 100010
AUTH_SCHEDULE_ID      == 100014
AUTH_CALLER_NAME      == 100015
AUTH_SCHEDULE_VERSION == 100016
AUTH_LOCK_OUT_TEMPLATE == 100018
AUTH_UNLOCK_TEMPLATE  == 100019
AUTH_DATA             == 100020
AUTH_SUBTYPE          == 100021
AUTH_SCHEDULE_MODE    == 100022
AUTH_PROPERTY_MODE    == 100023
AUTH_TYPE             == 100024
AUTH_CREDENTIAL_ID    == 100025
AUTH_CONTROLLER       == 100026
AUTH_CALLER_UID       == 100027
AUTH_RESULT           == 100028
ALGORITHM_INFO        == 100030

\* The bytes of one item of each ValueType; the scalar ones hold one item.
Bytes == [bool |-> 1, uint32 |-> 4, uint64 |-> 8,
          uint32Array |-> 4, uint64Array |-> 8, uint8Array |-> 1]

Scalars == {"bool", "uint32", "uint64"}

\* authAttributesPosition_: the tags of each type.
TagsOf ==
  [bool   |-> {AUTH_CONTROLLER},
   uint32 |-> {AUTH_RESULT_CODE, AUTH_IDENTIFY_MODE, AUTH_REMAIN_COUNT, AUTH_REMAIN_TIME,
               AUTH_SCHEDULE_VERSION, AUTH_SCHEDULE_MODE, AUTH_PROPERTY_MODE, AUTH_TYPE},
   uint64 |-> {AUTH_TEMPLATE_ID, AUTH_SCHEDULE_ID, AUTH_LOCK_OUT_TEMPLATE,
               AUTH_UNLOCK_TEMPLATE, AUTH_SUBTYPE, AUTH_CREDENTIAL_ID, AUTH_CALLER_UID},
   uint32Array |-> {},
   uint64Array |-> {AUTH_TEMPLATE_ID_LIST},
   uint8Array  |-> {AUTH_SIGNATURE, AUTH_CALLER_NAME, AUTH_RESULT, ALGORITHM_INFO}]

TypeOfTag(tag) == CHOOSE type \in DOMAIN TagsOf : tag \in TagsOf[type]

\* The values by tag, and existAttributes_: a tag for each Set call that worked.
NewAttributes == [values |-> <<>>, exist |-> <<>>]

Updated(values, tag, value) ==
  [t \in {tag} \cup DOMAIN values |-> IF t = tag THEN value ELSE values[t]]

\* A Set call: of a tag whose type is another, or none, it changes nothing.
SetValue(attrs, type, tag, value) ==
  IF tag \notin TagsOf[type] THEN attrs
  ELSE [values |-> Updated(attrs.values, tag, value), exist |-> Append(attrs.exist, tag)]

IsSequence(s) == Len(s) \in Nat /\ s = [i \in 1..Len(s) |-> s[i]]

\* The Set calls there are: those for a number or a boolean pass one.
AreSettings(settings) ==
  /\ IsSequence(settings)
  /\ \A i \in DOMAIN settings :
       /\ settings[i].type \in DOMAIN TagsOf
       /\ IsSequence(settings[i].value)
       /\ settings[i].type \in Scalars => Len(settings[i].value) = 1

\* The container after these Set calls.
SetAll(settings) ==
  LET after[n \in 0..Len(settings)] ==
        IF n = 0 THEN NewAttributes
        ELSE SetValue(after[n - 1], settings[n].type, settings[n].tag, settings[n].value)
  IN  after[Len(settings)]

-----------------------------------------------------------------------------
(* Pack: an entry for each Set call, in the order of the tags, then the one  *)
(* of AUTH_SIGNATURE, empty if there is none.                                *)

\* GetUint8ArrayValue and its like, which find nothing for a tag that is not set.
Value(attrs, tag) == IF tag \in DOMAIN attrs.values THEN attrs.values[tag] ELSE <<>>

\* A tag takes its place in the order, behind those that are not larger.
Inserted(tags, tag) ==
  LET place == Cardinality({i \in DOMAIN tags : tags[i] <= tag}) + 1 IN
  [i \in 1..Len(tags) + 1 |->
     IF i < place THEN tags[i] ELSE IF i = place THEN tag ELSE tags[i - 1]]

Skipped == {AUTH_ROOT, AUTH_DATA, AUTH_SIGNATURE}

\* The tags of the entries that the loop writes.
Sorted(tags) ==
  LET sorted[n \in 0..Len(tags)] ==
        IF n = 0 THEN <<>>
        ELSE IF tags[n] \in Skipped THEN sorted[n - 1]
        ELSE Inserted(sorted[n - 1], tags[n])
  IN  sorted[Len(tags)]

\* Faulty: the length counts items where it should count bytes.
PackToBufferItems(attrs, tag) ==
  [tag |-> tag, length |-> Len(Value(attrs, tag)), value |-> Value(attrs, tag)]

PackToBuffer(attrs, tag) ==
  [tag |-> tag, length |-> Bytes[TypeOfTag(tag)] * Len(Value(attrs, tag)),
   value |-> Value(attrs, tag)]

\* Faulty: the array of AUTH_SIGNATURE is forgotten, its entry is always empty.
PackUnsigned(attrs) ==
  LET body == Sorted(attrs.exist) IN
  Append([i \in DOMAIN body |-> PackToBuffer(attrs, body[i])],
         PackToBuffer(NewAttributes, AUTH_SIGNATURE))

Pack(attrs) ==
  LET body == Sorted(attrs.exist) IN
  Append([i \in DOMAIN body |-> PackToBuffer(attrs, body[i])],
         PackToBuffer(attrs, AUTH_SIGNATURE))

-----------------------------------------------------------------------------
(* Unpack: into a container that may hold something already.  A length that  *)
(* does not fit ends it, and what was read before stays.                     *)

CheckLengthPass(entry) ==
  TypeOfTag(entry.tag) \in Scalars => entry.length = Bytes[TypeOfTag(entry.tag)]

\* An empty array of bytes is skipped, an empty array of numbers is set.
UnpackEntry(attrs, entry) ==
  LET type == TypeOfTag(entry.tag) IN
  IF type = "uint8Array" /\ entry.length = 0 THEN attrs
  ELSE SetValue(attrs, type, entry.tag, entry.value)

Unread(attrs) == [fits |-> TRUE, attrs |-> attrs]

ReadEntry(read, entry) ==
  IF read.fits /\ CheckLengthPass(entry)
  THEN [fits |-> TRUE, attrs |-> UnpackEntry(read.attrs, entry)]
  ELSE [fits |-> FALSE, attrs |-> read.attrs]

Unpack(attrs, buffer) ==
  LET read[n \in 0..Len(buffer)] ==
        IF n = 0 THEN Unread(attrs) ELSE ReadEntry(read[n - 1], buffer[n])
  IN  read[Len(buffer)].attrs

\* What a container has after a trip to another process.
Sent(attrs) == Unpack(NewAttributes, Pack(attrs))

-----------------------------------------------------------------------------
(* What the container promises, without the buffer: the last value set of    *)
(* each tag, with its type, but for empty arrays of bytes.                   *)

Accepted(settings, tag) ==
  {i \in DOMAIN settings : settings[i].tag = tag /\ tag \in TagsOf[settings[i].type]}

LastValue(settings, tag) ==
  settings[CHOOSE i \in Accepted(settings, tag) :
             \A j \in Accepted(settings, tag) : j <= i].value

ByTag(settings) ==
  [tag \in {settings[i].tag : i \in
              {i \in DOMAIN settings : settings[i].tag \in TagsOf[settings[i].type]}} |->
     LastValue(settings, tag)]

Shown(values) ==
  [tag \in {t \in DOMAIN values : ~(t \in TagsOf["uint8Array"] /\ values[t] = <<>>)} |->
     values[tag]]
=============================================================================
