----------------------- MODULE ExecutorMessageProofs -----------------------
(***************************************************************************)
(* Proofs about ExecutorMessage, for every message, every set of reports    *)
(* and every place where memory may run out.                                *)
(***************************************************************************)
EXTENDS ExecutorMessage, SequenceTheorems, WellFoundedInduction, TLAPS

ReportType ==
  [key : Keys, level : Uint32, template : Uint64, subType : Uint64,
   result : Uint32, id : Uint64, sign : Buffers]

\* Entry, cell by cell.
LEMMA EntryCells ==
  ASSUME NEW tag \in Nat, NEW value \in Seq(Nat)
  PROVE  /\ Entry(tag, value) \in Seq(Nat)
         /\ Len(Entry(tag, value)) = 2 + Len(value)
         /\ Entry(tag, value)[1] = tag
         /\ Entry(tag, value)[2] = Len(value)
         /\ \A i \in 3..2 + Len(value) : Entry(tag, value)[i] = value[i - 2]
  <1> DEFINE head == <<tag, Len(value)>>
  <1>1. /\ head \in Seq(Nat) /\ Len(head) = 2
        /\ head[1] = tag /\ head[2] = Len(value)
    OBVIOUS
  <1> HIDE DEF head
  <1>2. /\ head \o value \in Seq(Nat)
        /\ Len(head \o value) = Len(head) + Len(value)
        /\ \A i \in 1..(Len(head) + Len(value)) :
             (head \o value)[i] = IF i <= Len(head) THEN head[i] ELSE value[i - Len(head)]
    BY <1>1, ConcatProperties
  <1>3. Entry(tag, value) = head \o value
    BY DEF Entry, head
  <1>4. QED
    BY <1>1, <1>2, <1>3

\* The numbers of a report are sequences of one and of two cells.
LEMMA OneCell ==
  ASSUME NEW v \in Uint32
  PROVE  v \in Seq(Nat) /\ Len(v) = 1 /\ v = <<v[1]>> /\ v[1] \in Nat
  <1>1. PICK a \in Cells : v = <<a>>
    BY DEF Uint32
  <1>2. a \in Nat
    BY CellsAssumption
  <1>3. QED
    BY <1>1, <1>2

LEMMA TwoCells ==
  ASSUME NEW v \in Uint64
  PROVE  /\ v \in Seq(Nat) /\ Len(v) = 2 /\ v = <<v[1], v[2]>>
         /\ v[1] \in Nat /\ v[2] \in Nat
  <1>1. PICK a \in Cells, b \in Cells : v = <<a, b>>
    BY DEF Uint64
  <1>2. a \in Nat /\ b \in Nat
    BY CellsAssumption
  <1>3. QED
    BY <1>1, <1>2

LEMMA EntryOne ==
  ASSUME NEW tag \in Nat, NEW v \in Uint32
  PROVE  LET e == Entry(tag, v) IN
         e \in Seq(Nat) /\ Len(e) = 3 /\ e[1] = tag /\ e[2] = 1 /\ e[3] = v[1]
  <1>1. v \in Seq(Nat) /\ Len(v) = 1
    BY OneCell
  <1> DEFINE e == Entry(tag, v)
  <1>2. /\ e \in Seq(Nat) /\ Len(e) = 2 + Len(v)
        /\ e[1] = tag /\ e[2] = Len(v)
        /\ \A i \in 3..2 + Len(v) : e[i] = v[i - 2]
    BY <1>1, EntryCells
  <1> HIDE DEF e
  <1>3. e[3] = v[3 - 2]
    BY <1>1, <1>2
  <1>4. e \in Seq(Nat) /\ Len(e) = 3 /\ e[1] = tag /\ e[2] = 1 /\ e[3] = v[1]
    BY <1>1, <1>2, <1>3
  <1>5. QED
    BY <1>4 DEF e

LEMMA EntryTwo ==
  ASSUME NEW tag \in Nat, NEW v \in Uint64
  PROVE  LET e == Entry(tag, v) IN
         /\ e \in Seq(Nat) /\ Len(e) = 4
         /\ e[1] = tag /\ e[2] = 2 /\ e[3] = v[1] /\ e[4] = v[2]
  <1>1. v \in Seq(Nat) /\ Len(v) = 2
    BY TwoCells
  <1> DEFINE e == Entry(tag, v)
  <1>2. /\ e \in Seq(Nat) /\ Len(e) = 2 + Len(v)
        /\ e[1] = tag /\ e[2] = Len(v)
        /\ \A i \in 3..2 + Len(v) : e[i] = v[i - 2]
    BY <1>1, EntryCells
  <1> HIDE DEF e
  <1>3. e[3] = v[3 - 2] /\ e[4] = v[4 - 2]
    BY <1>1, <1>2
  <1>4. /\ e \in Seq(Nat) /\ Len(e) = 4
        /\ e[1] = tag /\ e[2] = 2 /\ e[3] = v[1] /\ e[4] = v[2]
    BY <1>1, <1>2, <1>3
  <1>5. QED
    BY <1>4 DEF e

LEMMA Joined ==
  ASSUME NEW s \in Seq(Nat), NEW t \in Seq(Nat)
  PROVE  /\ s \o t \in Seq(Nat)
         /\ Len(s \o t) = Len(s) + Len(t)
         /\ \A i \in 1..Len(s) + Len(t) :
              (s \o t)[i] = IF i <= Len(s) THEN s[i] ELSE t[i - Len(s)]
  BY ConcatProperties

\* The eighteen cells that the trusted side of an executor signs.
Layout(r, d) ==
  /\ Len(d) = 18
  /\ d[1] = AUTH_CAPABILITY_LEVEL /\ d[2] = 1 /\ d[3] = r.level[1]
  /\ d[4] = AUTH_TEMPLATE_ID /\ d[5] = 2 /\ d[6] = r.template[1] /\ d[7] = r.template[2]
  /\ d[8] = AUTH_SUBTYPE /\ d[9] = 2 /\ d[10] = r.subType[1] /\ d[11] = r.subType[2]
  /\ d[12] = AUTH_RESULT_CODE /\ d[13] = 1 /\ d[14] = r.result[1]
  /\ d[15] = AUTH_SCHEDULE_ID /\ d[16] = 2 /\ d[17] = r.id[1] /\ d[18] = r.id[2]

LEMMA DataLayout ==
  ASSUME NEW r \in ReportType
  PROVE  DataOf(r) \in Seq(Nat) /\ Layout(r, DataOf(r))
  <1>1. /\ r.level \in Uint32 /\ r.result \in Uint32
        /\ r.template \in Uint64 /\ r.subType \in Uint64 /\ r.id \in Uint64
    BY DEF ReportType
  <1>2. /\ AUTH_CAPABILITY_LEVEL \in Nat /\ AUTH_TEMPLATE_ID \in Nat /\ AUTH_SUBTYPE \in Nat
        /\ AUTH_RESULT_CODE \in Nat /\ AUTH_SCHEDULE_ID \in Nat
    BY DEF AUTH_CAPABILITY_LEVEL, AUTH_TEMPLATE_ID, AUTH_SUBTYPE, AUTH_RESULT_CODE,
           AUTH_SCHEDULE_ID
  <1> DEFINE a == Entry(AUTH_CAPABILITY_LEVEL, r.level)
             b == Entry(AUTH_TEMPLATE_ID, r.template)
             c == Entry(AUTH_SUBTYPE, r.subType)
             e == Entry(AUTH_RESULT_CODE, r.result)
             f == Entry(AUTH_SCHEDULE_ID, r.id)
  <1>a. /\ a \in Seq(Nat) /\ Len(a) = 3
        /\ a[1] = AUTH_CAPABILITY_LEVEL /\ a[2] = 1 /\ a[3] = r.level[1]
    BY <1>1, <1>2, EntryOne
  <1>b. /\ b \in Seq(Nat) /\ Len(b) = 4
        /\ b[1] = AUTH_TEMPLATE_ID /\ b[2] = 2 /\ b[3] = r.template[1] /\ b[4] = r.template[2]
    BY <1>1, <1>2, EntryTwo
  <1>c. /\ c \in Seq(Nat) /\ Len(c) = 4
        /\ c[1] = AUTH_SUBTYPE /\ c[2] = 2 /\ c[3] = r.subType[1] /\ c[4] = r.subType[2]
    BY <1>1, <1>2, EntryTwo
  <1>e. /\ e \in Seq(Nat) /\ Len(e) = 3
        /\ e[1] = AUTH_RESULT_CODE /\ e[2] = 1 /\ e[3] = r.result[1]
    BY <1>1, <1>2, EntryOne
  <1>f. /\ f \in Seq(Nat) /\ Len(f) = 4
        /\ f[1] = AUTH_SCHEDULE_ID /\ f[2] = 2 /\ f[3] = r.id[1] /\ f[4] = r.id[2]
    BY <1>1, <1>2, EntryTwo
  <1> HIDE DEF a, b, c, e, f
  <1> DEFINE ab == a \o b
             abc == ab \o c
             abce == abc \o e
             d == abce \o f
  <1>3. /\ ab \in Seq(Nat) /\ Len(ab) = 7
        /\ \A i \in 1..7 : ab[i] = IF i <= 3 THEN a[i] ELSE b[i - 3]
    <2>1. /\ ab \in Seq(Nat) /\ Len(ab) = Len(a) + Len(b)
          /\ \A i \in 1..Len(a) + Len(b) :
               ab[i] = IF i <= Len(a) THEN a[i] ELSE b[i - Len(a)]
      BY <1>a, <1>b, Joined
    <2> HIDE DEF ab
    <2>2. QED
      BY <2>1, <1>a, <1>b
  <1> HIDE DEF ab
  <1>4. /\ abc \in Seq(Nat) /\ Len(abc) = 11
        /\ \A i \in 1..11 : abc[i] = IF i <= 7 THEN ab[i] ELSE c[i - 7]
    <2>1. /\ abc \in Seq(Nat) /\ Len(abc) = Len(ab) + Len(c)
          /\ \A i \in 1..Len(ab) + Len(c) :
               abc[i] = IF i <= Len(ab) THEN ab[i] ELSE c[i - Len(ab)]
      BY <1>3, <1>c, Joined
    <2> HIDE DEF abc
    <2>2. QED
      BY <2>1, <1>3, <1>c
  <1> HIDE DEF abc
  <1>5. /\ abce \in Seq(Nat) /\ Len(abce) = 14
        /\ \A i \in 1..14 : abce[i] = IF i <= 11 THEN abc[i] ELSE e[i - 11]
    <2>1. /\ abce \in Seq(Nat) /\ Len(abce) = Len(abc) + Len(e)
          /\ \A i \in 1..Len(abc) + Len(e) :
               abce[i] = IF i <= Len(abc) THEN abc[i] ELSE e[i - Len(abc)]
      BY <1>4, <1>e, Joined
    <2> HIDE DEF abce
    <2>2. QED
      BY <2>1, <1>4, <1>e
  <1> HIDE DEF abce
  <1>6. /\ d \in Seq(Nat) /\ Len(d) = 18
        /\ \A i \in 1..18 : d[i] = IF i <= 14 THEN abce[i] ELSE f[i - 14]
    <2>1. /\ d \in Seq(Nat) /\ Len(d) = Len(abce) + Len(f)
          /\ \A i \in 1..Len(abce) + Len(f) :
               d[i] = IF i <= Len(abce) THEN abce[i] ELSE f[i - Len(abce)]
      BY <1>5, <1>f, Joined
    <2> HIDE DEF d
    <2>2. QED
      BY <2>1, <1>5, <1>f
  <1> HIDE DEF d
  <1>7. DataOf(r) = d
    BY DEF DataOf, d, abce, abc, ab, a, b, c, e, f
  <1>8. /\ \A i \in 1..14 : d[i] = abce[i]
        /\ \A i \in 1..11 : abce[i] = abc[i]
        /\ \A i \in 1..7 : abc[i] = ab[i]
        /\ \A i \in 1..3 : ab[i] = a[i]
    BY <1>3, <1>4, <1>5, <1>6
  <1>9. d[1] = a[1] /\ d[2] = a[2] /\ d[3] = a[3]
    BY <1>8
  <1>bb. d[4] = b[1] /\ d[5] = b[2] /\ d[6] = b[3] /\ d[7] = b[4]
    <2>1. ab[4] = b[4 - 3] /\ ab[5] = b[5 - 3] /\ ab[6] = b[6 - 3] /\ ab[7] = b[7 - 3]
      BY <1>3
    <2>2. QED
      BY <2>1, <1>8
  <1>cc. d[8] = c[1] /\ d[9] = c[2] /\ d[10] = c[3] /\ d[11] = c[4]
    <2>1. abc[8] = c[8 - 7] /\ abc[9] = c[9 - 7] /\ abc[10] = c[10 - 7] /\ abc[11] = c[11 - 7]
      BY <1>4
    <2>2. QED
      BY <2>1, <1>8
  <1>ee. d[12] = e[1] /\ d[13] = e[2] /\ d[14] = e[3]
    <2>1. abce[12] = e[12 - 11] /\ abce[13] = e[13 - 11] /\ abce[14] = e[14 - 11]
      BY <1>5
    <2>2. QED
      BY <2>1, <1>8
  <1>ff. d[15] = f[1] /\ d[16] = f[2] /\ d[17] = f[3] /\ d[18] = f[4]
    <2>1. d[15] = f[15 - 14] /\ d[16] = f[16 - 14] /\ d[17] = f[17 - 14] /\ d[18] = f[18 - 14]
      BY <1>6
    <2>2. QED
      BY <2>1, <1>8
  <1>10. Layout(r, d)
    BY <1>6, <1>9, <1>bb, <1>cc, <1>ee, <1>ff, <1>a, <1>b, <1>c, <1>e, <1>f DEF Layout
  <1>11. QED
    BY <1>6, <1>7, <1>10

List == [buf : Buffers, offset : Nat, nodes : Seq(Nodes)]

\* What a node says is in the buffer, right behind its offset.
LEMMA CellsAreNumbers == \A s \in Buffers : s \in Seq(Nat) /\ Len(s) \in Nat
  BY CellsAssumption, SeqMonotonic, LenProperties DEF Buffers

LEMMA NodeCells ==
  ASSUME NEW list \in List, TilesBuffer(list), NEW i \in 1..Len(list.nodes)
  PROVE  LET node == list.nodes[i]
             d == list.buf
         IN
         /\ node \in Nodes
         /\ node.from \in Nat /\ node.tag \in Nat /\ node.value \in Seq(Nat)
         /\ NodeEnd(node) = node.from + 2 + Len(node.value)
         /\ NodeEnd(node) <= Len(d)
         /\ node.tag = d[node.from + 1]
         /\ Len(node.value) = d[node.from + 2]
         /\ \A j \in 1..Len(node.value) : node.value[j] = d[node.from + 2 + j]
  <1> DEFINE node == list.nodes[i]
             d == list.buf
             v == node.value
             from == node.from
             end == NodeEnd(node)
             entry == Entry(node.tag, v)
             sub == SubSeq(d, from + 1, end)
  <1>0. /\ list.nodes \in Seq(Nodes) /\ d \in Buffers /\ list.offset \in Nat
        /\ i \in DOMAIN list.nodes
    BY DEF List
  <1>1. node \in Nodes
    BY <1>0
  <1>2. from \in Nat /\ node.tag \in Cells /\ v \in Buffers
    BY <1>1 DEF Nodes
  <1>3. /\ v \in Seq(Nat) /\ Len(v) \in Nat /\ d \in Seq(Nat) /\ Len(d) \in Nat
        /\ node.tag \in Nat
    BY <1>0, <1>2, CellsAreNumbers, CellsAssumption
  <1>4. end = from + 2 + Len(v)
    BY DEF NodeEnd, Header
  <1>5. entry = sub
    BY <1>0 DEF TilesBuffer
  <1>b. end <= list.offset /\ list.offset <= Len(d)
    BY <1>0 DEF TilesBuffer
  <1>6. /\ entry[1] = node.tag /\ entry[2] = Len(v)
        /\ \A j \in 3..2 + Len(v) : entry[j] = v[j - 2]
    BY <1>3, EntryCells
  <1> HIDE DEF node, d, v, from, end, entry
  <1>7. end \in Nat /\ end <= Len(d)
    BY <1>0, <1>2, <1>3, <1>4, <1>b
  <1>8. \A k \in from + 1..end : d[k] \in Nat
    <2>1. \A k \in 1..Len(d) : d[k] \in Nat
      BY <1>3, ElementOfSeq
    <2>2. QED
      BY <2>1, <1>2, <1>3, <1>7
  <1>9. \A k \in 1..end - (from + 1) + 1 : sub[k] = d[(from + 1) + k - 1]
    BY <1>2, <1>7, <1>8, SubSeqProperties
  <1> HIDE DEF sub
  <1>10. \A k \in 1..2 + Len(v) : entry[k] = d[from + k]
    <2> TAKE k \in 1..2 + Len(v)
    <2>1. k \in 1..end - (from + 1) + 1 /\ (from + 1) + k - 1 = from + k
      BY <1>2, <1>3, <1>4
    <2>2. QED
      BY <2>1, <1>5, <1>9
  <1>11. node.tag = d[from + 1] /\ Len(v) = d[from + 2]
    <2>1. 1 \in 1..2 + Len(v) /\ 2 \in 1..2 + Len(v)
      BY <1>3
    <2>2. entry[1] = d[from + 1] /\ entry[2] = d[from + 2]
      BY <2>1, <1>10
    <2>3. QED
      BY <2>2, <1>6
  <1>12. ASSUME NEW j \in 1..Len(v)
         PROVE  v[j] = d[from + 2 + j]
    <2>1. 2 + j \in 3..2 + Len(v) /\ (2 + j) - 2 = j /\ from + (2 + j) = from + 2 + j
      BY <1>2, <1>3
    <2>2. entry[2 + j] = v[(2 + j) - 2] /\ entry[2 + j] = d[from + (2 + j)]
      BY <2>1, <1>3, <1>6, <1>10
    <2>3. QED
      BY <2>1, <2>2
  <1>13. QED
    BY <1>1, <1>2, <1>3, <1>4, <1>7, <1>11, <1>12 DEF node, d, v, from, end

LEMMA FirstIs ==
  ASSUME NEW nodes \in Seq(Nodes), NEW tag, NEW k \in 1..Len(nodes),
         nodes[k].tag = tag, \A j \in 1..k - 1 : nodes[j].tag # tag
  PROVE  FirstWith(nodes, tag) = k
  <1>1. k \in Tagged(nodes, tag) /\ \A j \in Tagged(nodes, tag) : k <= j
    BY DEF Tagged
  <1>2. \A i \in Tagged(nodes, tag) : (\A j \in Tagged(nodes, tag) : i <= j) => i = k
    BY <1>1 DEF Tagged
  <1>3. QED
    BY <1>1, <1>2 DEF FirstWith

\* Node k of a list that begins at offset b and is n cells long, then the next.
LEMMA NextNode ==
  ASSUME NEW list \in List, TilesBuffer(list), list.offset = Len(list.buf),
         NEW k \in Nat \ {0}, NEW b \in Nat, Begins(list.nodes, k) = b,
         k = 1 \/ k - 1 \in 1..Len(list.nodes),
         b < Len(list.buf), list.buf[b + 2] \in Nat
  PROVE  /\ k \in 1..Len(list.nodes)
         /\ list.nodes[k].tag = list.buf[b + 1]
         /\ list.nodes[k].value \in Seq(Nat)
         /\ Len(list.nodes[k].value) = list.buf[b + 2]
         /\ \A j \in 1..list.buf[b + 2] : list.nodes[k].value[j] = list.buf[b + 2 + j]
         /\ Begins(list.nodes, k + 1) = b + 2 + list.buf[b + 2]
  <1> DEFINE nodes == list.nodes
  <1>1. nodes \in Seq(Nodes) /\ Len(nodes) \in Nat /\ DOMAIN nodes = 1..Len(nodes)
    BY LenProperties DEF List
  <1>2. list.offset = Begins(nodes, Len(nodes) + 1)
    BY DEF TilesBuffer
  <1>3. k \in 1..Len(nodes)
    <2>1. k # Len(nodes) + 1
      BY <1>2
    <2>2. QED
      BY <1>1, <2>1
  <1>4. nodes[k].from = b
    BY <1>1, <1>3 DEF TilesBuffer
  <1>5. /\ nodes[k].value \in Seq(Nat)
        /\ NodeEnd(nodes[k]) = b + 2 + Len(nodes[k].value)
        /\ nodes[k].tag = list.buf[b + 1]
        /\ Len(nodes[k].value) = list.buf[b + 2]
        /\ \A j \in 1..Len(nodes[k].value) : nodes[k].value[j] = list.buf[b + 2 + j]
    <2> DEFINE node == nodes[k]
    <2>1. /\ node.value \in Seq(Nat)
          /\ NodeEnd(node) = node.from + 2 + Len(node.value)
          /\ node.tag = list.buf[node.from + 1]
          /\ Len(node.value) = list.buf[node.from + 2]
          /\ \A j \in 1..Len(node.value) : node.value[j] = list.buf[node.from + 2 + j]
      BY <1>3, NodeCells
    <2>2. QED
      BY <1>4, <2>1
  <1>6. Begins(nodes, k + 1) = NodeEnd(nodes[k])
    BY DEF Begins
  <1>7. QED
    BY <1>3, <1>5, <1>6

\* Node k, if there is one, begins at offset b.
At(list, k, b) ==
  Begins(list.nodes, k) = b /\ (k = 1 \/ k - 1 \in 1..Len(list.nodes))

LEMMA NextOne ==
  ASSUME NEW list \in List, TilesBuffer(list), list.offset = Len(list.buf),
         NEW k \in Nat \ {0}, NEW b \in Nat, At(list, k, b), b < Len(list.buf),
         NEW x \in Nat, list.buf[b + 2] = 1, list.buf[b + 3] = x
  PROVE  /\ k \in 1..Len(list.nodes)
         /\ list.nodes[k].tag = list.buf[b + 1]
         /\ list.nodes[k].value = <<x>>
         /\ At(list, k + 1, b + 2 + 1)
  <1> DEFINE v == list.nodes[k].value
  <1>1. /\ k \in 1..Len(list.nodes)
        /\ list.nodes[k].tag = list.buf[b + 1]
        /\ v \in Seq(Nat) /\ Len(v) = 1
        /\ \A j \in 1..1 : v[j] = list.buf[b + 2 + j]
        /\ Begins(list.nodes, k + 1) = b + 2 + 1
    <2>1. list.buf[b + 2] \in Nat
      OBVIOUS
    <2>2. /\ k \in 1..Len(list.nodes)
          /\ list.nodes[k].tag = list.buf[b + 1]
          /\ v \in Seq(Nat) /\ Len(v) = list.buf[b + 2]
          /\ \A j \in 1..list.buf[b + 2] : v[j] = list.buf[b + 2 + j]
          /\ Begins(list.nodes, k + 1) = b + 2 + list.buf[b + 2]
      BY <2>1, NextNode DEF At
    <2> HIDE DEF v
    <2>3. QED
      BY <2>2
  <1> HIDE DEF v
  <1>2. v[1] = x
    <2>1. v[1] = list.buf[b + 2 + 1]
      BY <1>1
    <2>2. QED
      BY <2>1
  <1>3. v = <<x>>
    BY <1>1, <1>2
  <1>4. At(list, k + 1, b + 2 + 1)
    BY <1>1 DEF At
  <1>5. QED
    BY <1>1, <1>3, <1>4 DEF v

LEMMA NextTwo ==
  ASSUME NEW list \in List, TilesBuffer(list), list.offset = Len(list.buf),
         NEW k \in Nat \ {0}, NEW b \in Nat, At(list, k, b), b < Len(list.buf),
         list.buf[b + 2] = 2, list.buf[b + 3] \in Nat, list.buf[b + 4] \in Nat
  PROVE  /\ k \in 1..Len(list.nodes)
         /\ list.nodes[k].tag = list.buf[b + 1]
         /\ list.nodes[k].value = <<list.buf[b + 3], list.buf[b + 4]>>
         /\ At(list, k + 1, b + 2 + 2)
  <1> DEFINE v == list.nodes[k].value
  <1>1. /\ k \in 1..Len(list.nodes)
        /\ list.nodes[k].tag = list.buf[b + 1]
        /\ v \in Seq(Nat) /\ Len(v) = 2
        /\ \A j \in 1..2 : v[j] = list.buf[b + 2 + j]
        /\ Begins(list.nodes, k + 1) = b + 2 + 2
    <2>1. list.buf[b + 2] \in Nat
      OBVIOUS
    <2>2. /\ k \in 1..Len(list.nodes)
          /\ list.nodes[k].tag = list.buf[b + 1]
          /\ v \in Seq(Nat) /\ Len(v) = list.buf[b + 2]
          /\ \A j \in 1..list.buf[b + 2] : v[j] = list.buf[b + 2 + j]
          /\ Begins(list.nodes, k + 1) = b + 2 + list.buf[b + 2]
      BY <2>1, NextNode DEF At
    <2> HIDE DEF v
    <2>3. QED
      BY <2>2
  <1> HIDE DEF v
  <1>2. v[1] = list.buf[b + 3] /\ v[2] = list.buf[b + 4]
    <2>1. v[1] = list.buf[b + 2 + 1] /\ v[2] = list.buf[b + 2 + 2]
      BY <1>1
    <2>2. QED
      BY <2>1
  <1>3. v = <<list.buf[b + 3], list.buf[b + 4]>>
    BY <1>1, <1>2
  <1>4. At(list, k + 1, b + 2 + 2)
    BY <1>1 DEF At
  <1>5. QED
    BY <1>1, <1>3, <1>4 DEF v

Reported ==
  {AUTH_CAPABILITY_LEVEL, AUTH_TEMPLATE_ID, AUTH_SUBTYPE, AUTH_RESULT_CODE, AUTH_SCHEDULE_ID}

\* A list read from cells laid out like that, tag by tag.
LEMMA LaidOut ==
  ASSUME NEW r \in ReportType, NEW list \in List, TilesBuffer(list),
         Layout(r, list.buf), list.offset = Len(list.buf)
  PROVE  /\ Para(list.nodes, AUTH_CAPABILITY_LEVEL) = r.level
         /\ Para(list.nodes, AUTH_TEMPLATE_ID) = r.template
         /\ Para(list.nodes, AUTH_SUBTYPE) = r.subType
         /\ Para(list.nodes, AUTH_RESULT_CODE) = r.result
         /\ Para(list.nodes, AUTH_SCHEDULE_ID) = r.id
         /\ \A tag \in Reported : Tagged(list.nodes, tag) # {}
  <1> DEFINE d == list.buf
             n == list.nodes
  <1>1. /\ Len(d) = 18
        /\ d[1] = AUTH_CAPABILITY_LEVEL /\ d[2] = 1 /\ d[3] = r.level[1]
        /\ d[4] = AUTH_TEMPLATE_ID /\ d[5] = 2 /\ d[6] = r.template[1] /\ d[7] = r.template[2]
        /\ d[8] = AUTH_SUBTYPE /\ d[9] = 2 /\ d[10] = r.subType[1] /\ d[11] = r.subType[2]
        /\ d[12] = AUTH_RESULT_CODE /\ d[13] = 1 /\ d[14] = r.result[1]
        /\ d[15] = AUTH_SCHEDULE_ID /\ d[16] = 2 /\ d[17] = r.id[1] /\ d[18] = r.id[2]
    BY DEF Layout
  <1>2. n \in Seq(Nodes)
    BY DEF List
  <1>r. /\ r.level \in Uint32 /\ r.result \in Uint32
        /\ r.template \in Uint64 /\ r.subType \in Uint64 /\ r.id \in Uint64
    BY DEF ReportType
  <1>3. /\ r.level[1] \in Nat /\ r.result[1] \in Nat
        /\ r.template[1] \in Nat /\ r.template[2] \in Nat
        /\ r.subType[1] \in Nat /\ r.subType[2] \in Nat
        /\ r.id[1] \in Nat /\ r.id[2] \in Nat
    BY <1>r, OneCell, TwoCells
  <1>4. /\ 1 \in 1..Len(n) /\ n[1].tag = AUTH_CAPABILITY_LEVEL
        /\ n[1].value = <<r.level[1]>>
        /\ At(list, 2, 3)
    <2> DEFINE k == 1
               b == 0
    <2>1. /\ d[b + 1] = AUTH_CAPABILITY_LEVEL /\ d[b + 2] = 1 /\ d[b + 3] = r.level[1]
          /\ b < Len(d) /\ b \in Nat /\ k \in Nat \ {0}
      BY <1>1
    <2>2. At(list, k, b)
      BY DEF At, Begins
    <2> HIDE DEF k, b
    <2>3. /\ k \in 1..Len(n) /\ n[k].tag = d[b + 1]
          /\ n[k].value = <<r.level[1]>>
          /\ At(list, k + 1, b + 2 + 1)
      BY <1>3, <2>1, <2>2, NextOne
    <2>4. QED
      BY <2>1, <2>3 DEF k, b
  <1>5. /\ 2 \in 1..Len(n) /\ n[2].tag = AUTH_TEMPLATE_ID
        /\ n[2].value = <<r.template[1], r.template[2]>>
        /\ At(list, 3, 7)
    <2> DEFINE k == 2
               b == 3
    <2>1. /\ d[b + 1] = AUTH_TEMPLATE_ID /\ d[b + 2] = 2 /\ d[b + 3] = r.template[1]
          /\ d[b + 4] = r.template[2]
          /\ b < Len(d) /\ b \in Nat /\ k \in Nat \ {0}
      BY <1>1
    <2>5. /\ d[b + 2] = 2 /\ d[b + 3] \in Nat /\ d[b + 4] \in Nat
          /\ b < Len(d) /\ b \in Nat /\ k \in Nat \ {0}
      BY <1>1, <1>3
    <2>2. At(list, k, b)
      BY <1>4
    <2> HIDE DEF k, b
    <2>3. /\ k \in 1..Len(n) /\ n[k].tag = d[b + 1]
          /\ n[k].value = <<d[b + 3], d[b + 4]>>
          /\ At(list, k + 1, b + 2 + 2)
      BY <2>5, <2>2, NextTwo
    <2>4. QED
      BY <2>1, <2>3 DEF k, b
  <1>6. /\ 3 \in 1..Len(n) /\ n[3].tag = AUTH_SUBTYPE
        /\ n[3].value = <<r.subType[1], r.subType[2]>>
        /\ At(list, 4, 11)
    <2> DEFINE k == 3
               b == 7
    <2>1. /\ d[b + 1] = AUTH_SUBTYPE /\ d[b + 2] = 2 /\ d[b + 3] = r.subType[1]
          /\ d[b + 4] = r.subType[2]
          /\ b < Len(d) /\ b \in Nat /\ k \in Nat \ {0}
      BY <1>1
    <2>5. /\ d[b + 2] = 2 /\ d[b + 3] \in Nat /\ d[b + 4] \in Nat
          /\ b < Len(d) /\ b \in Nat /\ k \in Nat \ {0}
      BY <1>1, <1>3
    <2>2. At(list, k, b)
      BY <1>5
    <2> HIDE DEF k, b
    <2>3. /\ k \in 1..Len(n) /\ n[k].tag = d[b + 1]
          /\ n[k].value = <<d[b + 3], d[b + 4]>>
          /\ At(list, k + 1, b + 2 + 2)
      BY <2>5, <2>2, NextTwo
    <2>4. QED
      BY <2>1, <2>3 DEF k, b
  <1>7. /\ 4 \in 1..Len(n) /\ n[4].tag = AUTH_RESULT_CODE
        /\ n[4].value = <<r.result[1]>>
        /\ At(list, 5, 14)
    <2> DEFINE k == 4
               b == 11
    <2>1. /\ d[b + 1] = AUTH_RESULT_CODE /\ d[b + 2] = 1 /\ d[b + 3] = r.result[1]
          /\ b < Len(d) /\ b \in Nat /\ k \in Nat \ {0}
      BY <1>1
    <2>2. At(list, k, b)
      BY <1>6
    <2> HIDE DEF k, b
    <2>3. /\ k \in 1..Len(n) /\ n[k].tag = d[b + 1]
          /\ n[k].value = <<r.result[1]>>
          /\ At(list, k + 1, b + 2 + 1)
      BY <1>3, <2>1, <2>2, NextOne
    <2>4. QED
      BY <2>1, <2>3 DEF k, b
  <1>8. /\ 5 \in 1..Len(n) /\ n[5].tag = AUTH_SCHEDULE_ID
        /\ n[5].value = <<r.id[1], r.id[2]>>
        /\ At(list, 6, 18)
    <2> DEFINE k == 5
               b == 14
    <2>1. /\ d[b + 1] = AUTH_SCHEDULE_ID /\ d[b + 2] = 2 /\ d[b + 3] = r.id[1]
          /\ d[b + 4] = r.id[2]
          /\ b < Len(d) /\ b \in Nat /\ k \in Nat \ {0}
      BY <1>1
    <2>5. /\ d[b + 2] = 2 /\ d[b + 3] \in Nat /\ d[b + 4] \in Nat
          /\ b < Len(d) /\ b \in Nat /\ k \in Nat \ {0}
      BY <1>1, <1>3
    <2>2. At(list, k, b)
      BY <1>7
    <2> HIDE DEF k, b
    <2>3. /\ k \in 1..Len(n) /\ n[k].tag = d[b + 1]
          /\ n[k].value = <<d[b + 3], d[b + 4]>>
          /\ At(list, k + 1, b + 2 + 2)
      BY <2>5, <2>2, NextTwo
    <2>4. QED
      BY <2>1, <2>3 DEF k, b
  <1>9. /\ AUTH_TEMPLATE_ID # AUTH_CAPABILITY_LEVEL
        /\ AUTH_SUBTYPE \notin {AUTH_CAPABILITY_LEVEL, AUTH_TEMPLATE_ID}
        /\ AUTH_RESULT_CODE \notin {AUTH_CAPABILITY_LEVEL, AUTH_TEMPLATE_ID, AUTH_SUBTYPE}
        /\ AUTH_SCHEDULE_ID \notin {AUTH_CAPABILITY_LEVEL, AUTH_TEMPLATE_ID, AUTH_SUBTYPE,
                                    AUTH_RESULT_CODE}
    BY DEF AUTH_CAPABILITY_LEVEL, AUTH_TEMPLATE_ID, AUTH_SUBTYPE, AUTH_RESULT_CODE,
           AUTH_SCHEDULE_ID
  <1>10. Para(n, AUTH_CAPABILITY_LEVEL) = r.level
    <2>1. \A j \in 1..1 - 1 : n[j].tag # AUTH_CAPABILITY_LEVEL
      BY <1>4, <1>9
    <2>2. FirstWith(n, AUTH_CAPABILITY_LEVEL) = 1
      BY <2>1, <1>2, <1>4, FirstIs
    <2>3. QED
      BY <2>2, <1>r, <1>4, OneCell DEF Para
  <1>11. Para(n, AUTH_TEMPLATE_ID) = r.template
    <2>1. \A j \in 1..2 - 1 : n[j].tag # AUTH_TEMPLATE_ID
      BY <1>4, <1>9
    <2>a. 2 \in 1..Len(n) /\ n[2].tag = AUTH_TEMPLATE_ID
      BY <1>5
    <2>2. FirstWith(n, AUTH_TEMPLATE_ID) = 2
      BY <2>1, <2>a, <1>2, FirstIs
    <2>3. QED
      BY <2>2, <1>r, <1>5, TwoCells DEF Para
  <1>12. Para(n, AUTH_SUBTYPE) = r.subType
    <2>1. \A j \in 1..3 - 1 : n[j].tag # AUTH_SUBTYPE
      BY <1>4, <1>5, <1>9
    <2>a. 3 \in 1..Len(n) /\ n[3].tag = AUTH_SUBTYPE
      BY <1>6
    <2>2. FirstWith(n, AUTH_SUBTYPE) = 3
      BY <2>1, <2>a, <1>2, FirstIs
    <2>3. QED
      BY <2>2, <1>r, <1>6, TwoCells DEF Para
  <1>13. Para(n, AUTH_RESULT_CODE) = r.result
    <2>1. \A j \in 1..4 - 1 : n[j].tag # AUTH_RESULT_CODE
      BY <1>4, <1>5, <1>6, <1>9
    <2>a. 4 \in 1..Len(n) /\ n[4].tag = AUTH_RESULT_CODE
      BY <1>7
    <2>2. FirstWith(n, AUTH_RESULT_CODE) = 4
      BY <2>1, <2>a, <1>2, FirstIs
    <2>3. QED
      BY <2>2, <1>r, <1>7, OneCell DEF Para
  <1>14. Para(n, AUTH_SCHEDULE_ID) = r.id
    <2> DEFINE k == 5
    <2>1. \A j \in 1..k - 1 : n[j].tag # AUTH_SCHEDULE_ID
      BY <1>4, <1>5, <1>6, <1>7, <1>9
    <2>2. k \in 1..Len(n) /\ n[k].tag = AUTH_SCHEDULE_ID
      BY <1>8
    <2> HIDE DEF k
    <2>3. FirstWith(n, AUTH_SCHEDULE_ID) = k
      BY <2>1, <2>2, <1>2, FirstIs
    <2>4. Para(n, AUTH_SCHEDULE_ID) = n[5].value
      BY <2>3 DEF Para, k
    <2>5. QED
      BY <2>4, <1>r, <1>8, TwoCells
  <1>15. \A tag \in Reported : Tagged(n, tag) # {}
    BY <1>2, <1>4, <1>5, <1>6, <1>7, <1>8 DEF Reported, Tagged
  <1>16. QED
    BY <1>10, <1>11, <1>12, <1>13, <1>14, <1>15

\* The list read from the data that an executor signed holds what it reported.
LEMMA Decoded ==
  ASSUME NEW r \in ReportType, NEW list \in List, TilesBuffer(list),
         list.buf = DataOf(r), list.offset = Len(list.buf)
  PROVE  /\ Para(list.nodes, AUTH_CAPABILITY_LEVEL) = r.level
         /\ Para(list.nodes, AUTH_TEMPLATE_ID) = r.template
         /\ Para(list.nodes, AUTH_SUBTYPE) = r.subType
         /\ Para(list.nodes, AUTH_RESULT_CODE) = r.result
         /\ Para(list.nodes, AUTH_SCHEDULE_ID) = r.id
         /\ \A tag \in Reported : Tagged(list.nodes, tag) # {}
  <1>1. Layout(r, list.buf)
    BY DataLayout
  <1>2. QED
    BY <1>1, LaidOut

-----------------------------------------------------------------------------
(* The lists: what a reader finds in one, and what an iteration adds to one. *)

Less == OpToRel(<, Nat)

LEMMA LessWellFounded == IsWellFoundedOn(Less, Nat)
  BY Zenon, NatLessThanWellFounded DEF Less

LEMMA LessPairs == \A x, y \in Nat : x < y => <<x, y>> \in Less
  BY Zenon DEF Less, OpToRel

\* A set of numbers that is not empty has a least one.
LEMMA HasLeast ==
  ASSUME NEW T, T \subseteq Nat, T # {}
  PROVE  \E x \in T : \A y \in T : x <= y
  <1>1. PICK x \in T : \A y \in T : <<y, x>> \notin Less
    BY LessWellFounded, WFMin
  <1>2. ASSUME NEW y \in T
        PROVE  x <= y
    <2>1. ~(y < x)
      BY <1>1, LessPairs
    <2>2. QED
      BY <2>1
  <1>3. QED
    BY <1>2

\* The value of a tag that is in the list is one of its values.
LEMMA ParaType ==
  ASSUME NEW nodes \in Seq(Nodes), NEW tag, Tagged(nodes, tag) # {}
  PROVE  Para(nodes, tag) \in Buffers
  <1>1. Tagged(nodes, tag) \subseteq 1..Len(nodes) /\ Len(nodes) \in Nat
    BY LenProperties DEF Tagged
  <1>2. PICK x \in Tagged(nodes, tag) : \A y \in Tagged(nodes, tag) : x <= y
    BY <1>1, HasLeast
  <1>3. FirstWith(nodes, tag) \in Tagged(nodes, tag)
    BY <1>2 DEF FirstWith
  <1>4. nodes[FirstWith(nodes, tag)] \in Nodes
    BY <1>1, <1>3, ElementOfSeq
  <1>5. QED
    BY <1>4 DEF Para, Nodes

LEMMA IsOne ==
  ASSUME NEW v \in Buffers, Len(v) = 1
  PROVE  v \in Uint32
  <1>1. v[1] \in Cells
    BY ElementOfSeq DEF Buffers
  <1>2. v = <<v[1]>>
    BY DEF Buffers
  <1>3. QED
    BY <1>1, <1>2 DEF Uint32

LEMMA IsTwo ==
  ASSUME NEW v \in Buffers, Len(v) = 2
  PROVE  v \in Uint64
  <1>1. v[1] \in Cells /\ v[2] \in Cells
    BY ElementOfSeq DEF Buffers
  <1>2. v = <<v[1], v[2]>>
    BY DEF Buffers
  <1>3. QED
    BY <1>1, <1>2 DEF Uint64

LEMMA EmptyTiles == \A buf \in Buffers :
  [buf |-> buf, offset |-> 0, nodes |-> <<>>] \in List
  /\ TilesBuffer([buf |-> buf, offset |-> 0, nodes |-> <<>>])
  <1> TAKE buf \in Buffers
  <1>1. Len(buf) \in Nat
    BY LenProperties DEF Buffers
  <1>2. [buf |-> buf, offset |-> 0, nodes |-> <<>>] \in List
    BY EmptySeq DEF List
  <1>3. TilesBuffer([buf |-> buf, offset |-> 0, nodes |-> <<>>])
    BY <1>1 DEF TilesBuffer, Begins
  <1>4. QED
    BY <1>2, <1>3

\* What PutTlvObject copies out of the buffer.
LEMMA CopiedNode ==
  ASSUME NEW buf \in Buffers, NEW offset \in Nat, offset < Len(buf),
         HeaderFits(buf, offset), BodyFits(buf, offset)
  PROVE  LET node == PutTlvObject(buf, offset) IN
         /\ node \in Nodes
         /\ node.from = offset
         /\ offset < NodeEnd(node) /\ NodeEnd(node) <= Len(buf) /\ NodeEnd(node) \in Nat
         /\ NodeEnd(node) = offset + 2 + buf[offset + 2]
         /\ Entry(node.tag, node.value) = SubSeq(buf, offset + 1, NodeEnd(node))
  <1> DEFINE tag == buf[offset + 1]
             n == buf[offset + 2]
             v == SubSeq(buf, offset + 3, offset + 2 + n)
             node == PutTlvObject(buf, offset)
             end == offset + 2 + n
             entry == Entry(tag, v)
             sub == SubSeq(buf, offset + 1, end)
  <1>1. buf \in Seq(Nat) /\ Len(buf) \in Nat /\ offset + 2 <= Len(buf)
    BY CellsAreNumbers DEF HeaderFits, Header
  <1>2. \A k \in 1..Len(buf) : buf[k] \in Cells /\ buf[k] \in Nat
    BY <1>1, ElementOfSeq, CellsAssumption DEF Buffers
  <1>3. tag \in Cells /\ tag \in Nat /\ n \in Nat
    BY <1>1, <1>2
  <1>4. end <= Len(buf) /\ end \in Nat /\ offset < end
    BY <1>1, <1>3 DEF BodyFits, Length, Header
  <1>5. node = [from |-> offset, tag |-> tag, value |-> v]
    <2>1. (offset + Header) + 1 = offset + 3 /\ (offset + Header) + Length(buf, offset) = end
      BY <1>3 DEF Header, Length
    <2>2. SubSeq(buf, offset + Header + 1, offset + Header + Length(buf, offset)) = v
      BY <2>1
    <2>3. QED
      BY <2>2 DEF PutTlvObject, Tag
  <1> HIDE DEF tag, n, node
  <1>6. /\ v \in Seq(Cells) /\ v \in Seq(Nat) /\ Len(v) = n
        /\ \A k \in 1..n : v[k] = buf[(offset + 3) + k - 1]
    <2>1. \A k \in offset + 3..end : buf[k] \in Cells
      BY <1>1, <1>2, <1>3, <1>4
    <2>2. /\ v \in Seq(Cells)
          /\ Len(v) = IF offset + 3 <= end THEN end - (offset + 3) + 1 ELSE 0
          /\ \A k \in 1..end - (offset + 3) + 1 : v[k] = buf[(offset + 3) + k - 1]
      BY <1>3, <1>4, <2>1, SubSeqProperties
    <2>3. v \in Seq(Nat)
      BY <2>2, CellsAssumption, SeqMonotonic
    <2> HIDE DEF v
    <2>4. end - (offset + 3) + 1 = n /\ (offset + 3 <= end <=> n # 0)
      BY <1>3
    <2> HIDE DEF end
    <2>5. Len(v) = n
      BY <1>3, <2>2, <2>4
    <2>6. QED
      BY <2>2, <2>3, <2>4, <2>5
  <1>7. NodeEnd(node) = end
    BY <1>5, <1>6 DEF NodeEnd, Header
  <1>8. /\ sub \in Seq(Nat) /\ Len(sub) = 2 + n
        /\ \A k \in 1..2 + n : sub[k] = buf[offset + k]
    <2>1. \A k \in offset + 1..end : buf[k] \in Nat
      BY <1>1, <1>2, <1>3, <1>4
    <2>2. /\ sub \in Seq(Nat)
          /\ Len(sub) = IF offset + 1 <= end THEN end - (offset + 1) + 1 ELSE 0
          /\ \A k \in 1..end - (offset + 1) + 1 : sub[k] = buf[(offset + 1) + k - 1]
      BY <1>3, <1>4, <2>1, SubSeqProperties
    <2> HIDE DEF sub
    <2>3. end - (offset + 1) + 1 = 2 + n /\ offset + 1 <= end
      BY <1>3
    <2>4. ASSUME NEW k \in 1..2 + n
          PROVE  sub[k] = buf[offset + k]
      <3>1. (offset + 1) + k - 1 = offset + k
        BY <1>3
      <3>2. sub[k] = buf[(offset + 1) + k - 1]
        BY <2>2, <2>3
      <3>3. QED
        BY <3>1, <3>2
    <2> HIDE DEF end
    <2>5. sub \in Seq(Nat) /\ Len(sub) = 2 + n
      BY <2>2, <2>3
    <2>6. QED
      BY <2>4, <2>5
  <1>9. /\ entry \in Seq(Nat) /\ Len(entry) = 2 + n
        /\ entry[1] = tag /\ entry[2] = n
        /\ \A k \in 3..2 + n : entry[k] = v[k - 2]
    <2>1. /\ entry \in Seq(Nat) /\ Len(entry) = 2 + Len(v)
          /\ entry[1] = tag /\ entry[2] = Len(v)
          /\ \A k \in 3..2 + Len(v) : entry[k] = v[k - 2]
      BY <1>3, <1>6, EntryCells
    <2> HIDE DEF entry, v
    <2>2. QED
      BY <1>6, <2>1
  <1>10. tag = buf[offset + 1] /\ n = buf[offset + 2]
    BY DEF tag, n
  <1> HIDE DEF v, sub, entry, end
  <1>11. ASSUME NEW k \in 1..2 + n
         PROVE  entry[k] = sub[k]
    <2>1. CASE k = 1
      BY <1>3, <1>8, <1>9, <1>10, <2>1
    <2>2. CASE k = 2
      BY <1>3, <1>8, <1>9, <1>10, <2>2
    <2>3. CASE k \in 3..2 + n
      <3>1. k - 2 \in 1..n /\ (offset + 3) + (k - 2) - 1 = offset + k
        BY <1>3, <2>3
      <3>2. entry[k] = v[k - 2] /\ v[k - 2] = buf[(offset + 3) + (k - 2) - 1]
        BY <2>3, <3>1, <1>6, <1>9
      <3>3. QED
        BY <3>1, <3>2, <1>8
    <2>4. QED
      BY <1>3, <2>1, <2>2, <2>3
  <1>12. entry = sub
    BY <1>8, <1>9, <1>11, SeqEqual
  <1>13. node \in Nodes /\ node.from = offset /\ node.tag = tag /\ node.value = v
    BY <1>3, <1>5, <1>6 DEF Nodes, Buffers
  <1>14. Entry(node.tag, node.value) = SubSeq(buf, offset + 1, NodeEnd(node))
    BY <1>7, <1>12, <1>13 DEF entry, sub
  <1>15. QED
    BY <1>4, <1>7, <1>10, <1>13, <1>14 DEF node, end

\* The list after that.
LEMMA AppendTiles ==
  ASSUME NEW list \in List, TilesBuffer(list), NEW node \in Nodes,
         node.from = list.offset, list.offset < NodeEnd(node),
         NodeEnd(node) <= Len(list.buf), NodeEnd(node) \in Nat,
         Entry(node.tag, node.value) = SubSeq(list.buf, node.from + 1, NodeEnd(node))
  PROVE  LET next == [list EXCEPT !.nodes = Append(@, node), !.offset = NodeEnd(node)] IN
         next \in List /\ TilesBuffer(next)
  <1> DEFINE nodes == list.nodes
             added == Append(nodes, node)
             next == [list EXCEPT !.nodes = added, !.offset = NodeEnd(node)]
             n == Len(nodes)
  <1>1. /\ nodes \in Seq(Nodes) /\ n \in Nat /\ DOMAIN nodes = 1..n
        /\ list.offset \in Nat /\ list.buf \in Buffers
    BY LenProperties DEF List
  <1>2. /\ added \in Seq(Nodes) /\ Len(added) = n + 1 /\ DOMAIN added = 1..n + 1
        /\ \A i \in 1..n : added[i] = nodes[i]
        /\ added[n + 1] = node
    BY <1>1, AppendProperties, LenProperties
  <1>3. /\ next \in List /\ next.nodes = added /\ next.buf = list.buf
        /\ next.offset = NodeEnd(node)
    BY <1>2 DEF List
  <1>4. /\ list.offset = Begins(nodes, n + 1)
        /\ \A i \in 1..n :
             /\ nodes[i].from = Begins(nodes, i)
             /\ NodeEnd(nodes[i]) <= list.offset
             /\ Entry(nodes[i].tag, nodes[i].value)
                  = SubSeq(list.buf, nodes[i].from + 1, NodeEnd(nodes[i]))
    BY <1>1 DEF TilesBuffer
  <1> HIDE DEF added, next, nodes, n
  <1>5. \A i \in 1..n + 1 : Begins(added, i) = Begins(nodes, i)
    BY <1>1, <1>2 DEF Begins
  <1>6. Begins(added, n + 2) = NodeEnd(node)
    BY <1>1, <1>2 DEF Begins
  <1>7. ASSUME NEW i \in 1..n
        PROVE  /\ added[i].from = Begins(added, i)
               /\ NodeEnd(added[i]) <= NodeEnd(node)
               /\ Entry(added[i].tag, added[i].value)
                    = SubSeq(list.buf, added[i].from + 1, NodeEnd(added[i]))
    <2>1. added[i] = nodes[i] /\ Begins(added, i) = Begins(nodes, i)
      BY <1>1, <1>2, <1>5
    <2>2. NodeEnd(nodes[i]) \in Int
      <3> DEFINE m == nodes[i]
      <3>1. m \in Nodes
        BY <1>1, ElementOfSeq
      <3>2. m.from \in Nat /\ Len(m.value) \in Nat
        BY <3>1, CellsAreNumbers DEF Nodes
      <3>3. NodeEnd(m) = m.from + 2 + Len(m.value)
        BY DEF NodeEnd, Header
      <3> HIDE DEF m
      <3>4. NodeEnd(m) \in Int
        BY <3>2, <3>3
      <3>5. QED
        BY <3>4 DEF m
    <2>3. NodeEnd(nodes[i]) <= NodeEnd(node)
      BY <1>1, <1>4, <2>2
    <2>4. QED
      BY <2>1, <2>3, <1>4
  <1>8. added[n + 1].from = Begins(added, n + 1)
    BY <1>1, <1>2, <1>4, <1>5
  <1>9. /\ \A i \in 1..n + 1 : added[i].from = Begins(added, i)
        /\ \A i \in 1..n + 1 : NodeEnd(added[i]) <= NodeEnd(node)
        /\ \A i \in 1..n + 1 : Entry(added[i].tag, added[i].value)
                    = SubSeq(list.buf, added[i].from + 1, NodeEnd(added[i]))
    <2>1. \A i \in 1..n + 1 : i \in 1..n \/ i = n + 1
      BY <1>1
    <2>2. QED
      BY <2>1, <1>2, <1>7, <1>8
  <1>10. (n + 1) + 1 = n + 2
    BY <1>1
  <1>11. TilesBuffer(next)
    BY <1>2, <1>3, <1>6, <1>9, <1>10 DEF TilesBuffer
  <1>12. QED
    BY <1>3, <1>11 DEF next, added, nodes

-----------------------------------------------------------------------------
(* The invariant.                                                          *)

CallType == [at : CallAt, id : ScheduleIds \cup {Zero64}, level : Levels,
             field : 1..Len(Fields) + 1, failed : BOOLEAN]

\* What the stages of a call have not reached yet is empty.
Stages ==
  /\ call.at = "idle" =>
       call.level = "message" /\ info = EmptyInfo /\ lists["message"] = EmptyList
  /\ call.level = "message" => lists["root"] = EmptyList
  /\ call.level # "data" => lists["data"] = EmptyList /\ call.field = 1
  /\ call.at \in {"sign", "check", "verify"} => call.level = "data"
  /\ call.at \in {"list", "parse"} => call.field = 1
  /\ call.at = "read" => call.field # 6

\* The fields read so far are those of AUTH_DATA, and its data is kept; when the
\* list of AUTH_DATA could not be made none is read, and the id stays zero.
FieldsRead ==
  LET data == lists["data"] IN
  /\ call.level = "data" => info.data = data.buf
  /\ call.level = "data" /\ (call.at = "read" \/ call.field > 1) =>
       data.offset = Len(data.buf)
  /\ call.field > 1 => info.capabilityLevel = Para(data.nodes, AUTH_CAPABILITY_LEVEL)
  /\ call.field > 2 => info.templateId = Para(data.nodes, AUTH_TEMPLATE_ID)
  /\ call.field > 3 => info.authSubType = Para(data.nodes, AUTH_SUBTYPE)
  /\ call.field > 4 => info.result = Para(data.nodes, AUTH_RESULT_CODE)
  /\ call.field > 5 => info.scheduleId = Para(data.nodes, AUTH_SCHEDULE_ID)
  /\ call.field < 6 => info.scheduleId = Zero64
  /\ call.at = "verify" => info.scheduleId = call.id /\ info.result = RESULT_SUCCESS

Reading == TypeOK /\ Tiled /\ Stages /\ FieldsRead

Inv == Reading /\ TokenIsReported

LEMMA FieldsLength == Len(Fields) = 5
  BY DEF Fields

LEMMA EmptyListTiles == EmptyList \in List /\ TilesBuffer(EmptyList)
  <1>1. <<>> \in Buffers
    BY EmptySeq DEF Buffers
  <1>2. QED
    BY <1>1, EmptyTiles DEF EmptyList

LEMMA EmptyInfoType == EmptyInfo \in Info
  <1>1. 0 \in Cells
    BY ConstantsAssumption DEF ConstantsAssumption
  <1>2. <<>> \in Buffers
    BY EmptySeq DEF Buffers
  <1>3. <<0>> \in Uint32 /\ Zero64 \in Uint64
    BY <1>1 DEF Uint32, Uint64, Zero64
  <1>4. QED
    BY <1>2, <1>3 DEF EmptyInfo, Info

LEMMA InitInv == Init => Inv
  <1> SUFFICES ASSUME Init
               PROVE  Inv
    OBVIOUS
  <1>1. call \in CallType
    BY FieldsLength DEF Init, CallType, CallAt, Levels
  <1>2. lists \in [Levels -> List] /\ Tiled
    BY EmptyListTiles DEF Init, Tiled
  <1>3. TypeOK
    BY <1>1, <1>2, EmptyInfoType DEF Init, TypeOK, CallType, List
  <1>4. Stages
    BY DEF Init, Stages, Levels
  <1>5. FieldsRead
    BY DEF Init, FieldsRead, EmptyInfo
  <1>6. TokenIsReported
    BY DEF Init, TokenIsReported
  <1>7. QED
    BY <1>2, <1>3, <1>4, <1>5, <1>6 DEF Inv, Reading

\* A step that moves the call on and leaves what was read alone.
LEMMA Goes ==
  ASSUME Reading, NEW at \in CallAt \ {"idle"}, NEW failed \in BOOLEAN,
         call.at # "idle", call' = [call EXCEPT !.at = at, !.failed = failed],
         UNCHANGED <<lists, info>>, listed' \subseteq listed, tokens' \subseteq Token,
         at \in {"sign", "check", "verify"} => call.level = "data",
         at \in {"list", "parse", "read"} => call.field = 1,
         at = "read" /\ call.level = "data" =>
           lists["data"].offset = Len(lists["data"].buf),
         at = "verify" => info.scheduleId = call.id /\ info.result = RESULT_SUCCESS
  PROVE  Reading'
  <1>1. /\ call \in CallType /\ lists \in [Levels -> List] /\ info \in Info
        /\ listed \subseteq ScheduleIds /\ call.id \in ScheduleIds
    BY DEF Reading, TypeOK, CallType, List
  <1>2. /\ call' \in CallType /\ call'.at = at /\ call'.id = call.id
        /\ call'.level = call.level /\ call'.field = call.field
    BY <1>1 DEF CallType
  <1>3. TypeOK'
    BY <1>1, <1>2 DEF TypeOK, CallType, List
  <1>4. Tiled'
    BY DEF Reading, Tiled
  <1>5. Stages'
    BY <1>2 DEF Reading, Stages
  <1>6. FieldsRead'
    BY <1>2 DEF Reading, FieldsRead
  <1>7. QED
    BY <1>3, <1>4, <1>5, <1>6 DEF Reading

LEMMA Refuses ==
  ASSUME Reading, NEW failed \in BOOLEAN, Refuse(failed), call.at # "idle",
         UNCHANGED <<listed, lists, info>>, tokens' \subseteq Token
  PROVE  Reading'
  <1>1. call \in CallType
    BY DEF Reading, TypeOK, CallType
  <1>2. call' = [call EXCEPT !.at = "exit", !.failed = call.failed \/ failed]
    BY <1>1 DEF Refuse
  <1>3. (call.failed \/ failed) \in BOOLEAN
    OBVIOUS
  <1>4. "exit" \in CallAt \ {"idle"}
    BY DEF CallAt
  <1>5. QED
    BY <1>2, <1>3, <1>4, Goes

\* No token comes of a step that leaves the tokens alone.
LEMMA SameTokens ==
  ASSUME TokenIsReported, UNCHANGED tokens
  PROVE  TokenIsReported'
  BY DEF TokenIsReported

\* GetScheduleToken with a message: the list of the message gets its buffer.
LEMMA Starts ==
  ASSUME Reading, NEW id \in ScheduleIds, NEW msg \in Messages, GetScheduleToken(id, msg)
  PROVE  Reading'
  <1>1. /\ call \in CallType /\ lists \in [Levels -> List] /\ info \in Info
        /\ call.at = "idle" /\ msg \in Buffers
        /\ call.level = "message" /\ info = EmptyInfo
        /\ \A l \in Levels : lists[l] = EmptyList
    BY ConstantsAssumption DEF Reading, TypeOK, CallType, List, GetScheduleToken,
       ConstantsAssumption, Stages, Levels
  <1>2. /\ call' \in CallType /\ call'.at = "list" /\ call'.level = "message"
        /\ call'.field = 1 /\ call'.id \in ScheduleIds
    BY FieldsLength DEF GetScheduleToken, CallType, CallAt, Levels
  <1> DEFINE first == [buf |-> msg, offset |-> 0, nodes |-> <<>>]
  <1>3. first \in List /\ TilesBuffer(first)
    BY <1>1, EmptyTiles
  <1>4. lists' = [lists EXCEPT !["message"] = first]
    <2>1. EmptyList \in List /\ "message" \in Levels
      BY EmptyListTiles DEF Levels
    <2>2. [EmptyList EXCEPT !.buf = msg] = first
      BY DEF EmptyList
    <2>3. lists' = [lists EXCEPT !["message"] = [@ EXCEPT !.buf = msg]]
      BY DEF GetScheduleToken
    <2> HIDE DEF first
    <2>4. QED
      BY <1>1, <2>1, <2>2, <2>3
  <1> HIDE DEF first
  <1>5. /\ lists' \in [Levels -> List]
        /\ lists'["root"] = EmptyList /\ lists'["data"] = EmptyList
        /\ \A l \in Levels : TilesBuffer(lists'[l])
    BY <1>1, <1>3, <1>4, EmptyListTiles DEF Levels
  <1>6. TypeOK'
    BY <1>2, <1>5 DEF Reading, TypeOK, CallType, List, GetScheduleToken
  <1>7. Tiled'
    BY <1>5 DEF Tiled
  <1>8. Stages'
    BY <1>2, <1>5 DEF Stages
  <1>9. FieldsRead'
    <2>1. info' = EmptyInfo
      BY <1>1 DEF GetScheduleToken
    <2>2. QED
      BY <1>2, <2>1 DEF FieldsRead, EmptyInfo
  <1>10. QED
    BY <1>6, <1>7, <1>8, <1>9 DEF Reading

\* One iteration of ParseTlvWrapper.
LEMMA Parses ==
  ASSUME Reading, ParseNode
  PROVE  Reading'
  <1> DEFINE list == lists[call.level]
             node == PutTlvObject(list.buf, list.offset)
             next == [list EXCEPT !.nodes = Append(list.nodes, node), !.offset = NodeEnd(node)]
  <1>1. /\ call \in CallType /\ lists \in [Levels -> List] /\ info \in Info
        /\ call.level \in Levels /\ call.at = "parse" /\ call.field = 1
    BY DEF Reading, TypeOK, CallType, List, ParseNode, Stages
  <1>2. list \in List /\ TilesBuffer(list) /\ list.buf \in Buffers /\ list.offset \in Nat
    BY <1>1 DEF List, Reading, Tiled
  <1>3. /\ list.offset < Len(list.buf)
        /\ HeaderFits(list.buf, list.offset) /\ BodyFits(list.buf, list.offset)
    BY DEF ParseNode, Current
  <1>4. /\ node \in Nodes /\ node.from = list.offset
        /\ list.offset < NodeEnd(node) /\ NodeEnd(node) <= Len(list.buf)
        /\ NodeEnd(node) \in Nat
        /\ Entry(node.tag, node.value) = SubSeq(list.buf, list.offset + 1, NodeEnd(node))
    BY <1>2, <1>3, CopiedNode
  <1>5. lists' = [lists EXCEPT ![call.level] = next]
    BY <1>1 DEF ParseNode, Current
  <1> HIDE DEF node
  <1>6. next \in List /\ TilesBuffer(next)
    BY <1>2, <1>4, AppendTiles
  <1>7. next.buf = list.buf
    BY <1>2 DEF List
  <1> HIDE DEF list, next
  <1>8. UNCHANGED <<listed, call, info, tokens>>
    BY DEF ParseNode
  <1>9. /\ lists' \in [Levels -> List]
        /\ lists'[call.level] = next
        /\ \A l \in Levels \ {call.level} : lists'[l] = lists[l]
        /\ \A l \in Levels : TilesBuffer(lists'[l])
    BY <1>1, <1>5, <1>6 DEF Reading, Tiled
  <1>10. TypeOK'
    BY <1>8, <1>9 DEF Reading, TypeOK, List
  <1>11. Tiled'
    BY <1>9 DEF Tiled
  <1>12. Stages'
    BY <1>1, <1>8, <1>9 DEF Reading, Stages, Levels
  <1>13. FieldsRead'
    <2>1. call.level = "data" => info.data = next.buf
      BY <1>7 DEF Reading, FieldsRead, list
    <2>2. QED
      BY <1>1, <1>8, <1>9, <2>1 DEF Reading, FieldsRead
  <1>14. QED
    BY <1>10, <1>11, <1>12, <1>13 DEF Reading

\* A list is opened on the value of a tag of the one before.
LEMMA OpensTiled ==
  ASSUME Reading, NEW from \in Levels, NEW to \in Levels, NEW tag,
         Opens(from, to, tag), lists[to] = EmptyList
  PROVE  /\ Para(lists[from].nodes, tag) \in Buffers
         /\ lists' \in [Levels -> List]
         /\ lists'[to].buf = Para(lists[from].nodes, tag) /\ lists'[to].offset = 0
         /\ \A l \in Levels \ {to} : lists'[l] = lists[l]
         /\ \A l \in Levels : TilesBuffer(lists'[l])
         /\ call' \in CallType /\ call'.at = "list" /\ call'.level = to
         /\ call'.field = call.field /\ call'.id = call.id /\ call'.failed = call.failed
  <1>1. call \in CallType /\ lists \in [Levels -> List] /\ lists[from] \in List
    BY DEF Reading, TypeOK, CallType, List
  <1>2. lists[from].nodes \in Seq(Nodes)
    BY <1>1 DEF List
  <1>3. Tagged(lists[from].nodes, tag) # {}
    BY DEF Opens, HasBuff
  <1> DEFINE v == Para(lists[from].nodes, tag)
             first == [buf |-> v, offset |-> 0, nodes |-> <<>>]
  <1>4. v \in Buffers
    BY <1>2, <1>3, ParaType
  <1>5. lists' = [lists EXCEPT ![to] = [EmptyList EXCEPT !.buf = v]]
    BY <1>1 DEF Opens
  <1> HIDE DEF v
  <1>6. [EmptyList EXCEPT !.buf = v] = first
    BY DEF EmptyList
  <1>7. first \in List /\ TilesBuffer(first) /\ first.buf = v /\ first.offset = 0
    BY <1>4, EmptyTiles
  <1> HIDE DEF first
  <1>8. /\ lists' \in [Levels -> List] /\ lists'[to] = first
        /\ \A l \in Levels \ {to} : lists'[l] = lists[l]
        /\ \A l \in Levels : TilesBuffer(lists'[l])
    BY <1>1, <1>5, <1>6, <1>7 DEF Reading, Tiled
  <1>9. /\ call' \in CallType /\ call'.at = "list" /\ call'.level = to
        /\ call'.field = call.field /\ call'.id = call.id /\ call'.failed = call.failed
    BY <1>1 DEF Opens, CallType, CallAt
  <1>10. QED
    BY <1>4, <1>7, <1>8, <1>9 DEF v

LEMMA RootOpens ==
  ASSUME Reading, ParseRoot
  PROVE  Reading'
  <1>1. /\ Opens("message", "root", AUTH_ROOT) /\ UNCHANGED <<listed, info, tokens>>
        /\ call.at = "read" /\ call.level = "message" /\ "message" \in Levels
        /\ "root" \in Levels
    BY DEF ParseRoot, Opens, Levels
  <1>2. lists["root"] = EmptyList /\ lists["data"] = EmptyList /\ call.field = 1
    BY <1>1 DEF Reading, Stages
  <1>3. /\ lists' \in [Levels -> List]
        /\ \A l \in Levels \ {"root"} : lists'[l] = lists[l]
        /\ \A l \in Levels : TilesBuffer(lists'[l])
        /\ call' \in CallType /\ call'.at = "list" /\ call'.level = "root"
        /\ call'.field = call.field /\ call'.id = call.id
    BY <1>1, <1>2, OpensTiled
  <1>4. call.id \in ScheduleIds
    BY <1>1 DEF Reading, TypeOK
  <1>5. TypeOK'
    BY <1>1, <1>3, <1>4 DEF Reading, TypeOK, CallType, List
  <1>6. Tiled'
    BY <1>3 DEF Tiled
  <1>7. lists'["data"] = EmptyList
    BY <1>2, <1>3 DEF Levels
  <1>8. Stages'
    BY <1>2, <1>3, <1>7 DEF Stages
  <1>9. FieldsRead'
    BY <1>1, <1>2, <1>3 DEF Reading, FieldsRead
  <1>10. QED
    BY <1>5, <1>6, <1>8, <1>9 DEF Reading

LEMMA DataOpens ==
  ASSUME Reading, ParseExecutorResultData
  PROVE  Reading'
  <1> DEFINE v == Para(lists["root"].nodes, AUTH_DATA)
  <1>1. /\ Opens("root", "data", AUTH_DATA) /\ UNCHANGED <<listed, tokens>>
        /\ info' = [info EXCEPT !.data = v]
        /\ call.at = "read" /\ call.level = "root" /\ "root" \in Levels
        /\ "data" \in Levels
    BY DEF ParseExecutorResultData, Opens, Levels
  <1>2. lists["data"] = EmptyList /\ call.field = 1
    BY <1>1 DEF Reading, Stages
  <1>3. /\ v \in Buffers
        /\ lists' \in [Levels -> List] /\ lists'["data"].buf = v
        /\ \A l \in Levels : TilesBuffer(lists'[l])
        /\ call' \in CallType /\ call'.at = "list" /\ call'.level = "data"
        /\ call'.field = call.field /\ call'.id = call.id
    BY <1>1, <1>2, OpensTiled
  <1> HIDE DEF v
  <1>4. call.id \in ScheduleIds /\ info \in Info
    BY <1>1 DEF Reading, TypeOK
  <1>5. info' \in Info /\ info'.data = v /\ info'.scheduleId = info.scheduleId
    BY <1>1, <1>3, <1>4 DEF Info
  <1>6. TypeOK'
    BY <1>1, <1>3, <1>4, <1>5 DEF Reading, TypeOK, CallType, List
  <1>7. Tiled'
    BY <1>3 DEF Tiled
  <1>8. Stages'
    BY <1>2, <1>3 DEF Stages
  <1>9. FieldsRead'
    BY <1>1, <1>2, <1>3, <1>5 DEF Reading, FieldsRead
  <1>10. QED
    BY <1>6, <1>7, <1>8, <1>9 DEF Reading

\* What HasPara has found is a number of that size.
LEMMA NumberFound ==
  ASSUME NEW nodes \in Seq(Nodes), NEW tag, NEW size, HasPara(nodes, tag, size)
  PROVE  /\ size = 1 => Para(nodes, tag) \in Uint32
         /\ size = 2 => Para(nodes, tag) \in Uint64
  <1>1. Para(nodes, tag) \in Buffers /\ Len(Para(nodes, tag)) = size
    BY ParaType DEF HasPara, Para
  <1>2. QED
    BY <1>1, IsOne, IsTwo

LEMMA FieldRead ==
  ASSUME Reading, ReadField
  PROVE  Reading'
  <1> DEFINE nodes == lists["data"].nodes
  <1>1. /\ call \in CallType /\ lists \in [Levels -> List] /\ info \in Info
        /\ call.at = "read" /\ call.level = "data" /\ call.id \in ScheduleIds
        /\ UNCHANGED <<listed, lists, tokens>>
    BY DEF Reading, TypeOK, CallType, List, ReadField
  <1>2. nodes \in Seq(Nodes)
    BY <1>1 DEF List, Levels
  <1> HIDE DEF nodes
  <1>3. /\ info.data = lists["data"].buf
        /\ lists["data"].offset = Len(lists["data"].buf)
    BY <1>1 DEF Reading, FieldsRead
  <1>4. Tiled'
    BY <1>1 DEF Reading, Tiled
  <1>5. ASSUME NEW k \in 1..5, call.field = k, NEW name, NEW tag, NEW size,
               Fields[k] = [name |-> name, tag |-> tag, size |-> size]
        PROVE  /\ HasPara(nodes, tag, size)
               /\ info' = [info EXCEPT ![name] = Para(nodes, tag)]
               /\ call' \in CallType /\ call'.field = k + 1 /\ call'.level = "data"
               /\ call'.id = call.id
               /\ call'.at = IF k = 5 THEN "sign" ELSE "read"
    <2>1. /\ HasPara(nodes, tag, size)
          /\ info' = [info EXCEPT ![name] = Para(nodes, tag)]
      BY <1>1, <1>5 DEF ReadField, Current, nodes
    <2>2. call' = [call EXCEPT !.field = k + 1, !.at = IF k = 5 THEN "sign" ELSE "read"]
      BY <1>1, <1>5, FieldsLength DEF ReadField, CallType
    <2>3. k + 1 \in 1..Len(Fields) + 1
      BY FieldsLength
    <2>4. QED
      BY <1>1, <2>1, <2>2, <2>3 DEF CallType, CallAt
  <1>6. ASSUME info' \in Info, call' \in CallType, call'.level = "data", call'.id = call.id,
               call'.at \in {"read", "sign"}, call'.at = "read" => call'.field # 6
        PROVE  TypeOK' /\ Stages'
    <2>1. TypeOK'
      BY <1>1, <1>6 DEF Reading, TypeOK, CallType, List
    <2>2. Stages'
      BY <1>6 DEF Stages
    <2>3. QED
      BY <2>1, <2>2
  <1>7. CASE call.field = 1
    <2>1. /\ HasPara(nodes, AUTH_CAPABILITY_LEVEL, 1)
          /\ info' = [info EXCEPT !.capabilityLevel = Para(nodes, AUTH_CAPABILITY_LEVEL)]
          /\ call' \in CallType /\ call'.field = 2 /\ call'.level = "data"
          /\ call'.id = call.id /\ call'.at = "read"
      <3>1. Fields[1] = [name |-> "capabilityLevel", tag |-> AUTH_CAPABILITY_LEVEL, size |-> 1]
        BY DEF Fields
      <3>2. QED
        BY <1>5, <1>7, <3>1
    <2>2. info' \in Info
      BY <1>1, <1>2, <2>1, NumberFound DEF Info
    <2>3. FieldsRead'
      BY <1>1, <1>3, <1>7, <2>1 DEF Reading, FieldsRead, Info, nodes
    <2>4. QED
      BY <1>4, <1>6, <2>1, <2>2, <2>3 DEF Reading
  <1>8. CASE call.field = 2
    <2>1. /\ HasPara(nodes, AUTH_TEMPLATE_ID, 2)
          /\ info' = [info EXCEPT !.templateId = Para(nodes, AUTH_TEMPLATE_ID)]
          /\ call' \in CallType /\ call'.field = 3 /\ call'.level = "data"
          /\ call'.id = call.id /\ call'.at = "read"
      <3>1. Fields[2] = [name |-> "templateId", tag |-> AUTH_TEMPLATE_ID, size |-> 2]
        BY DEF Fields
      <3>2. QED
        BY <1>5, <1>8, <3>1
    <2>2. info' \in Info
      BY <1>1, <1>2, <2>1, NumberFound DEF Info
    <2>3. FieldsRead'
      BY <1>1, <1>3, <1>8, <2>1 DEF Reading, FieldsRead, Info, nodes
    <2>4. QED
      BY <1>4, <1>6, <2>1, <2>2, <2>3 DEF Reading
  <1>9. CASE call.field = 3
    <2>1. /\ HasPara(nodes, AUTH_SUBTYPE, 2)
          /\ info' = [info EXCEPT !.authSubType = Para(nodes, AUTH_SUBTYPE)]
          /\ call' \in CallType /\ call'.field = 4 /\ call'.level = "data"
          /\ call'.id = call.id /\ call'.at = "read"
      <3>1. Fields[3] = [name |-> "authSubType", tag |-> AUTH_SUBTYPE, size |-> 2]
        BY DEF Fields
      <3>2. QED
        BY <1>5, <1>9, <3>1
    <2>2. info' \in Info
      BY <1>1, <1>2, <2>1, NumberFound DEF Info
    <2>3. FieldsRead'
      BY <1>1, <1>3, <1>9, <2>1 DEF Reading, FieldsRead, Info, nodes
    <2>4. QED
      BY <1>4, <1>6, <2>1, <2>2, <2>3 DEF Reading
  <1>10. CASE call.field = 4
    <2>1. /\ HasPara(nodes, AUTH_RESULT_CODE, 1)
          /\ info' = [info EXCEPT !.result = Para(nodes, AUTH_RESULT_CODE)]
          /\ call' \in CallType /\ call'.field = 5 /\ call'.level = "data"
          /\ call'.id = call.id /\ call'.at = "read"
      <3>1. Fields[4] = [name |-> "result", tag |-> AUTH_RESULT_CODE, size |-> 1]
        BY DEF Fields
      <3>2. QED
        BY <1>5, <1>10, <3>1
    <2>2. info' \in Info
      BY <1>1, <1>2, <2>1, NumberFound DEF Info
    <2>3. FieldsRead'
      BY <1>1, <1>3, <1>10, <2>1 DEF Reading, FieldsRead, Info, nodes
    <2>4. QED
      BY <1>4, <1>6, <2>1, <2>2, <2>3 DEF Reading
  <1>11. CASE call.field = 5
    <2>1. /\ HasPara(nodes, AUTH_SCHEDULE_ID, 2)
          /\ info' = [info EXCEPT !.scheduleId = Para(nodes, AUTH_SCHEDULE_ID)]
          /\ call' \in CallType /\ call'.field = 6 /\ call'.level = "data"
          /\ call'.id = call.id /\ call'.at = "sign"
      <3>1. Fields[5] = [name |-> "scheduleId", tag |-> AUTH_SCHEDULE_ID, size |-> 2]
        BY DEF Fields
      <3>2. QED
        BY <1>5, <1>11, <3>1
    <2>2. info' \in Info
      BY <1>1, <1>2, <2>1, NumberFound DEF Info
    <2>3. FieldsRead'
      BY <1>1, <1>3, <1>11, <2>1 DEF Reading, FieldsRead, Info, nodes
    <2>4. QED
      BY <1>4, <1>6, <2>1, <2>2, <2>3 DEF Reading
  <1>12. call.field \in 1..5
    <2>1. call.field \in 1..6
      BY <1>1, FieldsLength DEF CallType
    <2>2. call.field # 6
      BY <1>1 DEF Reading, Stages
    <2>3. QED
      BY <2>1, <2>2
  <1>13. QED
    BY <1>7, <1>8, <1>9, <1>10, <1>11, <1>12

LEMMA SignRead ==
  ASSUME Reading, ParseExecutorResultSign
  PROVE  Reading'
  <1> DEFINE v == Para(lists["root"].nodes, AUTH_SIGNATURE)
  <1>1. /\ call \in CallType /\ lists \in [Levels -> List] /\ info \in Info
        /\ call.at = "sign" /\ call.level = "data" /\ call.id \in ScheduleIds
        /\ UNCHANGED <<listed, lists, tokens>>
    BY DEF Reading, TypeOK, CallType, List, ParseExecutorResultSign, Stages
  <1>2. lists["root"].nodes \in Seq(Nodes)
    BY <1>1 DEF List, Levels
  <1>3. Tagged(lists["root"].nodes, AUTH_SIGNATURE) # {}
    BY DEF ParseExecutorResultSign, HasBuff
  <1>4. v \in Buffers
    BY <1>2, <1>3, ParaType
  <1>5. info' = [info EXCEPT !.sign = v] /\ call' = [call EXCEPT !.at = "check"]
    BY DEF ParseExecutorResultSign
  <1> HIDE DEF v
  <1>6. /\ info' \in Info
        /\ info'.data = info.data /\ info'.capabilityLevel = info.capabilityLevel
        /\ info'.templateId = info.templateId /\ info'.authSubType = info.authSubType
        /\ info'.result = info.result /\ info'.scheduleId = info.scheduleId
    BY <1>1, <1>4, <1>5 DEF Info
  <1>7. /\ call' \in CallType /\ call'.at = "check" /\ call'.id = call.id
        /\ call'.level = call.level /\ call'.field = call.field
    BY <1>1, <1>5 DEF CallType, CallAt
  <1>8. TypeOK'
    BY <1>1, <1>6, <1>7 DEF Reading, TypeOK, CallType, List
  <1>9. Tiled'
    BY <1>1 DEF Reading, Tiled
  <1>10. Stages'
    BY <1>1, <1>7 DEF Reading, Stages
  <1>11. FieldsRead'
    BY <1>1, <1>6, <1>7 DEF Reading, FieldsRead
  <1>12. QED
    BY <1>8, <1>9, <1>10, <1>11 DEF Reading

LEMMA Leaves ==
  ASSUME Reading, Exit
  PROVE  Reading'
  <1>1. /\ listed' \subseteq ScheduleIds /\ tokens' \subseteq Token
        /\ call \in CallType
    BY DEF Reading, TypeOK, CallType, Exit
  <1>2. /\ call' \in CallType /\ call'.at = "idle" /\ call'.level = "message"
        /\ call'.field = 1
    <2>1. 1 \in 1..Len(Fields) + 1
      BY FieldsLength
    <2>2. call' = [call EXCEPT !.at = "idle", !.level = "message", !.field = 1,
                               !.failed = FALSE, !.id = Zero64]
      BY DEF Exit
    <2>3. QED
      BY <1>1, <2>1, <2>2 DEF CallType, CallAt, Levels
  <1>3. lists' = [l \in Levels |-> EmptyList] /\ info' = EmptyInfo
    BY DEF Exit
  <1>4. lists' \in [Levels -> List] /\ info' \in Info
    BY <1>3, EmptyListTiles, EmptyInfoType
  <1>5. TypeOK'
    BY <1>1, <1>2, <1>4 DEF TypeOK, CallType, List
  <1>6. Tiled'
    BY <1>3, EmptyListTiles DEF Tiled
  <1>7. Stages'
    BY <1>2, <1>3 DEF Stages, Levels
  <1>8. FieldsRead'
    BY <1>2, <1>3 DEF FieldsRead, EmptyInfo
  <1>9. QED
    BY <1>5, <1>6, <1>7, <1>8 DEF Reading

\* The one step that signs: the fields are those of the data, whose sign verifies.
LEMMA Signs ==
  ASSUME Inv, TokenDataGetAndSign
  PROVE  /\ Reading'
         /\ TokenIsReported'
  <1>1. /\ call \in CallType /\ lists \in [Levels -> List] /\ info \in Info
        /\ call.at = "verify" /\ call.level = "data" /\ call.id \in ScheduleIds
        /\ tokens \subseteq Token
    BY DEF Inv, Reading, TypeOK, CallType, List, TokenDataGetAndSign, Stages
  <1>2. TokenOf(TRUE) \in Token
    BY <1>1 DEF TokenOf, Token, Info
  <1>3. Reading'
    <2>1. /\ call' = [call EXCEPT !.at = "exit", !.failed = call.failed]
          /\ call.failed \in BOOLEAN
      BY <1>1 DEF TokenDataGetAndSign, CallType
    <2>2. tokens' \subseteq Token
      BY <1>1, <1>2 DEF TokenDataGetAndSign
    <2>3. /\ UNCHANGED <<lists, info>> /\ listed' \subseteq listed
          /\ "exit" \in CallAt \ {"idle"} /\ call.at # "idle"
      BY <1>1 DEF TokenDataGetAndSign, CallAt
    <2>4. QED
      BY <2>1, <2>2, <2>3, Goes DEF Inv
  <1>4. PICK r \in Reports :
          r.key = KeyOf[call.id] /\ DataOf(r) = info.data /\ r.sign = info.sign
    BY DEF TokenDataGetAndSign, Ed25519Verify
  <1>5. r \in ReportType
    BY ConstantsAssumption DEF ConstantsAssumption, ReportType
  <1>6. info.scheduleId = call.id /\ info.result = RESULT_SUCCESS
    BY <1>1 DEF Inv, Reading, FieldsRead
  <1>7. call.field = 6
    <2>1. call.id # Zero64
      BY <1>1, ConstantsAssumption DEF ConstantsAssumption
    <2>2. call.field \in 1..6
      BY <1>1, FieldsLength DEF CallType
    <2>3. QED
      BY <1>6, <2>1, <2>2 DEF Inv, Reading, FieldsRead
  <1> DEFINE list == lists["data"]
  <1>8. /\ list \in List /\ TilesBuffer(list)
        /\ list.buf = DataOf(r) /\ list.offset = Len(list.buf)
    BY <1>1, <1>4, <1>7 DEF Inv, Reading, Tiled, Levels, FieldsRead
  <1>9. /\ Para(list.nodes, AUTH_CAPABILITY_LEVEL) = r.level
        /\ Para(list.nodes, AUTH_TEMPLATE_ID) = r.template
        /\ Para(list.nodes, AUTH_SUBTYPE) = r.subType
        /\ Para(list.nodes, AUTH_RESULT_CODE) = r.result
        /\ Para(list.nodes, AUTH_SCHEDULE_ID) = r.id
    <2> HIDE DEF list
    <2>1. QED
      BY <1>5, <1>8, Decoded
  <1>10. /\ info.capabilityLevel = r.level /\ info.templateId = r.template
         /\ info.authSubType = r.subType /\ info.result = r.result
         /\ info.scheduleId = r.id
    BY <1>7, <1>9 DEF Inv, Reading, FieldsRead
  <1>11. /\ r.key = KeyOf[TokenOf(TRUE).id] /\ r.result = RESULT_SUCCESS
         /\ r.id = TokenOf(TRUE).id /\ r.id = TokenOf(TRUE).scheduleId
         /\ r.level = TokenOf(TRUE).capabilityLevel
         /\ r.template = TokenOf(TRUE).templateId
         /\ r.subType = TokenOf(TRUE).authSubType
    BY <1>4, <1>6, <1>10 DEF TokenOf
  <1>12. tokens' = tokens \cup {TokenOf(TRUE)}
    BY DEF TokenDataGetAndSign
  <1>13. TokenIsReported'
    BY <1>11, <1>12 DEF Inv, TokenIsReported
  <1>14. QED
    BY <1>3, <1>13

\* A token that is not signed claims nothing.
LEMMA Unsigned ==
  ASSUME TokenIsReported, NEW t, ~t.signed, tokens' = tokens \cup {t}
  PROVE  TokenIsReported'
  BY DEF TokenIsReported

LEMMA UnsignedType ==
  ASSUME NEW id \in ScheduleIds
  PROVE  [id |-> id, signed |-> FALSE, scheduleId |-> id, capabilityLevel |-> <<0>>,
          templateId |-> Zero64, authSubType |-> Zero64] \in Token
  <1>1. 0 \in Cells /\ id \in Uint64
    BY ConstantsAssumption DEF ConstantsAssumption
  <1>2. <<0>> \in Uint32 /\ Zero64 \in Uint64
    BY <1>1 DEF Uint32, Uint64, Zero64
  <1>3. QED
    BY <1>1, <1>2 DEF Token

LEMMA NextInv == Inv /\ [Next]_vars => Inv'
  <1> SUFFICES ASSUME Inv, [Next]_vars
               PROVE  Inv'
    OBVIOUS
  <1>t. /\ Reading /\ TokenIsReported /\ tokens \subseteq Token /\ call \in CallType
        /\ call.at # "idle" => call.id \in ScheduleIds
    BY DEF Inv, Reading, TypeOK, CallType
  <1>a. CallAt \ {"idle"} = {"list", "parse", "read", "sign", "check", "verify", "exit"}
    BY DEF CallAt
  <1>0. CASE UNCHANGED vars
    BY <1>0 DEF vars, Inv, Reading, TypeOK, Tiled, Stages, FieldsRead, TokenIsReported
  <1>1. ASSUME NEW id \in ScheduleIds, GetTokenEmpty(id)
        PROVE  Inv'
    <2> DEFINE t == [id |-> id, signed |-> FALSE, scheduleId |-> id,
                     capabilityLevel |-> <<0>>, templateId |-> Zero64,
                     authSubType |-> Zero64]
    <2>1. tokens' = tokens \cup {t} /\ t \in Token /\ ~t.signed
      BY <1>1, UnsignedType DEF GetTokenEmpty
    <2> HIDE DEF t
    <2>2. Reading'
      BY <1>1, <1>t, <2>1 DEF GetTokenEmpty, Reading, TypeOK, Tiled, Stages, FieldsRead
    <2>3. TokenIsReported'
      BY <1>t, <2>1, Unsigned
    <2>4. QED
      BY <2>2, <2>3 DEF Inv
  <1>2. ASSUME NEW id \in ScheduleIds, NEW msg \in Messages, GetScheduleToken(id, msg)
        PROVE  Inv'
    BY <1>2, <1>t, Starts, SameTokens DEF Inv, GetScheduleToken
  <1>3. CASE CreateTlvList
    <2>1. /\ call' = [call EXCEPT !.at = "parse", !.failed = call.failed]
          /\ call.failed \in BOOLEAN
      BY <1>3, <1>t DEF CreateTlvList, CallType
    <2>2. call.field = 1
      BY <1>3, <1>t DEF CreateTlvList, Reading, Stages
    <2>3. Reading'
      BY <1>3, <1>t, <1>a, <2>1, <2>2, Goes DEF CreateTlvList
    <2>4. QED
      BY <1>3, <1>t, <2>3, SameTokens DEF Inv, CreateTlvList
  <1>4. CASE CreateTlvListFails
    <2>1. CASE call.level = "data"
      <3>1. call' = [call EXCEPT !.at = "sign", !.failed = TRUE]
        BY <1>4, <2>1 DEF CreateTlvListFails
      <3>2. Reading'
        BY <1>4, <1>t, <1>a, <2>1, <3>1, Goes DEF CreateTlvListFails
      <3>3. QED
        BY <1>4, <1>t, <3>2, SameTokens DEF Inv, CreateTlvListFails
    <2>2. CASE call.level # "data"
      <3>1. Refuse(TRUE)
        BY <1>4, <2>2 DEF CreateTlvListFails
      <3>2. Reading'
        BY <1>4, <1>t, <3>1, Refuses DEF CreateTlvListFails
      <3>3. QED
        BY <1>4, <1>t, <3>2, SameTokens DEF Inv, CreateTlvListFails
    <2>3. QED
      BY <2>1, <2>2
  <1>5. CASE ParseNode
    BY <1>5, <1>t, Parses, SameTokens DEF Inv, ParseNode
  <1>6. CASE ParseFails
    <2>1. PICK failed \in BOOLEAN : Refuse(failed)
      BY <1>6 DEF ParseFails
    <2>2. Reading'
      BY <1>6, <1>t, <2>1, Refuses DEF ParseFails
    <2>3. QED
      BY <1>6, <1>t, <2>2, SameTokens DEF Inv, ParseFails
  <1>7. CASE ParseEnd
    <2>1. /\ call' = [call EXCEPT !.at = "read", !.failed = call.failed]
          /\ call.failed \in BOOLEAN
      BY <1>7, <1>t DEF ParseEnd, CallType
    <2>2. call.field = 1
      BY <1>7, <1>t DEF ParseEnd, Reading, Stages
    <2>3. call.level = "data" => lists["data"].offset = Len(lists["data"].buf)
      <3>1. /\ lists["data"].offset <= Len(lists["data"].buf)
            /\ lists["data"].offset \in Nat /\ Len(lists["data"].buf) \in Nat
        BY <1>t, CellsAreNumbers DEF Reading, Tiled, TilesBuffer, Levels, TypeOK
      <3>2. QED
        BY <1>7, <3>1 DEF ParseEnd, Current
    <2>4. Reading'
      BY <1>7, <1>t, <1>a, <2>1, <2>2, <2>3, Goes DEF ParseEnd
    <2>5. QED
      BY <1>7, <1>t, <2>4, SameTokens DEF Inv, ParseEnd
  <1>8. CASE ParseRoot
    BY <1>8, <1>t, RootOpens, SameTokens DEF Inv, ParseRoot
  <1>9. CASE ParseExecutorResultData
    BY <1>9, <1>t, DataOpens, SameTokens DEF Inv, ParseExecutorResultData
  <1>10. CASE ReadField
    BY <1>10, <1>t, FieldRead, SameTokens DEF Inv, ReadField
  <1>11. CASE ParseExecutorResultSign
    BY <1>11, <1>t, SignRead, SameTokens DEF Inv, ParseExecutorResultSign
  <1>12. CASE ReadFails
    <2>1. /\ \E failed \in BOOLEAN : Refuse(failed)
          /\ call.at # "idle" /\ UNCHANGED <<listed, lists, info, tokens>>
      BY <1>12 DEF ReadFails
    <2>2. Reading'
      BY <1>t, <2>1, Refuses
    <2>3. QED
      BY <1>t, <2>1, <2>2, SameTokens DEF Inv
  <1>13. CASE Check
    <2>1. /\ call.at = "check" /\ UNCHANGED <<listed, lists, info, tokens>>
          /\ call.level = "data"
      BY <1>13, <1>t DEF Check, Reading, Stages
    <2>2. CASE info.scheduleId = call.id /\ info.result = RESULT_SUCCESS /\ call.id \in listed
      <3>1. /\ call' = [call EXCEPT !.at = "verify", !.failed = call.failed]
            /\ call.failed \in BOOLEAN
        BY <1>13, <1>t, <2>2 DEF Check, CallType
      <3>2. Reading'
        BY <1>t, <1>a, <2>1, <2>2, <3>1, Goes
      <3>3. QED
        BY <1>t, <2>1, <3>2, SameTokens DEF Inv
    <2>3. CASE Refuse(FALSE)
      BY <1>t, <2>1, <2>3, Refuses, SameTokens DEF Inv
    <2>4. QED
      BY <1>13, <2>2, <2>3 DEF Check
  <1>14. CASE TokenDataGetAndSign
    BY <1>14, Signs DEF Inv
  <1>15. CASE NoPublicKey
    <2> DEFINE t == [id |-> call.id, signed |-> FALSE, scheduleId |-> call.id,
                     capabilityLevel |-> <<0>>, templateId |-> Zero64,
                     authSubType |-> Zero64]
    <2>1. /\ \E failed \in BOOLEAN : Refuse(failed)
          /\ call.at = "verify" /\ UNCHANGED <<listed, lists, info>>
          /\ tokens' = tokens \cup {t}
      BY <1>15 DEF NoPublicKey
    <2>2. t \in Token /\ ~t.signed
      BY <1>t, <2>1, UnsignedType
    <2> HIDE DEF t
    <2>3. Reading'
      BY <1>t, <2>1, <2>2, Refuses
    <2>4. TokenIsReported'
      BY <1>t, <2>1, <2>2, Unsigned
    <2>5. QED
      BY <2>3, <2>4 DEF Inv
  <1>16. CASE VerifyFails
    <2>1. /\ \E failed \in BOOLEAN : Refuse(failed)
          /\ call.at = "verify" /\ UNCHANGED <<listed, lists, info, tokens>>
      BY <1>16 DEF VerifyFails
    <2>2. Reading'
      BY <1>t, <2>1, Refuses
    <2>3. QED
      BY <1>t, <2>1, <2>2, SameTokens DEF Inv
  <1>17. CASE Exit
    BY <1>17, <1>t, Leaves, SameTokens DEF Inv, Exit
  <1>18. QED
    BY <1>0, <1>1, <1>2, <1>3, <1>4, <1>5, <1>6, <1>7, <1>8, <1>9, <1>10, <1>11, <1>12,
       <1>13, <1>14, <1>15, <1>16, <1>17 DEF Next

-----------------------------------------------------------------------------

\* The variables of ExecutorMessage keep their types: every field of the
\* ExecutorResultInfo is a number of its size, whatever the message holds.
THEOREM TypeCorrect == Spec => []TypeOK
  BY InitInv, NextInv, PTL DEF Spec, Inv, Reading

\* ParseTlvWrapper reads every cell of a buffer once, for every buffer.
THEOREM ListsTiled == Spec => []Tiled
  BY InitInv, NextInv, PTL DEF Spec, Inv, Reading

\* Every signed token says what the verifier of its schedule reported of it as a
\* success, for every message, every set of reports, and wherever memory runs out.
THEOREM TokensReported == Spec => []TokenIsReported
  BY InitInv, NextInv, PTL DEF Spec, Inv

-----------------------------------------------------------------------------
(* An honest message: what its lists are made of.                           *)

RootOf(r) == Entry(AUTH_DATA, DataOf(r)) \o Entry(AUTH_SIGNATURE, r.sign)

LEMMA ReportSigned ==
  ASSUME NEW r \in Reports
  PROVE  /\ r \in ReportType /\ r.key \in Keys
         /\ r.sign \in Seq(Nat) /\ Len(r.sign) \in Nat \ {0} /\ r.sign # <<>>
  <1>1. r.sign \in Buffers /\ r.sign # <<>> /\ r \in ReportType /\ r.key \in Keys
    BY ConstantsAssumption DEF ConstantsAssumption, ReportType
  <1>2. r.sign \in Seq(Nat) /\ Len(r.sign) \in Nat
    BY <1>1, CellsAreNumbers
  <1>3. Len(r.sign) # 0
    BY <1>1, <1>2
  <1>4. QED
    BY <1>1, <1>2, <1>3

LEMMA RootCells ==
  ASSUME NEW r \in Reports
  PROVE  LET d == DataOf(r)
             root == RootOf(r)
             n == Len(r.sign)
         IN
         /\ d \in Seq(Nat) /\ Len(d) = 18
         /\ root \in Seq(Nat) /\ Len(root) = 22 + n
         /\ root[1] = AUTH_DATA /\ root[2] = 18
         /\ \A j \in 1..18 : root[2 + j] = d[j]
         /\ root[21] = AUTH_SIGNATURE /\ root[22] = n
         /\ \A j \in 1..n : root[22 + j] = r.sign[j]
  <1> DEFINE d == DataOf(r)
             s == r.sign
             n == Len(s)
             e == Entry(AUTH_DATA, d)
             f == Entry(AUTH_SIGNATURE, s)
             root == RootOf(r)
  <1>1. /\ d \in Seq(Nat) /\ Len(d) = 18
        /\ s \in Seq(Nat) /\ n \in Nat
    BY ReportSigned, DataLayout DEF Layout
  <1>2. AUTH_DATA \in Nat /\ AUTH_SIGNATURE \in Nat
    BY DEF AUTH_DATA, AUTH_SIGNATURE
  <1>3. root = e \o f
    BY DEF RootOf
  <1> HIDE DEF d, s, n, e, f, root
  <1>4. /\ e \in Seq(Nat) /\ Len(e) = 2 + Len(d) /\ e[1] = AUTH_DATA /\ e[2] = Len(d)
        /\ \A i \in 3..2 + Len(d) : e[i] = d[i - 2]
    BY <1>1, <1>2, EntryCells DEF e
  <1>5. /\ f \in Seq(Nat) /\ Len(f) = 2 + n /\ f[1] = AUTH_SIGNATURE /\ f[2] = n
        /\ \A i \in 3..2 + n : f[i] = s[i - 2]
    BY <1>1, <1>2, EntryCells DEF f, n
  <1>6. /\ root \in Seq(Nat) /\ Len(root) = Len(e) + Len(f)
        /\ \A i \in 1..Len(e) + Len(f) :
             root[i] = IF i <= Len(e) THEN e[i] ELSE f[i - Len(e)]
    BY <1>3, <1>4, <1>5, Joined
  <1>7. Len(e) = 20 /\ Len(root) = 22 + n
    BY <1>1, <1>4, <1>5, <1>6
  <1>8. /\ \A i \in 1..20 : root[i] = e[i]
        /\ \A i \in 1..2 + n : root[20 + i] = f[i]
    <2>1. /\ Len(e) + Len(f) = 22 + n
          /\ \A i \in 1..22 + n : root[i] = IF i <= 20 THEN e[i] ELSE f[i - 20]
      BY <1>1, <1>5, <1>6, <1>7
    <2>2. \A i \in 1..20 : i \in 1..22 + n
      BY <1>1
    <2>3. ASSUME NEW i \in 1..2 + n
          PROVE  root[20 + i] = f[i]
      <3>1. 20 + i \in 1..22 + n /\ ~(20 + i <= 20) /\ (20 + i) - 20 = i
        BY <1>1
      <3>2. root[20 + i] = f[(20 + i) - 20]
        BY <2>1, <3>1
      <3>3. QED
        BY <3>1, <3>2
    <2>4. QED
      BY <2>1, <2>2, <2>3
  <1>9. root[1] = AUTH_DATA /\ root[2] = 18
    BY <1>1, <1>4, <1>8
  <1>10. root[21] = AUTH_SIGNATURE /\ root[22] = n
    <2>1. root[20 + 1] = f[1] /\ root[20 + 2] = f[2]
      BY <1>1, <1>8
    <2>2. QED
      BY <1>5, <2>1
  <1>11. ASSUME NEW j \in 1..18
         PROVE  root[2 + j] = d[j]
    <2>1. 2 + j \in 1..20 /\ 2 + j \in 3..2 + Len(d) /\ (2 + j) - 2 = j
      BY <1>1
    <2>2. QED
      BY <1>4, <1>8, <2>1
  <1>12. ASSUME NEW j \in 1..n
         PROVE  root[22 + j] = s[j]
    <2>1. 2 + j \in 1..2 + n /\ 2 + j \in 3..2 + n /\ (2 + j) - 2 = j /\ 20 + (2 + j) = 22 + j
      BY <1>1
    <2>2. root[20 + (2 + j)] = f[2 + j] /\ f[2 + j] = s[(2 + j) - 2]
      BY <1>5, <1>8, <2>1
    <2>3. QED
      BY <2>1, <2>2
  <1>13. QED
    BY <1>1, <1>6, <1>7, <1>9, <1>10, <1>11, <1>12 DEF d, s, n, root

LEMMA MessageCells ==
  ASSUME NEW r \in Reports
  PROVE  LET root == RootOf(r)
             m == MessageOf(r)
         IN
         /\ root \in Seq(Nat) /\ Len(root) \in Nat \ {0}
         /\ m \in Seq(Nat) /\ Len(m) = 2 + Len(root)
         /\ m[1] = AUTH_ROOT /\ m[2] = Len(root)
         /\ \A j \in 1..Len(root) : m[2 + j] = root[j]
  <1> DEFINE root == RootOf(r)
             m == MessageOf(r)
  <1>1. root \in Seq(Nat) /\ Len(root) \in Nat \ {0}
    <2>1. root \in Seq(Nat) /\ Len(root) = 22 + Len(r.sign)
      BY RootCells
    <2>2. Len(r.sign) \in Nat
      BY ReportSigned
    <2>3. QED
      BY <2>1, <2>2
  <1>2. AUTH_ROOT \in Nat /\ m = Entry(AUTH_ROOT, root)
    BY DEF AUTH_ROOT, MessageOf, RootOf
  <1> HIDE DEF root, m
  <1>3. /\ m \in Seq(Nat) /\ Len(m) = 2 + Len(root) /\ m[1] = AUTH_ROOT /\ m[2] = Len(root)
        /\ \A i \in 3..2 + Len(root) : m[i] = root[i - 2]
    BY <1>1, <1>2, EntryCells
  <1>4. ASSUME NEW j \in 1..Len(root)
        PROVE  m[2 + j] = root[j]
    <2>1. 2 + j \in 3..2 + Len(root) /\ (2 + j) - 2 = j
      BY <1>1
    <2>2. QED
      BY <1>3, <2>1
  <1>5. QED
    BY <1>1, <1>3, <1>4 DEF root, m

\* From end to end: where the nodes of a buffer that is all nodes meet.
Cuts(buf, ends) ==
  /\ 0 \in ends
  /\ \A b \in ends : b \in 0..Len(buf)
  /\ \A b \in ends : b < Len(buf) =>
       b + 2 <= Len(buf) /\ buf[b + 2] \in Nat /\ b + 2 + buf[b + 2] \in ends

\* Nothing stops the loop of ParseTlvWrapper before the end of the buffer.
Whole(list) == \E ends : Cuts(list.buf, ends) /\ list.offset \in ends

LEMMA MessageWhole ==
  ASSUME NEW r \in Reports
  PROVE  /\ \E ends : Cuts(MessageOf(r), ends)
         /\ \E ends : Cuts(RootOf(r), ends)
         /\ \E ends : Cuts(DataOf(r), ends)
  <1>1. Cuts(MessageOf(r), {0, Len(MessageOf(r))})
    <2> DEFINE m == MessageOf(r)
               n == Len(RootOf(r))
    <2>1. n \in Nat \ {0} /\ Len(m) = 2 + n /\ m[2] = n
      BY MessageCells
    <2> HIDE DEF m, n
    <2>2. Cuts(m, {0, Len(m)})
      BY <2>1 DEF Cuts
    <2>3. QED
      BY <2>2 DEF m
  <1>2. Cuts(RootOf(r), {0, 20, Len(RootOf(r))})
    <2> DEFINE root == RootOf(r)
               n == Len(r.sign)
    <2>1. n \in Nat \ {0} /\ Len(root) = 22 + n /\ root[2] = 18 /\ root[22] = n
      BY RootCells, ReportSigned
    <2> HIDE DEF root, n
    <2>2. Cuts(root, {0, 20, Len(root)})
      BY <2>1 DEF Cuts
    <2>3. QED
      BY <2>2 DEF root
  <1>3. Cuts(DataOf(r), {0, 3, 7, 11, 14, 18})
    <2> DEFINE d == DataOf(r)
    <2>1. /\ Len(d) = 18 /\ d[2] = 1 /\ d[5] = 2 /\ d[9] = 2 /\ d[13] = 1 /\ d[16] = 2
      BY ReportSigned, DataLayout DEF Layout
    <2> HIDE DEF d
    <2>2. Cuts(d, {0, 3, 7, 11, 14, 18})
      BY <2>1 DEF Cuts
    <2>3. QED
      BY <2>2 DEF d
  <1>4. QED
    BY <1>1, <1>2, <1>3

LEMMA WholeFits ==
  ASSUME NEW list \in List, Whole(list), list.offset < Len(list.buf)
  PROVE  /\ HeaderFits(list.buf, list.offset) /\ BodyFits(list.buf, list.offset)
         /\ \E ends : /\ Cuts(list.buf, ends)
                      /\ list.offset + 2 + list.buf[list.offset + 2] \in ends
  <1> DEFINE b == list.offset
             n == list.buf[b + 2]
             l == Len(list.buf)
  <1>1. b \in Nat /\ l \in Nat
    BY CellsAreNumbers DEF List
  <1>2. PICK ends : Cuts(list.buf, ends) /\ b \in ends
    BY DEF Whole
  <1>3. b + 2 <= l /\ n \in Nat /\ b + 2 + n \in ends /\ b + 2 + n \in 0..l
    BY <1>2 DEF Cuts
  <1> HIDE DEF n, l
  <1>4. n <= l - (b + 2) /\ l - b >= 2
    BY <1>1, <1>3
  <1>5. QED
    BY <1>2, <1>3, <1>4 DEF HeaderFits, BodyFits, Length, Header, n, l

\* At this offset a buffer has an entry.
EntryAt(buf, b, tag, v) ==
  /\ buf[b + 1] = tag /\ buf[b + 2] = Len(v)
  /\ \A j \in 1..Len(v) : buf[b + 2 + j] = v[j]

\* Node k is the first of its tag.
FirstAt(nodes, tag, k) ==
  k \in 1..Len(nodes) /\ nodes[k].tag = tag /\ \A j \in 1..k - 1 : nodes[j].tag # tag

\* The entry at offset b becomes node k.
LEMMA NextBuffer ==
  ASSUME NEW list \in List, TilesBuffer(list), list.offset = Len(list.buf),
         NEW k \in Nat \ {0}, NEW b \in Nat, At(list, k, b), b < Len(list.buf),
         NEW v \in Seq(Nat), NEW tag, EntryAt(list.buf, b, tag, v)
  PROVE  /\ k \in 1..Len(list.nodes)
         /\ list.nodes[k].tag = tag
         /\ list.nodes[k].value = v
         /\ At(list, k + 1, b + 2 + Len(v))
  <1> DEFINE w == list.nodes[k].value
  <1>1. /\ list.buf[b + 2] \in Nat /\ list.buf[b + 2] = Len(v) /\ list.buf[b + 1] = tag
        /\ \A j \in 1..Len(v) : list.buf[b + 2 + j] = v[j]
    BY DEF EntryAt
  <1>2. /\ k \in 1..Len(list.nodes)
        /\ list.nodes[k].tag = list.buf[b + 1]
        /\ w \in Seq(Nat) /\ Len(w) = list.buf[b + 2]
        /\ \A j \in 1..list.buf[b + 2] : w[j] = list.buf[b + 2 + j]
        /\ Begins(list.nodes, k + 1) = b + 2 + list.buf[b + 2]
    BY <1>1, NextNode DEF At
  <1> HIDE DEF w
  <1>3. w = v
    <2>1. Len(w) = Len(v) /\ \A j \in 1..Len(v) : w[j] = v[j]
      BY <1>1, <1>2
    <2>2. QED
      BY <1>2, <2>1, SeqEqual
  <1>4. At(list, k + 1, b + 2 + Len(v))
    BY <1>1, <1>2 DEF At
  <1>5. QED
    BY <1>1, <1>2, <1>3, <1>4 DEF w

\* The first node of its tag is what GetBuffPara finds.
LEMMA FirstBuffer ==
  ASSUME NEW nodes \in Seq(Nodes), NEW tag, NEW k, FirstAt(nodes, tag, k),
         NEW v \in Seq(Nat), nodes[k].value = v, v # <<>>
  PROVE  HasBuff(nodes, tag) /\ Para(nodes, tag) = v
  <1>1. FirstWith(nodes, tag) = k
    BY FirstIs DEF FirstAt
  <1>2. k \in Tagged(nodes, tag)
    BY DEF Tagged, FirstAt
  <1>3. QED
    BY <1>1, <1>2 DEF HasBuff, Para

LEMMA MessageRead ==
  ASSUME NEW r \in Reports, NEW list \in List, TilesBuffer(list),
         list.buf = MessageOf(r), list.offset = Len(list.buf)
  PROVE  HasBuff(list.nodes, AUTH_ROOT) /\ Para(list.nodes, AUTH_ROOT) = RootOf(r)
  <1> DEFINE root == RootOf(r)
             nodes == list.nodes
  <1>1. /\ root \in Seq(Nat) /\ Len(root) \in Nat \ {0} /\ Len(list.buf) = 2 + Len(root)
        /\ EntryAt(list.buf, 0, AUTH_ROOT, root)
    BY MessageCells DEF EntryAt
  <1>2. At(list, 1, 0) /\ nodes \in Seq(Nodes)
    BY DEF At, Begins, List
  <1> HIDE DEF root
  <1>3. root # <<>> /\ 0 < Len(list.buf)
    BY <1>1
  <1>4. 1 \in 1..Len(nodes) /\ nodes[1].tag = AUTH_ROOT /\ nodes[1].value = root
    <2> DEFINE k == 1
               b == 0
    <2>1. At(list, k, b) /\ k \in Nat \ {0} /\ b \in Nat /\ b < Len(list.buf)
      BY <1>2, <1>3
    <2>2. EntryAt(list.buf, b, AUTH_ROOT, root)
      BY <1>1
    <2> HIDE DEF k, b
    <2>3. k \in 1..Len(nodes) /\ nodes[k].tag = AUTH_ROOT /\ nodes[k].value = root
      BY <1>1, <2>1, <2>2, NextBuffer
    <2>4. QED
      BY <2>3 DEF k
  <1> HIDE DEF nodes
  <1>5. FirstAt(nodes, AUTH_ROOT, 1)
    BY <1>4 DEF FirstAt
  <1>6. HasBuff(nodes, AUTH_ROOT) /\ Para(nodes, AUTH_ROOT) = root
    BY <1>1, <1>2, <1>3, <1>4, <1>5, FirstBuffer
  <1>7. QED
    BY <1>6 DEF root, nodes

LEMMA RootRead ==
  ASSUME NEW r \in Reports, NEW list \in List, TilesBuffer(list),
         list.buf = RootOf(r), list.offset = Len(list.buf)
  PROVE  /\ HasBuff(list.nodes, AUTH_DATA) /\ Para(list.nodes, AUTH_DATA) = DataOf(r)
         /\ HasBuff(list.nodes, AUTH_SIGNATURE) /\ Para(list.nodes, AUTH_SIGNATURE) = r.sign
  <1> DEFINE d == DataOf(r)
             s == r.sign
             nodes == list.nodes
             buf == list.buf
  <1>1. s \in Seq(Nat) /\ Len(s) \in Nat \ {0} /\ s # <<>>
    BY ReportSigned
  <1>2. d \in Seq(Nat) /\ Len(d) = 18 /\ Len(buf) = 22 + Len(s)
    BY RootCells
  <1>3. EntryAt(buf, 0, AUTH_DATA, d)
    <2>1. buf[1] = AUTH_DATA /\ buf[2] = 18 /\ \A j \in 1..18 : buf[2 + j] = d[j]
      BY RootCells
    <2> HIDE DEF d, buf
    <2>2. QED
      BY <1>2, <2>1 DEF EntryAt
  <1>4. EntryAt(buf, 20, AUTH_SIGNATURE, s)
    <2>1. /\ buf[21] = AUTH_SIGNATURE /\ buf[22] = Len(s)
          /\ \A j \in 1..Len(s) : buf[22 + j] = s[j]
      BY RootCells
    <2> HIDE DEF s, buf
    <2>2. QED
      BY <1>1, <2>1 DEF EntryAt
  <1>5. At(list, 1, 0) /\ nodes \in Seq(Nodes)
    BY DEF At, Begins, List
  <1>6. AUTH_DATA # AUTH_SIGNATURE
    BY DEF AUTH_DATA, AUTH_SIGNATURE
  <1> HIDE DEF d, s
  <1>7. 0 < Len(buf) /\ 20 < Len(buf)
    BY <1>1, <1>2
  <1>0. d # <<>> /\ d \in Seq(Nat) /\ Len(d) \in Nat
    <2>1. Len(<<>>) = 0
      OBVIOUS
    <2>2. Len(d) # 0 /\ d \in Seq(Nat) /\ Len(d) \in Nat
      BY <1>2
    <2> HIDE DEF buf, nodes
    <2>3. QED
      BY <2>1, <2>2
  <1>8. /\ 1 \in 1..Len(nodes) /\ nodes[1].tag = AUTH_DATA /\ nodes[1].value = d
        /\ At(list, 1 + 1, 0 + 2 + Len(d))
    <2> DEFINE k == 1
               b == 0
    <2>1. At(list, k, b) /\ k \in Nat \ {0} /\ b \in Nat /\ b < Len(buf)
      BY <1>5, <1>7
    <2>2. EntryAt(buf, b, AUTH_DATA, d)
      BY <1>3
    <2> HIDE DEF k, b
    <2>3. /\ k \in 1..Len(nodes) /\ nodes[k].tag = AUTH_DATA /\ nodes[k].value = d
          /\ At(list, k + 1, b + 2 + Len(d))
      BY <1>0, <2>1, <2>2, NextBuffer
    <2>4. QED
      BY <2>3 DEF k, b
  <1>9. At(list, 2, 20)
    BY <1>2, <1>8
  <1>10. 2 \in 1..Len(nodes) /\ nodes[2].tag = AUTH_SIGNATURE /\ nodes[2].value = s
    <2> DEFINE k == 2
               b == 20
    <2>1. At(list, k, b) /\ k \in Nat \ {0} /\ b \in Nat /\ b < Len(buf)
      BY <1>7, <1>9
    <2>2. EntryAt(buf, b, AUTH_SIGNATURE, s)
      BY <1>4
    <2> HIDE DEF k, b
    <2>3. k \in 1..Len(nodes) /\ nodes[k].tag = AUTH_SIGNATURE /\ nodes[k].value = s
      BY <1>1, <2>1, <2>2, NextBuffer
    <2>4. QED
      BY <2>3 DEF k
  <1> HIDE DEF nodes, buf
  <1>11. FirstAt(nodes, AUTH_DATA, 1) /\ FirstAt(nodes, AUTH_SIGNATURE, 2)
    BY <1>6, <1>8, <1>10 DEF FirstAt
  <1>12. HasBuff(nodes, AUTH_DATA) /\ Para(nodes, AUTH_DATA) = d
    BY <1>0, <1>2, <1>5, <1>8, <1>11, FirstBuffer
  <1>13. HasBuff(nodes, AUTH_SIGNATURE) /\ Para(nodes, AUTH_SIGNATURE) = s
    BY <1>1, <1>5, <1>10, <1>11, FirstBuffer
  <1>14. QED
    BY <1>12, <1>13 DEF d, s, nodes

LEMMA DataRead ==
  ASSUME NEW r \in Reports, NEW list \in List, TilesBuffer(list),
         list.buf = DataOf(r), list.offset = Len(list.buf), NEW i \in 1..5
  PROVE  HasPara(list.nodes, Fields[i].tag, Fields[i].size)
  <1> DEFINE n == list.nodes
  <1>1. r \in ReportType
    BY ReportSigned
  <1>2. /\ Para(n, AUTH_CAPABILITY_LEVEL) = r.level
        /\ Para(n, AUTH_TEMPLATE_ID) = r.template
        /\ Para(n, AUTH_SUBTYPE) = r.subType
        /\ Para(n, AUTH_RESULT_CODE) = r.result
        /\ Para(n, AUTH_SCHEDULE_ID) = r.id
        /\ \A tag \in Reported : Tagged(n, tag) # {}
    BY <1>1, Decoded
  <1>3. /\ Len(r.level) = 1 /\ Len(r.result) = 1
        /\ Len(r.template) = 2 /\ Len(r.subType) = 2 /\ Len(r.id) = 2
    BY <1>1, OneCell, TwoCells DEF ReportType
  <1> HIDE DEF n
  <1>4. /\ HasPara(n, AUTH_CAPABILITY_LEVEL, 1) /\ HasPara(n, AUTH_TEMPLATE_ID, 2)
        /\ HasPara(n, AUTH_SUBTYPE, 2) /\ HasPara(n, AUTH_RESULT_CODE, 1)
        /\ HasPara(n, AUTH_SCHEDULE_ID, 2)
    BY <1>2, <1>3 DEF HasPara, Para, Reported
  <1>5. /\ Fields[1].tag = AUTH_CAPABILITY_LEVEL /\ Fields[1].size = 1
        /\ Fields[2].tag = AUTH_TEMPLATE_ID /\ Fields[2].size = 2
        /\ Fields[3].tag = AUTH_SUBTYPE /\ Fields[3].size = 2
        /\ Fields[4].tag = AUTH_RESULT_CODE /\ Fields[4].size = 1
        /\ Fields[5].tag = AUTH_SCHEDULE_ID /\ Fields[5].size = 2
    BY DEF Fields
  <1>6. i = 1 \/ i = 2 \/ i = 3 \/ i = 4 \/ i = 5
    OBVIOUS
  <1>7. QED
    BY <1>4, <1>5, <1>6 DEF n

-----------------------------------------------------------------------------
(* An honest call, as long as memory lasts.                                 *)

\* It is about a message of the verifier of a schedule that is still listed.
Honest(r) ==
  /\ call.at # "idle" /\ ~call.failed
  /\ lists["message"].buf = MessageOf(r)
  /\ r.id = call.id /\ r.key = KeyOf[call.id] /\ r.result = RESULT_SUCCESS
  /\ call.id \in listed

\* How far it has come: every list that is open is what the verifier wrote, is
\* read to its end before the next is opened, and the fields and the sign follow.
AsReported(r) ==
  /\ Whole(lists["message"])
  /\ call.level # "message" => lists["root"].buf = RootOf(r) /\ Whole(lists["root"])
  /\ call.level = "data" =>
       /\ lists["data"].buf = DataOf(r) /\ Whole(lists["data"])
       /\ lists["root"].offset = Len(lists["root"].buf)
  /\ call.at = "read" => Current.offset = Len(Current.buf)
  /\ call.at \in {"sign", "check", "verify"} => call.field = 6
  /\ call.at \in {"check", "verify"} => info.sign = r.sign
  /\ call.at = "exit" => \E t \in tokens : t.id = r.id /\ t.signed /\ t.templateId = r.template

HonestInv == \A r \in Reports : Honest(r) => AsReported(r)

\* Whatever an honest call looks for it finds, and what it has read is right.
LEMMA ReadsAsReported ==
  ASSUME Reading, NEW r \in Reports, Honest(r), AsReported(r)
  PROVE  /\ call.at = "read" /\ call.level = "message" =>
              /\ HasBuff(lists["message"].nodes, AUTH_ROOT)
              /\ Para(lists["message"].nodes, AUTH_ROOT) = RootOf(r)
         /\ call.at = "read" /\ call.level = "root" =>
              /\ HasBuff(lists["root"].nodes, AUTH_DATA)
              /\ Para(lists["root"].nodes, AUTH_DATA) = DataOf(r)
         /\ call.level = "data" =>
              /\ HasBuff(lists["root"].nodes, AUTH_SIGNATURE)
              /\ Para(lists["root"].nodes, AUTH_SIGNATURE) = r.sign
         /\ call.at = "read" /\ call.level = "data" =>
              HasPara(lists["data"].nodes, Fields[call.field].tag, Fields[call.field].size)
         /\ call.at \in {"check", "verify"} =>
              /\ info.scheduleId = r.id /\ info.result = r.result
              /\ info.templateId = r.template
              /\ info.data = DataOf(r) /\ info.sign = r.sign
  <1> DEFINE message == lists["message"]
             root == lists["root"]
             data == lists["data"]
  <1>1. /\ message \in List /\ root \in List /\ data \in List
        /\ TilesBuffer(message) /\ TilesBuffer(root) /\ TilesBuffer(data)
        /\ call \in CallType
    BY DEF Reading, TypeOK, Tiled, Levels, List, CallType
  <1>2. message.buf = MessageOf(r)
    BY DEF Honest
  <1>3. call.at = "read" => lists[call.level].offset = Len(lists[call.level].buf)
    BY DEF AsReported, Current
  <1>4. call.level # "message" => root.buf = RootOf(r)
    BY DEF AsReported
  <1>5. call.level = "data" => data.buf = DataOf(r) /\ root.offset = Len(root.buf)
    BY DEF AsReported
  <1> HIDE DEF message, root, data
  <1>6. ASSUME call.at = "read", call.level = "message"
        PROVE  HasBuff(message.nodes, AUTH_ROOT) /\ Para(message.nodes, AUTH_ROOT) = RootOf(r)
    <2>1. message.offset = Len(message.buf)
      BY <1>3, <1>6 DEF message
    <2>2. QED
      BY <1>1, <1>2, <2>1, MessageRead
  <1>7. ASSUME call.at = "read", call.level = "root"
        PROVE  HasBuff(root.nodes, AUTH_DATA) /\ Para(root.nodes, AUTH_DATA) = DataOf(r)
    <2>1. root.offset = Len(root.buf)
      BY <1>3, <1>7 DEF root
    <2>2. QED
      BY <1>1, <1>4, <1>7, <2>1, RootRead
  <1>8. ASSUME call.level = "data"
        PROVE  /\ HasBuff(root.nodes, AUTH_SIGNATURE)
               /\ Para(root.nodes, AUTH_SIGNATURE) = r.sign
    <2>1. root.offset = Len(root.buf) /\ root.buf = RootOf(r)
      BY <1>4, <1>5, <1>8
    <2>2. QED
      BY <1>1, <2>1, RootRead
  <1>9. ASSUME call.at = "read", call.level = "data"
        PROVE  HasPara(data.nodes, Fields[call.field].tag, Fields[call.field].size)
    <2>1. data.offset = Len(data.buf) /\ data.buf = DataOf(r)
      BY <1>3, <1>5, <1>9 DEF data
    <2>2. call.field \in 1..5
      <3>1. call.field \in 1..6 /\ call.field # 6
        BY <1>1, <1>9, FieldsLength DEF CallType, Reading, Stages
      <3>2. QED
        BY <3>1
    <2>3. QED
      BY <1>1, <2>1, <2>2, DataRead
  <1>10. ASSUME call.at \in {"check", "verify"}
         PROVE  /\ info.scheduleId = r.id /\ info.result = r.result
                /\ info.templateId = r.template
                /\ info.data = DataOf(r) /\ info.sign = r.sign
    <2>1. call.level = "data" /\ call.field = 6 /\ info.sign = r.sign
      BY <1>10 DEF Reading, Stages, AsReported
    <2>2. /\ info.data = data.buf /\ data.offset = Len(data.buf)
          /\ info.templateId = Para(data.nodes, AUTH_TEMPLATE_ID)
          /\ info.result = Para(data.nodes, AUTH_RESULT_CODE)
          /\ info.scheduleId = Para(data.nodes, AUTH_SCHEDULE_ID)
      BY <2>1 DEF Reading, FieldsRead, data
    <2>3. data.buf = DataOf(r) /\ r \in ReportType
      BY <1>5, <2>1, ReportSigned
    <2>4. /\ Para(data.nodes, AUTH_TEMPLATE_ID) = r.template
          /\ Para(data.nodes, AUTH_RESULT_CODE) = r.result
          /\ Para(data.nodes, AUTH_SCHEDULE_ID) = r.id
      BY <1>1, <2>2, <2>3, Decoded
    <2>5. QED
      BY <2>1, <2>2, <2>3, <2>4
  <1>11. QED
    BY <1>6, <1>7, <1>8, <1>9, <1>10 DEF message, root, data

\* The list that an honest call is reading goes on to its end.
LEMMA CurrentWhole ==
  ASSUME Reading, NEW r \in Reports, AsReported(r)
  PROVE  Whole(Current) /\ Current \in List /\ TilesBuffer(Current) /\ call.level \in Levels
  <1>1. call.level \in Levels
    BY DEF Reading, TypeOK
  <1>2. Current \in List /\ TilesBuffer(Current)
    BY <1>1 DEF Reading, TypeOK, Tiled, List, Current
  <1>3. Whole(Current)
    BY <1>1 DEF AsReported, Current, Levels
  <1>4. QED
    BY <1>1, <1>2, <1>3

LEMMA HonestParses ==
  ASSUME Reading, NEW r \in Reports, AsReported(r), ParseNode
  PROVE  AsReported(r)'
  <1> DEFINE list == lists[call.level]
             node == PutTlvObject(list.buf, list.offset)
             next == [list EXCEPT !.nodes = Append(list.nodes, node), !.offset = NodeEnd(node)]
  <1>1. /\ list \in List /\ Whole(list) /\ call.level \in Levels
        /\ lists \in [Levels -> List]
    BY CurrentWhole DEF Current, Reading, TypeOK, List
  <1>2. /\ call.at = "parse" /\ list.offset < Len(list.buf)
        /\ lists' = [lists EXCEPT ![call.level] = next]
        /\ UNCHANGED <<listed, call, info, tokens>>
    BY <1>1 DEF ParseNode, Current
  <1>3. HeaderFits(list.buf, list.offset) /\ BodyFits(list.buf, list.offset)
    BY DEF ParseNode, Current
  <1>4. next.buf = list.buf /\ next.offset = NodeEnd(node)
    BY <1>1 DEF List
  <1>5. NodeEnd(node) = list.offset + 2 + list.buf[list.offset + 2]
    <2>1. list.buf \in Buffers /\ list.offset \in Nat
      BY <1>1 DEF List
    <2>2. QED
      BY <1>2, <1>3, <2>1, CopiedNode
  <1>6. Whole(next)
    <2>1. PICK ends : /\ Cuts(list.buf, ends)
                      /\ list.offset + 2 + list.buf[list.offset + 2] \in ends
      BY <1>1, <1>2, WholeFits
    <2> HIDE DEF next, node, list
    <2>2. QED
      BY <1>4, <1>5, <2>1 DEF Whole
  <1> HIDE DEF next, node
  <1>7. \A l \in Levels : Whole(lists[l]) => Whole(lists'[l])
    BY <1>1, <1>2, <1>6
  <1>8. \A l \in Levels : lists'[l].buf = lists[l].buf
    BY <1>1, <1>2, <1>4
  <1>9. call.level = "data" => lists'["root"] = lists["root"]
    BY <1>1, <1>2 DEF Levels
  <1>10. QED
    BY <1>2, <1>7, <1>8, <1>9 DEF AsReported, Levels

\* A step of a call that goes on: what is honest after it was so before.
GoesOn ==
  /\ call.at # "idle" /\ call'.id = call.id /\ (call.failed => call'.failed)
  /\ lists'["message"].buf = lists["message"].buf /\ UNCHANGED listed

LEMMA HonestBefore ==
  ASSUME GoesOn, NEW r \in Reports, Honest(r)'
  PROVE  Honest(r)
  BY DEF GoesOn, Honest

\* A new call: its message may be any, and is honest only if a verifier's.
LEMMA HonestStarts ==
  ASSUME Reading, NEW id \in ScheduleIds, NEW msg \in Messages, GetScheduleToken(id, msg),
         NEW r \in Reports, Honest(r)'
  PROVE  AsReported(r)'
  <1>1. /\ call'.at = "list" /\ call'.level = "message"
        /\ lists' = [lists EXCEPT !["message"].buf = msg]
    BY DEF GetScheduleToken
  <1>2. /\ lists \in [Levels -> List] /\ lists["message"] = EmptyList
        /\ "message" \in Levels
    BY DEF Reading, TypeOK, Stages, List, Levels, GetScheduleToken
  <1>3. lists'["message"].buf = msg /\ lists'["message"].offset = 0
    BY <1>1, <1>2 DEF EmptyList
  <1>4. msg = MessageOf(r)
    BY <1>3 DEF Honest
  <1>5. Whole(lists'["message"])
    <2>1. PICK ends : Cuts(MessageOf(r), ends)
      BY MessageWhole
    <2>2. 0 \in ends
      BY <2>1 DEF Cuts
    <2>3. QED
      BY <1>3, <1>4, <2>1, <2>2 DEF Whole
  <1>6. QED
    BY <1>1, <1>5 DEF AsReported

\* The list of AUTH_ROOT is opened on what the verifier wrote there.
LEMMA HonestRoot ==
  ASSUME Reading, NEW r \in Reports, Honest(r), AsReported(r), ParseRoot
  PROVE  AsReported(r)'
  <1>1. /\ Opens("message", "root", AUTH_ROOT)
        /\ call.at = "read" /\ call.level = "message"
        /\ "message" \in Levels /\ "root" \in Levels /\ lists["root"] = EmptyList
    BY DEF ParseRoot, Opens, Levels, Reading, Stages
  <1>2. /\ lists'["root"].buf = Para(lists["message"].nodes, AUTH_ROOT)
        /\ lists'["root"].offset = 0
        /\ \A l \in Levels \ {"root"} : lists'[l] = lists[l]
        /\ call'.at = "list" /\ call'.level = "root"
    BY <1>1, OpensTiled
  <1>3. lists'["root"].buf = RootOf(r)
    BY <1>1, <1>2, ReadsAsReported
  <1>4. Whole(lists'["root"])
    <2>1. PICK ends : Cuts(RootOf(r), ends)
      BY MessageWhole
    <2>2. 0 \in ends
      BY <2>1 DEF Cuts
    <2>3. QED
      BY <1>2, <1>3, <2>1, <2>2 DEF Whole
  <1>5. lists'["message"] = lists["message"]
    BY <1>2 DEF Levels
  <1>6. QED
    BY <1>2, <1>3, <1>4, <1>5 DEF AsReported

\* And so is that of AUTH_DATA, with the list of AUTH_ROOT read to its end.
LEMMA HonestData ==
  ASSUME Reading, NEW r \in Reports, Honest(r), AsReported(r), ParseExecutorResultData
  PROVE  AsReported(r)'
  <1>1. /\ Opens("root", "data", AUTH_DATA)
        /\ call.at = "read" /\ call.level = "root"
        /\ "data" \in Levels /\ "root" \in Levels /\ lists["data"] = EmptyList
    BY DEF ParseExecutorResultData, Opens, Levels, Reading, Stages
  <1>2. /\ lists'["data"].buf = Para(lists["root"].nodes, AUTH_DATA)
        /\ lists'["data"].offset = 0
        /\ \A l \in Levels \ {"data"} : lists'[l] = lists[l]
        /\ call'.at = "list" /\ call'.level = "data"
    BY <1>1, OpensTiled
  <1>3. lists'["data"].buf = DataOf(r)
    BY <1>1, <1>2, ReadsAsReported
  <1>4. Whole(lists'["data"])
    <2>1. PICK ends : Cuts(DataOf(r), ends)
      BY MessageWhole
    <2>2. 0 \in ends
      BY <2>1 DEF Cuts
    <2>3. QED
      BY <1>2, <1>3, <2>1, <2>2 DEF Whole
  <1>5. lists'["message"] = lists["message"] /\ lists'["root"] = lists["root"]
    BY <1>2 DEF Levels
  <1>6. /\ lists["root"].buf = RootOf(r) /\ Whole(lists["root"])
        /\ lists["root"].offset = Len(lists["root"].buf)
    BY <1>1 DEF AsReported, Current
  <1>7. QED
    BY <1>2, <1>3, <1>4, <1>5, <1>6 DEF AsReported

\* Nothing of an honest message makes a reader give up.
LEMMA HonestFound ==
  ASSUME Reading, NEW r \in Reports, Honest(r), AsReported(r), ParseFails \/ ReadFails
  PROVE  call'.failed
  <1>1. call \in CallType
    BY DEF Reading, TypeOK, CallType
  <1>2. ASSUME Refuse(TRUE)
        PROVE  call'.failed
    BY <1>1, <1>2 DEF Refuse, CallType
  <1>3. ASSUME ParseFails
        PROVE  call'.failed
    <2>1. Current.offset < Len(Current.buf)
      BY <1>3 DEF ParseFails
    <2>2. HeaderFits(Current.buf, Current.offset) /\ BodyFits(Current.buf, Current.offset)
      BY <2>1, CurrentWhole, WholeFits
    <2>3. QED
      BY <1>2, <1>3, <2>2 DEF ParseFails
  <1>4. ASSUME ReadFails
        PROVE  call'.failed
    <2>1. call.at = "sign" => call.level = "data"
      BY DEF Reading, Stages
    <2>2. call.level \in Levels
      BY <1>1 DEF CallType
    <2>3. /\ call.at = "sign" => HasBuff(lists["root"].nodes, AUTH_SIGNATURE)
          /\ call.at = "read" /\ call.level = "message" =>
               HasBuff(lists["message"].nodes, AUTH_ROOT)
          /\ call.at = "read" /\ call.level = "root" => HasBuff(lists["root"].nodes, AUTH_DATA)
          /\ call.at = "read" /\ call.level = "data" =>
               HasPara(lists["data"].nodes, Fields[call.field].tag, Fields[call.field].size)
      BY <2>1, ReadsAsReported
    <2>4. CASE call.at = "sign"
      <3> DEFINE found == HasBuff(lists["root"].nodes, AUTH_SIGNATURE)
      <3>1. found
        BY <2>3, <2>4
      <3> HIDE DEF found
      <3>2. \/ ~found /\ Refuse(FALSE)
            \/ found /\ Refuse(TRUE)
        BY <1>4, <2>1, <2>4 DEF ReadFails, found
      <3>3. QED
        BY <1>2, <3>1, <3>2
    <2>5. CASE call.at = "read" /\ call.level = "message"
      BY <1>2, <1>4, <2>3, <2>5 DEF ReadFails, Current
    <2>6. CASE call.at = "read" /\ call.level = "root"
      BY <1>2, <1>4, <2>3, <2>6 DEF ReadFails, Current
    <2>7. CASE call.at = "read" /\ call.level = "data"
      <3> DEFINE found == HasPara(Current.nodes, Fields[call.field].tag, Fields[call.field].size)
      <3>1. found
        BY <2>3, <2>7 DEF Current
      <3> HIDE DEF found
      <3>2. \/ ~found /\ Refuse(FALSE)
            \/ found /\ Refuse(TRUE)
        <4>1. call.at # "sign" /\ call.level # "message" /\ call.level # "root"
          BY <2>7
        <4>2. QED
          BY <1>4, <4>1 DEF ReadFails, found
      <3>3. QED
        BY <1>2, <3>1, <3>2
    <2>8. QED
      BY <1>4, <2>2, <2>4, <2>5, <2>6, <2>7 DEF ReadFails, Levels
  <1>5. QED
    BY <1>3, <1>4

\* Check and Ed25519Verify pass, and the token is the one reported.
LEMMA HonestChecked ==
  ASSUME Reading, NEW r \in Reports, Honest(r), AsReported(r), call.at = "check"
  PROVE  info.scheduleId = call.id /\ info.result = RESULT_SUCCESS /\ call.id \in listed
  BY ReadsAsReported DEF Honest

LEMMA HonestVerified ==
  ASSUME Reading, NEW r \in Reports, Honest(r), AsReported(r), call.at = "verify"
  PROVE  /\ Ed25519Verify /\ KeyOf[call.id] # NoKey
         /\ TokenOf(TRUE).id = r.id /\ TokenOf(TRUE).signed
         /\ TokenOf(TRUE).templateId = r.template
  <1>1. info.data = DataOf(r) /\ info.sign = r.sign /\ info.templateId = r.template
    BY ReadsAsReported
  <1>2. r.key = KeyOf[call.id] /\ r.id = call.id
    BY DEF Honest
  <1>3. r.key # NoKey
    BY ReportSigned, ConstantsAssumption DEF ConstantsAssumption
  <1>4. QED
    BY <1>1, <1>2, <1>3 DEF Ed25519Verify, TokenOf

LEMMA HonestStep ==
  ASSUME Reading, HonestInv, Next, NEW r \in Reports, Honest(r)'
  PROVE  AsReported(r)'
  <1>t. call \in CallType /\ lists \in [Levels -> List]
    BY DEF Reading, TypeOK, CallType, List
  <1>b. GoesOn => Honest(r) /\ AsReported(r)
    BY HonestBefore DEF HonestInv
  <1>f. call'.at # "idle" /\ ~call'.failed
    BY DEF Honest
  <1>1. ASSUME NEW id \in ScheduleIds, GetTokenEmpty(id)
        PROVE  FALSE
    BY <1>1, <1>f DEF GetTokenEmpty
  <1>2. ASSUME NEW id \in ScheduleIds, NEW msg \in Messages, GetScheduleToken(id, msg)
        PROVE  AsReported(r)'
    BY <1>2, HonestStarts
  <1>3. CASE CreateTlvList
    <2>1. /\ call.at = "list" /\ UNCHANGED <<listed, lists, info, tokens>>
          /\ call'.at = "parse" /\ call'.level = call.level /\ call'.id = call.id
          /\ call'.failed = call.failed
      BY <1>3, <1>t DEF CreateTlvList, CallType
    <2>2. AsReported(r)
      BY <2>1, <1>b DEF GoesOn
    <2>3. Current' = Current
      BY <2>1 DEF Current
    <2>4. QED
      BY <2>1, <2>2, <2>3 DEF AsReported
  <1>4. CASE CreateTlvListFails
    BY <1>4, <1>t, <1>f DEF CreateTlvListFails, Refuse, CallType
  <1>5. CASE ParseNode
    <2> DEFINE node == PutTlvObject(Current.buf, Current.offset)
               next == [lists[call.level] EXCEPT !.nodes = Append(Current.nodes, node),
                                                 !.offset = NodeEnd(node)]
    <2>1. /\ call.at = "parse" /\ UNCHANGED <<listed, call, info, tokens>>
          /\ lists' = [lists EXCEPT ![call.level] = next]
      BY <1>5, <1>t DEF ParseNode
    <2>2. lists'["message"].buf = lists["message"].buf
      <3>1. call.level \in Levels /\ lists[call.level] \in List
        BY <1>t DEF CallType
      <3>2. next.buf = lists[call.level].buf
        BY <3>1 DEF List
      <3> HIDE DEF next
      <3>3. QED
        BY <1>t, <2>1, <3>1, <3>2 DEF Levels
    <2>3. AsReported(r)
      BY <2>1, <2>2, <1>b DEF GoesOn
    <2>4. QED
      BY <1>5, <2>3, HonestParses
  <1>6. CASE ParseFails
    <2>1. /\ call.at = "parse" /\ UNCHANGED <<listed, lists>>
          /\ call'.id = call.id /\ (call.failed => call'.failed)
      BY <1>6, <1>t DEF ParseFails, Refuse, CallType
    <2>2. Honest(r) /\ AsReported(r)
      BY <2>1, <1>b DEF GoesOn
    <2>3. QED
      BY <1>6, <1>f, <2>2, HonestFound
  <1>7. CASE ParseEnd
    <2>1. /\ call.at = "parse" /\ UNCHANGED <<listed, lists, info, tokens>>
          /\ call'.at = "read" /\ call'.level = call.level /\ call'.id = call.id
          /\ call'.failed = call.failed /\ Current.offset >= Len(Current.buf)
      BY <1>7, <1>t DEF ParseEnd, CallType
    <2>2. AsReported(r)
      BY <2>1, <1>b DEF GoesOn
    <2>3. Current.offset = Len(Current.buf)
      <3>1. Current \in List /\ TilesBuffer(Current)
        BY <2>2, CurrentWhole
      <3>2. /\ Current.offset \in Nat /\ Len(Current.buf) \in Nat
            /\ Current.offset <= Len(Current.buf)
        BY <3>1, CellsAreNumbers DEF List, TilesBuffer
      <3>3. QED
        BY <2>1, <3>2
    <2>4. Current' = Current
      BY <2>1 DEF Current
    <2>5. QED
      BY <2>1, <2>2, <2>3, <2>4 DEF AsReported
  <1>8. CASE ParseRoot
    <2>1. /\ call.at = "read" /\ call'.id = call.id /\ call'.failed = call.failed
          /\ lists'["message"] = lists["message"] /\ UNCHANGED listed
      BY <1>8, <1>t DEF ParseRoot, Opens, CallType, Levels
    <2>2. Honest(r) /\ AsReported(r)
      BY <2>1, <1>b DEF GoesOn
    <2>3. QED
      BY <1>8, <2>2, HonestRoot
  <1>9. CASE ParseExecutorResultData
    <2>1. /\ call.at = "read" /\ call'.id = call.id /\ call'.failed = call.failed
          /\ lists'["message"] = lists["message"] /\ UNCHANGED listed
      BY <1>9, <1>t DEF ParseExecutorResultData, Opens, CallType, Levels
    <2>2. Honest(r) /\ AsReported(r)
      BY <2>1, <1>b DEF GoesOn
    <2>3. QED
      BY <1>9, <2>2, HonestData
  <1>10. CASE ReadField
    <2>1. /\ call.at = "read" /\ call.level = "data" /\ UNCHANGED <<listed, lists, tokens>>
          /\ call' = [call EXCEPT !.field = @ + 1,
                                  !.at = IF call.field = 5 THEN "sign" ELSE "read"]
      BY <1>10, FieldsLength DEF ReadField
    <2>2. /\ call'.level = call.level /\ call'.id = call.id /\ call'.failed = call.failed
          /\ call'.field = call.field + 1
          /\ call'.at = IF call.field = 5 THEN "sign" ELSE "read"
      BY <2>1, <1>t DEF CallType
    <2>3. AsReported(r)
      BY <2>1, <2>2, <1>b DEF GoesOn
    <2>4. call'.at = "sign" => call'.field = 6
      BY <2>2
    <2>5. Current' = Current
      BY <2>1, <2>2 DEF Current
    <2>6. QED
      BY <2>1, <2>2, <2>3, <2>4, <2>5 DEF AsReported
  <1>11. CASE ParseExecutorResultSign
    <2>1. /\ call.at = "sign" /\ UNCHANGED <<listed, lists, tokens>> /\ call.level = "data"
          /\ call'.at = "check" /\ call'.level = call.level /\ call'.id = call.id
          /\ call'.failed = call.failed /\ call'.field = call.field
          /\ info' = [info EXCEPT !.sign = Para(lists["root"].nodes, AUTH_SIGNATURE)]
      BY <1>11, <1>t DEF ParseExecutorResultSign, CallType, Reading, Stages
    <2>2. Honest(r) /\ AsReported(r)
      BY <2>1, <1>b DEF GoesOn
    <2>3. Para(lists["root"].nodes, AUTH_SIGNATURE) = r.sign
      BY <2>1, <2>2, ReadsAsReported
    <2>4. info'.sign = r.sign
      BY <2>1, <2>3 DEF Reading, TypeOK, Info
    <2>5. QED
      BY <2>1, <2>2, <2>4 DEF AsReported
  <1>12. CASE ReadFails
    <2>1. /\ call.at # "idle" /\ UNCHANGED <<listed, lists>>
          /\ call'.id = call.id /\ (call.failed => call'.failed)
      <3>1. /\ \E failed \in BOOLEAN : Refuse(failed)
            /\ call.at # "idle" /\ UNCHANGED <<listed, lists, info, tokens>>
        BY <1>12 DEF ReadFails
      <3>2. QED
        BY <1>t, <3>1 DEF Refuse, CallType
    <2>2. Honest(r) /\ AsReported(r)
      BY <2>1, <1>b DEF GoesOn
    <2>3. QED
      BY <1>12, <1>f, <2>2, HonestFound
  <1>13. CASE Check
    <2>1. /\ call.at = "check" /\ UNCHANGED <<listed, lists, info, tokens>>
          /\ call'.level = call.level /\ call'.id = call.id
          /\ call'.failed = call.failed /\ call'.field = call.field
      BY <1>13, <1>t DEF Check, Refuse, CallType
    <2>2. Honest(r) /\ AsReported(r)
      BY <2>1, <1>b DEF GoesOn
    <2>3. call'.at = "verify"
      BY <1>13, <1>t, <2>1, <2>2, HonestChecked DEF Check, CallType
    <2>4. QED
      BY <2>1, <2>2, <2>3 DEF AsReported
  <1>14. CASE TokenDataGetAndSign
    <2>1. /\ call.at = "verify" /\ UNCHANGED <<listed, lists, info>>
          /\ call'.at = "exit" /\ call'.level = call.level /\ call'.id = call.id
          /\ call'.failed = call.failed /\ tokens' = tokens \cup {TokenOf(TRUE)}
      BY <1>14, <1>t DEF TokenDataGetAndSign, CallType
    <2>2. Honest(r) /\ AsReported(r)
      BY <2>1, <1>b DEF GoesOn
    <2>3. \E t \in tokens' : t.id = r.id /\ t.signed /\ t.templateId = r.template
      BY <2>1, <2>2, HonestVerified
    <2>4. QED
      BY <2>1, <2>2, <2>3 DEF AsReported
  <1>15. CASE NoPublicKey \/ VerifyFails
    <2>1. /\ call.at = "verify" /\ UNCHANGED <<listed, lists>>
          /\ call'.id = call.id /\ (call.failed => call'.failed)
      BY <1>15, <1>t DEF NoPublicKey, VerifyFails, Refuse, CallType
    <2>2. Honest(r) /\ AsReported(r)
      BY <2>1, <1>b DEF GoesOn
    <2>3. Ed25519Verify /\ KeyOf[call.id] # NoKey
      BY <2>1, <2>2, HonestVerified
    <2>4. Refuse(TRUE)
      BY <1>15, <2>3 DEF NoPublicKey, VerifyFails
    <2>5. QED
      BY <1>t, <1>f, <2>4 DEF Refuse, CallType
  <1>17. CASE Exit
    BY <1>17, <1>t, <1>f DEF Exit, CallType
  <1>18. QED
    BY <1>1, <1>2, <1>3, <1>4, <1>5, <1>6, <1>7, <1>8, <1>9, <1>10, <1>11, <1>12,
       <1>13, <1>14, <1>15, <1>17 DEF Next

LEMMA HonestNext == Inv /\ HonestInv /\ [Next]_vars => HonestInv'
  <1> SUFFICES ASSUME Inv, HonestInv, [Next]_vars
               PROVE  HonestInv'
    OBVIOUS
  <1>1. CASE Next
    BY <1>1, HonestStep DEF Inv, HonestInv
  <1>2. CASE UNCHANGED vars
    BY <1>2 DEF vars, HonestInv, Honest, AsReported, Whole, Cuts, Current
  <1>3. QED
    BY <1>1, <1>2

LEMMA HonestInit == Init => HonestInv
  BY DEF Init, HonestInv, Honest

\* A success is not lost, for every report, every message and every place where
\* memory may run out: what the verifier of a listed schedule wrote is granted.
THEOREM HonestGranted == Spec => []HonestIsGranted
  <1>1. HonestInv => HonestIsGranted
    BY DEF HonestInv, Honest, AsReported, HonestIsGranted
  <1>2. QED
    BY InitInv, NextInv, HonestInit, HonestNext, <1>1, PTL DEF Spec

=============================================================================
