----------------------------- MODULE TlvWrapper -----------------------------
(***************************************************************************)
(* The tag-length-value buffers of common/common: one iteration of          *)
(* ParseTlvWrapper, and the readers of the list it makes.  A buffer is a    *)
(* sequence of cells of four bytes, so a tag and a length take one cell     *)
(* each, a uint32 one and a uint64 two, and a length counts cells.  The     *)
(* conversions of byte order (Ntohl) are the identity in the code.          *)
(***************************************************************************)
EXTENDS Integers, Sequences

CONSTANT Cells \* what four bytes may hold, as a tag, a length or a value

ASSUME CellsAssumption == Cells \subseteq Nat

Buffers == Seq(Cells)

\* A TlvType; "from" is the offset of its tag in the buffer it was read from.
Nodes == [from : Nat, tag : Cells, value : Buffers]

Header == 2

HeaderFits(buf, offset) == Len(buf) - offset >= Header

Tag(buf, offset)    == buf[offset + 1]
Length(buf, offset) == buf[offset + 2]

\* Faulty: a value that ends with the buffer is taken for too long.
BodyFitsStrictly(buf, offset) == Length(buf, offset) < Len(buf) - (offset + Header)

\* The comparison is made on unsigned numbers, after the header was skipped.
BodyFits(buf, offset) == Length(buf, offset) <= Len(buf) - (offset + Header)

\* PutTlvObject copies the value: the buffer may be freed before the list.
PutTlvObject(buf, offset) ==
  [from |-> offset,
   tag |-> Tag(buf, offset),
   value |-> SubSeq(buf, offset + Header + 1, offset + Header + Length(buf, offset))]

NodeEnd(node) == node.from + Header + Len(node.value)

-----------------------------------------------------------------------------
(* GetUint64Para, GetUint32Para, GetInt32Para and GetBuffPara walk the list *)
(* to the first node of the tag, which decides alone.                       *)

Tagged(nodes, tag) == {i \in DOMAIN nodes : nodes[i].tag = tag}

FirstWith(nodes, tag) ==
  CHOOSE i \in Tagged(nodes, tag) : \A j \in Tagged(nodes, tag) : i <= j

\* Faulty: any value that is not empty is read as a number.
HasParaOfAnySize(nodes, tag, size) ==
  /\ Tagged(nodes, tag) # {}
  /\ Len(nodes[FirstWith(nodes, tag)].value) # 0

\* ParseUint64Para and its like take a value of their own size only, and
\* GetTlvValue gives none for a length of zero.
HasPara(nodes, tag, size) ==
  /\ Tagged(nodes, tag) # {}
  /\ Len(nodes[FirstWith(nodes, tag)].value) = size

HasBuff(nodes, tag) ==
  /\ Tagged(nodes, tag) # {}
  /\ nodes[FirstWith(nodes, tag)].value # <<>>

Para(nodes, tag) == nodes[FirstWith(nodes, tag)].value
=============================================================================
