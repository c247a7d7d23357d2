------------------------------- MODULE Hpack -------------------------------
(***************************************************************************)
(* Header compression (RFC 7541) as shared/grpc/Hpack.cpp writes it: the   *)
(* full decoder of both sides, with its static and dynamic table, prefix   *)
(* integers and Huffman strings, and the encoder that adds to no table.    *)
(*                                                                         *)
(* A header block is the sequence of its representations.  The numbers are *)
(* scaled down: two headers in the static table, octets of ByteBits bits,  *)
(* groups of GroupBits bits in an integer, a code of four symbols.         *)
(***************************************************************************)
EXTENDS Integers, Sequences, FiniteSets, SequencesExt, Functions, Folds

CONSTANT NoHeader

----------------------------------------------------------------------------
(* Integers *)

GroupBits == 2
MaxShift == 4    \* 56, the shift of the ninth group of seven bits
Mask(prefixBits) == 2 ^ prefixBits - 1

\* The first octet keeps the prefix; the groups that follow are marked but
\* for the last.
RECURSIVE GroupsOf(_)
GroupsOf(rest) ==
    IF rest < 2 ^ GroupBits THEN <<[bits |-> rest, more |-> FALSE]>>
    ELSE <<[bits |-> rest % 2 ^ GroupBits, more |-> TRUE]>> \o GroupsOf(rest \div 2 ^ GroupBits)

WriteInteger(prefixBits, value) ==
    IF value < Mask(prefixBits) THEN [first |-> value, groups |-> <<>>]
    ELSE [first |-> Mask(prefixBits), groups |-> GroupsOf(value - Mask(prefixBits))]

\* -1: the block ends first, or goes on past what a 64-bit number can hold.
ReadInteger(prefixBits, octets) ==
    LET ends == {i \in 1..Len(octets.groups) : ~octets.groups[i].more}
        last == CHOOSE i \in ends : \A j \in ends : i <= j
    IN  IF octets.first < Mask(prefixBits) THEN octets.first
        ELSE IF ends = {} \/ GroupBits * (last - 1) > MaxShift THEN -1
        ELSE Mask(prefixBits)
             + FoldFunction(+, 0, [i \in 1..last |->
                   octets.groups[i].bits * 2 ^ (GroupBits * (i - 1))])

----------------------------------------------------------------------------
(* Huffman strings *)

ByteBits == 3
Eos == "eos"
\* kHuffman: a complete prefix code, in which EOS is all ones and longer
\* than an octet.
Code == [a |-> <<0>>, b |-> <<1, 0>>, c |-> <<1, 1, 0>>, d |-> <<1, 1, 1, 0>>,
         eos |-> <<1, 1, 1, 1>>]

\* The nodes of the decode tree are the beginnings of the codes.
HuffTree == UNION {{SubSeq(Code[s], 1, n) : n \in 0..Len(Code[s])} : s \in DOMAIN Code}
Leaf(node) == {s \in DOMAIN Code : Code[s] = node}

AllOnes(node) == \A i \in 1..Len(node) : node[i] = 1
IsPadding(node) == Len(node) < ByteBits /\ AllOnes(node)

\* One bit further: from the root again after a symbol; EOS is not one.
Descend(walk, bit) ==
    LET node == Append(walk.node, bit) IN
    IF ~walk.ok \/ node \notin HuffTree \/ Eos \in Leaf(node)
    THEN [walk EXCEPT !.ok = FALSE]
    ELSE IF Leaf(node) = {} THEN [walk EXCEPT !.node = node]
    ELSE [walk EXCEPT !.node = <<>>, !.out = Append(@, CHOOSE s \in Leaf(node) : TRUE)]

HuffmanDecode(bits) ==
    LET end == FoldLeft(Descend, [node |-> <<>>, out |-> <<>>, ok |-> TRUE], bits)
    IN  [ok |-> end.ok /\ IsPadding(end.node), out |-> end.out]

\* A peer that encodes: the codes, then ones up to the octet.
HuffmanEncode(string) ==
    LET bits == FoldLeft(LAMBDA out, s : out \o Code[s], <<>>, string)
        short == (ByteBits - (Len(bits) % ByteBits)) % ByteBits
    IN  bits \o [i \in 1..short |-> 1]

----------------------------------------------------------------------------
(* The tables *)

Header(name, value) == [name |-> name, value |-> value]
StaticTable == <<Header("path", ""), Header("path", "root")>>
StaticCount == Len(StaticTable)
StaticIndexForName(name) ==
    LET named == {i \in 1..StaticCount : StaticTable[i].name = name}
    IN  IF named = {} THEN 0 ELSE CHOOSE i \in named : \A j \in named : i <= j

EntryOverhead == 1
Octets(text) == CASE text = "" -> 0 [] text = "long" -> 2 [] OTHER -> 1
EntrySize(h) == Octets(h.name) + Octets(h.value) + EntryOverhead

DefaultLimit == 7   \* 4096
\* ok and out are the answer to the last block.
Fresh == [table |-> <<>>, limit |-> DefaultLimit, size |-> 0, ok |-> TRUE, out |-> <<>>]

RECURSIVE EvictToFit(_)
EvictToFit(d) ==
    IF d.size > d.limit /\ d.table # <<>>
    THEN EvictToFit([d EXCEPT !.size = @ - EntrySize(Last(d.table)), !.table = Front(@)])
    ELSE d

\* The oldest goes first, but the newest is found at the first index.
InsertLast(d, h) ==
    IF EntrySize(h) > d.limit THEN [d EXCEPT !.table = <<>>, !.size = 0]
    ELSE EvictToFit([d EXCEPT !.table = Append(@, h), !.size = @ + EntrySize(h)])

\* An entry larger than the whole table empties it.
Insert(d, h) ==
    IF EntrySize(h) > d.limit THEN [d EXCEPT !.table = <<>>, !.size = 0]
    ELSE EvictToFit([d EXCEPT !.table = <<h>> \o @, !.size = @ + EntrySize(h)])

Lookup(d, index) ==
    CASE index = 0 -> NoHeader
      [] index \in 1..StaticCount -> StaticTable[index]
      [] index - StaticCount \in 1..Len(d.table) -> d.table[index - StaticCount]
      [] OTHER -> NoHeader

----------------------------------------------------------------------------
(* A block *)

Indexed(index) == [rep |-> "indexed", index |-> index]
SizeUpdate(size) == [rep |-> "size", size |-> size]
\* nameIndex 0: the name is spelled out.
Literal(rep, nameIndex, name, value) ==
    [rep |-> rep, index |-> nameIndex, name |-> name, value |-> value]

Failed(d) == [d EXCEPT !.ok = FALSE]
Emit(d, h) == [d EXCEPT !.out = Append(@, h)]

DecodeIndexed(d, field) ==
    IF Lookup(d, field.index) = NoHeader THEN Failed(d) ELSE Emit(d, Lookup(d, field.index))

\* A size update is held against the limit as it stands, an earlier update
\* included.
DecodeSize(d, field) ==
    IF field.size > d.limit THEN Failed(d) ELSE EvictToFit([d EXCEPT !.limit = field.size])

DecodeLiteral(d, field) ==
    LET named == Lookup(d, field.index)
        h == Header(IF field.index = 0 THEN field.name ELSE named.name, field.value)
    IN  IF field.index # 0 /\ named = NoHeader THEN Failed(d)
        ELSE Emit(IF field.rep = "incremental" THEN Insert(d, h) ELSE d, h)

DecodeField(d, field) ==
    CASE ~d.ok -> d
      [] field.rep = "indexed" -> DecodeIndexed(d, field)
      [] field.rep = "size" -> DecodeSize(d, field)
      [] OTHER -> DecodeLiteral(d, field)

Decode(decoder, block) ==
    FoldLeft(DecodeField, [decoder EXCEPT !.out = <<>>, !.ok = TRUE], block)

\* Every header goes out as a literal that no table keeps; a token in the
\* form that forbids the hops after this one to keep it.
Encode(headers) ==
    [i \in 1..Len(headers) |->
        LET h == headers[i] IN
        Literal(IF h.name = "authorization" THEN "never" ELSE "without",
                StaticIndexForName(h.name), h.name, h.value)]
=============================================================================
