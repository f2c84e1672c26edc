------------------------------ MODULE BinaryWire ------------------------------
\* The bytes of Binary V2 (binary/binary_writer.hpp, binary/binary_reader.hpp): a
\* magic, then one value; a value is a tag and what the tag announces.
EXTENDS Integers, Sequences, FiniteSets, SequencesExt

Magic == <<78, 80, 2>>
WordBits == 28  \* bits of a length; the largest word TLC can hold in whole groups of seven

Tag == [Null |-> 0, False |-> 1, True |-> 2, Signed |-> 3, Unsigned |-> 4, Float32 |-> 5, Float64 |-> 6,
        Text |-> 7, Array |-> 8, Object |-> 9, IdObject |-> 10, FixedSigned |-> 11, FixedUnsigned |-> 15]
LastTag == 18

\* What a parsed value costs of the allocation budget: the sizes of Node, of a pointer to one, of a Member.
NodeCost == 3
ElementCost == 1
MemberCost == 2

Broken == [ok |-> FALSE]
Parsed(v, cursor, left) == [ok |-> TRUE, value |-> v, cursor |-> cursor, left |-> left]

\* ------------------------------------------------------------------ integers

RECURSIVE Uleb(_)
Uleb(n) == IF n < 128 THEN <<n>> ELSE <<128 + (n % 128)>> \o Uleb(n \div 128)

ZigZag(v) == IF v < 0 THEN 2 * (-v) - 1 ELSE 2 * v
UnZigZagShort(n) == IF n % 2 = 1 THEN -(n \div 2) ELSE n \div 2
UnZigZag(n) == IF n % 2 = 1 THEN -((n \div 2) + 1) ELSE n \div 2

\* A varint of a word of so many bits: no more than fits, and no byte more than needed.
RECURSIVE UlebFrom(_, _, _, _, _)
UlebFrom(data, cursor, bits, shift, value) ==
  IF cursor > Len(data) THEN Broken
  ELSE LET chunk == data[cursor] % 128
       IN IF shift >= bits \/ chunk > (2 ^ bits - 1) \div (2 ^ shift) THEN Broken
          ELSE IF data[cursor] < 128
               THEN IF shift > 0 /\ chunk = 0 THEN Broken ELSE Parsed(value + chunk * 2 ^ shift, cursor + 1, 0)
               ELSE UlebFrom(data, cursor + 1, bits, shift + 7, value + chunk * 2 ^ shift)
ReadUleb(data, cursor, bits) == UlebFrom(data, cursor, bits, 0, 0)

\* Fixed widths, the most significant byte first, two's complement.
Bytes(v, n) == [i \in 1..n |-> ((v % 2 ^ (8 * n)) \div 2 ^ (8 * (n - i))) % 256]
Unsigned(bytes) == FoldLeft(LAMBDA v, x : 256 * v + x, 0, bytes)
FixedValue(type, bytes) ==
  LET v == Unsigned(bytes) IN IF type.t = "Signed" /\ v >= 2 ^ (type.bits - 1) THEN v - 2 ^ type.bits ELSE v
WidthsLog2 == [x \in {8, 16} |-> IF x = 8 THEN 0 ELSE 1]
FixedTag(type) == WidthsLog2[type.bits] + (IF type.t = "Signed" THEN Tag.FixedSigned ELSE Tag.FixedUnsigned)

\* ------------------------------------------------------------------- writing

KeyBytes(kind, key) ==
  LET name == Tail(key)
  IN IF key[1] = 1 THEN Uleb(2 * key[2] + 1)
     ELSE Uleb(IF kind = "IdObject" THEN 2 * Len(name) ELSE Len(name)) \o name

RECURSIVE Encode(_)
Encode(node) ==
  CASE node.k = "Null" -> <<Tag.Null>>
    [] node.k = "Bool" -> <<IF node.v THEN Tag.True ELSE Tag.False>>
    [] node.k = "Signed" -> <<Tag.Signed>> \o Uleb(ZigZag(node.v))
    [] node.k = "Unsigned" -> <<Tag.Unsigned>> \o Uleb(node.v)
    [] node.k = "Float" -> <<IF Len(node.v) = 4 THEN Tag.Float32 ELSE Tag.Float64>> \o node.v
    [] node.k = "Fixed" -> <<FixedTag(node.type)>> \o Bytes(node.v, node.type.bits \div 8)
    [] node.k = "Text" -> <<Tag.Text>> \o Uleb(Len(node.v)) \o node.v
    [] node.k = "Array" ->
         <<Tag.Array>> \o Uleb(Len(node.kids)) \o FlattenSeq([i \in DOMAIN node.kids |-> Encode(node.kids[i])])
    [] OTHER -> <<Tag[node.k]>> \o Uleb(Len(node.kids))
                \o FlattenSeq([i \in DOMAIN node.kids |-> KeyBytes(node.k, node.keys[i]) \o Encode(node.kids[i])])

Document(node) == Magic \o Encode(node)

\* ------------------------------------------------------------------- reading

Charge(left, cost) == IF cost > left THEN -1 ELSE left - cost

\* So many bytes from the cursor on.
Take(data, cursor, n) == IF n > Len(data) - cursor + 1 THEN Broken ELSE Parsed(SubSeq(data, cursor, cursor + n - 1), cursor + n, 0)

ParseText(data, cursor, limits, perName) ==
  LET size == ReadUleb(data, cursor, WordBits)
  IN IF ~size.ok \/ size.value \div perName > limits.text THEN Broken
     ELSE Take(data, size.cursor, size.value \div perName)

\* The key of a member: in an object a name; in one of compact keys the lowest bit says whether it is a name.
ParseKey(data, cursor, kind, limits) ==
  LET first == ReadUleb(data, cursor, WordBits)
      text == ParseText(data, cursor, limits, IF kind = "IdObject" THEN 2 ELSE 1)
  IN IF ~first.ok THEN Broken
     ELSE IF kind = "IdObject" /\ first.value % 2 = 1 THEN Parsed(<<1, first.value \div 2>>, first.cursor, 0)
     ELSE IF text.ok THEN Parsed(<<0>> \o text.value, text.cursor, 0) ELSE Broken

RECURSIVE ParseNode(_, _, _, _, _), ParseMembers(_, _, _, _, _, _, _)

\* A literal key of no bytes goes into the index of the hashes, under zero.
Indexed(kind, key) == IF kind = "IdObject" /\ key = <<0>> THEN <<1, 0>> ELSE key

\* The members that are left, the keys unlike those before; arrays have no keys.
ParseMembers(data, done, count, kind, depth, limits, keys) ==
  IF ~done.ok \/ count = 0 THEN done
  ELSE LET key == IF kind = "Array" THEN Parsed(<<Len(keys)>>, done.cursor, 0) ELSE ParseKey(data, done.cursor, kind, limits)
           kid == ParseNode(data, key.cursor, depth + 1, done.left, limits)
           Next(node) == IF kind = "Array" THEN [done.value EXCEPT !.kids = Append(@, node)]
                         ELSE [done.value EXCEPT !.kids = Append(@, node), !.keys = Append(@, key.value)]
       IN IF ~key.ok \/ key.value \in ToSet(keys) \/ ~kid.ok THEN Broken
          ELSE ParseMembers(data, Parsed(Next(kid.value), kid.cursor, kid.left), count - 1, kind, depth, limits,
                            Append(keys, Indexed(kind, key.value)))

ParseContainer(data, cursor, kind, depth, left, limits) ==
  LET count == ReadUleb(data, cursor, WordBits)
      isArray == kind = "Array"
      empty == IF isArray THEN [k |-> kind, kids |-> << >>] ELSE [k |-> kind, keys |-> << >>, kids |-> << >>]
  IN IF ~count.ok \/ count.value > (IF isArray THEN limits.elements ELSE limits.fields) THEN Broken
     ELSE LET rest == Charge(left, count.value * (IF isArray THEN ElementCost ELSE MemberCost))
          IN IF rest < 0 THEN Broken
             ELSE ParseMembers(data, Parsed(empty, count.cursor, rest), count.value, kind, depth, limits, << >>)

\* A scalar whose payload was taken becomes a node.
NodeOf(taken, left, Node(_)) == IF taken.ok THEN Parsed(Node(taken.value), taken.cursor, left) ELSE Broken
LeafOf(k, v) == [k |-> k, v |-> v]
FixedType(tag) == LET base == IF tag >= Tag.FixedUnsigned THEN Tag.FixedUnsigned ELSE Tag.FixedSigned
                  IN [t |-> IF base = Tag.FixedSigned THEN "Signed" ELSE "Unsigned", bits |-> 8 * 2 ^ (tag - base)]

ParseNode(data, cursor, depth, left, limits) ==
  IF depth > limits.depth \/ cursor > Len(data) \/ Charge(left, NodeCost) < 0 THEN Broken
  ELSE LET tag == data[cursor]
           rest == Charge(left, NodeCost)
           next == cursor + 1
       IN CASE tag = Tag.Null -> Parsed(LeafOf("Null", << >>), next, rest)
            [] tag \in {Tag.False, Tag.True} -> Parsed(LeafOf("Bool", tag = Tag.True), next, rest)
            [] tag = Tag.Signed -> NodeOf(ReadUleb(data, next, WordBits), rest, LAMBDA n : LeafOf("Signed", UnZigZag(n)))
            [] tag = Tag.Unsigned -> NodeOf(ReadUleb(data, next, WordBits), rest, LAMBDA n : LeafOf("Unsigned", n))
            [] tag = Tag.Float32 -> NodeOf(Take(data, next, 4), rest, LAMBDA x : LeafOf("Float", x))
            [] tag = Tag.Float64 -> NodeOf(Take(data, next, 8), rest, LAMBDA x : LeafOf("Float", x))
            [] tag = Tag.Text -> NodeOf(ParseText(data, next, limits, 1), rest, LAMBDA x : LeafOf("Text", x))
            [] tag = Tag.Array -> ParseContainer(data, next, "Array", depth, rest, limits)
            [] tag = Tag.Object -> ParseContainer(data, next, "Object", depth, rest, limits)
            [] tag = Tag.IdObject -> ParseContainer(data, next, "IdObject", depth, rest, limits)
            [] tag \in Tag.FixedSigned..LastTag ->
                 LET type == FixedType(tag)
                 IN NodeOf(Take(data, next, type.bits \div 8), rest,
                           LAMBDA x : IF type.bits <= 16 THEN [k |-> "Fixed", type |-> type, v |-> FixedValue(type, x)]
                                      ELSE [k |-> "Fixed", type |-> type, v |-> x])
            [] OTHER -> Broken

\* The document: the limit on its bytes, the magic, one value.
Framed(data) == Len(data) >= Len(Magic) /\ SubSeq(data, 1, Len(Magic)) = Magic
ParseDocument(data, limits) == ParseNode(data, Len(Magic) + 1, 0, limits.allocation, limits)
===============================================================================
