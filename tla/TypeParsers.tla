----------------------------- MODULE TypeParsers ------------------------------
\* The parsers of serialization/parsing: how a value of a type becomes a document,
\* how a document is read back into a value, and the schema a type has. A type is
\* a record (t names the parser), a value is what its parser holds, a document is a
\* tree of nodes. Texts and names are sequences of cells. The backends are "Binary",
\* whose reads consume a node and whose reflected objects have compact keys, and
\* those whose readers only look: "Json", "Toml", "Libfyaml" and "YamlCpp".
EXTENDS Integers, Sequences, FiniteSets, SequencesExt, FiniteSetsExt

CONSTANT FieldId(_)  \* the hash of a name (FNV-1a): any two names may share it

\* ---------------------------------------------------------------- documents

Leaf(k, v) == [k |-> k, v |-> v]
NullNode == Leaf("Null", << >>)
ArrayNode(kids) == [k |-> "Array", kids |-> kids]
ObjectNode(keys, kids) == [k |-> "Object", keys |-> keys, kids |-> kids]
IdObjectNode(keys, kids) == [k |-> "IdObject", keys |-> keys, kids |-> kids]

\* The sizes of ULEB128: seven bits a byte.
RECURSIVE UlebSize(_)
UlebSize(n) == IF n < 128 THEN 1 ELSE 1 + UlebSize(n \div 128)

\* A reflected object has the hash of a name as key only where that is shorter than the name.
UsesHash(name) == UlebSize(2 * FieldId(name) + 1) < UlebSize(2 * Len(name)) + Len(name)

\* A key is <<0>> and a name, or <<1, hash>>.
NameKey(name) == <<0>> \o name
IdKey(name) == IF UsesHash(name) THEN <<1, FieldId(name)>> ELSE NameKey(name)
IsHashed(key) == key[1] = 1

\* -------------------------------------------------------------------- types

NoTags == {}
FieldOf(name, type, tags) == [name |-> name, type |-> type, tags |-> tags]
Nothing == [t |-> "Null"]  \* std::monostate and std::nullptr_t
ArrayType(T, n) == [t |-> "Tuple", of |-> [i \in 1..n |-> T]]  \* std::array reads and writes as a tuple does (its schema, which has bounds instead, is left out)

Least(T) == IF T.t = "Signed" THEN -(2 ^ (T.bits - 1)) ELSE 0
Most(T) == IF T.t = "Signed" THEN 2 ^ (T.bits - 1) - 1 ELSE 2 ^ T.bits - 1
InRange(T, v) == Least(T) <= v /\ v <= Most(T)

\* A field of these types may be left out of an object: std::optional, and variants of std::monostate.
NullAlternatives(T) == IF T.t = "Variant" THEN {i \in DOMAIN T.of : T.of[i] = Nothing} ELSE {}
OptionalLike(T) == T.t = "Optional" \/ NullAlternatives(T) # {}
NullOf(T) == IF T.t = "Optional" THEN << >> ELSE [index |-> Min(NullAlternatives(T)), value |-> << >>]
HasValue(T, v) == IF T.t = "Optional" THEN v # << >> ELSE v.index \notin NullAlternatives(T)

\* Tags that concern the alternative of a union, once the union has its own.
PayloadTags(tags) == tags \ {"untagged"}

RECURSIVE Default(_)
Default(T) ==
  CASE T.t = "Bool" -> FALSE
    [] T.t \in {"Signed", "Unsigned", "Enum"} -> 0
    [] T.t \in {"Float", "Bits"} -> [i \in 1..T.n |-> 0]
    [] T.t = "Set" -> {}
    [] T.t = "Atomic" -> Default(T.of)
    [] T.t = "Pair" -> <<Default(T.first), Default(T.second)>>
    [] T.t = "Named" -> Default(T.of)
    [] T.t = "Tuple" -> [i \in DOMAIN T.of |-> Default(T.of[i])]
    [] T.t = "Variant" -> [index |-> 1, value |-> Default(T.of[1])]
    [] T.t \in {"Struct", "Positional"} -> [i \in DOMAIN T.fields |-> Default(T.fields[i].type)]
    [] OTHER -> << >>

\* ------------------------------------------------------------------ writing

Failed == [ok |-> FALSE]
Written(node) == [ok |-> TRUE, value |-> node]

\* A container of what was written, or the first failure.
Complete(results) == \A i \in DOMAIN results : results[i].ok
NodesOf(results) == [i \in DOMAIN results |-> results[i].value]
AddArray(results) == IF Complete(results) THEN Written(ArrayNode(NodesOf(results))) ELSE Failed
AddObject(keys, results) == IF Complete(results) THEN Written(ObjectNode(keys, NodesOf(results))) ELSE Failed
AddIdObject(keys, results) == IF Complete(results) THEN Written(IdObjectNode(keys, NodesOf(results))) ELSE Failed

\* An arithmetic value: of fixed width where the tag asks for it and the backend can.
WriteArithmetic(T, v, tags, b) ==
  IF b = "Binary" /\ "misfit" \in tags THEN Failed
  ELSE IF T.t = "Bool" THEN Written(Leaf("Bool", v))
  ELSE IF T.t = "Float" THEN Written(Leaf("Float", v))
  ELSE IF b = "Binary" /\ "fixed" \in tags THEN Written([k |-> "Fixed", type |-> T, v |-> v])
  ELSE Written(Leaf(T.t, v))

\* An enumerator is written by its name where it has one.
WriteEnum(T, v, tags, b) ==
  IF v \in DOMAIN T.names THEN Written(Leaf("Text", T.names[v])) ELSE WriteArithmetic(T.of, v, tags, b)

RECURSIVE Write(_, _, _, _), WriteAll(_, _, _), Emitted(_, _)

WriteAll(T, values, b) == [i \in DOMAIN values |-> Write(T, values[i], NoTags, b)]

WriteNullable(T, v, tags, b) == IF v = << >> THEN Written(NullNode) ELSE Write(T.of, v[1], tags, b)
WriteNamed(T, v, b) == AddObject(<<NameKey(T.name)>>, <<Write(T.of, v, NoTags, b)>>)
WriteTuple(T, v, b) == AddArray([i \in DOMAIN T.of |-> Write(T.of[i], v[i], NoTags, b)])

KeyName == <<107>>
ValueName == <<118>>
FirstName == <<102>>
SecondName == <<115>>

WriteEntry(firstName, first, secondName, second) ==
  AddObject(<<NameKey(firstName), NameKey(secondName)>>, <<first, second>>)

\* Maps of texts are objects; the others, and multimaps, arrays of objects with a key and a value.
WriteTextMap(T, v, b) ==
  LET names == SetToSeq(DOMAIN v)
  IN AddObject([i \in DOMAIN names |-> NameKey(names[i])], [i \in DOMAIN names |-> Write(T.of, v[names[i]], NoTags, b)])
WriteEntries(T, entries, b) ==
  AddArray([i \in DOMAIN entries |-> WriteEntry(KeyName, Write(T.key, entries[i][1], NoTags, b),
                                                ValueName, Write(T.of, entries[i][2], NoTags, b))])

\* A union is an array of the index and the value; untagged, the value alone.
WriteVariant(T, v, tags, b) ==
  LET payload == Write(T.of[v.index], v.value, PayloadTags(tags), b)
  IN IF "untagged" \in tags THEN payload
     ELSE AddArray(<<Written(Leaf("Unsigned", v.index - 1)), payload>>)

\* The fields of an object in order: ignored and empty ones left out, flat ones replaced by their own.
Emitted(T, v) ==
  FlattenSeq([i \in DOMAIN T.fields |->
    LET field == T.fields[i]
    IN IF "ignore" \in field.tags THEN << >>
       ELSE IF "flat" \in field.tags /\ field.type.t = "Struct" THEN Emitted(field.type, v[i])
       ELSE IF OptionalLike(field.type) /\ ~HasValue(field.type, v[i]) THEN << >>
       ELSE <<[field |-> field, value |-> v[i]]>>])

\* A writer of compact keys refuses two names of one hash.
WriteStruct(T, v, tags, b) ==
  LET fields == Emitted(T, v)
      keys == [i \in DOMAIN fields |-> IF b = "Binary" THEN IdKey(fields[i].field.name) ELSE NameKey(fields[i].field.name)]
      nodes == [i \in DOMAIN fields |-> Write(fields[i].field.type, fields[i].value, fields[i].field.tags, b)]
      Collide == \E i, j \in DOMAIN keys : i # j /\ keys[i] = keys[j] /\ IsHashed(keys[i])
  IN IF b = "Binary" /\ ("raw" \in tags \/ Collide) THEN Failed
     ELSE IF b = "Binary" THEN AddIdObject(keys, nodes) ELSE AddObject(keys, nodes)

\* A reflected type without names is an array of its fields.
Kept(T) == SelectSeq([i \in DOMAIN T.fields |-> i], LAMBDA i : "ignore" \notin T.fields[i].tags)
WritePositional(T, v, b) ==
  AddArray([j \in DOMAIN Kept(T) |-> LET i == Kept(T)[j]
                                     IN Write(T.fields[i].type, v[i], T.fields[i].tags, b)])

\* libfyaml refuses a style on a node of another kind.
FitsStyle(node, tags) ==
  /\ "scalarStyle" \in tags => node.k \notin {"Array", "Object"}
  /\ "collectionStyle" \in tags => node.k \in {"Array", "Object"}
Styled(written, tags, b) ==
  IF b = "Libfyaml" /\ written.ok /\ ~FitsStyle(written.value, tags) THEN Failed ELSE written

Write(T, v, tags, b) == Styled(
  CASE T.t \in {"Bool", "Signed", "Unsigned", "Float"} -> WriteArithmetic(T, v, tags, b)
    [] T.t = "Enum" -> WriteEnum(T, v, tags, b)
    [] T.t \in {"Text", "Bits"} -> Written(Leaf("Text", v))
    [] T.t = "Null" -> Written(NullNode)
    [] T.t \in {"Optional", "Pointer"} -> WriteNullable(T, v, tags, b)
    [] T.t = "Atomic" -> Write(T.of, v, tags, b)
    [] T.t \in {"List", "Multiset"} -> AddArray(WriteAll(T.of, v, b))
    [] T.t = "Set" -> AddArray(WriteAll(T.of, SetToSortSeq(v, <), b))
    [] T.t = "Tuple" -> WriteTuple(T, v, b)
    [] T.t = "Pair" -> WriteEntry(FirstName, Write(T.first, v[1], NoTags, b), SecondName, Write(T.second, v[2], NoTags, b))
    [] T.t = "Named" -> WriteNamed(T, v, b)
    [] T.t = "Map" -> WriteTextMap(T, v, b)
    [] T.t = "KeyMap" -> WriteEntries(T, [i \in 1..Cardinality(DOMAIN v) |->
                                           LET key == SetToSortSeq(DOMAIN v, <)[i] IN <<key, v[key]>>], b)
    [] T.t = "Multimap" -> WriteEntries(T, v, b)
    [] T.t = "Variant" -> WriteVariant(T, v, tags, b)
    [] T.t = "Struct" -> WriteStruct(T, v, tags, b)
    [] T.t = "Positional" -> WritePositional(T, v, b), tags, b)
===============================================================================
