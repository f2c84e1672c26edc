----------------------------- MODULE TypeReaders ------------------------------
\* Reading a document back into a value (serialization/parsing, the reader of
\* binary/binary_reader.hpp and of json/rapid_json_reader.hpp). A read is given the
\* node, the value its target holds and what the reader has left: left, the bytes
\* that may still be allocated, and used, the places whose value was consumed. It
\* gives the value of the target afterwards, also when it fails.
EXTENDS TextBackends

\* A node and its place: the path from the root.
At(node, at) == [node |-> node, at |-> at]
Kid(in, i) == At(in.node.kids[i], Append(in.at, i))

\* A failure is of a field when a member is missing or is there twice (InvalidField).
Yes(v, st) == [ok |-> TRUE, value |-> v, st |-> st, ofField |-> FALSE]
No(v, st) == [Yes(v, st) EXCEPT !.ok = FALSE]
NoField(v, st) == [No(v, st) EXCEPT !.ofField = TRUE]

\* A binary reader gives out a value once.
Fresh(in, b, st) == b # "Binary" \/ in.at \notin st.used
Consume(in, b, st) == IF b = "Binary" THEN [st EXCEPT !.used = @ \cup {in.at}] ELSE st

IsEmpty(in, b, st) == Fresh(in, b, st) /\ in.node.k = "Null"
IsArray(in, b, st) == Fresh(in, b, st) /\ in.node.k = "Array"
IsObject(in, b, st) == Fresh(in, b, st) /\ in.node.k \in {"Object", "IdObject"}

\* The member of a name, by its key. A literal key of no bytes is filed as the hash zero.
KeyIn(node, name) == IF node.k = "IdObject" THEN IdKey(name) ELSE NameKey(name)
FiledAs(node, key) == IF node.k = "IdObject" /\ key = NameKey(<< >>) THEN <<1, 0>> ELSE key
MembersOf(in, name) == {i \in DOMAIN in.node.keys : FiledAs(in.node, in.node.keys[i]) = KeyIn(in.node, name)}
HasMember(in, name) == MembersOf(in, name) # {}
MemberOf(in, name) == Kid(in, Min(MembersOf(in, name)))

\* An arithmetic value. The binary reader wants the tag the type is written with, JSON a number in range.
IsNumber(node) == node.k \in {"Signed", "Unsigned"}
Holds(T, node, tags, b) ==
  CASE T.t = "Bool" -> node.k = "Bool"
    [] T.t = "Float" -> IF b = "Binary" THEN node.k = "Float" /\ Len(node.v) = T.n ELSE node.k = "Float" \/ IsNumber(node)
    [] b = "Binary" /\ "fixed" \in tags -> node.k = "Fixed" /\ node.type = T
    [] b = "Binary" -> node.k = T.t /\ InRange(T, node.v)
    [] OTHER -> IsNumber(node) /\ InRange(T, node.v)
ValuesOf(T, node, tags, b) ==
  IF b \in Yaml THEN YamlValues(T, node)
  ELSE IF IF b = "Toml" THEN TomlHolds(T, node) ELSE Holds(T, node, tags, b) THEN {node.v}
  ELSE {}
ReadArithmetic(T, in, old, tags, b, st) ==
  LET values == ValuesOf(T, in.node, tags, b)
  IN IF (b = "Binary" /\ "misfit" \in tags) \/ ~Fresh(in, b, st) \/ values = {} THEN No(old, st)
     ELSE Yes(CHOOSE v \in values : TRUE, Consume(in, b, st))

\* A text; the binary reader charges its bytes.
ReadText(in, old, b, st) ==
  IF ~Fresh(in, b, st) \/ in.node.k # "Text" \/ (b = "Binary" /\ Len(in.node.v) > st.left) THEN No(old, st)
  ELSE Yes(in.node.v, IF b = "Binary" THEN [Consume(in, b, st) EXCEPT !.left = @ - Len(in.node.v)] ELSE st)

\* An enumerator by its name, or by its number when the node is no text.
ReadEnum(T, in, old, tags, b, st) ==
  LET text == ReadText(in, << >>, b, st)
      named == {v \in DOMAIN T.names : T.names[v] = text.value}
  IN IF ~text.ok THEN ReadArithmetic(T.of, in, old, tags, b, st)
     ELSE IF named = {} THEN No(old, text.st)
     ELSE Yes(CHOOSE v \in named : TRUE, text.st)

ReadBits(T, in, old, b, st) ==
  LET text == ReadText(in, << >>, b, st)
  IN IF text.ok /\ Len(text.value) = T.n /\ ToSet(text.value) \subseteq {0, 1} THEN text ELSE No(old, text.st)

\* One step after the other until the first failure: Step(value, st, i) gives the next value.
InTurn(n, start, st, Step(_, _, _)) ==
  FoldLeft(LAMBDA done, i : IF done.ok THEN Step(done.value, done.st, i) ELSE done,
           Yes(start, st), [i \in 1..n |-> i])

\* A value that is only assigned when all of it was read.
Commit(read, old) == IF read.ok THEN read ELSE [read EXCEPT !.value = old]

RECURSIVE Read(_, _, _, _, _, _), ReadFields(_, _, _, _, _)

\* Sequences: an element starts from nothing, and a set refuses one it has.
ReadList(T, in, b, st) ==
  InTurn(Len(in.node.kids), << >>, st, LAMBDA items, now, i :
    LET item == Read(T.of, Kid(in, i), Default(T.of), NoTags, b, now)
    IN IF ~item.ok THEN [item EXCEPT !.value = items]
       ELSE IF T.t = "Set" /\ item.value \in ToSet(items) THEN NoField(items, item.st)
       ELSE Yes(Append(items, item.value), item.st))
ReadSequence(T, in, old, b, st) ==
  IF ~IsArray(in, b, st) THEN No(old, st)
  ELSE LET read == Commit(ReadList(T, in, b, st), old)
       IN IF ~read.ok THEN read
          ELSE [read EXCEPT !.value = CASE T.t = "Set" -> ToSet(@)
                                        [] T.t = "Multiset" -> SortSeq(@, <)
                                        [] OTHER -> @]

\* Tuples and arrays are read in place.
ReadTuple(T, in, old, b, st) ==
  IF ~IsArray(in, b, st) \/ Len(in.node.kids) # Len(T.of) THEN No(old, st)
  ELSE InTurn(Len(T.of), old, st, LAMBDA value, now, i :
         LET item == Read(T.of[i], Kid(in, i), value[i], NoTags, b, now)
         IN [item EXCEPT !.value = [value EXCEPT ![i] = item.value]])

\* Two members of an object, in place.
ReadEntry(names, types, in, old, b, st) ==
  IF ~IsObject(in, b, st) THEN No(old, st)
  ELSE InTurn(2, old, st, LAMBDA value, now, i :
         IF ~HasMember(in, names[i]) THEN NoField(value, now)
         ELSE LET item == Read(types[i], MemberOf(in, names[i]), value[i], NoTags, b, now)
              IN [item EXCEPT !.value = [value EXCEPT ![i] = item.value]])
ReadNamed(T, in, old, b, st) ==
  IF ~IsObject(in, b, st) THEN No(old, st)
  ELSE IF ~HasMember(in, T.name) THEN NoField(old, st)
  ELSE Read(T.of, MemberOf(in, T.name), old, NoTags, b, st)

With(map, key, value) == [x \in DOMAIN map \cup {key} |-> IF x = key THEN value ELSE map[x]]

\* A map of texts takes the members of an object; those of compact keys are not visited, and that is no failure.
ReadTextMap(T, in, old, b, st) ==
  IF ~IsObject(in, b, st) THEN No(old, st)
  ELSE IF in.node.k = "IdObject" THEN Yes(<< >>, st)
  ELSE Commit(InTurn(Len(in.node.kids), << >>, st, LAMBDA map, now, i :
                LET name == Tail(in.node.keys[i])
                    item == Read(T.of, Kid(in, i), Default(T.of), NoTags, b, now)
                IN IF ~item.ok THEN [item EXCEPT !.value = map]
                   ELSE IF name \in DOMAIN map THEN NoField(map, item.st)
                   ELSE Yes(With(map, name, item.value), item.st)), old)

\* The other maps take an array of entries; only multimaps may repeat a key.
ReadEntries(T, in, old, b, st) ==
  IF ~IsArray(in, b, st) THEN No(old, st)
  ELSE LET read == InTurn(Len(in.node.kids), << >>, st, LAMBDA entries, now, i :
                     LET item == ReadEntry(<<KeyName, ValueName>>, <<T.key, T.of>>, Kid(in, i),
                                           <<Default(T.key), Default(T.of)>>, b, now)
                     IN IF ~item.ok THEN [item EXCEPT !.value = entries]
                        ELSE IF T.t = "KeyMap" /\ \E e \in ToSet(entries) : e[1] = item.value[1] THEN NoField(entries, item.st)
                        ELSE Yes(Append(entries, item.value), item.st))
       IN IF ~read.ok THEN Commit(read, old)
          ELSE IF T.t = "Multimap" THEN [read EXCEPT !.value = SortSeq(@, LAMBDA x, y : x[1] < y[1])]
          ELSE [read EXCEPT !.value = [key \in {e[1] : e \in ToSet(read.value)} |->
                                         (CHOOSE e \in ToSet(read.value) : e[1] = key)[2]]]

\* An alternative of a union is read aside; probing one leaves the reader as it was (checkpoint, restore).
ReadAlternative(T, index, in, old, tags, b, st) ==
  IF index \notin DOMAIN T.of THEN No(old, st)
  ELSE LET read == Read(T.of[index], in, Default(T.of[index]), tags, b, st)
       IN IF read.ok THEN Yes([index |-> index, value |-> read.value], read.st) ELSE Commit(read, old)
Matching(T, in, tags, b, st) == {i \in DOMAIN T.of : ReadAlternative(T, i, in, << >>, tags, b, st).ok}
ReadUntagged(T, in, old, tags, b, st) ==
  IF Cardinality(Matching(T, in, tags, b, st)) # 1 THEN No(old, st)
  ELSE ReadAlternative(T, CHOOSE i \in Matching(T, in, tags, b, st) : TRUE, in, old, tags, b, st)
IndexType == [t |-> "Unsigned", bits |-> 16]
ReadVariant(T, in, old, tags, b, st) ==
  IF "untagged" \in tags THEN ReadUntagged(T, in, old, PayloadTags(tags), b, st)
  ELSE IF ~IsArray(in, b, st) \/ Len(in.node.kids) # 2 THEN No(old, st)
  ELSE LET index == Read(IndexType, Kid(in, 1), 0, NoTags, b, st)
       IN IF ~index.ok THEN Commit(index, old)
          ELSE ReadAlternative(T, index.value + 1, Kid(in, 2), old, PayloadTags(tags), b, index.st)

\* A field that is not there keeps its value when skippable, and is null when it can be.
ReadMissing(field, old, st) ==
  IF "skippable" \in field.tags THEN Yes(old, st)
  ELSE IF OptionalLike(field.type) THEN Yes(NullOf(field.type), st)
  ELSE NoField(old, st)

\* A field is first asked whether it is null, which consumes the null.
ReadField(field, in, old, b, st) ==
  IF "ignore" \in field.tags THEN Yes(old, st)
  ELSE IF "flat" \in field.tags /\ field.type.t = "Struct" THEN ReadFields(field.type, in, old, b, st)
  ELSE IF ~IsObject(in, b, st) THEN No(old, st)
  ELSE IF ~HasMember(in, field.name) THEN ReadMissing(field, old, st)
  ELSE LET member == MemberOf(in, field.name)
           null == IsEmpty(member, b, st)
           asked == IF null THEN Consume(member, b, st) ELSE st
       IN IF null /\ OptionalLike(field.type) THEN Yes(NullOf(field.type), asked)
          ELSE Read(field.type, member, old, field.tags, b, asked)

ReadFields(T, in, old, b, st) ==
  IF ~IsObject(in, b, st) THEN No(old, st)
  ELSE InTurn(Len(T.fields), old, st, LAMBDA value, now, i :
         LET field == ReadField(T.fields[i], in, value[i], b, now)
         IN [field EXCEPT !.value = [value EXCEPT ![i] = field.value]])

\* A reflected value is read into a copy; without names it is an array.
ReadStructInPlace(T, in, old, tags, b, st) ==
  IF b = "Binary" /\ "raw" \in tags THEN No(old, st) ELSE ReadFields(T, in, old, b, st)
ReadStruct(T, in, old, tags, b, st) ==
  IF b = "Binary" /\ "raw" \in tags THEN No(old, st) ELSE Commit(ReadFields(T, in, old, b, st), old)
ReadPositional(T, in, old, b, st) ==
  IF ~IsArray(in, b, st) \/ Len(in.node.kids) # Len(Kept(T)) THEN No(old, st)
  ELSE Commit(InTurn(Len(Kept(T)), old, st, LAMBDA value, now, j :
                LET i == Kept(T)[j]
                    item == Read(T.fields[i].type, Kid(in, j), value[i], T.fields[i].tags, b, now)
                IN [item EXCEPT !.value = [value EXCEPT ![i] = item.value]]), old)

\* What may be null is asked for it first.
ReadNullable(T, in, old, tags, b, st) ==
  IF IsEmpty(in, b, st) THEN Yes(<< >>, Consume(in, b, st))
  ELSE LET read == Read(T.of, in, Default(T.of), tags, b, st)
       IN IF read.ok THEN Yes(<<read.value>>, read.st) ELSE Commit(read, old)

Read(T, in, old, tags, b, st) ==
  CASE T.t \in {"Bool", "Signed", "Unsigned", "Float"} -> ReadArithmetic(T, in, old, tags, b, st)
    [] T.t = "Enum" -> ReadEnum(T, in, old, tags, b, st)
    [] T.t = "Text" -> ReadText(in, old, b, st)
    [] T.t = "Bits" -> ReadBits(T, in, old, b, st)
    [] T.t = "Null" -> IF IsEmpty(in, b, st) THEN Yes(<< >>, Consume(in, b, st)) ELSE No(old, st)
    [] T.t \in {"Optional", "Pointer"} -> ReadNullable(T, in, old, tags, b, st)
    [] T.t = "Atomic" -> Commit(Read(T.of, in, Default(T.of), tags, b, st), old)
    [] T.t \in {"List", "Set", "Multiset"} -> ReadSequence(T, in, old, b, st)
    [] T.t = "Tuple" -> ReadTuple(T, in, old, b, st)
    [] T.t = "Pair" -> ReadEntry(<<FirstName, SecondName>>, <<T.first, T.second>>, in, old, b, st)
    [] T.t = "Named" -> ReadNamed(T, in, old, b, st)
    [] T.t = "Map" -> ReadTextMap(T, in, old, b, st)
    [] T.t \in {"KeyMap", "Multimap"} -> ReadEntries(T, in, old, b, st)
    [] T.t = "Variant" -> ReadVariant(T, in, old, tags, b, st)
    [] T.t = "Struct" -> ReadStruct(T, in, old, tags, b, st)
    [] T.t = "Positional" -> ReadPositional(T, in, old, b, st)
===============================================================================
