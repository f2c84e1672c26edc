------------------------------- MODULE Documents -------------------------------
\* One document on its way: an output serializer writes a root value into a buffer,
\* the buffer reaches a reader, perhaps damaged, and an input serializer reads it
\* into a target (serializer_adapter.hpp, binary_serializer.hpp,
\* json/rapid_json_serializer.hpp, toml_serializer.hpp and yaml_serializer.hpp). What
\* the target's type makes of the document is TypeReaders', what the bytes are is
\* BinaryWire's and RawRecords', what a tree is in TOML and YAML TextBackends'. Other
\* buffers than Binary's hold the trees flushed into them: the text is the libraries'.
EXTENDS TypeSchema, RawRecords

CONSTANT Cases,        \* a sequence of [backend, type, tags, value, readType, readTags, old, limits, ample]: what is written
                       \* and read, and whether the limits leave room for it and its text tells its type
         ChangedBytes  \* what a damaged byte becomes

VARIABLES number,  \* which of the cases
          out,     \* the output serializer and its buffer
          wire,    \* what reaches the reader, or NoWire
          in,      \* the input serializer, or NoInput
          target   \* the object read into
vars == <<number, out, wire, in, target>>

case == Cases[number]

NoWire == [fault |-> "none"]
NoInput == [open |-> FALSE]

Binary(c) == c.backend = "Binary"

\* ------------------------------------------------------------------- writing

Rawly(c) == Binary(c) /\ "raw" \in c.tags
Encoded(c) ==
  LET tree == IF Rawly(c) THEN WriteRaw(c.type, c.value) ELSE Write(c.type, c.value, c.tags, c.backend)
  IN IF tree.ok /\ ~Binary(c) THEN TextDocument(tree.value, c.backend) ELSE tree
InBytes(c, node) == IF Rawly(c) THEN node ELSE Document(node)

Init ==
  /\ number \in DOMAIN Cases
  /\ out = [attempted |-> FALSE, ok |-> TRUE, root |-> << >>, buffer |-> << >>, flushed |-> FALSE, ended |-> FALSE]
  /\ wire = NoWire
  /\ in = NoInput
  /\ target = case.old

\* A binary root goes into the buffer as it is written, any other is kept for the end.
WriteRoot ==
  /\ ~out.attempted
  /\ wire.fault = "none"
  /\ LET written == Encoded(case)
     IN out' = [out EXCEPT !.attempted = TRUE, !.ok = written.ok, !.ended = FALSE,
                           !.root = IF written.ok THEN <<written.value>> ELSE << >>,
                           !.buffer = IF written.ok /\ Binary(case) THEN InBytes(case, written.value) ELSE @]
  /\ UNCHANGED <<number, wire, in, target>>

\* A second root is refused, and that is the result from then on.
WriteSecondRootCleared ==
  /\ out.attempted
  /\ wire.fault = "none"
  /\ out' = [out EXCEPT !.root = << >>, !.ended = FALSE]
  /\ UNCHANGED <<number, wire, in, target>>
WriteSecondRoot ==
  /\ out.attempted
  /\ wire.fault = "none"
  /\ out' = [out EXCEPT !.ok = FALSE, !.ended = FALSE]
  /\ UNCHANGED <<number, wire, in, target>>

\* end() flushes a root that was kept once; it changes no failure into success.
Flush(o) == IF ~o.ok \/ o.root = << >> \/ o.flushed THEN o
            ELSE [o EXCEPT !.buffer = @ \o o.root, !.flushed = TRUE]
End ==
  /\ wire.fault = "none"
  /\ out' = [(IF Binary(case) THEN out ELSE Flush(out)) EXCEPT !.ended = TRUE]
  /\ UNCHANGED <<number, wire, in, target>>

\* ------------------------------------------------------------------ delivery

Arrives(fault, data) == wire' = [fault |-> fault, data |-> data]

\* Bytes cut off, one appended, one replaced, or a varint padded with a byte more than it needs.
DamageBytes(data) ==
  \/ \E n \in 0..(Len(data) - 1) : Arrives("cut", SubSeq(data, 1, n))
  \/ Arrives("longer", Append(data, 0))
  \/ \E i \in DOMAIN data : \/ \E x \in ChangedBytes : Arrives("changed", [data EXCEPT ![i] = x])
                            \/ Arrives("padded", SubSeq(data, 1, i - 1) \o <<128 + (data[i] % 128), 0>> \o SubSeq(data, i + 1, Len(data)))

\* A text cut off before its first member, a member of the root lost, or null, which TOML has no word for.
Without(kids, i) == SubSeq(kids, 1, i - 1) \o SubSeq(kids, i + 1, Len(kids))
LoseMember(node, i) ==
  IF node.k = "Object" THEN ObjectNode(Without(node.keys, i), Without(node.kids, i)) ELSE ArrayNode(Without(node.kids, i))
DamageTree(tree) ==
  \/ Arrives("cut", << >>)
  \/ /\ tree.k \in {"Array", "Object"}
     /\ \E i \in DOMAIN tree.kids : \/ Arrives("lost", <<LoseMember(tree, i)>>)
                                    \/ case.backend # "Toml" /\ Arrives("nulled", <<[tree EXCEPT !.kids[i] = NullNode]>>)

\* A caller hands on what a serializer that reports no failure has written.
Deliver ==
  /\ wire.fault = "none" /\ out.ended /\ out.ok /\ out.attempted
  /\ \/ Arrives("whole", out.buffer)
     \/ Binary(case) /\ DamageBytes(out.buffer)
     \/ ~Binary(case) /\ DamageTree(out.buffer[1])
  /\ UNCHANGED <<number, out, in, target>>

\* ------------------------------------------------------------------- reading

\* The reader looks at its input at once: too many bytes, or a text that is no document, is a failure for good.
Open ==
  /\ wire.fault # "none" /\ ~in.open
  /\ in' = [open |-> TRUE, init |-> IF Binary(case) THEN Len(wire.data) <= case.limits.input
                                   ELSE Len(TextInput(wire.data, case.backend)) = 1,
            attempted |-> FALSE, ok |-> TRUE, took |-> FALSE]
  /\ UNCHANGED <<number, out, wire, target>>

\* All of the input belongs to the value.
Finished(read, data) == read.ok /\ read.cursor = Len(data) + 1
Result(read, old) == [ok |-> read.ok, value |-> IF read.ok THEN read.value ELSE old]
ReadParsed(c, parsed, data, old) ==
  IF ~parsed.ok \/ ~Finished(parsed, data) THEN [ok |-> FALSE, value |-> old]
  ELSE Result(Read(c.readType, At(parsed.value, << >>), old, c.readTags, "Binary", [left |-> parsed.left, used |-> {}]), old)
ReadFramed(c, data, old) ==
  ReadParsed(c, ParseDocument(data, c.limits), data, old)
ReadUnframed(c, data, old) ==
  LET read == IF "raw" \in c.readTags THEN ReadRawRecord(c.readType, data, old) ELSE ReadRaw(c.readType, data, c.limits)
  IN IF Finished(read, data) THEN [ok |-> TRUE, value |-> read.value] ELSE [ok |-> FALSE, value |-> old]

\* Binary reads into a copy; the others leave it to the parser of the target.
ReadTree(c, tree, old) == Read(c.readType, At(tree, << >>), old, c.readTags, c.backend, [left |-> 0, used |-> {}])
ReadDocument(c, data, old) ==
  IF ~Binary(c) THEN ReadTree(c, TextInput(data, c.backend)[1], old)
  ELSE IF "raw" \notin c.readTags /\ Framed(data) THEN ReadFramed(c, data, old)
  ELSE ReadUnframed(c, data, old)

ReadRoot ==
  /\ in.open /\ in.init /\ ~in.attempted
  /\ \E read \in {ReadDocument(case, wire.data, target)} :
       /\ target' = read.value
       /\ in' = [in EXCEPT !.attempted = TRUE, !.ok = read.ok, !.took = read.ok]
  /\ UNCHANGED <<number, out, wire>>

\* The root is read once, and not at all when the input was refused.
ReadRefused ==
  /\ in.open /\ (~in.init \/ in.attempted)
  /\ in' = [in EXCEPT !.ok = FALSE]
  /\ UNCHANGED <<number, out, wire, target>>

Next == WriteRoot \/ WriteSecondRoot \/ End \/ Deliver \/ Open \/ ReadRoot \/ ReadRefused

Spec == Init /\ [][Next]_vars

\* ---------------------------------------------------------------- properties

Damage == {"whole", "cut", "longer", "changed", "padded", "lost", "nulled"}

\* The serializers' flags go together: only a root that was attempted is in the buffer,
\* and only an input that was opened has been read.
TypeOK ==
  /\ number \in DOMAIN Cases
  /\ out.flushed => out.buffer = out.root
  /\ out.root # << >> => out.attempted
  /\ wire.fault \in Damage \cup {"none"}
  /\ in.open => wire.fault # "none" /\ (in.attempted => in.init) /\ (in.took => in.attempted)

\* What of a written value a target of the same type holds afterwards: fields the type
\* ignores keep what the target had.
RECURSIVE Arriving(_, _, _)
Arriving(T, v, old) ==
  IF T.t \notin {"Struct", "Positional"} THEN v
  ELSE [i \in DOMAIN T.fields |-> IF "ignore" \in T.fields[i].tags THEN old[i]
                                  ELSE Arriving(T.fields[i].type, v[i], old[i])]

\* A value that was written and delivered whole is read back by its own type, except
\* for what the target's limits keep out, and for what YAML, whose scalars are texts,
\* cannot tell apart (parser_write and parser_read are inverse).
RoundTrip ==
  (in.open /\ in.attempted /\ wire.fault = "whole" /\ case.readType = case.type /\ case.ample)
    => in.took /\ target = Arriving(case.type, case.value, case.old)

\* A reader whose type has other fields than the writer's takes those it has in common;
\* what the document does not have keeps the target's value where it is skippable, is
\* null where it can be, and makes the read fail where it is neither.
CommonFieldsArrive ==
  (in.open /\ in.took /\ wire.fault = "whole" /\ case.type.t = "Struct" /\ case.readType.t = "Struct") =>
    \A j \in DOMAIN case.readType.fields :
      LET field == case.readType.fields[j]
          same == {i \in DOMAIN case.type.fields : /\ case.type.fields[i].name = field.name
                                                  /\ "ignore" \notin case.type.fields[i].tags}
      IN CASE {"ignore", "flat"} \cap field.tags # {} -> "ignore" \in field.tags => target[j] = case.old[j]
           [] same # {} -> LET i == Min(same) IN target[j] = Arriving(field.type, case.value[i], case.old[j])
           [] same = {} /\ "skippable" \in field.tags -> target[j] = case.old[j]
           [] OTHER -> OptionalLike(field.type) /\ ~HasValue(field.type, target[j])

\* A failed read leaves the target alone: always in Binary, whose serializer commits
\* after the last byte, and elsewhere for the types whose parsers commit, which are all
\* but the tuples, pairs and named values.
Commits(T) == T.t \notin {"Tuple", "Pair", "Named"}
RefusedUntouched ==
  (in.open /\ in.attempted /\ ~in.took /\ (Binary(case) \/ Commits(case.readType))) => target = case.old

\* A document cut short is refused. Where the cut goes through the magic the rest is
\* read raw, so that this needs a target whose raw form is no number.
RECURSIVE ReadsRawNumber(_)
ReadsRawNumber(T) ==
  \/ T.t \in {"Bool", "Signed", "Unsigned", "Float", "Enum"}
  \/ T.t \in {"Optional", "Pointer", "Atomic"} /\ ReadsRawNumber(T.of)
CutRefused ==
  (in.open /\ in.attempted /\ wire.fault = "cut" /\ Binary(case))
    => ~in.took \/ (Len(wire.data) < Len(Magic) /\ ReadsRawNumber(case.readType))

\* A document has one form: the bytes that are accepted are the bytes the writer makes
\* of the tree they were parsed to (minimal varints, no member twice, nothing behind).
OneForm ==
  (in.open /\ in.took /\ Binary(case) /\ "raw" \notin case.readTags /\ Framed(wire.data))
    => wire.data = Document(ParseDocument(wire.data, case.limits).value)

\* What a reader accepts is within its limits: the depth, the members, and all that it
\* had to allocate, the texts it copied included.
RECURSIVE Depth(_), Cost(_)
Depth(node) == IF node.k \in {"Array", "Object", "IdObject"}
               THEN Max({0} \cup {1 + Depth(node.kids[i]) : i \in DOMAIN node.kids}) ELSE 0
Cost(node) ==
  NodeCost + (CASE node.k = "Array" -> Len(node.kids) * ElementCost
                [] node.k \in {"Object", "IdObject"} -> Len(node.kids) * MemberCost
                [] OTHER -> 0)
  + (IF node.k \in {"Array", "Object", "IdObject"} THEN FoldLeft(LAMBDA sum, kid : sum + Cost(kid), 0, node.kids) ELSE 0)
Copied(T, v) == CASE T.t = "Text" -> Len(v)
                  [] T.t = "List" /\ T.of.t = "Text" -> FoldLeft(LAMBDA sum, text : sum + Len(text), 0, v)
                  [] OTHER -> 0
WithinLimits ==
  (in.open /\ in.took /\ Binary(case) /\ "raw" \notin case.readTags /\ Framed(wire.data)) =>
    LET tree == ParseDocument(wire.data, case.limits).value
    IN /\ Len(wire.data) <= case.limits.input
       /\ Depth(tree) <= case.limits.depth
       /\ Cost(tree) + Copied(case.readType, target) <= case.limits.allocation

\* Whatever is written, ended and ended again, a serializer that reports no failure has
\* the one document of its root in the buffer, and no buffer ever holds two.
OneDocument ==
  /\ ~Binary(case) => Len(out.buffer) <= 1
  /\ (out.ended /\ out.ok /\ out.attempted) =>
       /\ out.root # << >>
       /\ out.buffer = IF Binary(case) THEN InBytes(case, out.root[1]) ELSE out.root

\* The schema of a type admits what the type writes (toSchema and write go together).
WrittenFitsSchema ==
  (case.backend = "Json" /\ out.root # << >>) => Fits(out.root[1], SchemaOf(case.type, case.tags))

\* What was written is read: by its own type and by the types its type evolves to.
ReadAsWritten == TypeOK /\ RoundTrip /\ CommonFieldsArrive

\* What is damaged or too large is refused, in one form only, and leaves no trace.
DamageRefused == RefusedUntouched /\ CutRefused /\ OneForm /\ WithinLimits

\* A serializer gives one document, of the schema of its type.
OneFittingDocument == OneDocument /\ WrittenFitsSchema
===============================================================================
