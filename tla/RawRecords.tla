------------------------------ MODULE RawRecords ------------------------------
\* Data without the magic (the raw values of binary/binary_reader.hpp and
\* binary/binary_writer.hpp, raw_fixed_data of parsing/reflection.hpp): a record is
\* its fields in fixed widths one after the other. What is not framed is read raw,
\* whether the target is such a record or not.
EXTENDS TypeReaders, BinaryWire

RawType(T) == IF T.t = "Enum" THEN T.of ELSE T

RawWidth(T) == CASE T.t = "Bool" -> 1 [] T.t = "Float" -> T.n [] OTHER -> T.bits \div 8

RawBytes(T, v) == CASE T.t = "Bool" -> <<IF v THEN 1 ELSE 0>>
                    [] T.t = "Float" -> v
                    [] OTHER -> Bytes(v, T.bits \div 8)

\* A field of a raw record is a number or an enumeration whose tag gives the width it has.
RawField(field) == RawType(field.type).t \in {"Bool", "Signed", "Unsigned", "Float"} /\ "fixed" \in field.tags

WriteRaw(T, v) ==
  IF T.t = "Struct" /\ \A j \in DOMAIN Kept(T) : RawField(T.fields[Kept(T)[j]])
  THEN Written(FlattenSeq([j \in DOMAIN Kept(T) |-> RawBytes(RawType(T.fields[Kept(T)[j]].type), v[Kept(T)[j]])]))
  ELSE Failed

\* Reading is from a cursor on; what is read tells the next one.
Raw(v, cursor, left) == Parsed(v, cursor, left)
ReadRawNumber(T, data, cursor) ==
  LET taken == Take(data, cursor, RawWidth(T))
      v == CASE T.t = "Bool" -> taken.value[1] = 1
             [] T.t = "Float" -> taken.value
             [] OTHER -> FixedValue(T, taken.value)
  IN IF ~taken.ok \/ (T.t = "Bool" /\ taken.value[1] > 1) THEN Broken ELSE Raw(v, taken.cursor, 0)

\* Every field needs data to be left, the first one included.
ReadRawRecord(T, data, old) ==
  IF T.t # "Struct" THEN Broken
  ELSE FoldLeft(LAMBDA done, j :
                  LET i == Kept(T)[j]
                      field == T.fields[i]
                      read == ReadRawNumber(RawType(field.type), data, done.cursor)
                  IN IF ~done.ok \/ ~RawField(field) THEN Broken
                     ELSE IF ~read.ok THEN Broken
                     ELSE Raw([done.value EXCEPT ![i] = read.value], read.cursor, 0),
                Raw(old, 1, 0), [j \in DOMAIN Kept(T) |-> j])

\* Any other target: a number takes its width, a text its length and its bytes; what may be null never is.
ReadRawText(data, limits) ==
  LET text == ParseText(data, 1, limits, 1)
  IN IF text.ok /\ Len(text.value) <= limits.allocation THEN text ELSE Broken
RECURSIVE ReadRaw(_, _, _)
ReadRaw(T, data, limits) ==
  LET text == ReadRawText(data, limits)
      Inner == ReadRaw(T.of, data, limits)
  IN CASE data = << >> -> Broken
       [] T.t \in {"Bool", "Signed", "Unsigned", "Float"} -> ReadRawNumber(T, data, 1)
       [] T.t = "Text" -> text
       [] T.t = "Bits" -> IF text.ok /\ Len(text.value) = T.n /\ ToSet(text.value) \subseteq {0, 1} THEN text ELSE Broken
       [] T.t = "Enum" -> IF ~text.ok THEN ReadRawNumber(T.of, data, 1)
                          ELSE IF \E v \in DOMAIN T.names : T.names[v] = text.value
                               THEN Raw(CHOOSE v \in DOMAIN T.names : T.names[v] = text.value, text.cursor, 0)
                               ELSE Broken
       [] T.t = "Atomic" -> Inner
       [] T.t \in {"Optional", "Pointer"} -> IF Inner.ok THEN Raw(<<Inner.value>>, Inner.cursor, 0) ELSE Broken
       [] OTHER -> Broken
===============================================================================
