------------------------------ MODULE FrameCodec ------------------------------
\* The Neko-RPC wire format (src/src/rpc.cpp, rpc/private/backend_base.hpp and
\* backend_compression.hpp): frames, extensions, method tables and the run length
\* codec. A message is a sequence of cells 0..CellMax. A byte of a name or of a
\* payload is a cell, and so is every integer of the format, whatever its width:
\* a size that does not fit its integer is one that does not fit a cell.
EXTENDS Integers, Sequences, FiniteSets, SequencesExt

CellMax == 255

Kinds == [Request |-> 1, Response |-> 2, Notify |-> 3, Cancel |-> 4, Hello |-> 5]
FlagBit == [Error |-> 1, MethodId |-> 2, HasExtensions |-> 4, Compressed |-> 8]
Magic == 78
Version == 1
CodecId == 0
HeaderSize == 9

\* The types of extensions; the highest bit of a type marks one that no peer may ignore.
ExtensionTypes == [MethodId |-> 1, MethodTable |-> 3, Compression |-> 16, Algorithm |-> 17, MinPayload |-> 18]
MandatoryBit == 128
RunLength == 1

Frame(kind, flags, id, method, extensions, payload) ==
  [kind |-> kind, flags |-> flags, id |-> id, method |-> method, extensions |-> extensions, payload |-> payload]
NoExtensions == << >>  \* the map of extensions whose domain is empty

Failed(why) == [ok |-> FALSE, error |-> why]
Value(v) == [ok |-> TRUE, value |-> v]

LeastOf(x, y) == IF x < y THEN x ELSE y

\* ---------------------------------------------------------------- extensions

\* Type, size and bytes of one extension after the other; a size fills its integer at most.
AppendTlvs(extensions) ==
  IF \E t \in DOMAIN extensions : Len(extensions[t]) > CellMax THEN Failed("size")
  ELSE Value(FoldLeft(LAMBDA out, t : out \o <<t, Len(extensions[t])>> \o extensions[t],
                      << >>, SetToSortSeq(DOMAIN extensions, <)))

\* The extensions of a frame: refused when one is cut short or repeated.
RECURSIVE LoadTlvs(_, _)
LoadTlvs(data, found) ==
  IF data = << >> THEN Value(found)
  ELSE IF Len(data) < 2 THEN Failed("InvalidRequest")
  ELSE LET t == data[1]
           size == data[2]
       IN IF Len(data) - 2 < size \/ t \in DOMAIN found THEN Failed("InvalidRequest")
          ELSE LoadTlvs(SubSeq(data, 3 + size, Len(data)),
                        [x \in DOMAIN found \cup {t} |-> IF x = t THEN SubSeq(data, 3, 2 + size) ELSE found[x]])

Supported(extensions) == \A t \in DOMAIN extensions : t < MandatoryBit

\* An integer extension is read only when it has the size of its integer.
IntegerTlv(extensions, t) == t \in DOMAIN extensions /\ Len(extensions[t]) = 1

\* -------------------------------------------------------------------- frames

FlagsCell(flags) == LET Bit(f) == IF f \in flags THEN FlagBit[f] ELSE 0
                    IN Bit("Error") + Bit("MethodId") + Bit("HasExtensions") + Bit("Compressed")
FlagsOf(cell) == {f \in DOMAIN FlagBit : (cell \div FlagBit[f]) % 2 = 1}

\* A frame whose parts do not fit the integers of its header is not encoded.
EncodeFrame(f) ==
  LET tlvs == AppendTlvs(f.extensions)
      flags == IF tlvs.ok /\ tlvs.value # << >> THEN f.flags \cup {"HasExtensions"}
               ELSE f.flags \ {"HasExtensions"}
  IN IF ~tlvs.ok \/ (\E part \in {f.method, f.payload, tlvs.value} : Len(part) > CellMax) THEN << >>
     ELSE <<Magic, Version, Kinds[f.kind], FlagsCell(flags), CodecId, Len(tlvs.value), f.id, Len(f.method),
            Len(f.payload)>> \o f.method \o tlvs.value \o f.payload

KnownKinds == {Kinds[k] : k \in DOMAIN Kinds}
ValidHeader(h) == h[1] = Magic /\ h[2] = Version /\ h[3] \in KnownKinds
BodyOf(h) == h[6] + h[8] + h[9]

\* The size of the body a header announces, within the limits.
HeaderBodySize(h, limits) ==
  IF ~ValidHeader(h) \/ h[5] # CodecId THEN Failed("InvalidRequest")
  ELSE IF \/ h[8] > limits.method \/ h[9] > limits.payload \/ h[6] > limits.extensions
          \/ limits.frame < HeaderSize \/ BodyOf(h) > limits.frame - HeaderSize
       THEN Failed("MessageTooLarge")
       ELSE Value(BodyOf(h))

ValidFrameSize(data, limits) ==
  IF Len(data) < HeaderSize THEN Failed("InvalidRequest")
  ELSE LET size == HeaderBodySize(SubSeq(data, 1, HeaderSize), limits)
       IN IF size.ok /\ size.value # Len(data) - HeaderSize THEN Failed("InvalidRequest") ELSE size

\* A frame taken apart: the header, the extensions and the sizes must agree with the bytes.
ParseFrame(data) ==
  IF Len(data) < HeaderSize \/ ~ValidHeader(data) \/ HeaderSize + BodyOf(data) # Len(data) \/ data[5] # CodecId
  THEN Failed("InvalidRequest")
  ELSE LET afterMethod == HeaderSize + data[8]
           tlvs == LoadTlvs(SubSeq(data, afterMethod + 1, afterMethod + data[6]), NoExtensions)
       IN IF ~tlvs.ok \/ ~Supported(tlvs.value) THEN Failed("InvalidRequest")
          ELSE Value(Frame(CHOOSE k \in DOMAIN Kinds : Kinds[k] = data[3], FlagsOf(data[4]), data[7],
                           SubSeq(data, HeaderSize + 1, afterMethod), tlvs.value,
                           SubSeq(data, afterMethod + data[6] + 1, Len(data))))

\* -------------------------------------------------------------- method tables

TableFormat == 2
EntrySize == 4  \* id, state, signature hash and length of the name
EntryStates == {1, 2}  \* Active, Removed

\* Names too long for their length are left out, and not counted.
MethodTableValue(entries) ==
  LET kept == SelectSeq(entries, LAMBDA e : Len(e.name) <= CellMax)
  IN <<TableFormat, Len(kept)>>
     \o FoldLeft(LAMBDA out, e : out \o <<e.id, e.state, e.hash, Len(e.name)>> \o e.name, << >>, kept)

RECURSIVE TableEntries(_, _, _)
TableEntries(value, count, entries) ==
  IF count = 0 THEN IF value = << >> THEN Value(entries) ELSE Failed("InvalidRequest")
  ELSE IF Len(value) < EntrySize \/ value[2] \notin EntryStates \/ Len(value) - EntrySize < value[4]
       THEN Failed("InvalidRequest")
       ELSE LET end == EntrySize + value[4]
            IN TableEntries(SubSeq(value, end + 1, Len(value)), count - 1,
                            Append(entries, [id |-> value[1], state |-> value[2], hash |-> value[3],
                                             name |-> SubSeq(value, EntrySize + 1, end)]))

ParseMethodTable(value) ==
  IF Len(value) < 2 \/ value[1] # TableFormat THEN Failed("InvalidRequest")
  ELSE TableEntries(SubSeq(value, 3, Len(value)), value[2], << >>)

\* ---------------------------------------------------------------- compression

RunBit == 128
RunLeast == 3
RunMost == RunBit - 1 + RunLeast
LiteralMost == RunBit

\* How many bytes from position i on repeat the byte there, RunMost at most.
RECURSIVE RunUncapped(_, _, _)
RunUncapped(data, i, n) ==
  IF i + n > Len(data) \/ data[i + n] # data[i] THEN n ELSE RunUncapped(data, i, n + 1)

RECURSIVE RunFrom(_, _, _)
RunFrom(data, i, n) ==
  IF n = RunMost \/ i + n > Len(data) \/ data[i + n] # data[i] THEN n ELSE RunFrom(data, i, n + 1)
RunAt(data, i) == RunFrom(data, i, 1)

\* Where the literal that begins at first ends, the search standing at i: it looks at the size before it
\* adds a run of one or two.
RECURSIVE LiteralEnd(_, _, _)
LiteralEnd(data, first, i) ==
  IF i > Len(data) \/ RunAt(data, i) >= RunLeast \/ i - first >= LiteralMost THEN i
  ELSE LiteralEnd(data, first, i + RunAt(data, i))

\* The control byte of a literal is its size less one, cut to a byte.
RECURSIVE CompressFrom(_, _)
CompressFrom(data, i) ==
  IF i > Len(data) THEN << >>
  ELSE LET run == RunAt(data, i)
           end == LiteralEnd(data, i, i + run)
       IN IF run >= RunLeast THEN <<RunBit + run - RunLeast, data[i]>> \o CompressFrom(data, i + run)
          ELSE <<(end - i - 1) % (CellMax + 1)>> \o SubSeq(data, i, end - 1) \o CompressFrom(data, end)
Compress(data) == CompressFrom(data, 1)

\* Runs and literals are expanded as long as the output stays within the budget.
RECURSIVE DecompressFrom(_, _, _)
DecompressFrom(data, budget, out) ==
  IF data = << >> THEN Value(out)
  ELSE LET isRun == data[1] >= RunBit
           count == IF isRun THEN data[1] - RunBit + RunLeast ELSE data[1] + 1
           taken == IF isRun THEN 1 ELSE count
       IN IF Len(data) - 1 < taken THEN Failed("InvalidRequest")
          ELSE IF count > budget - LeastOf(budget, Len(out)) THEN Failed("MessageTooLarge")
          ELSE DecompressFrom(SubSeq(data, taken + 2, Len(data)), budget,
                              out \o [j \in 1..count |-> data[IF isRun THEN 2 ELSE j + 1]])
Decompress(data, budget) == DecompressFrom(data, budget, << >>)

\* ------------------------------------------- frames of a session, both ways

EncodeChecked(f, limits) ==
  LET data == EncodeFrame(f)
      size == ValidFrameSize(data, limits)
  IN IF size.ok THEN Value(data) ELSE size

\* What leaves: the payload is compressed when the session says so, it is large enough and it shrinks.
EncodeOutgoing(f, session, options) ==
  LET compressed == Compress(f.payload)
  IN IF \/ ~session.compressing
        \/ f.kind = "Hello"
        \/ "Compressed" \in f.flags
        \/ f.payload = << >>
        \/ Len(f.payload) < session.minPayload
        \/ Len(compressed) >= Len(f.payload)
     THEN EncodeChecked(f, options.limits)
     ELSE EncodeChecked([f EXCEPT !.flags = @ \cup {"Compressed"}, !.payload = compressed], options.limits)

\* What arrives: a compressed payload is expanded within the budget of the options.
DecompressIncoming(f, session, options) ==
  IF "Compressed" \notin f.flags THEN Value(f.payload)
  ELSE IF ~session.compressing \/ f.kind = "Hello" THEN Failed("InvalidRequest")
  ELSE Decompress(f.payload, LeastOf(options.budget, Len(f.payload) * options.ratio))
===============================================================================
