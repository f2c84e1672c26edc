----------------------------- MODULE ProtoClient -----------------------------
(***************************************************************************)
(* ProtoStreamClient and ProtoDatagramClient                               *)
(* (include/nekoproto/communication/communication_base.hpp): a program     *)
(* sends protocol messages to another one, whole or in slices, with or     *)
(* without its table of protocol numbers, over a stream that may end, or   *)
(* in datagrams that may be lost, duplicated or reordered.  Each program   *)
(* has a ProtoFactory of its own, which may still grow.                    *)
(*                                                                         *)
(* A write puts a whole frame into the stream, or fails for good, or fails *)
(* with Canceled while the stream lives on: then nothing of the frame was  *)
(* written, or a part of its header, or its header and a part of its data, *)
(* as _sendRaw writes in pieces.  Sends of one client follow each other,   *)
(* and so do its recvs.  A recv takes a frame in one step, or is stopped   *)
(* inside it.  A payload is a sequence of units.                           *)
(***************************************************************************)
EXTENDS ProtoFactory

CONSTANTS
  Statics,    \* [Side -> SUBSET Name]: protocols linked into a program
  Dynamics,   \* [Side -> SUBSET Name]: protocols it may register later
  Specify,    \* [Name -> Int]: the number a protocol asks for, or -1
  Sizes,      \* payload sizes
  SliceUnits, \* payload units in a slice (gSliceSize less the header)
  MaxDatagram, \* payload units in a datagram
  MaxWire,    \* frames a stream holds before its writer waits
  MaxSends, MaxErrors  \* bounds on sends, and on failures of writes and streams

NoUnit == <<0, 0>>  \* a unit that is not of the message: not filled, or of a frame behind it

Sender == "sender"
Receiver == "receiver"
Side == {Sender, Receiver}

ASSUME ClientAssumption ==
  /\ Statics \in [Side -> SUBSET Name] /\ Dynamics \in [Side -> SUBSET Name]
  /\ Specify \in [Name -> Int]
  /\ Sizes \subseteq Nat \ {0}
  /\ SliceUnits \in Nat \ {0} /\ MaxDatagram \in Nat

VARIABLES
  transport,  \* "stream" or "datagram"
  program,    \* [Side -> program]
  sent,       \* messages given to send: [name, number, size]
  queue,      \* frames the send in progress has still to write
  wire,       \* frames in the stream, up to the first damage
  broken,     \* a frame in part, or a message without end, was left in this connection
  spoilt,     \* frames in the stream behind that
  net,        \* datagrams on their way
  dead,       \* the stream takes and gives no more
  whole,      \* messages written in full to this connection, before any damage
  aligned,    \* no recv was stopped in the middle of a frame
  mMessage, mBuffer, mSliceSizeCount, mProtocolTable,  \* of the receiver
  told,       \* a table came on this connection
  received,   \* what recv returned
  errors      \* failures so far

sendVars == <<sent, queue, whole>>
damageVars == <<broken, spoilt>>
linkVars == <<transport, wire, damageVars, net, dead>>
bufferVars == <<mMessage, mBuffer, mSliceSizeCount>>
recvVars == <<aligned, bufferVars, mProtocolTable, told, received>>
vars == <<program, sendVars, linkVars, recvVars, errors>>

Init ==
  /\ transport \in {"stream", "datagram"}
  /\ program = [s \in Side |-> Fresh]
  /\ sent = <<>> /\ queue = <<>>
  /\ wire = <<>> /\ net = {} /\ dead = FALSE /\ whole = {}
  /\ broken = FALSE /\ spoilt = <<>>
  /\ aligned = TRUE
  /\ mMessage = NoProto /\ mBuffer = <<>> /\ mSliceSizeCount = 0
  /\ mProtocolTable = <<>> /\ told = FALSE
  /\ received = <<>>
  /\ errors = 0

------------------------------------------------------------------------------
(* The factories. *)

InitStatic(s, n) ==
  /\ ~program[s].built
  /\ n \in Statics[s] \ program[s].statics
  /\ MaySpecify(program[s], Specify[n])
  /\ program' = [program EXCEPT ![s] = DeclareStatic(@, n, Specify[n])]
  /\ UNCHANGED <<sendVars, linkVars, recvVars, errors>>

Build(s) ==
  /\ ~program[s].built
  /\ program[s].statics = Statics[s]
  /\ program' = [program EXCEPT ![s] = Construct(@)]
  /\ UNCHANGED <<sendVars, linkVars, recvVars, errors>>

RegistDynamic(s, n) ==
  /\ program[s].built
  /\ n \in Dynamics[s] \ DOMAIN program[s].types
  /\ program' = [program EXCEPT ![s] = Regist(@, n)]
  /\ UNCHANGED <<sendVars, linkVars, recvVars, errors>>

Ready == \A s \in Side : program[s].built

------------------------------------------------------------------------------
(* Sending. *)

Payload(m) == [i \in 1..sent[m].size |-> <<m, i>>]

Version(p) == [kind |-> "version", table |-> TableOf(p)]
Cancel == [kind |-> "cancel"]

Complete(m, number, size) ==
  [kind |-> "complete", m |-> m, data |-> number, units |-> [i \in 1..size |-> <<m, i>>]]

SliceHeader(m, number, size) == [kind |-> "sliceHeader", m |-> m, data |-> number, length |-> size]

SliceAt(m, size, offset) ==
  LET length == IF size - offset < SliceUnits THEN size - offset ELSE SliceUnits
  IN  [kind |-> "slice", m |-> m, data |-> offset, last |-> offset + length >= size,
       units |-> [i \in 1..length |-> <<m, offset + i>>]]

Slices(m, size) ==
  [k \in 1..((size + SliceUnits - 1) \div SliceUnits) |-> SliceAt(m, size, (k - 1) * SliceUnits)]

(* The frames of one send, in the order it writes them. *)
Frames(m, n, size, slice, verify) ==
  LET number == Number(program[Sender], n)
  IN  (IF verify THEN <<Version(program[Sender])>> ELSE <<>>)
      \o (IF slice THEN <<SliceHeader(m, number, size)>> \o Slices(m, size)
                   ELSE <<Complete(m, number, size)>>)

Send(n, size, slice, verify) ==
  /\ Ready /\ queue = <<>> /\ Len(sent) < MaxSends
  /\ ~dead
  /\ n \in DOMAIN program[Sender].types
  /\ transport = "datagram" => ~slice /\ size <= MaxDatagram
  /\ sent' = Append(sent, [name |-> n, number |-> Number(program[Sender], n), size |-> size])
  /\ queue' = Frames(Len(sent) + 1, n, size, slice, verify)
  /\ UNCHANGED <<program, whole, linkVars, recvVars, errors>>

Ends(frame) == frame.kind = "complete" \/ (frame.kind = "slice" /\ frame.last)

(* _sendRaw, all of it.  What is behind the damage stays there.            *)
WriteFrame ==
  /\ transport = "stream" /\ queue # <<>> /\ ~dead
  /\ Len(wire) + Len(spoilt) < MaxWire
  /\ queue' = Tail(queue)
  /\ IF broken
       THEN spoilt' = Append(spoilt, Head(queue)) /\ UNCHANGED <<wire, whole>>
       ELSE /\ wire' = Append(wire, Head(queue))
            /\ whole' = IF Ends(Head(queue)) THEN whole \cup {Head(queue).m} ELSE whole
            /\ UNCHANGED spoilt
  /\ UNCHANGED <<program, sent, transport, broken, net, dead, recvVars, errors>>

Unnamed == "unnamed"  \* a name no program has: the empty one that operator[] inserts

(* What a torn frame looks like to its reader: it takes what is behind it  *)
(* for the rest, and goes on in the middle of that.                        *)
Middle == [kind |-> "middle"]
TornHeader == <<Middle>>
TornData(frame) ==
  CASE frame.kind \in {"complete", "slice"} ->
         {<<[frame EXCEPT !.units = [i \in DOMAIN @ |-> IF i <= k THEN @[i] ELSE NoUnit]], Middle>> :
            k \in 0..(Len(frame.units) - 1)}
    [] frame.kind = "version" -> {<<[frame EXCEPT !.table = [t \in DOMAIN @ |-> Unnamed]], Middle>>}
    [] OTHER -> {}

AfterCancelNothing(frame) == <<>>

(* What a send still writes when a write came back Canceled: a Cancel if   *)
(* slices are on their way; nothing after the last one, whose result the   *)
(* loop does not look at, and nothing for a Cancel, whose result nobody    *)
(* looks at.                                                               *)
AfterCancel(frame) ==
  IF frame.kind = "sliceHeader" \/ (frame.kind = "slice" /\ ~frame.last) THEN <<Cancel>> ELSE <<>>

(* Without this frame the receiver takes the message for unfinished.       *)
Closes(frame) == frame.kind = "cancel" \/ (frame.kind = "slice" /\ frame.last)

WriteCancelled ==
  /\ transport = "stream" /\ queue # <<>> /\ ~dead
  /\ errors < MaxErrors
  /\ \/ /\ broken' = (broken \/ Closes(Head(queue)))
        /\ UNCHANGED spoilt
     \/ \E torn \in {TornHeader} \cup TornData(Head(queue)) :
          /\ broken' = TRUE
          /\ spoilt' = spoilt \o torn
  /\ queue' = AfterCancel(Head(queue))
  /\ errors' = errors + 1
  /\ UNCHANGED <<program, sent, whole, transport, wire, net, dead, recvVars>>

(* The stream ends, at any time: between frames or inside one. *)
StreamEnds ==
  /\ transport = "stream" /\ ~dead
  /\ errors < MaxErrors
  /\ dead' = TRUE
  /\ queue' = <<>>
  /\ wire' \in {SubSeq(wire, 1, k) : k \in 0..Len(wire)}
  /\ spoilt' \in {SubSeq(spoilt, 1, k) : k \in 0..Len(spoilt)}
  /\ wire' # wire => spoilt' = <<>>
  /\ errors' = errors + 1
  /\ UNCHANGED <<program, sent, whole, transport, broken, net, recvVars>>

(* sendto: one datagram per frame.  The network may lose it, keep it for   *)
(* later, deliver it twice or cut it short.                                *)
SendDatagram ==
  /\ transport = "datagram" /\ queue # <<>>
  /\ net' \in {net, net \cup {Head(queue)}}
  /\ queue' = Tail(queue)
  /\ UNCHANGED <<program, sent, whole, transport, wire, damageVars, dead, recvVars, errors>>

------------------------------------------------------------------------------
(* ProtoClientBase: from a number to a protocol, and from a payload to the *)
(* message that recv returns.                                              *)

CreateByNumber(t) ==
  IF t \in DOMAIN mProtocolTable THEN CreateNamed(program[Receiver], mProtocolTable[t])
  ELSE Create(program[Receiver], t)

(* _createProto: reserved numbers mean the same everywhere, others what    *)
(* the table of the peer says, if there is one.                            *)
CreateProto(t) ==
  IF t <= Reserved \/ mProtocolTable = <<>> THEN Create(program[Receiver], t)
  ELSE IF t \in DOMAIN mProtocolTable THEN CreateNamed(program[Receiver], mProtocolTable[t])
  ELSE NoProto

(* What is read now was written before any damage.                         *)
Sound == ~broken \/ wire # <<>>

(* _finishMessage: recv returns a message, a RawDataMessage if it has the  *)
(* flag RecvUnknownTypeData, or an error.  Asking the table for the name   *)
(* of an unknown number adds it.                                           *)
Finish(proto, frame, buffer) ==
  LET name == IF frame.data \in DOMAIN mProtocolTable THEN mProtocolTable[frame.data] ELSE Unnamed
      result(isRaw, n) ==
        [raw |-> isRaw, name |-> n, data |-> buffer, told |-> told,
         sliced |-> frame.kind = "slice", sound |-> Sound]
  IN  /\ mMessage' = NoProto
      /\ \/ /\ proto # NoProto
            /\ received' = Append(received, result(FALSE, proto))
            /\ mBuffer' = buffer
            /\ UNCHANGED mProtocolTable
         \/ /\ proto = NoProto
            /\ received' = Append(received, result(TRUE, name))
            /\ mBuffer' = <<>>
            /\ mProtocolTable' = Insert(mProtocolTable, frame.data, Unnamed)
         \/ /\ proto = NoProto
            /\ mBuffer' = buffer
            /\ UNCHANGED <<received, mProtocolTable>>

(* _syncProtocolTable *)
SyncProtocolTable(frame) == mProtocolTable' = frame.table /\ told' = TRUE

------------------------------------------------------------------------------
(* recv of a stream. *)

(* A recv takes the next frame of the stream.  Several recvs in a row, or  *)
(* one, make no difference to what is kept between frames.                 *)
Incoming == IF wire # <<>> THEN Head(wire) ELSE Head(spoilt)

(* A recv waits for the rest of a torn frame until something is behind it. *)
Readable ==
  \/ wire # <<>>
  \/ /\ spoilt # <<>>
     /\ Head(spoilt) = Middle => Len(spoilt) > 1
     /\ Len(spoilt) > 1 /\ spoilt[2] = Middle => Len(spoilt) > 2

Reads(kind) ==
  /\ transport = "stream" /\ Ready /\ aligned
  /\ Readable /\ Incoming.kind = kind
  /\ IF wire # <<>> THEN wire' = Tail(wire) /\ UNCHANGED spoilt
                    ELSE spoilt' = Tail(spoilt) /\ UNCHANGED wire
  /\ UNCHANGED <<program, sendVars, transport, broken, net, dead, errors>>

Resized(buffer, n) == [i \in 1..n |-> IF i <= Len(buffer) THEN buffer[i] ELSE NoUnit]

ReadCancel ==
  /\ Reads("cancel")
  /\ mMessage' = NoProto /\ mBuffer' = <<>> /\ mSliceSizeCount' = 0
  /\ UNCHANGED <<aligned, mProtocolTable, told, received>>

(* _recvVersion: the buffer is used for the table. *)
ReadVersion ==
  /\ Reads("version")
  /\ mBuffer' = <<NoUnit>>
  /\ SyncProtocolTable(Incoming)
  /\ UNCHANGED <<aligned, mMessage, mSliceSizeCount, received>>

ReadComplete ==
  /\ Reads("complete")
  /\ Finish(CreateProto(Incoming.data), Incoming, Incoming.units)
  /\ UNCHANGED <<aligned, mSliceSizeCount, told>>

(* An unknown type ends this recv; the slices are left to the next ones. *)
ReadSliceHeader ==
  /\ Reads("sliceHeader")
  /\ mMessage' = CreateProto(Incoming.data)
  /\ mBuffer' = Resized(mBuffer, Incoming.length)
  /\ UNCHANGED <<aligned, mSliceSizeCount, mProtocolTable, told, received>>

Filled(buffer, frame) ==
  [i \in DOMAIN buffer |-> IF i - frame.data \in DOMAIN frame.units
                             THEN frame.units[i - frame.data] ELSE buffer[i]]

(* The slice lies in the buffer (the assertion in recv).                   *)
FitsIn(buffer, frame) == frame.data + Len(frame.units) <= Len(buffer)

ReadSlice ==
  /\ Reads("slice")
  /\ FitsIn(mBuffer, Incoming)
  /\ LET buffer == Filled(mBuffer, Incoming)
         count == mSliceSizeCount + Len(Incoming.units)
     IN  IF count = Len(buffer)
           THEN /\ mSliceSizeCount' = 0
                /\ Finish(mMessage, Incoming, buffer)
           ELSE /\ mSliceSizeCount' = count
                /\ mBuffer' = buffer
                /\ UNCHANGED <<mMessage, mProtocolTable, received>>
  /\ UNCHANGED <<aligned, told>>

(* Behind a torn frame recv takes the middle of a frame for a header: what *)
(* it makes of that is left out, as for a recv that was stopped.           *)
ReadMiddle ==
  /\ Reads("middle")
  /\ aligned' = FALSE
  /\ UNCHANGED <<bufferVars, mProtocolTable, told, received>>

(* A recv is stopped, or fails, inside a frame: the next one would take    *)
(* the rest for a header.  (Stopped before a frame, it changes nothing.)   *)
StopRecv ==
  /\ transport = "stream" /\ aligned
  /\ errors < MaxErrors
  /\ aligned' = FALSE
  /\ errors' = errors + 1
  /\ UNCHANGED <<program, sendVars, linkVars, bufferVars, mProtocolTable, told, received>>

(* setStreamClient on both sides, without the flag reconnect, once one of  *)
(* them has seen an error.                                                 *)
KeepBuffers == UNCHANGED bufferVars
ResetBuffers == mMessage' = NoProto /\ mBuffer' = <<>> /\ mSliceSizeCount' = 0
SetStreamClient ==
  /\ transport = "stream"
  /\ dead \/ broken \/ ~aligned
  /\ queue = <<>>
  /\ dead' = FALSE /\ wire' = <<>> /\ whole' = {}
  /\ broken' = FALSE /\ spoilt' = <<>>
  /\ aligned' = TRUE /\ told' = FALSE
  /\ ResetBuffers
  /\ UNCHANGED <<program, sent, queue, transport, net, mProtocolTable,
                 received, errors>>

------------------------------------------------------------------------------
(* recv of datagrams: one is one frame. *)

Datagram(kind, d) == transport = "datagram" /\ Ready /\ d \in net /\ d.kind = kind
Delivered(d) == net' \in {net, net \ {d}}
AroundDatagram == UNCHANGED <<program, sendVars, transport, wire, damageVars, dead, errors>>

RecvVersionDatagram(d) ==
  /\ Datagram("version", d)
  /\ Delivered(d)
  /\ SyncProtocolTable(d)
  /\ AroundDatagram
  /\ UNCHANGED <<aligned, bufferVars, received>>

RecvDatagram(d) ==
  /\ Datagram("complete", d)
  /\ Len(received) < MaxSends  \* bound on duplicates
  /\ Delivered(d)
  /\ Finish(CreateProto(d.data), d, d.units)
  /\ AroundDatagram
  /\ UNCHANGED <<aligned, mSliceSizeCount, told>>

(* A datagram whose length is not the one its header says is an error. *)
RecvTruncated(d) ==
  /\ Datagram("complete", d)
  /\ errors < MaxErrors
  /\ Delivered(d)
  /\ errors' = errors + 1
  /\ UNCHANGED <<program, sendVars, transport, wire, damageVars, dead, aligned, bufferVars,
                 mProtocolTable, told, received>>

------------------------------------------------------------------------------
Next ==
  \/ \E s \in Side : \/ Build(s)
                     \/ \E n \in Name : InitStatic(s, n) \/ RegistDynamic(s, n)
  \/ \E n \in Name, size \in Sizes, slice, verify \in BOOLEAN : Send(n, size, slice, verify)
  \/ WriteFrame \/ WriteCancelled \/ StreamEnds \/ SendDatagram
  \/ ReadCancel \/ ReadVersion \/ ReadComplete \/ ReadSliceHeader \/ ReadSlice
  \/ ReadMiddle \/ StopRecv \/ SetStreamClient
  \/ \E d \in net : RecvVersionDatagram(d) \/ RecvDatagram(d) \/ RecvTruncated(d)

Spec == Init /\ [][Next]_vars

------------------------------------------------------------------------------
(* Types; unless a write was torn before it, recv never copies a slice     *)
(* past the buffer its header asked for (the assertion in recv).           *)
TypeOK ==
  /\ transport \in {"stream", "datagram"}
  /\ \A s \in Side : DOMAIN program[s].types \subseteq Name
  /\ aligned \in BOOLEAN /\ broken \in BOOLEAN
  /\ mMessage \in Name \cup {NoProto}
  /\ Sound => mSliceSizeCount \in 0..Len(mBuffer)
  /\ whole \subseteq DOMAIN sent
  /\ (wire # <<>> /\ Head(wire).kind = "slice") => FitsIn(mBuffer, Head(wire))

(* A number means one name, in one program. *)
UniqueNumbers ==
  \A s \in Side : \A n, o \in DOMAIN program[s].types :
    program[s].types[n] = program[s].types[o] => n = o

(* A name keeps its number for the life of the process, whatever is        *)
(* declared, built or registered: peers remember it.                       *)
NumbersStay ==
  [][\A s \in Side : \A n \in DOMAIN program[s].types :
       /\ n \in DOMAIN program'[s].types
       /\ program'[s].types[n] = program[s].types[n]]_program

(* The number of a registered protocol creates that protocol, however its  *)
(* number compares with the size of the creator list, and no number        *)
(* creates another.                                                        *)
CreatesItsName ==
  \A s \in Side : LET own == program[s] IN
    own.built => /\ \A n \in DOMAIN own.types : CreateNamed(own, n) = n
                 /\ \A t \in 0..(own.counter + 1) :
                      Create(own, t) # NoProto => Number(own, Create(own, t)) = t

(* What recv returns is one of the payloads sent, whole and unmixed, and   *)
(* on a stream in the order it was sent: through slices, broken streams,   *)
(* lost datagrams and writes that were cancelled before they wrote, or     *)
(* after.  Only what lies behind a torn frame, or behind a message whose   *)
(* end or Cancel was never written, may be anything, until the next        *)
(* setStreamClient; what came before the damage, or comes after that, is   *)
(* not.                                                                    *)
MessageOf(e) == e.data[1][1]
Trusted == {k \in DOMAIN received : received[k].sound}
MessagesIntact ==
  /\ \A k \in Trusted :
       LET e == received[k] IN MessageOf(e) \in DOMAIN sent /\ e.data = Payload(MessageOf(e))
  /\ transport = "stream" =>
       \A j, k \in Trusted : j < k => MessageOf(received[j]) < MessageOf(received[k])

(* With the table of its peer, a program gives a message the type it was   *)
(* sent with, or none, although the two programs number their protocols    *)
(* differently and may register more at any time.                          *)
NamedAsSent ==
  \A k \in Trusted :
    LET e == received[k] IN
      (e.told /\ ~(e.raw /\ e.sliced)) => e.name \in {Unnamed, sent[MessageOf(e)].name}

(* On a stream that is still up and has been read up to its damage, or to  *)
(* its end, every message with a reserved number that was written whole    *)
(* before has been received: no unknown message before it, none cancelled  *)
(* and taken back, and nothing left of an older stream costs it.           *)
ReservedArrives ==
  (transport = "stream" /\ ~dead /\ aligned /\ wire = <<>> /\ (queue = <<>> \/ broken)) =>
    \A m \in whole : sent[m].number <= Reserved =>
      \E k \in Trusted : MessageOf(received[k]) = m /\ ~received[k].raw

(* A number means one name: in a program, for its factory, and for a peer. *)
NumbersMeanNames == TypeOK /\ UniqueNumbers /\ CreatesItsName /\ NamedAsSent
==============================================================================
