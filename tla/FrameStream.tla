----------------------------- MODULE FrameStream ------------------------------
\* A Neko-RPC connection at the level of its bytes: NekoRpcStreamEndpoint of both
\* sides (rpc/private/stream_endpoint.hpp), the negotiation of compression and of
\* the method table (rpc/backend.hpp), the calls that write frames and the loops
\* that read them. What a handler computes is reduced to AnswerTo; the dispatcher,
\* the client's retries and the method ids are RpcDispatcher, RpcClient and
\* MethodCatalog.
EXTENDS FrameCodec

CONSTANTS
  Calls,        \* the calls of the client, whose ids they are
  Setups,       \* the options of both sides and the payloads of the calls
  AnswerTo(_),  \* what the server's method returns for a payload
  CutSizes      \* the number of cells a write may put on the stream at once, when more are left

VARIABLES
  setup,      \* one of Setups
  handshake,  \* of the client: "none", "refused" (settled, without what it requires) or "done"
  session,    \* side -> what the hello frames settled
  remote,     \* the method table the client has read
  job,        \* side -> sender -> the frame it writes
  lock,       \* side -> the sender that holds the write mutex, or NoOne
  link,       \* side -> the cells it wrote that its peer has not read
  closed,     \* the sides that gave up their endpoint
  reading,    \* side -> the header read last, its body still to come
  outcome,    \* call -> where it stands, and the payload it returned
  sent,       \* side -> the frames that were written whole, as they were before compression
  got,        \* side -> the frames that were read, as the reader understood them
  torn        \* side -> the first of its frames not written or not read to its end, 0 for none

vars == <<setup, handshake, session, remote, job, lock, link, closed, reading, outcome, sent, got, torn>>

Sides == {"client", "server"}
Peer(s) == IF s = "client" THEN "server" ELSE "client"
Hello == 0
NoOne == -1
Senders == {Hello} \cup Calls
Options(s) == setup.options[s]
Asks(s, feature) == Options(s)[feature] # "Disable"

Idle == [pc |-> "idle", plain |-> Frame("Cancel", {}, 0, << >>, NoExtensions, << >>), data |-> << >>, at |-> 0]
Waiting(plain, data) == [pc |-> "waiting", plain |-> plain, data |-> data, at |-> 0]
Is(status) == [status |-> status, payload |-> << >>]
Refusal(f) == [f EXCEPT !.flags = @ \cup {"Error"}, !.payload = << >>]
NewSession(s, choice) == [methodId |-> FALSE, compressing |-> FALSE, minPayload |-> choice.options[s].minPayload]

Init ==
  /\ setup \in Setups
  /\ handshake = "none"
  /\ session = [s \in Sides |-> NewSession(s, setup)]
  /\ remote = << >>
  /\ job = [s \in Sides |-> [t \in Senders |-> Idle]]
  /\ lock = [s \in Sides |-> NoOne]
  /\ link = [s \in Sides |-> << >>]
  /\ closed = {}
  /\ reading = [s \in Sides |-> << >>]
  /\ outcome = [t \in Calls |-> Is("none")]
  /\ sent = [s \in Sides |-> << >>]
  /\ got = [s \in Sides |-> << >>]
  /\ torn = [s \in Sides |-> 0]

\* ------------------------------------------------------------- hello frames

CompressionTlvs(minPayload) ==
  ExtensionTypes.Compression :> << >> @@ ExtensionTypes.Algorithm :> <<RunLength>>
  @@ ExtensionTypes.MinPayload :> <<minPayload>>
HelloFrame(extensions) == Frame("Hello", {}, 0, << >>, extensions, << >>)

ClientHello ==
  HelloFrame((IF Asks("client", "methodId") THEN ExtensionTypes.MethodId :> << >> ELSE NoExtensions)
             @@ (IF Asks("client", "compression") THEN CompressionTlvs(Options("client").minPayload)
                 ELSE NoExtensions))

\* A side agrees to compress when it wants to and the hello names an algorithm it has.
Offers(f) ==
  /\ ExtensionTypes.Compression \in DOMAIN f.extensions
  /\ IntegerTlv(f.extensions, ExtensionTypes.Algorithm)
  /\ f.extensions[ExtensionTypes.Algorithm] = <<RunLength>>
MinPayloadOf(f, otherwise) ==
  IF IntegerTlv(f.extensions, ExtensionTypes.MinPayload) THEN f.extensions[ExtensionTypes.MinPayload][1]
  ELSE otherwise

ServerSession(f) ==
  LET compressing == Asks("server", "compression") /\ Offers(f)
      wanted == MinPayloadOf(f, 0)
      own == session["server"].minPayload
  IN [methodId |-> /\ Asks("server", "methodId") /\ ExtensionTypes.MethodId \in DOMAIN f.extensions
                   /\ setup.table # << >>,
      compressing |-> compressing,
      minPayload |-> IF compressing /\ wanted > own THEN wanted ELSE own]

\* The method table rides on the server's hello when it fits the automatic budget.
TableTlvs ==
  LET hint == ExtensionTypes.MethodId :> << >>
      table == hint @@ ExtensionTypes.MethodTable :> MethodTableValue(setup.table)
      Fits(x) == /\ \A t \in DOMAIN x : Len(x[t]) <= CellMax
                 /\ Len(AppendTlvs(x).value) <= LeastOf(Options("server").tableBudget, CellMax)
  IN IF Fits(table) THEN table ELSE IF Fits(hint) THEN hint ELSE NoExtensions

ServerHelloOfOptions(agreed) ==
  HelloFrame((IF agreed.methodId THEN TableTlvs ELSE NoExtensions)
             @@ (IF agreed.compressing THEN CompressionTlvs(Options("server").minPayload) ELSE NoExtensions))

ServerHello(agreed) ==
  HelloFrame((IF agreed.methodId THEN TableTlvs ELSE NoExtensions)
             @@ (IF agreed.compressing THEN CompressionTlvs(agreed.minPayload) ELSE NoExtensions))

ReadTable(f) ==
  IF ExtensionTypes.MethodTable \in DOMAIN f.extensions THEN ParseMethodTable(f.extensions[ExtensionTypes.MethodTable])
  ELSE Failed("InvalidRequest")

\* The client refuses a hello that offers compression without an algorithm it has.
Acceptable(f) == ExtensionTypes.Compression \in DOMAIN f.extensions => Offers(f)

ClientSession(f) ==
  LET compressing == ExtensionTypes.Compression \in DOMAIN f.extensions
      own == session["client"].minPayload
  IN [methodId |-> /\ ExtensionTypes.MethodId \in DOMAIN f.extensions
                   /\ ReadTable(f).ok \/ remote # << >>,
      compressing |-> compressing,
      minPayload |-> IF compressing /\ Offers(f) THEN MinPayloadOf(f, own) ELSE own]

Satisfied(agreed) ==
  /\ Options("client").methodId = "Require" => agreed.methodId
  /\ Options("client").compression = "Require" => agreed.compressing

\* ---------------------------------------------------------- a side gives up

\* What a side's endpoint is given to write; a frame its limits refuse is not written.
Enqueue(s, t, plain, data) ==
  job' = [job EXCEPT ![s][t] = IF ValidFrameSize(data, Options(s).limits).ok THEN Waiting(plain, data)
                               ELSE [Idle EXCEPT !.pc = "failed"]]

\* A call asks the server what it can while no hello is settled; its failure is that of the call alone.
Asking == \E t \in Calls : outcome[t] = Is("asking")
AskingFails == outcome' = [t \in Calls |-> IF outcome[t] = Is("asking") THEN Is("failed") ELSE outcome[t]]

\* Closing stops what the side was writing and fails the calls that wait.
GiveUp(s) ==
  /\ closed' = closed \cup {s}
  /\ job' = [job EXCEPT ![s] = [t \in Senders |-> [Idle EXCEPT !.pc = "stopped"]]]
  /\ lock' = [lock EXCEPT ![s] = NoOne]
  /\ outcome' = IF s = "client"
                THEN [t \in Calls |-> IF outcome[t] \in {Is("asking"), Is("waiting")} THEN Is("failed") ELSE outcome[t]]
                ELSE outcome

\* ----------------------------------------------------------------- a client

\* A call encodes its request with the session of that moment and waits for the write mutex.
SendRequest(t, agreed) ==
  LET plain == Frame("Request", {}, t, setup.method, NoExtensions, setup.calls[t])
      encoded == EncodeOutgoing(plain, agreed, Options("client"))
  IN IF encoded.ok
     THEN outcome' = [outcome EXCEPT ![t] = Is("waiting")] /\ Enqueue("client", t, plain, encoded.value)
     ELSE outcome' = [outcome EXCEPT ![t] = Is("failed")] /\ UNCHANGED job

\* The first call says hello, under the mutexes that keep the others waiting (ensureClientReady).
Start(t) ==
  /\ handshake = "none"
  /\ ~Asking
  /\ "client" \notin closed
  /\ outcome[t] = Is("none")
  /\ ClientHello.extensions # NoExtensions
  /\ outcome' = [outcome EXCEPT ![t] = Is("asking")]
  /\ Enqueue("client", Hello, ClientHello, EncodeFrame(ClientHello))
  /\ UNCHANGED <<setup, handshake, session, remote, lock, link, closed, reading, sent, got, torn>>

HelloNotSent ==
  /\ Asking
  /\ job["client"][Hello].pc = "failed"
  /\ AskingFails
  /\ UNCHANGED <<setup, handshake, session, remote, job, lock, link, closed, reading, sent, got, torn>>

\* With the handshake settled, for better or worse, or nothing to settle, a call goes on at once and the
\* receive loop runs.
Call(t) ==
  /\ handshake # "none" \/ ClientHello.extensions = NoExtensions
  /\ "client" \notin closed
  /\ outcome[t] = Is("none")
  /\ handshake' = "done"
  /\ SendRequest(t, session["client"])
  /\ UNCHANGED <<setup, session, remote, lock, link, closed, reading, sent, got, torn>>

CancelOf(t) == Frame("Cancel", {}, t, << >>, NoExtensions, << >>)

\* A call that ends without its answer lets go of the mutexes and spawns the Cancel of its id.
Abandon(t, how) ==
  /\ outcome' = [outcome EXCEPT ![t] = Is(how)]
  /\ Enqueue("client", t, CancelOf(t), EncodeFrame(CancelOf(t)))
  /\ lock' = [lock EXCEPT !["client"] = IF @ = t THEN NoOne ELSE @]

Unfinished(j) == j.at \in 1..(Len(j.data) - 1)
FirstTorn(s, index) == torn' = [torn EXCEPT ![s] = IF @ = 0 THEN index ELSE @]

\* A caller stops a call, at any moment; in the middle of a write the frame stays unfinished.
Stop(t) ==
  /\ t \in setup.stops
  /\ outcome[t] = Is("waiting")
  /\ Abandon(t, "stopped")
  /\ IF job["client"][t].plain.kind = "Request" /\ Unfinished(job["client"][t])
     THEN FirstTorn("client", Len(sent["client"]) + 1) ELSE UNCHANGED torn
  /\ UNCHANGED <<setup, handshake, session, remote, link, closed, reading, sent, got>>

\* Stopped while it says hello, a call has no request yet to cancel. The endpoint stays, with a hello cut off.
StopHello(t) ==
  /\ t \in setup.stops
  /\ outcome[t] = Is("asking")
  /\ job["client"][Hello].pc # "done"
  /\ outcome' = [outcome EXCEPT ![t] = Is("stopped")]
  /\ job' = [job EXCEPT !["client"][Hello] = [Idle EXCEPT !.pc = "stopped"]]
  /\ lock' = [lock EXCEPT !["client"] = NoOne]
  /\ IF Unfinished(job["client"][Hello]) THEN FirstTorn("client", Len(sent["client"]) + 1) ELSE UNCHANGED torn
  /\ UNCHANGED <<setup, handshake, session, remote, link, closed, reading, sent, got>>

\* The client is closed, in the middle of anything.
Close ==
  /\ setup.closes
  /\ "client" \notin closed
  /\ GiveUp("client")
  /\ UNCHANGED <<setup, handshake, session, remote, link, reading, sent, got, torn>>

\* ------------------------------------------------------------ frames written

LockWithoutMutex(s, t) ==
  /\ job[s][t].pc = "waiting"
  /\ lock' = [lock EXCEPT ![s] = t]
  /\ job' = [job EXCEPT ![s][t].pc = "writing"]
  /\ UNCHANGED <<setup, handshake, session, remote, link, closed, reading, outcome, sent, got, torn>>

Lock(s, t) ==
  /\ job[s][t].pc = "waiting"
  /\ lock[s] = NoOne
  /\ lock' = [lock EXCEPT ![s] = t]
  /\ job' = [job EXCEPT ![s][t].pc = "writing"]
  /\ UNCHANGED <<setup, handshake, session, remote, link, closed, reading, outcome, sent, got, torn>>

\* writeAll puts some of the remaining cells on the stream.
Write(s, t) ==
  LET j == job[s][t]
      left == Len(j.data) - j.at
  IN /\ j.pc = "writing"
     /\ left > 0
     /\ Peer(s) \notin closed
     /\ \E n \in {c \in CutSizes : c < left} \cup {left} :
          /\ link' = [link EXCEPT ![s] = @ \o SubSeq(j.data, j.at + 1, j.at + n)]
          /\ job' = [job EXCEPT ![s][t].at = @ + n]
          /\ sent' = IF n = left THEN [sent EXCEPT ![s] = Append(@, j.plain)] ELSE sent
     /\ UNCHANGED <<setup, handshake, session, remote, lock, closed, reading, outcome, got, torn>>

\* The frame is flushed and the mutex released.
Written(s, t) ==
  /\ job[s][t].pc = "writing"
  /\ job[s][t].at = Len(job[s][t].data)
  /\ job' = [job EXCEPT ![s][t] = [Idle EXCEPT !.pc = "done"]]
  /\ lock' = [lock EXCEPT ![s] = IF @ = t THEN NoOne ELSE @]
  /\ UNCHANGED <<setup, handshake, session, remote, link, closed, reading, outcome, sent, got, torn>>

\* The peer is gone: the call fails, the server closes; a Cancel is sent at best.
WriteFails(s, t) ==
  /\ job[s][t].pc = "writing"
  /\ Peer(s) \in closed
  /\ CASE s = "server" -> GiveUp(s)
       [] s = "client" /\ job[s][t].plain.kind = "Request" -> Abandon(t, "failed") /\ UNCHANGED closed
       [] OTHER -> /\ job' = [job EXCEPT ![s][t] = [Idle EXCEPT !.pc = "failed"]]
                   /\ lock' = [lock EXCEPT ![s] = NoOne]
                   /\ UNCHANGED <<closed, outcome>>
  /\ UNCHANGED <<setup, handshake, session, remote, link, reading, sent, got, torn>>

\* --------------------------------------------------------------- frames read

\* The client reads the answer to its hello, then in its receive loop; the server waits for its hello to be
\* written before it reads on.
Reads(s) ==
  /\ s \notin closed
  /\ IF s = "client" THEN handshake = "done" \/ (Asking /\ job["client"][Hello].pc = "done")
     ELSE job["server"][Hello].pc \notin {"waiting", "writing"}

\* A read that fails ends the loop of that side; in the handshake it fails the call that
\* asks, and what follows on the stream is out of step.
EndOfReads(s) ==
  IF s = "client" /\ Asking
  THEN AskingFails /\ FirstTorn("server", Len(got["client"]) + 1) /\ UNCHANGED <<closed, job, lock>>
  ELSE GiveUp(s) /\ UNCHANGED torn

ReadHeader(s) ==
  LET cells == link[Peer(s)]
      header == SubSeq(cells, 1, HeaderSize)
  IN /\ Reads(s)
     /\ reading[s] = << >>
     /\ Len(cells) >= HeaderSize
     /\ link' = [link EXCEPT ![Peer(s)] = SubSeq(cells, HeaderSize + 1, Len(cells))]
     /\ IF HeaderBodySize(header, Options(s).limits).ok
        THEN reading' = [reading EXCEPT ![s] = header] /\ UNCHANGED <<closed, job, lock, outcome, torn>>
        ELSE EndOfReads(s) /\ UNCHANGED reading
     /\ UNCHANGED <<setup, handshake, session, remote, sent, got>>

Missing(s) == IF reading[s] = << >> THEN HeaderSize ELSE BodyOf(reading[s])

\* The stream ends within a frame: what was read of it is dropped.
UnexpectedEOF(s) ==
  /\ Reads(s)
  /\ Peer(s) \in closed
  /\ Len(link[Peer(s)]) < Missing(s)
  /\ link' = [link EXCEPT ![Peer(s)] = << >>]
  /\ reading' = [reading EXCEPT ![s] = << >>]
  /\ EndOfReads(s)
  /\ UNCHANGED <<setup, handshake, session, remote, sent, got>>

\* A call stopped while it reads the answer to its hello: what it read of a frame is lost, and the stream
\* out of step for the call that reads next.
StopRead(t) ==
  /\ t \in setup.stops
  /\ outcome[t] = Is("asking")
  /\ job["client"][Hello].pc = "done"
  /\ outcome' = [outcome EXCEPT ![t] = Is("stopped")]
  /\ \E n \in 0..LeastOf(Len(link["server"]), Missing("client") - 1) :
       /\ link' = [link EXCEPT !["server"] = SubSeq(@, n + 1, Len(@))]
       /\ IF n > 0 \/ reading["client"] # << >> THEN FirstTorn("server", Len(got["client"]) + 1) ELSE UNCHANGED torn
  /\ reading' = [reading EXCEPT !["client"] = << >>]
  /\ UNCHANGED <<setup, handshake, session, remote, job, lock, closed, sent, got>>

Understood(s, f) == got' = [got EXCEPT ![s] = Append(@, f)]

\* A response as the server encodes it: within the limits, compressed or not, else none.
ResponseTo(f, payload, flags) == Frame("Response", flags, f.id, << >>, NoExtensions, payload)
Encoded(plain) ==
  LET encoded == EncodeOutgoing(plain, session["server"], Options("server"))
  IN IF encoded.ok THEN encoded ELSE EncodeChecked(plain, Options("server").limits)

RespondIfEncoded(t, plain) ==
  LET encoded == Encoded(plain)
  IN IF encoded.ok THEN Enqueue("server", t, plain, encoded.value) /\ UNCHANGED <<closed, lock, outcome>>
     ELSE UNCHANGED <<job, closed, lock, outcome>>

\* The answer is written, or the endpoint closed when it cannot be encoded.
Respond(t, plain) ==
  LET encoded == Encoded(plain)
  IN IF encoded.ok THEN Enqueue("server", t, plain, encoded.value) /\ UNCHANGED <<closed, lock, outcome>>
     ELSE GiveUp("server")

AnswerHello(f) ==
  /\ session' = [session EXCEPT !["server"] = ServerSession(f)]
  /\ Understood("server", f)
  /\ LET answer == ServerHello(ServerSession(f))
         data == EncodeFrame(answer)
     IN IF ValidFrameSize(data, Options("server").limits).ok
        THEN Enqueue("server", Hello, answer, data) /\ UNCHANGED <<closed, lock, outcome>>
        ELSE GiveUp("server")
  /\ UNCHANGED <<handshake, remote>>

AnswerRequest(f) ==
  LET payload == DecompressIncoming(f, session["server"], Options("server"))
      plain == [f EXCEPT !.flags = {}]
  IN /\ f.id \in Calls
     /\ IF payload.ok
        THEN /\ Understood("server", [plain EXCEPT !.payload = payload.value])
             /\ Respond(f.id, ResponseTo(f, AnswerTo(payload.value), {}))
        ELSE Understood("server", Refusal(plain)) /\ Respond(f.id, ResponseTo(f, << >>, {"Error"}))
     /\ UNCHANGED <<handshake, session, remote>>

\* A frame that is neither: a Cancel, or one the backend drops without an answer.
Drop(s, f) == Understood(s, f) /\ UNCHANGED <<handshake, session, remote, closed, job, lock, outcome>>

ServerHandles(data) ==
  LET parsed == ParseFrame(data)
  IN IF ~parsed.ok THEN Drop("server", CancelOf(0))
     ELSE CASE parsed.value.kind = "Hello" -> AnswerHello(parsed.value)
            [] parsed.value.kind = "Request" /\ "Error" \notin parsed.value.flags
               /\ parsed.value.id \in Calls /\ parsed.value.method # << >> -> AnswerRequest(parsed.value)
            [] OTHER -> Drop("server", parsed.value)

\* The hello of the server settles the session, and the handshake with it; only then the call that asked
\* compares it with what the client requires. An unacceptable one leaves its traces in the session.
AcceptHello(f) ==
  LET agreed == ClientSession(f)
  IN /\ Understood("client", f)
     /\ session' = [session EXCEPT !["client"] = agreed]
     /\ remote' = IF ReadTable(f).ok THEN ReadTable(f).value ELSE remote
     /\ \/ /\ Acceptable(f) /\ Satisfied(agreed)
           /\ handshake' = "done"
           /\ \E t \in Calls : outcome[t] = Is("asking") /\ SendRequest(t, agreed)
        \/ /\ Acceptable(f) /\ ~Satisfied(agreed) /\ Asking
           /\ handshake' = "refused"
           /\ AskingFails /\ UNCHANGED job
        \/ /\ ~Acceptable(f) \/ ~Asking
           /\ AskingFails /\ UNCHANGED <<handshake, job>>
     /\ UNCHANGED <<closed, lock>>

AcceptResponse(f) ==
  LET payload == DecompressIncoming(f, session["client"], Options("client"))
      plain == [f EXCEPT !.flags = @ \cap {"Error"}]
      result == IF ~payload.ok \/ "Error" \in f.flags THEN Is("failed")
                ELSE [status |-> "answered", payload |-> payload.value]
  IN /\ Understood("client", IF payload.ok THEN [plain EXCEPT !.payload = payload.value] ELSE Refusal(plain))
     /\ outcome' = IF f.id \in Calls /\ outcome[f.id] = Is("waiting") THEN [outcome EXCEPT ![f.id] = result]
                   ELSE outcome
     /\ UNCHANGED <<handshake, session, remote, closed, job, lock>>

ClientHandles(data) ==
  LET parsed == ParseFrame(data)
  IN CASE parsed.ok /\ parsed.value.kind = "Hello" -> AcceptHello(parsed.value)
       [] parsed.ok /\ parsed.value.kind = "Response" /\ ~Asking -> AcceptResponse(parsed.value)
       [] OTHER -> /\ Understood("client", CancelOf(0))
                   /\ AskingFails
                   /\ UNCHANGED <<handshake, session, remote, closed, job, lock>>

ReadBody(s) ==
  LET cells == link[Peer(s)]
      size == BodyOf(reading[s])
      data == reading[s] \o SubSeq(cells, 1, size)
  IN /\ Reads(s)
     /\ reading[s] # << >>
     /\ Len(cells) >= size
     /\ link' = [link EXCEPT ![Peer(s)] = SubSeq(cells, size + 1, Len(cells))]
     /\ reading' = [reading EXCEPT ![s] = << >>]
     /\ IF s = "server" THEN ServerHandles(data) ELSE ClientHandles(data)
     /\ UNCHANGED <<setup, sent, torn>>

\* -------------------------------------------------------------------- system

Next ==
  \/ HelloNotSent
  \/ Close
  \/ \E t \in Calls : Start(t) \/ Call(t) \/ Stop(t) \/ StopHello(t) \/ StopRead(t)
  \/ \E s \in Sides :
       \/ ReadHeader(s)
       \/ ReadBody(s)
       \/ UnexpectedEOF(s)
       \/ \E t \in Senders : Lock(s, t) \/ Write(s, t) \/ Written(s, t) \/ WriteFails(s, t)

Spec == Init /\ [][Next]_vars

\* ---------------------------------------------------------------- properties

Plain(f) == [kind |-> f.kind, id |-> f.id, method |-> f.method, extensions |-> f.extensions, payload |-> f.payload]
Whole(s, i) == torn[s] = 0 \/ i < torn[s]
InStep == \A s \in Sides : torn[s] = 0
Refused(f, of) == "Error" \in f.flags /\ "Error" \notin of.flags

TypeOK ==
  /\ setup \in Setups
  /\ handshake \in {"none", "refused", "done"}
  /\ DOMAIN job = Sides /\ \A s \in Sides, t \in Senders :
       /\ job[s][t].pc \in {"idle", "waiting", "writing", "done", "failed", "stopped"}
       /\ job[s][t].at \in 0..Len(job[s][t].data)
  /\ \A s \in Sides : /\ lock[s] \in Senders \cup {NoOne}
                      /\ \A i \in 1..Len(link[s]) : link[s][i] \in 0..CellMax
                      /\ torn[s] \in 0..(Len(sent[s]) + 1)
  /\ closed \subseteq Sides

\* Frames arrive whole, in the order they were written, and mean what they meant before they were compressed
\* (encodeFrame and parse_frame_parts, neko_rpc_encode_outgoing_frame and
\* neko_rpc_decompress_incoming_payload); of a frame left unfinished by a call stopped while it wrote or
\* read it, and of what follows it, nothing is said. A payload may be refused, when it is larger than its reader allows.
FramesArriveIntact ==
  \A s \in Sides : \A i \in 1..Len(got[s]) :
    Whole(Peer(s), i) =>
      /\ i <= Len(sent[Peer(s)])
      /\ LET f == got[s][i]
             of == sent[Peer(s)][i]
         IN IF Refused(f, of) THEN Len(of.payload) > Options(s).budget ELSE Plain(f) = Plain(of)

\* After the handshake both sides agree: they compress or they do not, from the same size on
\* (_handleClientHello and _handleServerHello), also when a call was stopped and another said hello again.
SessionsAgree ==
  handshake # "none" /\ InStep =>
    /\ session["client"].compressing = session["server"].compressing
    /\ session["client"].compressing => session["client"].minPayload = session["server"].minPayload

\* A client that requires a feature the server lacks is told once: the call that said hello fails. Only then
\* calls go without the feature (ensureClientReady, backend.hpp:533 and 574-579; docs/rpc_method_id_design.md:59
\* wants more, see README.md).
RequireIsTold ==
  handshake # "none" => Satisfied(session["client"]) \/ \E t \in Calls : outcome[t] = Is("failed")

\* The table a client has read is the table of the server, but for the names that fit no length
\* (encode_method_entries_value and parse_method_entries_value).
TableArrives ==
  session["client"].methodId /\ InStep =>
    remote = SelectSeq(setup.table, LAMBDA e : Len(e.name) <= CellMax)

\* A call returns the answer to its own payload, whatever was compressed on the way (_callRemote).
AnswersMatch ==
  \A t \in Calls : outcome[t].status = "answered" /\ InStep =>
    outcome[t].payload = AnswerTo(setup.calls[t])

\* Nothing larger than the reader's options allow comes out of a frame (headerBodySize, the output budget).
WithinBudget ==
  \A s \in Sides : \A i \in 1..Len(got[s]) :
    Len(got[s][i].payload) <= Options(s).budget \/ Len(got[s][i].payload) <= Options(s).limits.payload

\* A call that waits has its frame, or the answer to it, somewhere on its way: nothing drops a request or a
\* response without telling the caller (processMessage, which answers what it cannot decode or encode by an
\* error or by closing). After a frame was left unfinished the reader may wait for its rest for ever.
CallsAreUnderWay ==
  \A t \in Calls : outcome[t] = Is("waiting") /\ InStep =>
    \/ closed # {}
    \/ \E s \in Sides : \/ job[s][t].pc \in {"waiting", "writing"}
                       \/ \E i \in 1..Len(sent[s]) : i > Len(got[Peer(s)]) /\ sent[s][i].id = t

\* What is written arrives, whole and within the reader's budget.
FramesArrive == TypeOK /\ FramesArriveIntact /\ WithinBudget

\* What the handshake agreed on holds for both sides, and a client that does not get what it requires is told.
HandshakeHolds == SessionsAgree /\ RequireIsTold /\ TableArrives

\* A call gets its own answer, and nothing drops it on the way.
CallsAreAnswered == AnswersMatch /\ CallsAreUnderWay
===============================================================================
