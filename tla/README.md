# TLA+ models of NekoProtoTools

NekoProtoTools is a C++20 header library: reflection based serialization
(binary, JSON, XML, YAML, TOML), an argument parser, protocols with a factory
and stream or datagram clients, and an RPC layer on the `ilias` coroutine
library with two backends, Neko-RPC and JSON-RPC. This directory holds TLA+
models of it, TLC configurations that check them on small instances, and TLAPS
proofs about them.

Paths are relative to `src/`; `rpc/` stands for `include/nekoproto/rpc/`.

1. [The system](#the-system) - inventory of components
2. [The modules](#the-modules) - what models what, and how
3. [The runs](#the-runs) - what TLC checks, bounds, fairness
4. [The proofs](#the-proofs)
5. [What the code does differently from its documents](#findings)
6. [Abstractions and assumptions](#abstractions-and-assumptions)
7. [Not modelled](#not-modelled)
8. [Plan](#plan)

## The system

A call goes through these parts, left to right, and its answer comes back:

    RpcClient -- backend encode --> endpoint ==stream==> endpoint -- RpcServer
                 (ids, hello)                                          |
                                                      backend decode (catalog)
                                                                       |
                                              RpcDispatcher: limiter, handlers

Everything of one server, or of one client, runs on one executor:
coroutines interleave at suspension points (`co_await`), never in between.
What is hard in this code is therefore what happens at suspension points:
stops, deadlines and other coroutines, with state read before and used after.
The serializers, the argument parser and the factories run to their end without
suspending; hard there are inputs nobody wrote a test for, failures half way,
and calls in an unusual order.

| Component | State | Operations | Correct when |
|---|---|---|---|
| **RpcDispatcher**, RpcExecutionLimiter (`rpc/dispatcher.hpp`) | semaphore permits, outstanding requests, gauges and counters, cancel handles and request states by (session, id), connection timeouts | `processMessage`, `tryAdmit`, `_invoke`, `cancel`, `cancelAll`, `cancelSession`, `setConnectionTimeout` | capacity respected, every request answered once and finally, nothing left in the maps, counters true |
| **RpcClient** (`rpc/client.hpp`) | pending calls by id, current endpoint, receive loop, peer session, two mutexes | call, notify, `setEndpoint`, `close`, `shutdown`, `cancelRemote`, receive loop | own answer or an error, no entry leaks, one reader per stream, a disconnect ends the calls |
| **Method ids** (`src/rpc.cpp`, `rpc/private/backend_method_id.hpp`, `rpc/backend.hpp`) | server's table of methods with ids, versions and tombstones; the client's copy | hello, `refreshMethodCatalog`, encode by id, resolve, table in error responses, one retry | an id names one method for ever; a call reaches the handler it names; the retry settles |
| **RpcServer** (`rpc/server.hpp`, `builtin.hpp`, `registry.hpp`) | connection slots and their tasks, send mutexes, `mClosing` | `addEndpoint`, receive loop, `close`, `shutdown`, `flush` | a closed connection leaves no task and no handle; one peer does not stop another's request; limits per connection; a shutdown ends |
| **Neko-RPC frames, extensions, compression** (`src/rpc.cpp`, `rpc/private/backend_base.hpp`, `backend_compression.hpp`, `stream_endpoint.hpp`) | what both sides agreed on; bytes on the stream | encode and decode, negotiation, run-length codec, limits | frames arrive whole and mean what they meant; both sides agree |
| **JSON-RPC backend** (`jsonrpc/`, `transport/endpoint.hpp`) | next id | batches, ids, error codes, parameters by name or in order | one response per request with an id, none for notifications, arguments as passed |
| **ProtoStreamClient, ProtoDatagramClient** (`communication/communication_base.hpp`) | protocol table of the peer, slice buffer and count | send in slices, recv, version exchange, cancel | a message arrives whole or not at all, under its name |
| **ProtoFactory** (`src/proto_base.cpp`, `proto/`) | type numbers by name, creators | `regist`, `create`, static initialisation | numbers are unique, a number creates its protocol |
| **Argument parser** (`argparser/`) | none between parses | schema checks, token loop, configuration files, materialisation, export | argv beats environment beats configuration beats default, exact errors |
| **Binary serializer** (`serialization/binary/`) | reader position and limits | read and write of values and frames | read inverts write, never reads past a limit |
| **Serialization parsers** (`serialization/parsing/`) | none | parse and write reflected types, schemas | missing and null fields, variants, evolution of types |
| **JSON, TOML, YAML adapters** | third-party documents | tree walks | the same values come back through every backend |
| XML adapter, XorList, help texts, logging | | | [not modelled](#not-modelled) |
| RPC metadata (`method.hpp`, `properties.hpp`, `tags.hpp`, ...), reflection | none | compile time | - |

Interactions: a client and a server share only the stream. The server spawns
one task per message in the scope of its connection; the dispatcher spawns one
task per request in the scope of the message. All connections share the
dispatcher's limiter and maps. The catalog is shared by all sessions of a
server; each client keeps a copy. The payloads of both RPC backends, the
configuration files of the argument parser and the protocols of the factory are
documents of the serializers. `PROJECT.json` lists the hazards with their
lines and the properties that watch them.

## The modules

| Module | Models | Extends |
|---|---|---|
| `BoundedService` | what the dispatcher promises: a pool of workers with a backlog | |
| `RpcDispatcher` | `RpcDispatcher` and `RpcExecutionLimiter`; proofs in `RpcDispatcherProofs` (capacity, refinement) and `RpcDispatcherAnswers` (answers) | |
| `RpcDispatcherRefinement` | the mapping from dispatcher to pool | `RpcDispatcher` |
| `RpcClient` | `RpcClient` on a multiplexing backend, the streams and an external peer; proofs in `RpcClientProofs` | |
| `MethodTable` | `NekoRpcMethodIdTable` and `NekoRpcSyncMethodTable`, pure operators | |
| `MethodCatalog` | the catalog, two sessions and calls by id or by name; proofs in `MethodCatalogProofs` (ids) and `MethodCatalogCopies` (versions, retries, the steps of a refresh) | `MethodTable` |
| `ConnectionScope` | what a server promises about the life of a connection | |
| `RpcServer` | `RpcServer`: connections, receive loops, message tasks, shutdown; proofs in `RpcServerProofs` | |
| `FrameCodec` | frames, extensions, tables on the wire, the run-length codec: operators | |
| `FrameStream` | one Neko-RPC connection at the level of its bytes | `FrameCodec` |
| `ProtoFactory` | the numbers and creators of one program: operators on a record | |
| `ProtoClient` | two programs that send each other messages; proofs about it and the factory in `ProtoClientProofs` | `ProtoFactory` |
| `ArgSchema` | the declaration of an options struct and its validation | |
| `ArgParser` | one call of `parser<T>`; proofs in `ArgParserProofs` | `ArgSchema` |
| `TypeParsers` | how a value of a type is written as a tree of nodes | |
| `TextBackends` | what TOML and YAML make of that tree | `TypeParsers` |
| `TypeReaders` | how a tree is read back into a value | `TextBackends` |
| `TypeSchema` | the schema of a type, and what it admits | `TypeParsers` |
| `BinaryWire` | the bytes of Binary V2 | |
| `RawRecords` | records of fixed width, without the magic | `TypeReaders`, `BinaryWire` |
| `Documents` | one document between an output and an input serializer | `TypeSchema`, `RawRecords` |
| `JsonRpcCodec` | calls, answers and batches of JSON-RPC as Json trees | `TypeReaders` |
| `JsonRpc` | calls over a JSON-RPC connection, and messages of other peers | `JsonRpcCodec` |
| `MC...` | finite instances | |

### RpcDispatcher

A *message* is one activation of `processMessage`: a frame, or a JSON-RPC
batch, on a session. `Begin` enters it, and until `AwaitAll` the loop over its
requests does not suspend, so all other actions wait (`Idle`). Each request is
taken in `Position` order by `RefuseUnknown` (no handler, or it did not decode),
`RefuseOverloaded` (`tryAdmit` said no, or the connection is over its limit:
`rejectOnly`) or `Admit` (cancel handle, state "queued", task spawned).
`Start` is the semaphore's grant, `Complete` the handler's return, `Expire` the
deadline in both places, `Abort` the end of a stopped task. `Release` is the
destruction of the admission they share. `Finish` is what `processMessage` does
after `waitAll`: erase the message's keys, fill in responses that a stopped
task still owes, encode. `Cancel`, `CancelId`, `CancelAll`, `CloseSession` and
`AbandonCall` are the ways to stop requests; `SetConnectionTimeout` is
`rpc.set_connection_timeout`, called from a running handler.

Variables have the names of the members (`mPermits`, `mOutstanding`,
`mCancelHandles`, ...); `phase` and `msg` are the program counters of the
coroutines, `slot` the `responseSlots`.

`BoundedService` says it without the mechanism: at most `Workers` run, at most
`Backlog` wait, and one is turned away for lack of room only when there is none.
A request refused for another reason is none of the pool's business.

### RpcClient

A call goes idle, protocol, helloLock, hello, sendLock, sending, waiting, ended:
the suspension points of `_callRemote` and `_ensureReceiver` - two mutexes, the
hello, the write, the oneshot. `GiveUp` takes it away at any of them (deadline,
stop token, dropped task) and runs its guards (`End`): mutexes released, the
pending entry erased (`Abandon`), a best effort Cancel spawned. `Recover` is
the retry after a method id error. `Receive` and `Disconnect` are the receive loop,
`Close`, `SetEndpoint`, `BeginShutdown` .. `EndShutdown` and `CancelRemote` the
other entry points. `peer` is the endpoint that `mPeerSession` was negotiated
on; what the session contains is `MethodCatalog`'s subject. `HelloFailed` may
leave the session negotiated: `_handleServerHello` marks it so before
`ensureClientReady` compares the answer with what the client requires.

### MethodTable and MethodCatalog

A table is a record of its version, minimum version, entries (the id is the
place) and index. `SyncSteps` is `NekoRpcSyncMethodTable` as it is written, one
upsert or removal after the other, with the delta it reports. `Sync` is the
same in one step, in a form that proofs can use: kept entries or
tombstones, then the additions in order, as many as fit. `SyncIsSteps` says
that the two agree on every table the catalog reaches and every list of methods; it is checked and proved.

`MethodCatalog` runs calls against a catalog that changes: `Refresh`
(`bindMethod`, or any list given to `refreshMethodCatalog`), `RaiseMinimum`, the
hello in three steps, and per call `EncodeRequest`, `Dispatch` or `Reject`, `Invoke`,
`DecodeResponse`, `Retry` or `Fail`. `Dispatch` resolves the method and looks its handler up;
the request's task refers to that `handler` while it waits for a permit, and
`Invoke` calls it (`rpc/dispatcher.hpp:453`, `653`, `667`). A `Refresh` destroys the handlers it
replaces or binds again, and the calls that refer to one are `dangling`: they may reach
anything. A call's `outcome` records the handler it reached. Hashes are not assumed injective; the instance has a collision between
the names on purpose.

### RpcServer and ConnectionScope

A connection goes new, receiving (with answering, for a hello, and refuseLock,
refuseSend, for the inline refusal of a request over the limit), cleanup, gone;
`rejected` is a connection that came while the server closed. A request goes
spawned, executing, lock, sending, done: `_handleClient`'s task of one message.
What happens inside `processMessage` is `RpcDispatcher`'s subject: `Execute` ends
it in any way. `handles` are the keys in the dispatcher that a Cancel frame or
`cancelSession` finds. `control` is the one `flush`, `shutdown` or `close` under
way with the list it copied (`snapshot`) and what of it is left (`todo`).

`ConnectionScope` is the structured concurrency the server promises: work
enters an open connection only, may leave at any time, and the connection is
gone when the last of it left. `ImplementsConnectionScope` maps loops to lives
and the tasks in flight to work.

### FrameCodec and FrameStream

A message is a sequence of cells 0..255. A byte of a name or payload is a cell,
and so is every integer of the format; a size that does not fit its integer is
one that does not fit a cell. `EncodeFrame`, `ParseFrame` and the
extensions keep all checks and their order; `Compress` and `Decompress` are the
run-length codec with its real constants (127 literals, runs of 130).

`FrameStream` puts them under two endpoints: writes in pieces under a mutex,
reads of a header, then of a body, a client that closes, and a
server that answers what it can and closes what it cannot. The hello belongs to the
first call (`Start`, `AcceptHello`): when it fails, or the call is stopped in it (`StopHello`,
`StopRead`), the next call says hello again, on the stream as it is then; when the server lacks
what the client requires, the call fails but the handshake is settled (`"refused"`), and the next
call goes on without. `torn` marks where a stream is out of step: behind a frame whose writer was
stopped between two pieces, or whose reader was stopped or refused its header in the hello.

### ProtoFactory and ProtoClient

A program is a record of its numbers by name, counter, statics and creators;
`Declare`, `DeclareStatic`, `Construct`, `Regist` and `Create` are the functions
of `proto_base.cpp`. In `ProtoClient` two programs that were linked and that
register in different orders exchange messages: sends queue a table, a header
and slices, or one frame; a write succeeds, breaks the stream, or comes back
Canceled with nothing written, a part of the header, or the header and a part of
the data (`_sendRaw` writes in pieces). From the first torn frame, unfinished
message or lost Cancel on a connection is `broken`, and what is written
afterwards is `spoilt`: the reader still takes it, fills the torn frame with the
bytes behind it and loses its place (`ReadMiddle`). `recv` takes frames of every kind with the
buffer, count and half made message that earlier ones left; datagrams are lost,
duplicated and late.

### ArgSchema and ArgParser

A program declares fields (name, aliases, type, tags) or commands.
`Collect` makes the schema with the built-in options, `Accepted` is
`validate_schema_definition`. `ArgParser` is one call: validate, scan word by
word, collect the input and output options, defaults, import, explicit values,
check, export. With commands there are two stages, the options of the root and
those of the command.

`FromFirstSource` is the documented order of the sources: argv, environment, imported
file, default, initial value. The code leaves it in two ways, each named in the formula of
`Precedence` and stated exactly: `InitialStaysInFront` (a vector without default or import
keeps its initial value in front) and `ImportDropsDefault` (an import replaces the object,
what the file lacks is empty or, for a skippable field, as the struct is made). A file is emptied
before it is written and its flush is not looked at, so `Export` leaves whole files or
parts, of calls that succeed too; `ResultsAreChecked` says what they are parts of.

### The serializers

A type is a record whose `t` names the parser that handles it, a value what
that parser holds, a document a tree of nodes. `Write` (in `TypeParsers`) and
`Read` (in `TypeReaders`) have one operator per parser, parameterised by the
backend where the backends' readers and writers differ: a binary reader consumes
what it reads and has an allocation budget, YAML's scalars are texts, TOML has
no null. `SchemaOf` gives a type's schema, `Fits` what it admits.

`Documents` is the life of one document: the output serializer's `operator()`,
`end()` and destructor in any order, damage on the way (a cut at every place, a
byte more, a byte changed, a varint padded, a member lost or null), and the
input serializer's `operator()`.

### JsonRpcCodec and JsonRpc

The codec builds on the Json backend of the parsers: a request is written by the
same operators as any reflected struct. `JsonRpc` runs the calls of a client
over a connection on which answers may come in any order; requests longer than a limit
are refused, responses that cannot be encoded close the endpoint. Messages no
client of this library would send go to `processMessage` directly.

## The runs

| Run | Properties | Distinct states |
|---|---|---|
| `dispatcher` | `TypeOK`, `WithinCapacity`, `RequestsAccountedFor` (answered once, nothing left in the shared maps, cancellable until then), `RequestsMoveOn` (one final answer, refused only when full), `ImplementsBoundedService` | 255 536 |
| `dispatcher_timeouts` | `BooksBalance`, `LimitsAndCounters` (a connection's timeout only tightens the server's, counters are true, `canceled` at least counts all who are told so), `MessagesEnd` (liveness) | 467 546 |
| `client` | `OwnAnswer`, `PendingIsTrue` (no lost call, no stale entry, a Cancel frame names no live call), `OneReader` | 917 826 |
| `client_disconnect` | `PendingBounded`, `DisconnectFailsPending`, `DisconnectEndsCalls` (liveness) | 548 026 |
| `catalog` | `HandlerAsNamed`, `RetrySettles`, `SameVersionSameTable`, `IdsAreForever` | 1 973 622 |
| `catalog_sync` | `TableOfHandlers`, `RefreshIsSteps` (the closed form is the code's steps, the delta carries them over) | 9 912 |
| `server` | `RequestsServed` (limit in flight, one writer, answered unless stopped, cancellable while it executes), `NothingIsLeft` (of a gone connection, of a closed server), `OnlyOwnPeerStops`, `ShutdownEnds` (liveness), `ImplementsConnectionScope` | 353 328 |
| `frames` | `FramesArrive` (intact, within the reader's budget), `HandshakeHolds` (both sides agree, an unmet Require fails the call that said hello, the table arrives), `CallsAreAnswered` | 118 731 |
| `proto` | `MessagesIntact` (whole, once on a stream, in order), `ReservedArrives`, `NumbersMeanNames` (unique numbers, the creator of a number makes its name, a receiver sees the sender's name), `NumbersStay` | 3 399 606 |
| `argparser` | `Precedence` (the documented order, with the code's two exceptions), `WordsFollowTheSchema` (spellings are unique, no word is lost, implicit values leave options alone, command and result agree), `ResultsAreChecked` (what is returned or in files is one object, whole or part, that passed the checks) | 89 757 |
| `documents` | `ReadAsWritten` (round trip, common fields of evolved types), `DamageRefused` (refused and untouched, cuts refused, one form, within limits), `OneFittingDocument` (one document however often it is ended, of the schema of its type) | 12 862 |
| `jsonrpc` | `CallsAreTheirOwn` (arguments arrive, own outcome, no call forgotten), `MessagesServed` (one response per request with an id, nothing invoked that was not asked) | 41 664 |

### Bounds

* `dispatcher`: one permit and one queue place, so the third request is over
  capacity; a batch of two, a request that reuses an id of the batch, and a
  notification on another connection that shares the id, so that keys of both
  kinds can be confused. `MaxCanceled` bounds one counter that grows with every
  effective cancel. The properties speak of at most two requests at a time.
* `dispatcher_timeouts`: a server limit of 5 and connection timeouts 0 (at once),
  3 (tighter), 5 (equal: refused) and 10 (beyond `MaxNanos`, the largest
  duration); a batch with an unknown method and the request that sets the timeout,
  a notification of the same connection that may be admitted before or after it was
  set, and a direct call that nobody owns.
* `client`: two calls over two endpoints with one retry each, so four ids (`IdMax`); two
  is the number of calls that can be confused.
* `client_disconnect`: two calls and a notification, one endpoint, budget one,
  no retries: with them the property fails (see [Findings](#findings)).
* `catalog`: two names of two signatures, three changes of the catalog (one
  before the call, one between rejection and retry, one after), a table that
  never fills (at most eight entries) but may exceed the budget of five
  entries or the client's limit of four; the three client modes.
* `catalog_sync`: three names, five entries, two changes: the table starts empty
  or full enough to overflow, and every list of methods is tried on every table.
* `server`: two connections. One sends a hello, two requests and a Cancel for the
  first of them, the other a request with the same id, with one in flight
  at a time: the second request is answered inline and the Cancel waits behind it.
  Any read may be garbage or the end, and one of `flush`, `shutdown` and `close` runs at any time.
* `frames`: fifteen connections (`MCSetups`) with two calls each; what is
  negotiated, which limits are met and whether a call is stopped differ between them; two calls are what
  it takes for one to say hello in vain and the other to go on. A write goes out in pieces
  of one cell or of a header. The largest run and the largest literal of the
  codec occur. A size is one cell, so that overflow is within reach.
* `proto`: two messages of one and three units in slices of one unit, two
  elements on the wire, two failed writes; one reserved number and two names that
  both programs number for themselves. Two failures let a Cancel behind a torn slice, and a
  new message behind that, reach the reader.
* `argparser`: eleven programs, one for each way declarations interact; every
  argv of up to three words of the program's alphabet, every environment and file listed for it.
* `documents`: 103 cases (41 of Binary, 19 of Json, 14 of each of TOML, libfyaml
  and yaml-cpp, one name twice): a value of every kind of type, a record with all kinds of
  fields against its newer, stricter and wrong versions, limits met exactly and missed by one; every
  cut position, six values for a changed byte at every place.
* `jsonrpc`: six calls made in order (one that cannot be encoded, named and positional
  parameters, a struct that is the params, a request too long for the client
  and a notification too long for the server), 21 messages of other peers
  (batches, notifications, bad ids, missing and additional members), two stray answers. The
  limits are 20 nodes for the client and 16 for the server. A behaviour is
  about one foreign message or about the connection, which share no state.

`CHECK_DEADLOCK FALSE` where the system rests: a server without requests, a
client whose calls all ended, a connection whose messages arrived. `argparser`
and `documents` check deadlock: their last state repeats (a result stays, a root may be refused again).

### Fairness

`RpcDispatcher!Fairness`: the executor resumes coroutines that can
run, timers fire and stopped tasks end. There is none on `Complete`: a handler
may never return, and `MessagesEnd` holds because a `request_timeout` bounds it.
There is none on `Start`: a queued request may wait until its deadline.
`RpcClient!Fairness`: a task waiting for a free mutex gets it, a write
ends, the peer answers a hello or it fails, the receive loop notices the end of
its stream. None on answers, on giving up or on starting calls. Weak fairness on the
locks is enough as every holder lets go; it does not say in which order.
`RpcServer!Fairness`: stopped tasks end, writes end and cleanup goes on; strong fairness
where `shutdown` waits for a send mutex that others keep taking, since the mutex
serves its waiters; none on handlers and none on what peers send. A peer that
never reads would block a shutdown: neither locks nor writes have a deadline
there, and the fairness of writes stands for peers that read.
The other modules state safety only.

### Mutants

Every property has a mutant in `PROJECT.json`: a plausible slip in one mapped
definition (a permit returned twice, keys of a batch erased too early, a
tombstone dropped, an answer accepted for any call, ...), defined next to it, that the same run then refutes.

## The proofs

Each theorem holds for every value of the constants under the `ASSUME`s of its
modules (what is finite, and what peers or programs may send), and a hypothesis
beyond these is named below. None speaks of the bounds of the runs: those are constants too.

### RpcDispatcher

For every set of messages, requests, sessions, ids and every capacity and
timeout (`DispatcherAssumption`: finite sets of requests, sessions and
ids; the typing of the maps):

* `LimiterInvariant`: `Spec => []LimiterInv`. Neither the type invariant nor the
  books are inductive alone: that `Admit` keeps the queue gauge needs to know that
  a request not yet decoded is not in `queued` (`QueuedEntered`), and that `Begin`
  starts with untouched requests (`NewUntouched`); and the capacity bound
  follows from the books only with the bound on admissions. `LimiterInv` is their
  conjunction. `TypeCorrect`, `BooksAlwaysBalance` and `CapacityRespected` follow.
* `DispatcherImplementsBoundedService`: initial states map to initial states, and
  each step to a step of the pool or a stutter. A step moves at most one request
  of the pool; that it may do so follows from `LimiterInv`, which ties
  `mOutstanding` and `mPermits` to the sets the pool counts.
* `RequestsStayAccountedFor` (`[]RequestsAccountedFor`), `RequestsOnlyMoveOn`
  (`RequestsMoveOn`) and `LimitsAndCountersHold`, from `AnswerInv` on top of
  `LimiterInv`: phases, slots and answers agree request by request; a handle is that of
  an admitted request of the session and id under which it is kept. For the
  counters `LimitsAndCountersHold` adds `TotalsTrue` and `CancelInv`: a request that
  ended unanswered was stopped, and the requests stopped through a handle, in
  messages that go on, are no more than `mCanceled`. The exception the code makes is
  kept: two requests that share an id in one session take each other's handle, and a direct call
  has no owner that erases its keys.

### RpcClient

For every set of requests and endpoints, any number of retries and faults:

* `StreamHasOneReader` and `PendingStaysBounded`, without hypotheses;
* `AnswersReachTheirCall` (`[]OwnAnswer`), `PendingStaysTrue` (`[]PendingIsTrue`) and `NobodyWaitsUnserved`
  (`[]DisconnectFailsPending`) under `IdsSuffice`: each call has ids for its attempts,
  that is, the 64 bit counter of ids does not wrap within the life of a client.

The invariant is `ClientInv == TypeOK /\ ReaderInv /\ IdInv /\ CallInv`:
an id in use - pending, in a request or an answer on its way, in a Cancel frame - is below
`nextId` and was given to one attempt of one call; a call that waits has its entry
or an outcome that is on its way to it; an endpoint has a receive loop exactly while entries may arrive over it.
`DisconnectFailsPending` is about calls that are not retried (see [Findings](#findings)).

### MethodTable and MethodCatalog

For every set of names, signatures, calls, hashes (which may collide), limits
and any number of changes (`CatalogAssumption`: the order of the handler map lists every
name once; `BoundsAssumption`):

* `CatalogInvariant`: `Spec => []CatalogInv`. Every copy of the table - the
  client's, the one in the hello's answer, those in error responses on their way - is a
  past state of the catalog: each of its entries is in the catalog under the
  same id with the same name and hash (`Within`). Hence a request encoded from a
  copy is addressed to the entry of its method for as long as it travels
  (`WellAddressed`), and the server's check of state and hash on decoding is
  enough. This needs that active entries are bound (`ActiveAreBound`) and that
  each error response belongs to one rejected call.
* `CallsReachTheirHandler` (`[]HandlerAsNamed`) follows, with `HeldAsNamed` for the time between lookup and
  call: the handler a waiting request refers to is the one it asked for. It does not need the
  table version, and holds when hashes collide, since the id decides. It says nothing of a call
  whose own method is bound again during the wait (`dangling`).
* `IdsStay` (`IdsAreForever`): from `SyncKeepsIds`, about the operator `Sync`.
* `OneRetrySettles` (`[]RetrySettles`), from `RetryInv`: each rejection is stamped with the
  changes the catalog had seen, and an error response that saw all of them carries the table as it is.
  So a client that applied it is current, and its retry is rejected only if the catalog changed again.
* `VersionsTellCatalogsApart` (`[]SameVersionSameTable`), from `VersionInv`, under `TableHasRoom`: a table that is
  full tombstones without a new version (see [Findings](#findings)), so there must be
  room for every name under every change. `VersionInv` says that no copy is newer than the
  catalog, that active names are unique, and how long the table may be.
* `CatalogHoldsTheHandlers` (`[]TableOfHandlers`): the active entries are the handlers that are bound.
  The lemma behind it, on `Sync` of any table and any bindings, is that kept entries and additions are disjoint and
  together the bound names, as many as fit.
* `RefreshStepByStep` (`[]SyncIsSteps`), without further hypotheses: the two loops of `NekoRpcSyncMethodTable`, upserts
  and then removals, leave exactly the table that the closed form `Sync` gives, which the
  other theorems are about. The loops are recursive functions; what holds of every pass is proved with
  `LoopInduction`. `AfterUpserts` says what `k` passes of the first have done: the methods without an id among
  the first `k` are appended while there is room (`Chosen`), and an entry whose method has another signature now is a
  tombstone (`CutBy`), also when its method found no room. `AfterSweep` says the same of the second. The end of both is `Sync`
  of one sequence of additions, and there is only one (`OneAddition`).
* `RefreshDeltaSuffices` (`[]RefreshIsSteps`) under `MaxEntries <= PeerMaxEntries`: a copy of the
  old table that applies the delta of a refresh has the new table, when methods only come or go. `Carries` says that the delta has each
  changed id once, with its last entry. A changed
  signature is the one change no delta carries, since the tombstone that `upsert` leaves of the old entry is not in it: hence the premise of
  `DeltaCarriesBindings`. A peer with a lower limit refuses the table itself.

### RpcServer

For every set of connections and requests, every script of frames that peers send
(`ScriptAssumption`: a request is sent once, on its connection) and every limit:

* `NothingLeftBehind` (`[]NothingIsLeft`), `OthersNeverStop` (`OnlyOwnPeerStops`) and
  `LimitsAndAnswersHold` (the limit in flight, answers and handles), without further hypotheses;
* `ServerImplementsConnectionScope`: the refinement, initial states and step by step;
* `RequestsAreServed` (`[]RequestsServed`) under `HelloFirst`, which says that a peer negotiates
  before it calls, as `RpcClient` does: the answer to a hello is written without
  the send mutex, so that `OneWriter` fails for a peer that says hello between its calls.

The inductive invariant `ServerInv` says: a request not yet read has no
task and comes once (`InboxFresh`, `InlineFresh`); the send mutex names whoever
writes (`MutexTrue`); tasks run on connections that are there (`TasksLive`); a server that closes takes
nobody in and has closed what it had (`ClosingCloses`); and the limit, answers and handles.

### ProtoFactory and ProtoClient

For every dictionary, any two programs, any sizes of payloads, slices and
datagrams (`FactoryAssumption`, `ClientAssumption`):

* `FactoryInvariant` and `NumbersStayForever` (`NumbersStay`), without further hypotheses: `FactoriesTrue` says that
  numbers are unique and not above the counter, that those not counted were asked
  for, and that a creator is kept under the number of its name, in the list below its size and
  in the map from there on. The loop of the constructor is a recursive function over the
  dictionary; that it registers every static protocol is proved with `SetInduction`, induction over the
  natural numbers as a statement about sets, derived from their being well-founded.
* `CreatesItsNameAlways` (`[]CreatesItsName`) under `NumbersArePositive`: `Create` finds no number below one.
* `MessagesIntactAlways` (`[]MessagesIntact`), without further hypotheses.
* `NumbersMeanNamesAlways` (`[]NumbersMeanNames`) under `NumbersArePositive`, `ReservedMeanTheSame` (a number that two programs
  ask for is asked for by one protocol: `_createProto` does not consult the table for these) and `SenderCounts`:
  the sender linked a protocol whose number is counted, so its table is not
  empty, and `_createProto` takes an empty table for none (`communication_base.hpp:324`).
* `ReservedArrivesAlways` (`[]ReservedArrives`) under `NumbersArePositive` and `ReservedAreShared` (the receiver links the
  protocols whose numbers the sender asks for).

The argument follows the frames on their way, in the stream and in the send in progress
together (`Pipe`). They are `Tidy`: each is a frame of a message that was sent, with the
number of its name; a slice follows its header or the slice before it; only a Cancel may
come instead of one; messages come in order. While the stream lives and nothing broke it, the pipe does
not end inside a message. A write that tears a frame, or that loses the end of a message or its Cancel,
cuts the pipe off there: the frames before it stay as they are, and the three properties speak of results
whose frame was read before the cut (`Sound`); what is read behind it, until the connection is
replaced, may be anything (`SpoiltReturned`). The receiver's buffer `Agrees` with the head of the pipe: a slice
finds as many bytes of its message as its offset says, and anything else but a Cancel finds the count at
zero. So the last slice completes exactly its payload (`StreamFinishes`), and results
rise since all that is still to be read is newer (`ReceivedTrue`). The table of the receiver holds numbers of the sender, each with its
name or the empty name that a look up inserted (`TableTrue`); `NameTrue` and `FoundTrue` carry what a header's number
created to the last slice, and `ArrivingTrue` says where a whole message is.

### ArgParser

For every set of programs, words, environments, files and formats. The assumptions are: a program with commands
declares no fields of its own (`ProgramsHaveOptions`); only vectors have a separator and no range is the wrong way
round (compile-time assertions of `schema.hpp:357` and `tags.hpp:152`), a member is made with one value, an optional with one at most, and defaults and names are
sequences (`FieldsAreDeclared`); a file holds values of the fields' types (`FilesAreTyped`); texts are sequences
(`WordsAreSequences`).

* `PrecedenceAlways` (`[]Precedence`): every field of a result is what the first source in the documented order made it,
  or leaves that order in one of the two ways the formula names;
* `ResultsAreCheckedAlways` (`[]ResultsAreChecked`): what is returned, and what is in files even of a call that fails,
  is one object that passed every check; a call that succeeds has written every file, not necessarily whole;
* `CommandAgreesAlways`: the command returned is the program's and the imported file's;
* `WordsFollowTheSchemaAlways` (`[]WordsFollowTheSchema`): no spelling of an accepted schema means two options, a plain
  word behind no declared option is the command or a positional of the result, an option with an implicit value never
  takes the option behind it, and the values have the shapes of their fields.

Each loop of the parser (over fields, formats, texts of an option, letters of a cluster) is a recursive function that a
lemma unrolls; what holds of every pass is proved with `LoopInduction`. The first consequence is that the schema starts
with the declared fields, since `Collect` only appends the built-in options behind them, so that an option below `users`
has a declared shape. The inductive invariant `ParserInv` then follows the stages. The schema is
that of the program or, once it is known, of the command (`ProgramKnown`); texts stay sequences
(`RawKept`); at most one file is imported and it fits (`FilesChosen`). `ObjectMade` is the
core: after the defaults each field is `FromDefault`, after the import `FromFile` if there was one, after the explicit
values `Valued`, and `supplied` says all along whether it had a source. Without the
stages in between, the last would not be inductive: an explicit value of a vector is appended to what the step
before left. `ValuedInOrder` then compares `Valued` with the documented order. `Related` carries the outcome of the
checks to the exports, and `Exported` on to calls that fail there.

`WordsInv` says where the words are. A word stands apart (`Apart`) when it is plain and no declared option is before
it; each one before `at` is the command or, once the options are read, a positional (`WordsPlaced`). A step
that reads an option keeps this because a reading takes a second word only for a declared option (`LongFits`,
`ShortFits`), and texts are only ever added to (`Grown`). The command changes the schema, and with it what is
declared: `BuiltinsKnown` shows that an option known without a command is known for every command, whatever its fields
call theirs, so that no word read before stands apart only now. The rest of the words is read to the end
before anything is collected, or the command came from a file behind the last word; an empty word in the
command's place breaks exactly this, hence `EmptyCommand`. `Accepted` holds from the validation on and gives
the spellings: every name is written once in the lists `LongNames` and `ShortNames` (`LongWritten`, `ShortWritten`).

### Only model-checked

* liveness (`MessagesEnd`, `DisconnectEndsCalls`, `ShutdownEnds`), which the prover does not reach;
* what the serializer modules, `JsonRpc` and `FrameStream` state: types and documents are
  trees and the codec consumes a sequence, so `Write`, `Read`, `SchemaOf`, `Compress` and `ParseNode` are recursive
  operators, which the prover cannot handle in a module with theorems, and
  what they compute for every input is induction over data.

## Findings

Disagreements between the code and its documents that the models show, and
behaviour a reader may not expect. None has a run of its own: each is visible in
a definition, or as a restriction in a property or a bound, that is named here.

### RPC

* A call retried after a method id error registers without looking at the
  endpoint again; if the receive loop ended meanwhile, nothing ends its wait
  (`Fix_Plan.md:1073` wants pending calls to fail). `client_disconnect` therefore runs without retries.
* A call given up while it reads the hello leaves its endpoint installed although the
  stream may be in the middle of a frame (comment at `rpc/private/stream_endpoint.hpp:70`).
* The reset of the session that `setEndpoint` asks for may be consumed by a call that still
  negotiates on the old endpoint; calls on the new one then use the old session (`Fix_Plan.md:1024`).
* `_handleServerHello` marks the handshake done before `MethodIdMode::Require`
  is compared: the first call fails, the next goes by name (`docs/rpc_method_id_design.md:59`);
  `CompressionMode::Require` alike. `RequireIsTold` claims the failure of the first call and no more.
* `processMessage` erases `mCancelHandles` by key without comparing the
  handle, so that of two requests with one id in flight the first to end takes
  the other's handle (`Fix_Plan.md:918`); and requests of a batch that ended stay listed
  as running until the batch ends (`Fix_Plan.md:2245`).
* `Upsert` leaves a tombstone at an unchanged version when the table is full
  (hence "while the table has room" at `SameVersionSameTable`); the delta of a changed
  signature lacks the tombstone of the old entry and `ApplyRemoteDelta`
  rejects it (hence the restriction of `DeltaCarriesBindings`).
* A request refers to its handler while it waits for a permit; `bindMethod` of the same name replaces and destroys that
  handler, and the reference dangles (`rpc/dispatcher.hpp:653` against `:320`, `:335`; rebinding is foreseen by
  `docs/rpc_backend_context_model.md:146`). `HandlerAsNamed` excepts such calls.
* A Cancel frame that comes before the request's task registered its handle is lost; `flush` and
  `shutdown` may flush an endpoint whose hello answer is being written, which takes no send mutex.
* The run-length encoder lets a literal of 127 bytes grow by a run of two to 129, whose
  control byte says "run" (`src/rpc.cpp:695`; `docs/rpc_method_id_design.md:215`). The payloads of `frames` stay clear of it.
* A payload above the reader's `max_decompressed_bytes` may be sent compressed and is then refused; a
  call stopped between two pieces leaves a torn frame, and the Cancel frame that follows is read as part
  of it (`torn`); frames that do not decode are dropped without an answer; the
  server's hello answer meets the limits only when it is written. The default
  ratio limit of 130 is above the codec's best of 65.

### JSON-RPC

* `InvalidField` of parameters that may all be null is swallowed even when a member of a given value is
  missing (`NothingInvented` states it); bad parameters are answered with InvalidRequest, not InvalidParams.
* Responses to unidentified requests have no `id` member instead of a null one; an id of null is a notification; negative ids are refused.
* An empty optional a method returns arrives as InvalidRequest; positive codes arrive as transport errors.
* `LengthPrefixedStreamMessageEndpoint::recv` stopped within the four length bytes is out of step afterwards
  (`transport/endpoint.hpp:188`), and a datagram of exactly the chunk size is joined with the next (`:264`); not in the model.

### Protocols

* The error of the last slice is not looked at, so that a cancelled last slice is reported as
  sent and the receiver's count is stale (`communication_base.hpp:450`); a lost Cancel is not noticed either.
* A write that is cancelled inside a frame leaves its part in the stream, and the Cancel or the next message is read
  as its rest (`_sendSlice`, `_sendRaw`, `:445`). `MessagesIntact` and `ReservedArrives` therefore claim
  nothing behind such a write until `setStreamClient`.
* `_finishMessage` indexes the protocol table with `[]`, which inserts into a table
  that is said to be empty (`communication_base.hpp:303` against the comment at `:176`).
* A sliced message of an unknown type is later given out raw under a type
  that is its last slice's offset; neither `reconnect` nor a new header resets the count of slices.
* A second `regist` of a name keeps the first creator though the log says it covers it (`src/proto_base.cpp:60`).

### Argument parser

* The order of sources is not always the documented one (`README_en.md:377`, `docs/argparser_hardening_plan.md:46`): an
  import loses the `arg_default` of what the file lacks, and argv or a default is appended to the initial value of a vector.
  A skippable field that the file lacks counts as given, so it satisfies `required`
  (`materializer.hpp:582`). Ranges and choices are not checked on imported values.
* An export empties the file first, a failure leaves what was written, and nobody sees a flush fail when the
  stream is destroyed (`config_io.hpp:344`, `:148`): a call may succeed with a file that is cut off.
* References that fit two options resolve to the first (`docs/argparser_hardening_plan.md` wants InvalidDefinition);
  `../a.b` resolves from the root. An exported file need not import again.
* An empty word where the command is expected, after an import option, is taken for no command: the command comes from
  the file and the words behind it are dropped (`argparser.hpp:344`). `NoWordIsLost` excepts such calls
  (`EmptyCommand`); the words of two programs of the run include the empty one.

### Serializers

* A Binary document cut inside its magic is read raw, and may be accepted by a
  number (`Fix_Plan.md:1775`; `CutRefused` excepts it).
* A null pointer or `std::monostate` that is a member of a reflected struct cannot be read back from Binary: asking
  for null consumes the node (`parsing/reflection.hpp:262`; `Fix_Plan.md:2360`).
* A reflected struct in Binary read as a string map yields an empty map without an error.
* An empty literal name is written and never found; two short equal names are written and refused.
  Of one name twice (a flat member), Json reads the first, TOML and yaml-cpp keep the last, libfyaml refuses.
* The schema of an enumeration does not admit values without a name; schemas drop the tags of optionals
  and pointers; `AnyOf` is rendered as `oneOf` (`json/schema.hpp:298`).
* A second root makes `end()` skip the flush of the first; `end()` without a root succeeds.
* YAML scalars are untyped: the text "7" reads as a number, an untagged union of
  number and text is ambiguous (`ample` is FALSE there). An empty TOML buffer is an empty table, an empty one of yaml-cpp null.
  libfyaml refuses a style that does not fit, yaml-cpp ignores it.

## Abstractions and assumptions

* An action is the code between two suspension points. `ilias` is external: a
  stop takes effect at a suspension point, a stopped task may still get
  its permit or finish first, `timeout` gives exactly one of answer and
  deadline, a spawned task starts later. The order in which semaphore and mutexes
  serve their waiters is left open.
* In `RpcClient` and `RpcServer` frames are written whole or not at all; pieces are `FrameStream`'s subject. The peer is external: it answers
  what it received, in any order, or closes. Endpoint addresses are not reused.
* Requests that the backend answered while decoding (`decodeIncoming`) are
  requests outside `Known` in the dispatcher; `JsonRpc` has the decoding itself.
* A direct call (`callMethod`) abandoned by its caller ends its children first
  and erases no keys; the session on its frame is not reused.
* `RpcClient` leaves out the serial path for backends without response ids
  (`_callRemoteSerial`) and `flush`; one shutdown runs at a time.
* `MethodCatalog`: a table fits a budget of entries; versions do not overflow;
  error responses are applied in the order of decoding (one endpoint, one send
  mutex, one executor). `RpcServer` only adds or rebinds
  methods, the backend's interface takes any list, and `Refresh` allows any. A call through a dangling
  reference reaches any handler there could be; a handler that is destroyed while it runs is left out.
* `FrameStream`: an integer of a frame is one cell; statistics are left out; `Execute` of a call is immediate.
* `ProtoClient`: a protocol's payload is as long as it is large and names its message; the
  stream delivers what was written in order unless it breaks; a datagram may be lost, repeated or late.
* `ArgParser`: names are compared as they are (case-insensitive matching is left out), numbers have one
  digit, help and deprecation texts are left out, files are what a format and a parsed object amount to.
* Serializers: the widths 8 and 16 stand for all integers, TOML's int64 has 16 bits,
  lengths have 28 bits; nodes cost 3, elements 1, members 2 of the allocation
  budget; `FieldId` is any function of names. The text of JSON, TOML and YAML is the
  libraries': a buffer holds the tree. Base64, `raw_string`, comments, anchors, custom parsers and the
  buffer of a failed Binary write are left out.
* `JsonRpc`: the length of a message is its number of nodes; framing is left out. Error texts are empty.

## Not modelled

* **XML** (`serialization/xml`): its reader and writer walk rapidxml documents by position and attribute; like the other
  text formats it would be one more instance of `TextBackends`. Left out: repeated
  elements, attribute texts, white space.
* **simdjson** reader: same interface and results as RapidJSON's, with an on-demand document.
* **XorList** (`global/xor_list.hpp`): a data structure without users in the library.
* Datagram adapters of `transport/endpoint.hpp`, help texts, logging: I/O and layout.
* RPC metadata, options, traits, reflection: compile time.

## Plan

Done: the dispatcher, the client, the method catalog, the server, frames, the protocol clients and the
factory, the argument parser, the serializers (Binary, Json, TOML, YAML), JSON-RPC.

Every property of the modules without recursive operators but the liveness ones is proved. A proof about what
remains would need the codec and the serializers written over finite paths or positions rather than trees.

Models still worth having: XorList as a refinement of a sequence, XML as a text backend,
`_callRemoteSerial`, stopped reads of the length-prefixed endpoint.
