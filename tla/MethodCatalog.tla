--------------------------- MODULE MethodCatalog ---------------------------
(***************************************************************************)
(* Method id negotiation on one connection of the Neko-RPC backend         *)
(* (rpc/backend.hpp): the server's catalog and its session, the client's   *)
(* session with its copy of the table, and calls encoded by id or by name. *)
(*                                                                         *)
(* The catalog changes under the calls in flight.  A request is resolved   *)
(* and its handler looked up when the server decodes it; the handler is    *)
(* called later, when the request has a permit, through the reference that *)
(* was looked up.  An error of the resolution carries the table when it    *)
(* fits the budget, and the client applies it, or gives up on ids, before  *)
(* the call recovers and is encoded once more.                             *)
(*                                                                         *)
(* Error responses leave in the order of decoding and are applied in that  *)
(* order: one endpoint, one send mutex, one executor.                      *)
(***************************************************************************)
EXTENDS MethodTable

CONSTANTS
  Call,           \* calls of the client
  NameOf,         \* [Call -> Name]
  NoMethod,       \* a name the server has no handler for
  StartBindings,  \* subset of [Name -> Signature \cup {NoMethod}]: at construction
  Modes,          \* the client's method_id modes to consider
  MaxEntries,     \* max_method_entries of the server
  PeerMaxEntries, \* max_method_entries of the client
  AutoBudget,     \* entries that fit max_auto_method_table_extension_bytes
  RetryOnce,      \* retry_method_id_error_once
  MaxChanges,     \* bound on the changes of the catalog
  None

ASSUME BoundsAssumption ==
  /\ {MaxEntries, PeerMaxEntries, AutoBudget, MaxChanges} \subseteq Nat
  /\ Modes \subseteq {"Disable", "Auto", "Require"}
  /\ NameOf \in [Call -> Name]
  /\ RetryOnce \in BOOLEAN
  /\ NoMethod \notin Signature
  /\ StartBindings \subseteq [Name -> Signature \cup {NoMethod}]

VARIABLES
  bound,          \* [Name -> Signature \cup {NoMethod}]: mHandlers
  table,          \* ServerContext::method_table
  serverEnabled,  \* method_id_enabled of the server's session
  mode,           \* the client's options.method_id
  hello,          \* the handshake: "none", "asked", "answered", "done"
  enabled,        \* method_id_enabled of the client's session
  remote,         \* remote_method_table of the client's session
  agreed,         \* the hello enabled method ids on the client (history)
  carried,        \* the extensions of the hello answer
  phase,          \* [Call -> ...]
  request,        \* [Call -> the request in flight]
  retried,        \* [Call -> BOOLEAN]
  replies,        \* error responses on their way, with their extensions
  handler,        \* [Call -> the handler its request task refers to]
  dangling,       \* calls whose handler was destroyed while they waited
  outcome,        \* [Call -> the handler the request reached]
  changes,        \* number of changes of the catalog so far
  rejected        \* [Call -> the changes seen by its rejections] (history)

serverVars == <<bound, table, serverEnabled>>
sessionVars == <<mode, hello, enabled, remote, agreed, carried>>
callVars == <<phase, request, retried, handler, outcome, rejected>>
vars == <<serverVars, sessionVars, callVars, dangling, replies, changes>>

Methods(b) == [n \in {m \in Name : b[m] # NoMethod} |-> b[n]]

Init ==
  /\ bound \in StartBindings
  /\ table \in Initial(Methods(bound), MaxEntries)
  /\ serverEnabled = FALSE
  /\ mode \in Modes
  /\ hello = IF mode = "Disable" THEN "done" ELSE "none"
  /\ enabled = FALSE
  /\ remote = Empty
  /\ agreed = FALSE
  /\ carried = None
  /\ phase = [c \in Call |-> "idle"]
  /\ request = [c \in Call |-> None]
  /\ retried = [c \in Call |-> FALSE]
  /\ replies = <<>>
  /\ handler = [c \in Call |-> None]
  /\ dangling = {}
  /\ outcome = [c \in Call |-> None]
  /\ changes = 0
  /\ rejected = [c \in Call |-> <<>>]

-----------------------------------------------------------------------------
(* The server's catalog. *)

(* The requests that wait for a permit with a reference to a handler of N. *)
Holding(N) == {c \in Call : phase[c] = "dispatched" /\ handler[c].name \in N}

(* bindMethod, or any list handed to refreshMethodCatalog.  A handler that *)
(* goes or is bound again, even with its signature, is destroyed.          *)
Refresh(b) ==
  /\ changes < MaxChanges
  /\ bound' = b
  /\ \E again \in SUBSET Name :
       dangling' = dangling \cup Holding(again \cup {n \in Name : b[n] # bound[n]})
  /\ \E added \in Additions(table, Methods(b), MaxEntries) : table' = Sync(table, Methods(b), added)
  /\ changes' = changes + 1
  /\ UNCHANGED <<serverEnabled, sessionVars, callVars, replies>>

RaiseMinimum(v) ==
  /\ changes < MaxChanges
  /\ v # table.minimum
  /\ table' = SetMinimum(table, v)
  /\ changes' = changes + 1
  /\ UNCHANGED <<bound, serverEnabled, sessionVars, callVars, dangling, replies>>

(* The table travels when it fits the budget, the version alone otherwise. *)
Extensions == IF Len(table.entries) <= AutoBudget THEN table ELSE None

-----------------------------------------------------------------------------
(* The hello. *)

AskHello ==
  /\ hello = "none"
  /\ hello' = "asked"
  /\ UNCHANGED <<serverVars, mode, enabled, remote, agreed, carried, callVars, dangling, replies, changes>>

AnswerHello(allowed) ==
  /\ hello = "asked"
  /\ serverEnabled' = (allowed /\ table.entries # <<>>)
  /\ carried' = IF serverEnabled' THEN Extensions ELSE None
  /\ hello' = "answered"
  /\ UNCHANGED <<bound, table, mode, enabled, remote, agreed, callVars, dangling, replies, changes>>

(* _applyMethodIdTableExtensions on the client's session; no table, or one *)
(* that is not valid, leaves the copy as it was.                           *)
Applies(ext) == ext # None /\ Valid(ext.entries, ext.version, PeerMaxEntries)
Applied(ext) == SetMinimum(ApplyRemoteTable(remote, ext.entries, ext.version, PeerMaxEntries), ext.minimum)

(* ensureClientReady marks the session done before it looks at the mode,   *)
(* so a client that requires ids fails this call only.                     *)
AcceptHello ==
  /\ hello = "answered"
  /\ remote' = IF Applies(carried) THEN Applied(carried) ELSE remote
  /\ enabled' = Applies(carried)
  /\ agreed' = enabled'
  /\ hello' = "done"
  /\ carried' = None
  /\ UNCHANGED <<serverVars, mode, callVars, dangling, replies, changes>>

-----------------------------------------------------------------------------
(* Calls. *)

(* encodeRequest: by id when the session knows the name, by name otherwise. *)
Encoded(c, on) ==
  LET n == NameOf[c]
  IN IF on /\ n \in DOMAIN remote.index
     THEN [by |-> "id", id |-> remote.index[n], version |-> remote.version,
           hash |-> remote.entries[remote.index[n]].hash]
     ELSE [by |-> "name"]

EncodeRequest(c) ==
  /\ phase[c] = "idle"
  /\ hello = "done"
  /\ request' = [request EXCEPT ![c] = Encoded(c, enabled)]
  /\ phase' = [phase EXCEPT ![c] = "sent"]
  /\ UNCHANGED <<serverVars, sessionVars, retried, handler, dangling, outcome, rejected,
                 replies, changes>>

(* The name the server's dispatcher gets, or the error of the resolution. *)
Status(r) ==
  IF r.by = "name" THEN "ok"
  ELSE IF ~serverEnabled THEN "not_negotiated"
  ELSE Resolve(table, r.id, r.version, r.hash)

IncomingName(c) == IF request[c].by = "name" THEN NameOf[c] ELSE table.entries[request[c].id].name

(* A request that resolves is looked up under its name; its task keeps the *)
(* reference while it waits for a permit.  No handler is an answer too.    *)
Dispatch(c) ==
  /\ phase[c] = "sent"
  /\ Status(request[c]) = "ok"
  /\ LET n == IncomingName(c)
         found == [name |-> n, signature |-> bound[n]]
     IN \/ /\ bound[n] # NoMethod
           /\ handler' = [handler EXCEPT ![c] = found]
           /\ phase' = [phase EXCEPT ![c] = "dispatched"]
           /\ UNCHANGED outcome
        \/ /\ bound[n] = NoMethod
           /\ outcome' = [outcome EXCEPT ![c] = found]
           /\ phase' = [phase EXCEPT ![c] = "done"]
           /\ UNCHANGED handler
  /\ UNCHANGED <<serverVars, sessionVars, request, retried, dangling, rejected, replies, changes>>

(* The permit is there and the handler is called: the one that was looked  *)
(* up, or through a dangling reference whatever is found in its place.     *)
Reached(c) == IF c \in dangling THEN [name : Name, signature : Signature] ELSE {handler[c]}

Invoke(c) ==
  /\ phase[c] = "dispatched"
  /\ \E h \in Reached(c) : outcome' = [outcome EXCEPT ![c] = h]
  /\ handler' = [handler EXCEPT ![c] = None]
  /\ phase' = [phase EXCEPT ![c] = "done"]
  /\ UNCHANGED <<serverVars, sessionVars, request, retried, dangling, rejected, replies, changes>>

(* One that does not is answered by an error that may carry the table. *)
Reject(c) ==
  /\ phase[c] = "sent"
  /\ Status(request[c]) # "ok"
  /\ replies' = Append(replies, [call |-> c, ext |-> IF serverEnabled THEN Extensions ELSE None])
  /\ rejected' = [rejected EXCEPT ![c] = Append(@, changes)]
  /\ phase' = [phase EXCEPT ![c] = "rejected"]
  /\ UNCHANGED <<serverVars, sessionVars, request, retried, handler, dangling, outcome,
                 changes>>

(* decodeResponse of a method id error: take the table, or give up on ids. *)
DecodeResponse ==
  /\ replies # <<>>
  /\ LET r == Head(replies)
     IN /\ enabled' = Applies(r.ext)
        /\ remote' = IF Applies(r.ext) THEN Applied(r.ext) ELSE Empty
        /\ phase' = [phase EXCEPT ![r.call] = "recovering"]
  /\ replies' = Tail(replies)
  /\ UNCHANGED <<serverVars, mode, hello, agreed, carried, request, retried, handler, dangling,
                 outcome, rejected, changes>>

(* recoverClientCall, once: retry with the copy, or by name in Auto mode. *)
MayRetry(c) ==
  /\ RetryOnce
  /\ ~retried[c]
  /\ (~enabled \/ remote.entries = <<>>) => mode = "Auto"

Retry(c) ==
  /\ phase[c] = "recovering"
  /\ MayRetry(c)
  /\ enabled' = (enabled /\ remote.entries # <<>>)
  /\ request' = [request EXCEPT ![c] = Encoded(c, enabled')]
  /\ retried' = [retried EXCEPT ![c] = TRUE]
  /\ phase' = [phase EXCEPT ![c] = "sent"]
  /\ UNCHANGED <<serverVars, mode, hello, remote, agreed, carried, handler, dangling,
                 outcome, rejected, replies, changes>>

Fail(c) ==
  /\ phase[c] = "recovering"
  /\ ~MayRetry(c)
  /\ phase' = [phase EXCEPT ![c] = "failed"]
  /\ UNCHANGED <<serverVars, sessionVars, request, retried, handler, dangling, outcome,
                 rejected, replies, changes>>

CallStep(c) == EncodeRequest(c) \/ Dispatch(c) \/ Invoke(c) \/ Reject(c) \/ Retry(c) \/ Fail(c)

Next ==
  \/ \E b \in [Name -> Signature \cup {NoMethod}] : Refresh(b)
  \/ \E v \in 1 .. table.version : RaiseMinimum(v)
  \/ AskHello \/ AcceptHello \/ DecodeResponse
  \/ \E allowed \in BOOLEAN : AnswerHello(allowed)
  \/ \E c \in Call : CallStep(c)

Spec == Init /\ [][Next]_vars

-----------------------------------------------------------------------------
(* Properties. *)

IsTable(t, max) ==
  /\ {t.version, t.minimum} \subseteq Nat
  /\ Len(t.entries) <= max
  /\ \A i \in DOMAIN t.entries : t.entries[i] \in Entry
  /\ \A n \in DOMAIN t.index : t.index[n] \in DOMAIN t.entries /\ t.entries[t.index[n]].name = n

(* Both copies of the table keep within their limits, and what is on its   *)
(* way belongs to a call that waits for it.                                *)
TypeOK ==
  /\ bound \in [Name -> Signature \cup {NoMethod}]
  /\ IsTable(table, MaxEntries)
  /\ IsTable(remote, PeerMaxEntries)
  /\ hello \in {"none", "asked", "answered", "done"}
  /\ {serverEnabled, enabled, agreed} \subseteq BOOLEAN
  /\ phase \in [Call -> {"idle", "sent", "dispatched", "rejected", "recovering", "done", "failed"}]
  /\ dangling \subseteq Call
  /\ \A c \in Call : handler[c] # None => phase[c] = "dispatched"
  /\ \A c \in Call : (phase[c] = "rejected") = (\E i \in DOMAIN replies : replies[i].call = c)

(* refreshMethodCatalog: an id names one method with one signature for the *)
(* life of the server; a tombstone stays one; versions do not go back.     *)
IdsAreForever ==
  [][/\ \A i \in DOMAIN table.entries :
          /\ i \in DOMAIN table'.entries
          /\ table'.entries[i].name = table.entries[i].name
          /\ table'.entries[i].hash = table.entries[i].hash
          /\ table.entries[i].state = "removed" => table'.entries[i].state = "removed"
     /\ table'.version >= table.version]_vars

(* A call reaches the handler of the name it asked for, and one encoded by *)
(* id a handler of the signature its hash stands for, however the catalog  *)
(* changed on the way to the server, between lookup and call, and even     *)
(* when hashes of different methods collide.  Nothing is said of a call    *)
(* whose own method was bound again while it waited for its permit: the    *)
(* reference kept across acquire() then dangles.                           *)
HandlerAsNamed ==
  \A c \in Call \ dangling : outcome[c] # None =>
    /\ outcome[c].name = NameOf[c]
    /\ request[c].by = "id" =>
         /\ outcome[c].signature # NoMethod
         /\ HashOf[<<outcome[c].name, outcome[c].signature>>] = request[c].hash

(* The active ids are those of the handlers, except that a full table, or  *)
(* one that never fitted, has none for the handlers that came too late.    *)
CatalogMatchesHandlers ==
  /\ \A i \in Active(table.entries) :
       LET e == table.entries[i]
       IN bound[e.name] # NoMethod /\ HashOf[<<e.name, bound[e.name]>>] = e.hash
  /\ \A n \in DOMAIN Methods(bound) :
       \/ n \in DOMAIN table.index
       \/ Len(table.entries) = MaxEntries
       \/ table.entries = <<>> /\ Cardinality(DOMAIN Methods(bound)) > MaxEntries

(* The retry after a method id error fails in its turn only when the       *)
(* catalog changed between the two: the response of the first brought the  *)
(* client up to date, whatever other calls applied in between.             *)
RetrySettles ==
  \A c \in Call : Len(rejected[c]) = 2 => rejected[c][1] # rejected[c][2]

(* A copy that has the version of the catalog is the catalog, while the    *)
(* table has room: an upsert that finds it full leaves a tombstone and the *)
(* version it had.                                                         *)
SameVersionSameTable ==
  (remote.version # 0 /\ remote.version = table.version) => remote.entries = table.entries

(* The closed form of the refresh is what its steps compute, for every     *)
(* list of methods on every table the catalog reaches.                     *)
SyncIsSteps ==
  \A b \in [Name -> Signature \cup {NoMethod}] :
    {Sync(table, Methods(b), added) : added \in Additions(table, Methods(b), MaxEntries)}
      = {SyncSteps(table, Methods(b), MaxEntries).table}

UpToDate(b) ==
  LET r == SyncSteps(table, Methods(b), MaxEntries)
  IN ApplyRemoteDelta(table, r.delta, r.table.version, PeerMaxEntries).entries = r.table.entries

(* A copy of the catalog that applies the delta of a refresh has the new   *)
(* catalog, as long as methods come and go and none changes signature.     *)
DeltaCarriesBindings ==
  \A b \in [Name -> Signature \cup {NoMethod}] :
    (\A n \in Name : NoMethod \in {b[n], bound[n]} \/ b[n] = bound[n]) => UpToDate(b)

(* The table keeps its shape and is the one of the handlers.               *)
TableOfHandlers == TypeOK /\ CatalogMatchesHandlers

(* A refresh is the steps of the code, and its delta carries it over.      *)
RefreshIsSteps == SyncIsSteps /\ DeltaCarriesBindings
============================================================================
