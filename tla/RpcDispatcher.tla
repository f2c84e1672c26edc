--------------------------- MODULE RpcDispatcher ---------------------------
(***************************************************************************)
(* The server side execution core of the RPC layer: RpcExecutionLimiter    *)
(* and RpcDispatcher (include/nekoproto/rpc/dispatcher.hpp).               *)
(*                                                                         *)
(* A Message is one activation of processMessage: a decoded frame (Neko    *)
(* backend) or batch (JSON-RPC backend) received on a Session.  Each of    *)
(* its requests is admitted or refused by the limiter, waits for a         *)
(* semaphore permit, runs its handler, and leaves by a result, a deadline  *)
(* or a cancellation; the message then collects the responses.             *)
(*                                                                         *)
(* An action is what runs between two suspension points of a coroutine on  *)
(* the server's executor.  The dispatch loop of processMessage does not    *)
(* suspend: while a message is "dispatching" nothing else runs (Idle).     *)
(***************************************************************************)
EXTENDS Integers, FiniteSets

CONSTANTS
  Message,        \* activations of processMessage
  Request,        \* the requests of all messages
  Session,        \* peer sessions (one per connection, or per direct call)
  Id,             \* request ids chosen by the peers
  SessionOf,      \* [Message -> Session]
  MsgOf,          \* [Request -> Message]
  Position,       \* [Request -> Nat]: index in decoded.requests
  IdOf,           \* [Request -> Id]
  Known,          \* requests whose method has a handler and that decoded well
  WantsReply,     \* requests with expectsResponse; the others are notifications
  Unencodable,    \* messages whose responses break the configured limits
  SetsTimeout,    \* requests for the built-in rpc.set_connection_timeout
  DirectCalls,    \* messages of RpcServer::callMethod: no connection owns them
  MaxActive,      \* max_active_requests_global
  MaxQueued,      \* max_queued_requests_global
  RequestTimeout, \* options.request_timeout, or NoTimeout
  NoTimeout,      \* std::nullopt of an optional timeout
  MaxNanos,       \* std::chrono::nanoseconds::max()
  Nanos,          \* arguments tried for rpc.set_connection_timeout
  None,           \* no request
  MaxCanceled     \* bound of the model on the mCanceled counter

ASSUME DispatcherAssumption ==
  /\ IsFiniteSet(Request)
  /\ IsFiniteSet(Session)
  /\ IsFiniteSet(Id)
  /\ SessionOf \in [Message -> Session]
  /\ MsgOf \in [Request -> Message]
  /\ Position \in [Request -> Nat]
  /\ IdOf \in [Request -> Id]
  /\ Known \subseteq Request
  /\ WantsReply \subseteq Request
  /\ Unencodable \subseteq Message
  /\ SetsTimeout \subseteq Known
  /\ DirectCalls \subseteq Message
  /\ MaxActive \in Nat
  /\ MaxQueued \in Nat
  /\ NoTimeout \notin Int
  /\ RequestTimeout \in Int \cup {NoTimeout}
  /\ MaxNanos \in Nat
  /\ Nanos \subseteq Nat
  /\ None \notin Request
  /\ MaxCanceled \in Nat

VARIABLES
  msg,                 \* [Message -> MsgStatus]: progress of processMessage
  rejectOnly,          \* [Message -> BOOLEAN]: the argument rejectOnly
  phase,               \* [Request -> Phase]: progress of a request
  queued,              \* requests whose Admission has mQueued
  limit,               \* [Request -> timeout]: effectiveTimeout of a request
  stop,                \* requests whose task was asked to stop
  slot,                \* [Request -> Outcome]: responseSlots
  mCancelHandles,      \* [Key -> Request \cup {None}]
  mRequestStates,      \* [Key -> {"absent", "queued", "running"}]
  mConnectionTimeouts, \* [Session -> timeout]
  mPermits,            \* free permits of the semaphore
  mOutstanding,        \* admitted requests
  mActive, mQueued,    \* gauges of RpcMetricsSnapshot
  mCompleted, mTimedOut, mCanceled, mRejected  \* counters of the same

limiterVars == <<mPermits, mOutstanding, mActive, mQueued,
                 mCompleted, mTimedOut, mCanceled, mRejected>>
mapVars == <<mCancelHandles, mRequestStates, mConnectionTimeouts>>
requestVars == <<phase, queued, limit, stop, slot>>
vars == <<msg, rejectOnly, requestVars, mapVars, limiterVars>>

----------------------------------------------------------------------------
Key == Session \X Id
KeyOf(r) == <<SessionOf[MsgOf[r]], IdOf[r]>>
RequestsOf(m) == {r \in Request : MsgOf[r] = m}

MsgStatus == {"new", "dispatching", "waiting", "stopping",
              "encoded", "unencodable", "silent", "stopped"}
MsgDone == {"encoded", "unencodable", "silent", "stopped"}

Phase == {"new", "decoded", "refused", "admitted", "running", "finished", "dropped"}
Ended == {"refused", "finished", "dropped"}

Outcome == {"none", "result", "MethodNotFound", "Overloaded",
            "DeadlineExceeded", "Canceled"}

(* Requests that hold an Admission, and those inside their handler. *)
Live    == {r \in Request : phase[r] \in {"admitted", "running"}}
Running == {r \in Request : phase[r] = "running"}
Waiting == {r \in Request : phase[r] = "admitted"}

(* appendError and appendSuccess drop the response of a notification. *)
Respond(r, outcome) == IF r \in WantsReply THEN outcome ELSE "none"

(* No dispatch loop holds the executor. *)
Idle == \A m \in Message : msg[m] # "dispatching"

Init ==
  /\ msg = [m \in Message |-> "new"]
  /\ rejectOnly = [m \in Message |-> FALSE]
  /\ phase = [r \in Request |-> "new"]
  /\ queued = {}
  /\ limit = [r \in Request |-> NoTimeout]
  /\ stop = {}
  /\ slot = [r \in Request |-> "none"]
  /\ mCancelHandles = [k \in Key |-> None]
  /\ mRequestStates = [k \in Key |-> "absent"]
  /\ mConnectionTimeouts = [s \in Session |-> NoTimeout]
  /\ mPermits = MaxActive
  /\ mOutstanding = 0
  /\ mActive = 0
  /\ mQueued = 0
  /\ mCompleted = 0
  /\ mTimedOut = 0
  /\ mCanceled = 0
  /\ mRejected = 0

----------------------------------------------------------------------------
(* processMessage: decoding, then the dispatch loop. *)

Begin(m, reject) ==
  /\ Idle
  /\ msg[m] = "new"
  /\ reject => m \notin DirectCalls
  /\ msg' = [msg EXCEPT ![m] = "dispatching"]
  /\ rejectOnly' = [rejectOnly EXCEPT ![m] = reject]
  /\ phase' = [r \in Request |-> IF MsgOf[r] = m THEN "decoded" ELSE phase[r]]
  /\ UNCHANGED <<queued, limit, stop, slot, mapVars, limiterVars>>

(* The request the loop of its message reaches next. *)
IsNext(r) ==
  /\ msg[MsgOf[r]] = "dispatching"
  /\ phase[r] = "decoded"
  /\ \A q \in RequestsOf(MsgOf[r]) : phase[q] = "decoded" => Position[r] <= Position[q]

(* tryAdmit: the capacity test, and the test that makes an admission queued. *)
WouldQueue == mOutstanding >= MaxActive
NoCapacityLate == MaxActive = 0 \/ mOutstanding - MaxActive > MaxQueued
NoCapacity == \/ MaxActive = 0
              \/ WouldQueue /\ mOutstanding - MaxActive >= MaxQueued

(* _effectiveRequestTimeout *)
EffectiveTimeoutOwn(s) == mConnectionTimeouts[s]
EffectiveTimeout(s) ==
  LET own == mConnectionTimeouts[s]
  IN  IF own = NoTimeout THEN RequestTimeout
      ELSE IF RequestTimeout = NoTimeout THEN own
      ELSE IF own < RequestTimeout THEN own ELSE RequestTimeout

Refuse(r, outcome) ==
  /\ phase' = [phase EXCEPT ![r] = "refused"]
  /\ slot' = [slot EXCEPT ![r] = Respond(r, outcome)]
  /\ UNCHANGED <<msg, rejectOnly, queued, limit, stop, mapVars,
                 mPermits, mOutstanding, mActive, mQueued,
                 mCompleted, mTimedOut, mCanceled>>

RefuseUnknown(r) ==
  /\ IsNext(r)
  /\ r \notin Known
  /\ Refuse(r, "MethodNotFound")
  /\ UNCHANGED mRejected

RefuseOverloadedUncounted(r) ==
  /\ IsNext(r)
  /\ r \in Known
  /\ rejectOnly[MsgOf[r]] \/ NoCapacity
  /\ Refuse(r, "Overloaded")
  /\ mRejected' = IF rejectOnly[MsgOf[r]] THEN mRejected ELSE mRejected + 1

RefuseOverloaded(r) ==
  /\ IsNext(r)
  /\ r \in Known
  /\ rejectOnly[MsgOf[r]] \/ NoCapacity
  /\ Refuse(r, "Overloaded")
  /\ mRejected' = mRejected + 1

Admit(r) ==
  /\ IsNext(r)
  /\ r \in Known
  /\ ~rejectOnly[MsgOf[r]]
  /\ ~NoCapacity
  /\ phase' = [phase EXCEPT ![r] = "admitted"]
  /\ mOutstanding' = mOutstanding + 1
  /\ queued' = IF WouldQueue THEN queued \cup {r} ELSE queued
  /\ mQueued' = IF WouldQueue THEN mQueued + 1 ELSE mQueued
  /\ limit' = [limit EXCEPT ![r] = EffectiveTimeout(SessionOf[MsgOf[r]])]
  /\ mRequestStates' = IF r \in WantsReply
                       THEN [mRequestStates EXCEPT ![KeyOf(r)] = "queued"]
                       ELSE mRequestStates
  /\ mCancelHandles' = IF r \in WantsReply
                       THEN [mCancelHandles EXCEPT ![KeyOf(r)] = r]
                       ELSE mCancelHandles
  /\ UNCHANGED <<msg, rejectOnly, stop, slot, mConnectionTimeouts,
                 mPermits, mActive, mCompleted, mTimedOut, mCanceled, mRejected>>

(* The loop ends and the coroutine suspends in waitAll. *)
AwaitAll(m) ==
  /\ msg[m] = "dispatching"
  /\ \A r \in RequestsOf(m) : phase[r] # "decoded"
  /\ msg' = [msg EXCEPT ![m] = "waiting"]
  /\ UNCHANGED <<rejectOnly, requestVars, mapVars, limiterVars>>

----------------------------------------------------------------------------
(* One request task: _executeRequest and _runAdmittedRequest. *)

(* An admission leaves the queued gauge only if it was counted there. *)
DequeueAlways(r) == mQueued - 1
Dequeue(r) == IF r \in queued THEN mQueued - 1 ELSE mQueued

(* The permit a request holds, if it got one, is returned. *)
ReturnPermitAlways(r) == mPermits + 1
ReturnPermit(r) == IF phase[r] = "running" THEN mPermits + 1 ELSE mPermits

(* _release: a running request leaves the active gauge, any other the      *)
(* queued one.                                                             *)
LeaveGaugesActiveOnly(r) ==
  IF phase[r] = "running"
  THEN mActive' = mActive - 1 /\ mCompleted' = mCompleted + 1 /\ UNCHANGED mQueued
  ELSE UNCHANGED <<mActive, mCompleted, mQueued>>

LeaveGauges(r) ==
  IF phase[r] = "running"
  THEN mActive' = mActive - 1 /\ mCompleted' = mCompleted + 1 /\ UNCHANGED mQueued
  ELSE mQueued' = Dequeue(r) /\ UNCHANGED <<mActive, mCompleted>>

MayRun(r) == limit[r] # NoTimeout => limit[r] > 0

Start(r) ==
  /\ Idle
  /\ phase[r] = "admitted"
  /\ MayRun(r)
  /\ mPermits > 0
  /\ phase' = [phase EXCEPT ![r] = "running"]
  /\ mPermits' = mPermits - 1
  /\ mActive' = mActive + 1
  /\ mQueued' = Dequeue(r)
  /\ mRequestStates' = IF r \in WantsReply /\ mRequestStates[KeyOf(r)] # "absent"
                       THEN [mRequestStates EXCEPT ![KeyOf(r)] = "running"]
                       ELSE mRequestStates
  /\ UNCHANGED <<msg, rejectOnly, queued, limit, stop, slot,
                 mCancelHandles, mConnectionTimeouts,
                 mOutstanding, mCompleted, mTimedOut, mCanceled, mRejected>>

(* The permit is returned and Admission::_release runs. *)
Release(r) ==
  /\ phase' = [phase EXCEPT ![r] = IF @ = "running" THEN "finished" ELSE "dropped"]
  /\ mPermits' = ReturnPermit(r)
  /\ mOutstanding' = mOutstanding - 1
  /\ LeaveGauges(r)
  /\ UNCHANGED <<msg, rejectOnly, queued, limit, stop, mapVars, mCanceled, mRejected>>

(* The handler returned, threw or refused its parameters: one response. *)
Complete(r) ==
  /\ Idle
  /\ phase[r] = "running"
  /\ slot' = [slot EXCEPT ![r] = Respond(r, "result")]
  /\ Release(r)
  /\ UNCHANGED mTimedOut

(* The deadline passed, waiting or running, or was not positive at all. *)
Expire(r) ==
  /\ Idle
  /\ r \in Live
  /\ limit[r] # NoTimeout
  /\ slot' = [slot EXCEPT ![r] = Respond(r, "DeadlineExceeded")]
  /\ mTimedOut' = mTimedOut + 1
  /\ Release(r)

(* A stopped task ends at a suspension point, its slot left empty. *)
Abort(r) ==
  /\ Idle
  /\ r \in stop \cap Live
  /\ Release(r)
  /\ UNCHANGED <<slot, mTimedOut>>

(* The connection timeouts setConnectionTimeout stores. *)
AcceptsTimeout(ns) ==
  /\ ns \in 1 .. MaxNanos
  /\ RequestTimeout # NoTimeout => RequestTimeout > 0 /\ ns < RequestTimeout

(* A running rpc.set_connection_timeout handler. *)
SetConnectionTimeout(r, ns) ==
  LET s == SessionOf[MsgOf[r]]
  IN  /\ Idle
      /\ r \in SetsTimeout
      /\ phase[r] = "running"
      /\ \/ /\ ns = 0
            /\ mConnectionTimeouts' = [mConnectionTimeouts EXCEPT ![s] = NoTimeout]
         \/ /\ AcceptsTimeout(ns)
            /\ mConnectionTimeouts' = [mConnectionTimeouts EXCEPT ![s] = ns]
      /\ UNCHANGED <<msg, rejectOnly, requestVars, mCancelHandles, mRequestStates,
                     limiterVars>>

----------------------------------------------------------------------------
(* processMessage after waitAll. *)

(* activeKeys: the keys this message registered. *)
ActiveKeysFinished(m) ==
  {KeyOf(r) : r \in {q \in RequestsOf(m) \cap WantsReply : phase[q] = "finished"}}

ActiveKeys(m) ==
  {KeyOf(r) : r \in {q \in RequestsOf(m) \cap WantsReply : phase[q] # "refused"}}

(* The slots: a request that still owes a response gets one. *)
FillStopped(m) ==
  [r \in Request |-> IF MsgOf[r] = m /\ r \in WantsReply /\ (slot[r] = "none" \/ r \in stop)
                     THEN "Canceled" ELSE slot[r]]
Fill(m) ==
  [r \in Request |-> IF MsgOf[r] = m /\ r \in WantsReply /\ slot[r] = "none"
                     THEN "Canceled" ELSE slot[r]]

Finish(m) ==
  /\ Idle
  /\ msg[m] = "waiting"
  /\ \A r \in RequestsOf(m) : phase[r] \in Ended
  /\ slot' = Fill(m)
  /\ mCancelHandles' = [k \in Key |-> IF k \in ActiveKeys(m) THEN None
                                      ELSE mCancelHandles[k]]
  /\ mRequestStates' = [k \in Key |-> IF k \in ActiveKeys(m) THEN "absent"
                                      ELSE mRequestStates[k]]
  /\ msg' = [msg EXCEPT ![m] = IF RequestsOf(m) \cap WantsReply = {} THEN "silent"
                               ELSE IF m \in Unencodable THEN "unencodable" ELSE "encoded"]
  /\ UNCHANGED <<rejectOnly, phase, queued, limit, stop, mConnectionTimeouts, limiterVars>>

(* A stopped processMessage ends once its task group is empty; the lines   *)
(* after waitAll do not run, so it erases no key.                          *)
EndStopped(m) ==
  /\ Idle
  /\ msg[m] = "stopping"
  /\ \A r \in RequestsOf(m) : phase[r] \in Ended
  /\ msg' = [msg EXCEPT ![m] = "stopped"]
  /\ UNCHANGED <<rejectOnly, requestVars, mapVars, limiterVars>>

----------------------------------------------------------------------------
(* Cancellation. *)

(* A stop request only reaches a task that has not ended. *)
StopTasks(S) == stop' = stop \cup (S \cap Live)

Handles(K) == {mCancelHandles[k] : k \in K} \ {None}
Registered(K) == {k \in K : mCancelHandles[k] # None}

(* cancel(session, id) for a Cancel frame, cancel(id) of RpcServer::cancel. *)
CancelKeys(K) ==
  /\ Idle
  /\ Registered(K) # {}
  /\ mCanceled + Cardinality(Registered(K)) <= MaxCanceled
  /\ StopTasks(Handles(K))
  /\ mCanceled' = mCanceled + Cardinality(Registered(K))
  /\ UNCHANGED <<msg, rejectOnly, phase, queued, limit, slot, mapVars, mPermits,
                 mOutstanding, mActive, mQueued, mCompleted, mTimedOut, mRejected>>

Cancel(s, id) == CancelKeys({<<s, id>>})
CancelId(id)  == CancelKeys(Session \X {id})

CancelAll ==
  /\ Idle
  /\ mCanceled + Cardinality(Registered(Key)) <= MaxCanceled
  /\ StopTasks(Handles(Key))
  /\ mCanceled' = mCanceled + Cardinality(Registered(Key))
  /\ mCancelHandles' = [k \in Key |-> None]
  /\ mRequestStates' = [k \in Key |-> "absent"]
  /\ mConnectionTimeouts' = [s \in Session |-> NoTimeout]
  /\ UNCHANGED <<msg, rejectOnly, phase, queued, limit, slot, mPermits,
                 mOutstanding, mActive, mQueued, mCompleted, mTimedOut, mRejected>>

(* The messages of a connection, all inside processMessage. *)
MessagesOf(s) == {m \in Message \ DirectCalls : SessionOf[m] = s}

(* The cleanup of a connection: cancelSession, then the request scope of   *)
(* the connection is stopped, without a suspension in between.             *)
CloseSession(s) ==
  LET keys  == {s} \X Id
      mine  == MessagesOf(s)
      tasks == {r \in Request : MsgOf[r] \in mine}
  IN  /\ Idle
      /\ \E m \in mine : msg[m] \in {"new", "waiting"}
      /\ mCanceled + Cardinality(Registered(keys)) <= MaxCanceled
      /\ StopTasks(Handles(keys) \cup tasks)
      /\ mCanceled' = mCanceled + Cardinality(Registered(keys))
      /\ mCancelHandles' = [k \in Key |-> IF k[1] = s THEN None ELSE mCancelHandles[k]]
      /\ mRequestStates' = [k \in Key |-> IF k[1] = s THEN "absent" ELSE mRequestStates[k]]
      /\ mConnectionTimeouts' = [mConnectionTimeouts EXCEPT ![s] = NoTimeout]
      /\ msg' = [m \in Message |->
                   IF m \notin mine THEN msg[m]
                   ELSE IF msg[m] = "new" THEN "stopped"
                   ELSE IF msg[m] = "waiting" THEN "stopping" ELSE msg[m]]
      /\ UNCHANGED <<rejectOnly, phase, queued, limit, slot, mPermits,
                     mOutstanding, mActive, mQueued, mCompleted, mTimedOut, mRejected>>

(* The caller of RpcServer::callMethod stops waiting: the coroutine is     *)
(* stopped in waitAll; no connection cleanup follows.                      *)
AbandonCall(m) ==
  /\ Idle
  /\ m \in DirectCalls
  /\ msg[m] = "waiting"
  /\ msg' = [msg EXCEPT ![m] = "stopping"]
  /\ StopTasks(RequestsOf(m))
  /\ UNCHANGED <<rejectOnly, phase, queued, limit, slot, mapVars, limiterVars>>

----------------------------------------------------------------------------
MessageStep(m) ==
  \/ \E reject \in BOOLEAN : Begin(m, reject)
  \/ AwaitAll(m)
  \/ Finish(m)
  \/ EndStopped(m)
  \/ AbandonCall(m)

RequestStep(r) ==
  \/ RefuseUnknown(r)
  \/ RefuseOverloaded(r)
  \/ Admit(r)
  \/ Start(r)
  \/ Complete(r)
  \/ Expire(r)
  \/ Abort(r)
  \/ \E ns \in Nanos : SetConnectionTimeout(r, ns)

ControlStep ==
  \/ \E s \in Session, id \in Id : Cancel(s, id)
  \/ \E id \in Id : CancelId(id)
  \/ CancelAll
  \/ \E s \in Session : CloseSession(s)

Next ==
  \/ \E m \in Message : MessageStep(m)
  \/ \E r \in Request : RequestStep(r)
  \/ ControlStep

Spec == Init /\ [][Next]_vars

(* The executor resumes every runnable coroutine, a timer fires, and a     *)
(* stopped task ends.  Nothing is assumed of user handlers: no fairness on *)
(* Complete.                                                               *)
Fairness ==
  /\ \A m \in Message : WF_vars(AwaitAll(m) \/ Finish(m) \/ EndStopped(m))
  /\ \A r \in Request : /\ WF_vars(RefuseUnknown(r) \/ RefuseOverloaded(r) \/ Admit(r))
                        /\ WF_vars(Expire(r))
                        /\ WF_vars(Abort(r))

FairSpec == Spec /\ Fairness

----------------------------------------------------------------------------
(* Properties. *)

Capacity == IF MaxActive = 0 THEN 0 ELSE MaxActive + MaxQueued

Timeout == Int \cup {NoTimeout}

(* Type invariant: every member of RpcDispatcher and of the limiter keeps  *)
(* its type; no counter of RpcMetricsSnapshot ever goes below zero.        *)
TypeOK ==
  /\ msg \in [Message -> MsgStatus]
  /\ rejectOnly \in [Message -> BOOLEAN]
  /\ phase \in [Request -> Phase]
  /\ queued \subseteq Request
  /\ limit \in [Request -> Timeout]
  /\ stop \subseteq Request
  /\ slot \in [Request -> Outcome]
  /\ mCancelHandles \in [Key -> Request \cup {None}]
  /\ mRequestStates \in [Key -> {"absent", "queued", "running"}]
  /\ mConnectionTimeouts \in [Session -> Timeout]
  /\ mPermits \in Nat /\ mOutstanding \in Nat
  /\ mActive \in Nat /\ mQueued \in Nat
  /\ mCompleted \in Nat /\ mTimedOut \in Nat
  /\ mCanceled \in Nat /\ mRejected \in Nat

(* Capacity: however admissions, permits, deadlines and cancellations      *)
(* interleave, at most max_active handlers run at once and at most         *)
(* max_active + max_queued requests hold an admission.                     *)
WithinCapacity ==
  /\ Cardinality(Running) <= MaxActive
  /\ Cardinality(Live) <= Capacity

(* The limiter's books balance: every way out of a request (result,        *)
(* deadline while queued or running, stop, refusal) gives back exactly the *)
(* permit, the outstanding slot and the gauges its admission took.         *)
BooksBalance ==
  /\ mPermits + Cardinality(Running) = MaxActive
  /\ mOutstanding = Cardinality(Live)
  /\ mActive = Cardinality(Running)
  /\ mQueued = Cardinality(Waiting \cap queued)

(* The counters of metrics() tell the truth: completed counts the requests *)
(* whose handler was entered, rejected the known requests turned away;     *)
(* timed_out counts each DeadlineExceeded, and beyond those at most the    *)
(* notifications that ended, which leave no answer to count; and nobody is *)
(* told Canceled whom no cancel, cancelAll or cancelSession counted.       *)
(* canceled has no such bound from above: a cancel counts again for a      *)
(* request it stopped before, or that answered while its batch goes on.    *)
CountersTruthful ==
  /\ mCompleted = Cardinality({r \in Request : phase[r] = "finished"})
  /\ mRejected = Cardinality({r \in Known : phase[r] = "refused"})
  /\ LET late == Cardinality({r \in Request : slot[r] = "DeadlineExceeded"})
         mute == Cardinality({r \in Request \ WantsReply : phase[r] \in {"finished", "dropped"}})
     IN  late <= mTimedOut /\ mTimedOut <= late + mute
  /\ Cardinality({r \in Request : slot[r] = "Canceled"}) <= mCanceled

(* When a message's responses are encoded, every request that expects a    *)
(* response has exactly one, cancelled ones included, and no notification  *)
(* has any.                                                                *)
EveryRequestAnswered ==
  \A r \in Request :
    msg[MsgOf[r]] \in {"encoded", "unencodable", "silent"} =>
      (slot[r] # "none" <=> r \in WantsReply)

(* The message of r is being processed; or it is a direct call, which may  *)
(* be abandoned without a cleanup.                                         *)
Processed(r) == msg[MsgOf[r]] \in {"dispatching", "waiting"} \/ MsgOf[r] \in DirectCalls

(* The maps shared by all connections hold no leftovers: a registered      *)
(* cancel handle belongs to a request of a connection only while its       *)
(* message is processed, and so does a listed state.                       *)
NoLeftovers ==
  \A k \in Key :
    /\ mCancelHandles[k] # None => Processed(mCancelHandles[k])
    /\ mRequestStates[k] # "absent" => \E r \in WantsReply : KeyOf(r) = k /\ Processed(r)

(* A request expecting a response whose id its peer uses once can be       *)
(* cancelled until it ends: its handle is registered under its own key, or *)
(* cancelAll/cancelSession stopped it when erasing it.                     *)
EveryRequestCancellable ==
  \A r \in Live \cap WantsReply :
    (\A q \in Request \ {r} : KeyOf(q) # KeyOf(r)) =>
      mCancelHandles[KeyOf(r)] = r \/ r \in stop

(* A connection timeout only tightens: no admitted request runs with a     *)
(* limit looser than the server's request_timeout.                         *)
LimitsTighten ==
  RequestTimeout # NoTimeout =>
    /\ \A r \in Live : limit[r] # NoTimeout /\ limit[r] <= RequestTimeout
    /\ \A s \in Session : mConnectionTimeouts[s] # NoTimeout =>
                             mConnectionTimeouts[s] < RequestTimeout

(* An answer is final: once a slot holds a response no later event, a late *)
(* stop, a deadline or the Canceled filler of processMessage, replaces it, *)
(* and a request that ended does not run again.                            *)
AnswersAreFinal ==
  [][\A r \in Request :
       /\ slot[r] # "none" => slot'[r] = slot[r]
       /\ phase[r] \in Ended => phase'[r] = phase[r]]_vars

(* Overload is never spurious: with room left, and outside the             *)
(* per-connection limit, a known request is not turned away.               *)
RefusalJustified ==
  [][\A r \in Known :
       phase[r] = "decoded" /\ phase'[r] = "refused" =>
         rejectOnly[MsgOf[r]] \/ Cardinality(Live) >= Capacity]_vars

(* Every message that enters processMessage leaves it, whatever handlers   *)
(* do, provided a positive or zero request_timeout bounds its requests.    *)
MessagesEnd ==
  \A m \in Message : msg[m] = "dispatching" ~> msg[m] \in MsgDone

(* Every request is accounted for: it gets its one answer, can be stopped  *)
(* until then, and leaves nothing in the maps all connections share.       *)
RequestsAccountedFor == EveryRequestAnswered /\ NoLeftovers /\ EveryRequestCancellable

(* The limits and the counters of metrics() hold whatever times out.       *)
LimitsAndCounters == LimitsTighten /\ CountersTruthful

(* A request only moves on: to one final answer, and to a refusal only     *)
(* where there was no room.                                                *)
RequestsMoveOn == AnswersAreFinal /\ RefusalJustified
============================================================================
