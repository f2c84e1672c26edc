------------------------------ MODULE RpcServer ------------------------------
(***************************************************************************)
(* RpcServer (include/nekoproto/rpc/server.hpp): the connections of a      *)
(* server, the receive loop of each, the task it spawns per message, and   *)
(* flush, shutdown and close, which work on all of them.                   *)
(*                                                                         *)
(* A message carries one request.  What RpcDispatcher does inside          *)
(* processMessage is the subject of module RpcDispatcher; here a request   *)
(* is executing from its registration until it owes nothing but its        *)
(* answer, and its way out is chosen freely.                               *)
(*                                                                         *)
(* An action is what runs between two suspension points.  A task that is   *)
(* stopped before its first step never runs; one stopped in a wait may     *)
(* still get what it waits for.                                            *)
(***************************************************************************)
EXTENDS Integers, Sequences, FiniteSets

CONSTANTS
  Conn,         \* connections (EndpointSlot)
  Request,      \* requests of all peers
  ConnOf,       \* [Request -> Conn]
  IdOf,         \* [Request -> Id], ids are chosen by the peers
  WantsReply,   \* requests that expect a response
  Script,       \* [Conn -> Seq(Frame)]: what the peer sends
  MaxInflight,  \* max_inflight_requests_per_connection
  Free, Loop, Control  \* states of a send mutex: free, or held by the loop or
                       \* by flush, shutdown, close; otherwise by a request

ASSUME ServerAssumption ==
  /\ IsFiniteSet(Conn) /\ IsFiniteSet(Request)
  /\ ConnOf \in [Request -> Conn]
  /\ WantsReply \subseteq Request
  /\ MaxInflight \in Nat
  /\ {Free, Loop, Control} \cap Request = {}
  /\ Free # Loop /\ Loop # Control /\ Control # Free

(* A script is a sequence of frames that names requests of its connection, *)
(* each of them once: a peer that sends a message again makes a new one.   *)
Frame == UNION {{Script[c][i] : i \in DOMAIN Script[c]} : c \in Conn}
Asks(s, i, r) == s[i].kind = "request" /\ s[i].request = r

ASSUME ScriptAssumption ==
  /\ Script \in [Conn -> Seq(Frame)]
  /\ \A c \in Conn : \A i \in DOMAIN Script[c] : Script[c][i].kind = "request" =>
       LET r == Script[c][i].request
       IN  /\ r \in Request /\ ConnOf[r] = c
           /\ \A j \in DOMAIN Script[c] : Asks(Script[c], j, r) => j = i

VARIABLES
  mClosing,    \* the member mClosing
  mEndpoints,  \* connections in the list mEndpoints
  inbox,       \* [Conn -> Seq(Frame)]: frames not yet received
  loop,        \* [Conn -> LoopState]: progress of _handleClient and its cleanup
  loopStop,    \* connections whose loop was asked to stop
  open,        \* connections whose endpoint is not closed
  sendMutex,   \* [Conn -> Request \cup {Free, Loop, Control}]
  inlineReq,   \* [Conn -> Request \cup {Free}]: the request refused inline
  task,        \* [Request -> TaskState]
  killed,      \* requests whose message task was stopped
  stopped,     \* requests whose handler was stopped
  handles,     \* requests whose handle is in the dispatcher's mCancelHandles
  delivered,   \* [Request -> Nat]: responses written
  control,     \* progress of flush, shutdown or close
  snapshot,    \* connections that call works on
  todo         \* those it has still to visit in this pass

connVars == <<mClosing, mEndpoints, inbox, loop, loopStop, open, sendMutex, inlineReq>>
taskVars == <<task, killed, stopped, handles, delivered>>
controlVars == <<control, snapshot, todo>>
vars == <<connVars, taskVars, controlVars>>

LoopState == {"new", "receiving", "answering", "refuseLock", "refuseSend",
              "cleanup", "gone", "rejected"}
Looping == {"receiving", "answering", "refuseLock", "refuseSend"}
TaskState == {"none", "spawned", "executing", "lock", "sending", "done"}
Alive == {"spawned", "executing", "lock", "sending"}
ControlState == {"idle", "flush", "drain", "shut", "wait", "waitClose", "finish", "closed"}

TasksOf(c) == {r \in Request : ConnOf[r] = c}
InFlight(c) == {r \in TasksOf(c) : task[r] \in Alive}

Init ==
  /\ mClosing = FALSE
  /\ mEndpoints = {}
  /\ inbox = Script
  /\ loop = [c \in Conn |-> "new"]
  /\ loopStop = {}
  /\ open = Conn
  /\ sendMutex = [c \in Conn |-> Free]
  /\ inlineReq = [c \in Conn |-> Free]
  /\ task = [r \in Request |-> "none"]
  /\ killed = {}
  /\ stopped = {}
  /\ handles = {}
  /\ delivered = [r \in Request |-> 0]
  /\ control = "idle"
  /\ snapshot = {}
  /\ todo = {}

------------------------------------------------------------------------------
(* Connections come and go. *)

(* addEndpoint and _handleEndpoint: a closing server takes nobody in. *)
AddEndpoint(c) ==
  /\ loop[c] = "new"
  /\ \/ /\ mClosing
        /\ loop' = [loop EXCEPT ![c] = "rejected"]
        /\ open' = open \ {c}
        /\ UNCHANGED mEndpoints
     \/ /\ ~mClosing
        /\ loop' = [loop EXCEPT ![c] = "receiving"]
        /\ mEndpoints' = mEndpoints \cup {c}
        /\ UNCHANGED open
  /\ UNCHANGED <<mClosing, inbox, loopStop, sendMutex, inlineReq, taskVars, controlVars>>

(* The handlers cancelSession stops: those of one session. *)
SessionHandles(c) == handles \cap TasksOf(c)

(* The cleanup behind _handleClient, up to its wait: the slot leaves the   *)
(* list, the session is cancelled, the tasks of its messages are stopped.  *)
(* What the peer sent and nobody read is dropped.                          *)
Killed(c) == killed \cup InFlight(c)
LeaveLoop(c) ==
  /\ loop' = [loop EXCEPT ![c] = "cleanup"]
  /\ inbox' = [inbox EXCEPT ![c] = <<>>]
  /\ mEndpoints' = mEndpoints \ {c}
  /\ stopped' = stopped \cup SessionHandles(c)
  /\ handles' = handles \ SessionHandles(c)
  /\ killed' = Killed(c)
  /\ inlineReq' = [inlineReq EXCEPT ![c] = Free]
  /\ sendMutex' = [sendMutex EXCEPT ![c] = IF @ = Loop THEN Free ELSE @]
  /\ UNCHANGED <<mClosing, loopStop, task, delivered, controlVars>>

(* The stream ended, failed or was closed. *)
ReceiveNothing(c) ==
  /\ loop[c] = "receiving"
  /\ LeaveLoop(c)
  /\ UNCHANGED open

(* A stop reaches the loop in whatever it waits for. *)
StopLoop(c) ==
  /\ c \in loopStop
  /\ loop[c] \in Looping
  /\ LeaveLoop(c)
  /\ UNCHANGED open

WaitsForNone(c) == TRUE
WaitsForTasks(c) == InFlight(c) = {}
EndCleanup(c) ==
  /\ loop[c] = "cleanup"
  /\ WaitsForTasks(c)
  /\ loop' = [loop EXCEPT ![c] = "gone"]
  /\ UNCHANGED <<mClosing, mEndpoints, inbox, loopStop, open, sendMutex, inlineReq,
                 taskVars, controlVars>>

------------------------------------------------------------------------------
(* The receive loop, one action per kind of frame. *)

Receives(c, kind) ==
  /\ loop[c] = "receiving"
  /\ c \in open
  /\ inbox[c] # <<>>
  /\ Head(inbox[c]).kind = kind
  /\ inbox' = [inbox EXCEPT ![c] = Tail(@)]

(* A frame that is malformed or too large, which may come at any time: the *)
(* endpoint is closed.                                                     *)
ReceiveInvalid(c) ==
  /\ loop[c] = "receiving"
  /\ c \in open
  /\ LeaveLoop(c)
  /\ open' = open \ {c}

(* A Cancel frame reaches the handlers of its own session with that id. *)
CancelledByAnyone(c, id) == {r \in handles : IdOf[r] = id}
CancelledBy(c, id) == {r \in SessionHandles(c) : IdOf[r] = id}
ReceiveCancel(c) ==
  /\ Receives(c, "cancel")
  /\ stopped' = stopped \cup CancelledBy(c, Head(inbox[c]).id)
  /\ UNCHANGED <<mClosing, mEndpoints, loop, loopStop, open, sendMutex, inlineReq,
                 task, killed, handles, delivered, controlVars>>

(* A hello is answered by the loop itself, without the send mutex. *)
ReceiveHello(c) ==
  /\ Receives(c, "hello")
  /\ loop' = [loop EXCEPT ![c] = "answering"]
  /\ UNCHANGED <<mClosing, mEndpoints, loopStop, open, sendMutex, inlineReq,
                 taskVars, controlVars>>

EndHello(c) ==
  /\ loop[c] = "answering"
  /\ \/ /\ c \in open
        /\ loop' = [loop EXCEPT ![c] = "receiving"]
        /\ UNCHANGED <<mClosing, mEndpoints, inbox, loopStop, open, sendMutex, inlineReq,
                       taskVars, controlVars>>
     \/ LeaveLoop(c) /\ UNCHANGED open

HasRoom(c) == Cardinality(InFlight(c)) < MaxInflight

(* A request: a task of its own, or a refusal written by the loop. *)
ReceiveRequest(c) ==
  LET r == Head(inbox[c]).request
  IN  /\ Receives(c, "request")
      /\ \/ /\ HasRoom(c)
            /\ task' = [task EXCEPT ![r] = "spawned"]
            /\ UNCHANGED <<loop, inlineReq>>
         \/ /\ ~HasRoom(c)
            /\ IF r \in WantsReply
                 THEN /\ loop' = [loop EXCEPT ![c] = "refuseLock"]
                      /\ inlineReq' = [inlineReq EXCEPT ![c] = r]
                 ELSE UNCHANGED <<loop, inlineReq>>
            /\ UNCHANGED task
      /\ UNCHANGED <<mClosing, mEndpoints, loopStop, open, sendMutex,
                     killed, stopped, handles, delivered, controlVars>>

Unlocked(c) == sendMutex[c] = Free

LockRefusal(c) ==
  /\ loop[c] = "refuseLock"
  /\ Unlocked(c)
  /\ sendMutex' = [sendMutex EXCEPT ![c] = Loop]
  /\ loop' = [loop EXCEPT ![c] = "refuseSend"]
  /\ UNCHANGED <<mClosing, mEndpoints, inbox, loopStop, open, inlineReq, taskVars, controlVars>>

WriteUnchecked(c, r) ==
  /\ UNCHANGED open
  /\ \/ delivered' = [delivered EXCEPT ![r] = @ + 1]
     \/ UNCHANGED delivered

(* A write of a whole frame ends well, or fails and closes the endpoint. *)
Write(c, r) ==
  \/ /\ c \in open
     /\ delivered' = [delivered EXCEPT ![r] = @ + 1]
     /\ UNCHANGED open
  \/ /\ open' = open \ {c}
     /\ UNCHANGED delivered

SendRefusal(c) ==
  /\ loop[c] = "refuseSend"
  /\ Write(c, inlineReq[c])
  /\ sendMutex' = [sendMutex EXCEPT ![c] = Free]
  /\ inlineReq' = [inlineReq EXCEPT ![c] = Free]
  /\ loop' = [loop EXCEPT ![c] = "receiving"]
  /\ UNCHANGED <<mClosing, mEndpoints, inbox, loopStop, task, killed, stopped, handles,
                 controlVars>>

------------------------------------------------------------------------------
(* The task of one message: processMessage with the endpoint and its mutex. *)

OnlyTask == UNCHANGED <<mClosing, mEndpoints, inbox, loop, loopStop, inlineReq, controlVars>>

Registered(r) == IF r \in WantsReply THEN handles \cup {r} ELSE handles

(* The request is registered and runs, or is answered at once: overloaded, *)
(* unknown, or past its deadline.                                          *)
StartTask(r) ==
  /\ task[r] = "spawned"
  /\ r \notin killed
  /\ \/ /\ task' = [task EXCEPT ![r] = "executing"]
        /\ handles' = Registered(r)
     \/ /\ task' = [task EXCEPT ![r] = IF r \in WantsReply THEN "lock" ELSE "done"]
        /\ UNCHANGED handles
  /\ OnlyTask
  /\ UNCHANGED <<open, sendMutex, killed, stopped, delivered>>

(* The handler ended, on its own or by a stop; then the answer is due.     *)
(* One that cannot be encoded within the limits closes the endpoint.       *)
Execute(r) ==
  /\ task[r] = "executing"
  /\ handles' = handles \ {r}
  /\ \/ /\ task' = [task EXCEPT ![r] = IF r \in WantsReply THEN "lock" ELSE "done"]
        /\ UNCHANGED open
     \/ /\ r \in WantsReply
        /\ task' = [task EXCEPT ![r] = "done"]
        /\ open' = open \ {ConnOf[r]}
  /\ OnlyTask
  /\ UNCHANGED <<sendMutex, killed, stopped, delivered>>

LockReply(r) ==
  /\ task[r] = "lock"
  /\ Unlocked(ConnOf[r])
  /\ sendMutex' = [sendMutex EXCEPT ![ConnOf[r]] = r]
  /\ task' = [task EXCEPT ![r] = "sending"]
  /\ OnlyTask
  /\ UNCHANGED <<open, killed, stopped, handles, delivered>>

SendReply(r) ==
  /\ task[r] = "sending"
  /\ Write(ConnOf[r], r)
  /\ sendMutex' = [sendMutex EXCEPT ![ConnOf[r]] = Free]
  /\ task' = [task EXCEPT ![r] = "done"]
  /\ OnlyTask
  /\ UNCHANGED <<killed, stopped, handles>>

(* A stopped task ends where it waits; a guard it holds is released. *)
ReleasedByNone(r) == sendMutex
ReleasedBy(r) == [sendMutex EXCEPT ![ConnOf[r]] = IF @ = r THEN Free ELSE @]
Die(r) ==
  /\ r \in killed
  /\ task[r] \in Alive
  /\ task' = [task EXCEPT ![r] = "done"]
  /\ sendMutex' = ReleasedBy(r)
  /\ OnlyTask
  /\ UNCHANGED <<open, killed, stopped, handles, delivered>>

------------------------------------------------------------------------------
(* flush, shutdown and close.  One of them runs at a time. *)

OnlyControl == UNCHANGED <<inbox, loop, inlineReq, taskVars>>

BeginFlush ==
  /\ control = "idle"
  /\ control' = "flush"
  /\ snapshot' = mEndpoints
  /\ todo' = mEndpoints
  /\ OnlyControl
  /\ UNCHANGED <<mClosing, mEndpoints, loopStop, open, sendMutex>>

(* _beginClose, then the first pass of shutdown. *)
BeginShutdown ==
  /\ control = "idle"
  /\ control' = "drain"
  /\ mClosing' = TRUE
  /\ snapshot' = mEndpoints
  /\ todo' = mEndpoints
  /\ mEndpoints' = {}
  /\ OnlyControl
  /\ UNCHANGED <<loopStop, open, sendMutex>>

ScopeMembers == {c \in Conn : loop[c] \notin {"new", "gone", "rejected"}}

(* close: the scope of all loops is stopped at once. *)
BeginClose ==
  /\ control = "idle"
  /\ control' = "waitClose"
  /\ mClosing' = TRUE
  /\ snapshot' = mEndpoints
  /\ todo' = mEndpoints
  /\ mEndpoints' = {}
  /\ loopStop' = loopStop \cup ScopeMembers
  /\ OnlyControl
  /\ UNCHANGED <<open, sendMutex>>

(* Each pass locks the mutex of a connection, flushes it, shuts it down or *)
(* closes it, and lets go.  No pass gives up: errors are only logged.      *)
LockControl(c) ==
  /\ control \in {"flush", "drain", "shut", "finish"}
  /\ c \in todo
  /\ \A d \in Conn : sendMutex[d] # Control
  /\ Unlocked(c)
  /\ sendMutex' = [sendMutex EXCEPT ![c] = Control]
  /\ OnlyControl
  /\ UNCHANGED <<mClosing, mEndpoints, loopStop, open, controlVars>>

VisitedBy(c) == IF control = "finish" THEN open \ {c} ELSE open
Visit(c) ==
  /\ sendMutex[c] = Control
  /\ sendMutex' = [sendMutex EXCEPT ![c] = Free]
  /\ open' = VisitedBy(c)
  /\ todo' = todo \ {c}
  /\ OnlyControl
  /\ UNCHANGED <<mClosing, mEndpoints, loopStop, control, snapshot>>

(* A flush that fails ends flush(). *)
EndFlush ==
  /\ control = "flush"
  /\ \A d \in Conn : sendMutex[d] # Control
  /\ control' = "idle"
  /\ todo' = {}
  /\ OnlyControl
  /\ UNCHANGED <<mClosing, mEndpoints, loopStop, open, sendMutex, snapshot>>

EndDrain ==
  /\ control = "drain" /\ todo = {}
  /\ control' = "shut"
  /\ todo' = snapshot
  /\ OnlyControl
  /\ UNCHANGED <<mClosing, mEndpoints, loopStop, open, sendMutex, snapshot>>

(* mScope.shutdown: stop all loops and wait for them. *)
EndShut ==
  /\ control = "shut" /\ todo = {}
  /\ control' = "wait"
  /\ loopStop' = loopStop \cup ScopeMembers
  /\ OnlyControl
  /\ UNCHANGED <<mClosing, mEndpoints, open, sendMutex, snapshot, todo>>

ScopeIdle == \A c \in Conn : loop[c] \notin Looping
ScopeEmpty == ScopeMembers = {}

EndWait ==
  /\ control = "wait"
  /\ ScopeEmpty
  /\ control' = "finish"
  /\ todo' = snapshot
  /\ OnlyControl
  /\ UNCHANGED <<mClosing, mEndpoints, loopStop, open, sendMutex, snapshot>>

(* close() does not lock: its loops and tasks are gone. *)
EndWaitClose ==
  /\ control = "waitClose"
  /\ ScopeEmpty
  /\ control' = "closed"
  /\ open' = open \ snapshot
  /\ todo' = {}
  /\ OnlyControl
  /\ UNCHANGED <<mClosing, mEndpoints, loopStop, sendMutex, snapshot>>

EndFinish ==
  /\ control = "finish" /\ todo = {}
  /\ control' = "closed"
  /\ OnlyControl
  /\ UNCHANGED <<mClosing, mEndpoints, loopStop, open, sendMutex, snapshot, todo>>

------------------------------------------------------------------------------
ConnStep(c) ==
  \/ AddEndpoint(c)   \/ ReceiveNothing(c) \/ StopLoop(c)    \/ EndCleanup(c)
  \/ ReceiveInvalid(c) \/ ReceiveCancel(c) \/ ReceiveHello(c) \/ EndHello(c)
  \/ ReceiveRequest(c) \/ LockRefusal(c)   \/ SendRefusal(c)

TaskStep(r) ==
  \/ StartTask(r) \/ Execute(r) \/ LockReply(r) \/ SendReply(r) \/ Die(r)

ControlStep ==
  \/ BeginFlush \/ BeginShutdown \/ BeginClose
  \/ \E c \in Conn : LockControl(c) \/ Visit(c)
  \/ EndFlush \/ EndDrain \/ EndShut \/ EndWait \/ EndWaitClose \/ EndFinish

Next ==
  \/ \E c \in Conn : ConnStep(c)
  \/ \E r \in Request : TaskStep(r)
  \/ ControlStep

Spec == Init /\ [][Next]_vars

(* The executor resumes what can run, a write ends or fails, a stopped     *)
(* coroutine ends, a free mutex is granted.  A handler need not return: no *)
(* fairness on Execute; nor do peers have to send: none on receiving.      *)
Fairness ==
  /\ \A c \in Conn : /\ WF_vars(StopLoop(c)) /\ WF_vars(EndCleanup(c))
                     /\ WF_vars(EndHello(c)) /\ WF_vars(SendRefusal(c))
                     /\ SF_vars(LockControl(c)) /\ WF_vars(Visit(c))
  /\ \A r \in Request : WF_vars(SendReply(r)) /\ WF_vars(Die(r))
  /\ WF_vars(EndDrain \/ EndShut \/ EndWait \/ EndWaitClose \/ EndFinish)

FairSpec == Spec /\ Fairness

------------------------------------------------------------------------------
(* Types; handles belong to requests that expect a response and have       *)
(* started (_finishRequest is only called for those).                      *)
TypeOK ==
  /\ mClosing \in BOOLEAN
  /\ mEndpoints \subseteq Conn /\ loopStop \subseteq Conn /\ open \subseteq Conn
  /\ loop \in [Conn -> LoopState]
  /\ sendMutex \in [Conn -> Request \cup {Free, Loop, Control}]
  /\ inlineReq \in [Conn -> Request \cup {Free}]
  /\ task \in [Request -> TaskState]
  /\ killed \subseteq Request /\ stopped \subseteq handles \cup {r \in Request : task[r] # "none"}
  /\ handles \subseteq {r \in WantsReply : task[r] = "executing"}
  /\ delivered \in [Request -> Nat]
  /\ control \in ControlState
  /\ todo \subseteq snapshot /\ snapshot \subseteq Conn

(* Nothing of a connection outlives its loop's cleanup (the finally of     *)
(* _handleEndpoint): no task, no handle, no place in the list, no lock.    *)
GoneLeavesNothing ==
  \A c \in Conn : loop[c] \in {"gone", "rejected"} =>
     /\ InFlight(c) = {}
     /\ handles \cap TasksOf(c) = {}
     /\ c \notin mEndpoints
     /\ sendMutex[c] \in {Free, Control}

(* The limit of _handleClient holds whatever arrives while tasks end, are  *)
(* refused inline or are stopped.                                          *)
InflightBounded == \A c \in Conn : Cardinality(InFlight(c)) <= MaxInflight

(* Frames of one connection are never written at the same time, by tasks,  *)
(* by the loop that refuses, or by the loop that answers a hello (for      *)
(* peers that say hello before they send requests).                        *)
Writers(c) ==
  {r \in TasksOf(c) : task[r] = "sending"}
    \cup (IF loop[c] \in {"answering", "refuseSend"} THEN {Loop} ELSE {})
OneWriter == \A c \in Conn : Cardinality(Writers(c)) <= 1

(* A request is answered at most once; one that ended although nobody      *)
(* stopped it was answered, or its connection is closed: no silent loss.   *)
DoneIsAnswered ==
  \A r \in Request :
    /\ delivered[r] <= 1
    /\ (task[r] = "done" /\ r \in WantsReply \ killed /\ ConnOf[r] \in open) => delivered[r] = 1

(* A handler runs either under a handle its peer can cancel by, or in a    *)
(* task that is being stopped.                                             *)
ExecutingIsCancellable ==
  \A r \in WantsReply : task[r] = "executing" => r \in handles \cup killed

(* After shutdown or close no loop and no task is left and every endpoint  *)
(* of the server is closed, those that came during it included.            *)
ClosedIsQuiet ==
  control = "closed" =>
    /\ \A c \in Conn : loop[c] \in {"new", "gone", "rejected"}
    /\ \A c \in Conn : loop[c] = "rejected" \/ c \in snapshot => c \notin open
    /\ \A r \in Request : task[r] \notin Alive

(* One peer never stops the request of another: a request is stopped only  *)
(* by a Cancel frame of its own connection with its id, or because the     *)
(* loop of its connection leaves.                                          *)
OnlyOwnPeerStops ==
  [][\A r \in Request :
       r \in (stopped' \cup killed') \ (stopped \cup killed) =>
         LET c == ConnOf[r]
         IN  \/ loop[c] \in Looping /\ loop'[c] = "cleanup"
             \/ /\ inbox'[c] # inbox[c]
                /\ Head(inbox[c]).kind = "cancel"
                /\ Head(inbox[c]).id = IdOf[r]]_vars

(* shutdown and close end, whatever handlers, peers and tasks do, if       *)
(* writes end and the executor is fair.                                    *)
ShutdownEnds == control \notin {"idle", "flush"} ~> control = "closed"

(* The connections of the server are those of ConnectionScope: a request   *)
(* enters through an open connection, and the cleanup waits for the last.  *)
Life(c) == CASE loop[c] = "new" -> "new"
             [] loop[c] \in Looping -> "open"
             [] loop[c] = "cleanup" -> "closing"
             [] loop[c] \in {"gone", "rejected"} -> "gone"
Scope == INSTANCE ConnectionScope WITH
           Work <- Request,
           life <- [c \in Conn |-> Life(c)],
           inside <- [c \in Conn |-> InFlight(c)]
ImplementsConnectionScope == Scope!Spec

(* A request of a connection is served: within the limit, cancellable,     *)
(* answered by one writer at a time, and answered unless it was stopped.   *)
RequestsServed == TypeOK /\ InflightBounded /\ OneWriter /\ DoneIsAnswered /\ ExecutingIsCancellable

(* Neither a connection that is gone nor a closed server leaves anything.  *)
NothingIsLeft == GoneLeavesNothing /\ ClosedIsQuiet
==============================================================================
