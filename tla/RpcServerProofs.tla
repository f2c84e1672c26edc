-------------------------- MODULE RpcServerProofs --------------------------
(***************************************************************************)
(* Proofs about RpcServer, for every set of connections and requests,      *)
(* every script of frames and every limit on requests in flight.           *)
(***************************************************************************)
EXTENDS RpcServer, FiniteSetTheorems, SequenceTheorems, TLAPS

(* A peer negotiates before it calls. *)
HelloFirst ==
  \A c \in Conn : \A i, j \in DOMAIN Script[c] :
    Script[c][i].kind = "hello" /\ Script[c][j].kind = "request" => i < j

----------------------------------------------------------------------------
(* The inductive invariant. *)

(* A request that is still to be received, or refused by the loop, has no  *)
(* task and no answer, and is received once.                               *)
Untouched(r) == task[r] = "none" /\ delivered[r] = 0
InboxFresh ==
  /\ inbox \in [Conn -> Seq(Frame)]
  /\ \A c \in Conn : \A i \in DOMAIN inbox[c] : inbox[c][i].kind = "request" =>
       LET r == inbox[c][i].request
       IN  /\ r \in Request /\ ConnOf[r] = c /\ Untouched(r) /\ inlineReq[c] # r
           /\ \A j \in DOMAIN inbox[c] : Asks(inbox[c], j, r) => j = i

InlineFresh ==
  \A c \in Conn :
    /\ loop[c] \in {"refuseLock", "refuseSend"} <=> inlineReq[c] # Free
    /\ inlineReq[c] # Free => ConnOf[inlineReq[c]] = c /\ Untouched(inlineReq[c])

(* A send mutex names whoever writes. *)
MutexTrue ==
  /\ \A r \in Request : task[r] = "sending" <=> sendMutex[ConnOf[r]] = r
  /\ \A c \in Conn : sendMutex[c] \in Request => ConnOf[sendMutex[c]] = c
  /\ \A c \in Conn : sendMutex[c] = Loop <=> loop[c] = "refuseSend"

(* Tasks run for connections that are there, and are answered at the end.  *)
TasksLive ==
  /\ killed \cap handles = {}
  /\ \A r \in Request : loop[ConnOf[r]] \in {"new", "gone", "rejected"} => task[r] \notin Alive
  /\ \A c \in mEndpoints : loop[c] \in Looping
  /\ \A r \in Request : delivered[r] = 0 \/ task[r] \in {"none", "done"}

(* A closing server takes nobody in, and closes those it had. *)
ClosingCloses ==
  /\ control \notin {"idle", "flush"} => mClosing
  /\ control \in {"finish", "closed"} => \A c \in Conn : loop[c] \in {"new", "gone", "rejected"}
  /\ \A c \in Conn : loop[c] = "rejected" => c \notin open
  /\ control = "finish" => \A c \in snapshot \ todo : c \notin open
  /\ control = "closed" => \A c \in snapshot : c \notin open

ServerInv ==
  /\ TypeOK /\ InboxFresh /\ InlineFresh /\ MutexTrue /\ TasksLive /\ ClosingCloses
  /\ InflightBounded /\ DoneIsAnswered /\ ExecutingIsCancellable

(* While a hello is to come or being answered, nothing else is going on. *)
HelloAlone ==
  \A c \in Conn :
    /\ \A i, j \in DOMAIN inbox[c] :
         inbox[c][i].kind = "hello" /\ inbox[c][j].kind = "request" => i < j
    /\ loop[c] = "answering" \/ (\E i \in DOMAIN inbox[c] : inbox[c][i].kind = "hello") =>
         \A r \in Request : ConnOf[r] = c => task[r] = "none"

----------------------------------------------------------------------------
(* Lemmas about the steps. *)

(* The four ways in which a loop leaves. *)
Leaves(c) == loop[c] \in Looping /\ LeaveLoop(c) /\ open' \in {open, open \ {c}}

(* The loop goes on after a hello. *)
HelloAnswered(c) ==
  /\ loop[c] = "answering"
  /\ loop' = [loop EXCEPT ![c] = "receiving"]
  /\ UNCHANGED <<mClosing, mEndpoints, inbox, loopStop, open, sendMutex, inlineReq,
                 taskVars, controlVars>>

LEMMA ConnSteps ==
  ASSUME NEW c \in Conn, ConnStep(c)
  PROVE  \/ AddEndpoint(c) \/ Leaves(c) \/ EndCleanup(c) \/ ReceiveCancel(c)
         \/ ReceiveHello(c) \/ HelloAnswered(c) \/ ReceiveRequest(c)
         \/ LockRefusal(c) \/ SendRefusal(c)
BY DEF ConnStep, ReceiveNothing, StopLoop, ReceiveInvalid, EndHello, Leaves, Looping,
       HelloAnswered

(* flush, shutdown and close touch neither loops nor tasks. *)
LEMMA ControlFrame == ASSUME ControlStep PROVE OnlyControl
BY DEF ControlStep, OnlyControl, BeginFlush, BeginShutdown, BeginClose, LockControl, Visit,
       EndFlush, EndDrain, EndShut, EndWait, EndWaitClose, EndFinish

(* A task touches neither the loops nor the list of connections. *)
LEMMA TaskFrame == ASSUME NEW r \in Request, TaskStep(r) PROVE OnlyTask
BY DEF TaskStep, StartTask, Execute, LockReply, SendReply, Die

LEMMA FreeIsNobody == Free \notin Request /\ Loop \notin Request /\ Control \notin Request
BY ServerAssumption

(* What the receipt of a frame leaves to be received; the request it names *)
(* was untouched and is not to come again.                                 *)
LEMMA Received ==
  ASSUME InboxFresh, NEW c \in Conn, NEW k, Receives(c, k)
  PROVE  /\ inbox' \in [Conn -> Seq(Frame)]
         /\ \A d \in Conn \ {c} : inbox'[d] = inbox[d]
         /\ 1 \in DOMAIN inbox[c] /\ Head(inbox[c]) = inbox[c][1]
         /\ \A i \in DOMAIN inbox'[c] : /\ i \in Nat /\ i + 1 \in DOMAIN inbox[c]
                                        /\ inbox'[c][i] = inbox[c][i + 1]
<1>1. inbox[c] \in Seq(Frame) /\ inbox[c] # <<>>
  BY DEF InboxFresh, Receives
<1>2. /\ Tail(inbox[c]) \in Seq(Frame)
      /\ 1 \in DOMAIN inbox[c] /\ Head(inbox[c]) = inbox[c][1]
      /\ \A i \in DOMAIN Tail(inbox[c]) : /\ i \in Nat /\ i + 1 \in DOMAIN inbox[c]
                                          /\ Tail(inbox[c])[i] = inbox[c][i + 1]
  BY <1>1
<1>3. inbox' = [inbox EXCEPT ![c] = Tail(inbox[c])]
  BY DEF Receives
<1>4. inbox \in [Conn -> Seq(Frame)]
  BY DEF InboxFresh
<1>5. QED
  BY <1>2, <1>3, <1>4

LEMMA ReceivedRequest ==
  ASSUME InboxFresh, NEW c \in Conn, Receives(c, "request"),
         NEW r, r = Head(inbox[c]).request
  PROVE  /\ r \in Request /\ ConnOf[r] = c /\ Untouched(r) /\ inlineReq[c] # r
         /\ \A d \in Conn : \A i \in DOMAIN inbox'[d] : ~Asks(inbox'[d], i, r)
<1>1. /\ 1 \in DOMAIN inbox[c] /\ Head(inbox[c]) = inbox[c][1]
      /\ inbox[c][1].kind = "request"
  BY Received DEF Receives
<1>2. /\ r \in Request /\ ConnOf[r] = c /\ Untouched(r) /\ inlineReq[c] # r
      /\ \A j \in DOMAIN inbox[c] : Asks(inbox[c], j, r) => j = 1
  BY <1>1 DEF InboxFresh
<1>3. \A i \in DOMAIN inbox'[c] : ~Asks(inbox'[c], i, r)
  BY <1>2, Received DEF Asks
<1>4. \A d \in Conn \ {c} : \A i \in DOMAIN inbox'[d] : ~Asks(inbox'[d], i, r)
  BY <1>2, Received DEF Asks, InboxFresh
<1>5. QED
  BY <1>2, <1>3, <1>4

(* The receipt of a request, within the limit or not. *)
LEMMA RequestSteps ==
  ASSUME InboxFresh, InlineFresh, NEW c \in Conn, ReceiveRequest(c),
         NEW r, r = Head(inbox[c]).request
  PROVE  /\ r \in Request /\ ConnOf[r] = c /\ task[r] = "none" /\ delivered[r] = 0
         /\ loop[c] = "receiving" /\ inlineReq[c] = Free
         /\ \/ HasRoom(c) /\ task' = [task EXCEPT ![r] = "spawned"] /\ UNCHANGED <<loop, inlineReq>>
            \/ UNCHANGED <<task, loop, inlineReq>>
            \/ /\ loop' = [loop EXCEPT ![c] = "refuseLock"]
               /\ inlineReq' = [inlineReq EXCEPT ![c] = r]
               /\ task' = task
         /\ UNCHANGED <<mClosing, mEndpoints, loopStop, open, sendMutex, killed, stopped,
                        handles, delivered, control, snapshot, todo>>
<1>1. Receives(c, "request") /\ loop[c] = "receiving"
  BY DEF ReceiveRequest, Receives
<1>2. r \in Request /\ ConnOf[r] = c /\ task[r] = "none" /\ delivered[r] = 0
  BY <1>1, ReceivedRequest DEF Untouched
<1>3. inlineReq[c] = Free
  BY <1>1 DEF InlineFresh
<1>4. QED
  BY <1>1, <1>2, <1>3 DEF ReceiveRequest, controlVars

----------------------------------------------------------------------------
(* Type correctness. *)

LEMMA LeaveTypes ==
  ASSUME ServerInv, NEW c \in Conn, Leaves(c)
  PROVE  TypeOK'
BY FreeIsNobody DEF ServerInv, TypeOK, Leaves, LeaveLoop, SessionHandles, Killed, InFlight,
   TasksOf, Looping, LoopState, controlVars

LEMMA ConnTypes ==
  ASSUME ServerInv, NEW c \in Conn, ConnStep(c)
  PROVE  TypeOK'
<1> USE DEF ServerInv, TypeOK, LoopState, taskVars, controlVars
<1>1. CASE AddEndpoint(c)
  BY <1>1 DEF AddEndpoint
<1>2. CASE Leaves(c)
  BY <1>2, LeaveTypes
<1>3. CASE EndCleanup(c)
  BY <1>3 DEF EndCleanup
<1>4. CASE ReceiveCancel(c)
  BY <1>4 DEF ReceiveCancel, CancelledBy, SessionHandles
<1>5. CASE ReceiveHello(c)
  BY <1>5 DEF ReceiveHello
<1>6. CASE HelloAnswered(c)
  BY <1>6 DEF HelloAnswered
<1>7. ASSUME NEW r, r = Head(inbox[c]).request, ReceiveRequest(c)
      PROVE  TypeOK'
  <2>1. task' \in [Request -> TaskState] /\ \A q \in Request : task[q] # "none" => task'[q] = task[q]
    BY <1>7, RequestSteps DEF TaskState
  <2>2. /\ inlineReq' \in [Conn -> Request \cup {Free}] /\ loop' \in [Conn -> LoopState]
        /\ UNCHANGED <<mClosing, mEndpoints, loopStop, open, sendMutex, killed, stopped,
                       handles, delivered, control, snapshot, todo>>
    BY <1>7, RequestSteps
  <2>3. /\ handles' \subseteq {q \in WantsReply : task'[q] = "executing"}
        /\ stopped' \subseteq handles' \cup {q \in Request : task'[q] # "none"}
    BY <2>1, <2>2, ServerAssumption
  <2>4. QED
    BY <2>1, <2>2, <2>3
<1>8. CASE LockRefusal(c)
  BY <1>8 DEF LockRefusal
<1>9. CASE SendRefusal(c)
  <2>1. inlineReq[c] \in Request
    BY <1>9 DEF SendRefusal, InlineFresh
  <2>2. QED
    BY <1>9, <2>1 DEF SendRefusal, Write
<1>10. QED
  BY <1>1, <1>2, <1>3, <1>4, <1>5, <1>6, <1>7, <1>8, <1>9, ConnSteps

LEMMA TaskTypes ==
  ASSUME ServerInv, NEW r \in Request, TaskStep(r)
  PROVE  TypeOK'
<1> USE ServerAssumption DEF ServerInv, TypeOK, TaskState, controlVars, OnlyTask
<1>1. CASE StartTask(r)
  BY <1>1 DEF StartTask, Registered
<1>2. CASE Execute(r)
  BY <1>2 DEF Execute
<1>3. CASE LockReply(r)
  BY <1>3 DEF LockReply
<1>4. CASE SendReply(r)
  BY <1>4 DEF SendReply, Write
<1>5. CASE Die(r)
  BY <1>5 DEF Die, ReleasedBy, TasksLive
<1>6. QED
  BY <1>1, <1>2, <1>3, <1>4, <1>5 DEF TaskStep

LEMMA ControlTypes ==
  ASSUME ServerInv, ControlStep
  PROVE  TypeOK'
<1> USE DEF ServerInv, TypeOK, ControlState, controlVars, taskVars, OnlyControl
<1>1. CASE BeginFlush \/ BeginShutdown
  BY <1>1 DEF BeginFlush, BeginShutdown
<1>2. CASE BeginClose
  BY <1>2 DEF BeginClose, ScopeMembers
<1>3. ASSUME NEW c \in Conn, LockControl(c) \/ Visit(c)
      PROVE  TypeOK'
  BY <1>3 DEF LockControl, Visit, VisitedBy
<1>4. CASE EndFlush \/ EndDrain \/ EndWait \/ EndWaitClose \/ EndFinish
  BY <1>4 DEF EndFlush, EndDrain, EndWait, EndWaitClose, EndFinish
<1>5. CASE EndShut
  BY <1>5 DEF EndShut, ScopeMembers
<1>6. QED
  BY <1>1, <1>2, <1>3, <1>4, <1>5 DEF ControlStep

(* Every step is one of a connection, of a task, of control, or none. *)
LEMMA Steps ==
  ASSUME [Next]_vars
  PROVE  \/ \E c \in Conn : ConnStep(c)
         \/ \E r \in Request : TaskStep(r)
         \/ ControlStep
         \/ UNCHANGED vars
BY DEF Next

LEMMA TypeStep == ServerInv /\ [Next]_vars => TypeOK'
<1>1. ASSUME ServerInv, UNCHANGED vars PROVE TypeOK'
  BY <1>1 DEF ServerInv, TypeOK, vars, connVars, taskVars, controlVars
<1>2. QED
  BY <1>1, Steps, ConnTypes, TaskTypes, ControlTypes

----------------------------------------------------------------------------
(* A request is received once, and untouched until then. *)

(* What a frame still to come, after a step, said of its request before.   *)
StillFresh ==
  /\ inbox' \in [Conn -> Seq(Frame)]
  /\ \A c \in Conn : \A i \in DOMAIN inbox'[c] : inbox'[c][i].kind = "request" =>
       LET r == inbox'[c][i].request
       IN  /\ r \in Request /\ ConnOf[r] = c /\ Untouched(r) /\ inlineReq[c] # r
           /\ \A j \in DOMAIN inbox'[c] : Asks(inbox'[c], j, r) => j = i

(* So it stays fresh in a step that touches no such request. *)
LEMMA FreshKept ==
  ASSUME StillFresh,
         \A c \in Conn : \A i \in DOMAIN inbox'[c] : inbox'[c][i].kind = "request" =>
           LET r == inbox'[c][i].request
           IN  Untouched(r) => task'[r] = "none" /\ delivered'[r] = 0 /\ inlineReq'[c] # r
  PROVE  InboxFresh'
BY DEF StillFresh, InboxFresh, Untouched, Asks

LEMMA SameFrames == InboxFresh /\ inbox' = inbox => StillFresh
BY DEF InboxFresh, StillFresh

LEMMA FewerFrames ==
  ASSUME InboxFresh, NEW c \in Conn, NEW k, Receives(c, k)
  PROVE  StillFresh
<1>1. inbox' \in [Conn -> Seq(Frame)]
  BY Received
<1>2. ASSUME NEW d \in Conn, NEW i \in DOMAIN inbox'[d], inbox'[d][i].kind = "request",
             NEW r, r = inbox'[d][i].request
      PROVE  /\ r \in Request /\ ConnOf[r] = d /\ Untouched(r) /\ inlineReq[d] # r
             /\ \A j \in DOMAIN inbox'[d] : Asks(inbox'[d], j, r) => j = i
  <2>1. CASE d # c
    BY <1>2, <2>1, Received DEF InboxFresh
  <2>2. CASE d = c
    <3>1. /\ i \in Nat /\ i + 1 \in DOMAIN inbox[c] /\ inbox'[c][i] = inbox[c][i + 1]
      BY <1>2, <2>2, Received
    <3>2. /\ r \in Request /\ ConnOf[r] = c /\ Untouched(r) /\ inlineReq[c] # r
          /\ \A j \in DOMAIN inbox[c] : Asks(inbox[c], j, r) => j = i + 1
      BY <1>2, <2>2, <3>1 DEF InboxFresh
    <3>3. ASSUME NEW j \in DOMAIN inbox'[c], Asks(inbox'[c], j, r)
          PROVE  j = i
      <4>1. /\ j \in Nat /\ j + 1 \in DOMAIN inbox[c] /\ inbox'[c][j] = inbox[c][j + 1]
        BY Received
      <4>2. Asks(inbox[c], j + 1, r)
        BY <3>3, <4>1 DEF Asks
      <4>3. QED
        BY <3>1, <3>2, <4>1, <4>2
    <3>4. QED
      BY <2>2, <3>2, <3>3
  <2>3. QED
    BY <2>1, <2>2
<1>3. QED
  BY <1>1, <1>2 DEF StillFresh

LEMMA FreshStep ==
  ASSUME ServerInv, [Next]_vars
  PROVE  InboxFresh'
<1> USE DEF ServerInv
<1>1. ASSUME UNCHANGED <<inbox, inlineReq, task, delivered>> PROVE InboxFresh'
  BY <1>1 DEF InboxFresh, Untouched, Asks
<1>2. ASSUME NEW c \in Conn, Leaves(c) PROVE InboxFresh'
  <2>1. /\ inbox' = [inbox EXCEPT ![c] = <<>>]
        /\ inlineReq' = [inlineReq EXCEPT ![c] = Free]
        /\ UNCHANGED <<task, delivered>>
    BY <1>2 DEF Leaves, LeaveLoop
  <2>2. /\ inbox' \in [Conn -> Seq(Frame)] /\ DOMAIN inbox'[c] = {}
        /\ \A d \in Conn \ {c} : inbox'[d] = inbox[d] /\ inlineReq'[d] = inlineReq[d]
    BY <2>1 DEF InboxFresh, TypeOK
  <2>3. QED
    BY <2>1, <2>2 DEF InboxFresh, Untouched, Asks
<1>3. ASSUME NEW c \in Conn, ReceiveCancel(c) \/ ReceiveHello(c) PROVE InboxFresh'
  <2>1. StillFresh
    BY <1>3, FewerFrames DEF ReceiveCancel, ReceiveHello
  <2>2. UNCHANGED <<inlineReq, task, delivered>>
    BY <1>3 DEF ReceiveCancel, ReceiveHello, taskVars
  <2>3. QED
    BY <2>1, <2>2, FreshKept DEF StillFresh, Untouched
<1>4. ASSUME NEW c \in Conn, ReceiveRequest(c), NEW r, r = Head(inbox[c]).request
      PROVE  InboxFresh'
  <2>1. StillFresh
    BY <1>4, FewerFrames DEF ReceiveRequest
  <2>2. /\ r \in Request
        /\ \A d \in Conn : \A i \in DOMAIN inbox'[d] : ~Asks(inbox'[d], i, r)
    BY <1>4, ReceivedRequest DEF ReceiveRequest
  <2>3. \/ task' = [task EXCEPT ![r] = "spawned"] /\ inlineReq' = inlineReq
        \/ task' = task /\ inlineReq' \in {inlineReq, [inlineReq EXCEPT ![c] = r]}
    BY <1>4 DEF ReceiveRequest
  <2>4. delivered' = delivered
    BY <1>4 DEF ReceiveRequest
  <2>5. \A d \in Conn : \A i \in DOMAIN inbox'[d] : inbox'[d][i].kind = "request" =>
          inbox'[d][i].request # r
    BY <2>2 DEF Asks
  <2>6. ASSUME NEW d \in Conn, NEW i \in DOMAIN inbox'[d], inbox'[d][i].kind = "request",
               NEW q, q = inbox'[d][i].request
        PROVE  task'[q] = "none" /\ delivered'[q] = 0 /\ inlineReq'[d] # q
    <3>1. q # r /\ q \in Request /\ Untouched(q) /\ inlineReq[d] # q
      BY <2>5, <2>6, <2>1 DEF StillFresh
    <3>2. QED
      BY <3>1, <2>3, <2>4 DEF Untouched, TypeOK
  <2>7. QED
    BY <2>1, <2>6, FreshKept
<1>5. ASSUME NEW c \in Conn, SendRefusal(c) PROVE InboxFresh'
  <2>1. inbox' = inbox /\ task' = task /\ inlineReq' = [inlineReq EXCEPT ![c] = Free]
    BY <1>5 DEF SendRefusal
  <2>2. delivered' \in {delivered, [delivered EXCEPT ![inlineReq[c]] = @ + 1]}
    BY <1>5 DEF SendRefusal, Write
  <2>3. inlineReq[c] \in Request /\ ConnOf[inlineReq[c]] = c
    BY <1>5 DEF SendRefusal, InlineFresh, TypeOK
  <2>4. ASSUME NEW d \in Conn, NEW i \in DOMAIN inbox'[d], inbox'[d][i].kind = "request",
               NEW q, q = inbox'[d][i].request
        PROVE  task'[q] = "none" /\ delivered'[q] = 0 /\ inlineReq'[d] # q
    <3>1. /\ q \in Request /\ ConnOf[q] = d /\ Untouched(q) /\ inlineReq[d] # q
      BY <2>1, <2>4 DEF InboxFresh
    <3>2. QED
      BY <3>1, <2>1, <2>2, <2>3, FreeIsNobody DEF Untouched, TypeOK
  <2>5. QED
    BY <2>1, <2>4, SameFrames, FreshKept
<1>6. ASSUME NEW r \in Request, TaskStep(r) PROVE InboxFresh'
  <2>1. inbox' = inbox /\ inlineReq' = inlineReq
    BY <1>6, TaskFrame DEF OnlyTask
  <2>2. task[r] # "none"
    BY <1>6 DEF TaskStep, StartTask, Execute, LockReply, SendReply, Die, Alive
  <2>3. \A q \in Request \ {r} : task'[q] = task[q] /\ delivered'[q] = delivered[q]
    BY <1>6 DEF TypeOK, TaskStep, StartTask, Execute, LockReply, SendReply, Die, Write
  <2>4. ASSUME NEW d \in Conn, NEW i \in DOMAIN inbox'[d], inbox'[d][i].kind = "request",
               NEW q, q = inbox'[d][i].request
        PROVE  task'[q] = "none" /\ delivered'[q] = 0 /\ inlineReq'[d] # q
    <3>1. /\ q \in Request /\ ConnOf[q] = d /\ Untouched(q) /\ inlineReq[d] # q
      BY <2>1, <2>4 DEF InboxFresh
    <3>2. QED
      BY <3>1, <2>1, <2>2, <2>3 DEF Untouched
  <2>5. QED
    BY <2>1, <2>4, SameFrames, FreshKept
<1>7. ASSUME NEW c \in Conn,
             AddEndpoint(c) \/ EndCleanup(c) \/ HelloAnswered(c) \/ LockRefusal(c)
      PROVE  InboxFresh'
  BY <1>7, <1>1 DEF AddEndpoint, EndCleanup, HelloAnswered, LockRefusal, taskVars
<1>8. CASE ControlStep
  BY <1>8, <1>1, ControlFrame DEF OnlyControl, taskVars
<1>9. CASE UNCHANGED vars
  BY <1>9, <1>1 DEF vars, connVars, taskVars
<1>10. QED
  BY <1>2, <1>3, <1>4, <1>5, <1>6, <1>7, <1>8, <1>9, Steps, ConnSteps

LEMMA InlineStep ==
  ASSUME ServerInv, [Next]_vars
  PROVE  InlineFresh'
<1> USE DEF ServerInv, TypeOK
<1>1. ASSUME UNCHANGED <<loop, inlineReq, task, delivered>> PROVE InlineFresh'
  BY <1>1 DEF InlineFresh, Untouched
<1>2. ASSUME NEW c \in Conn, Leaves(c) PROVE InlineFresh'
  BY <1>2 DEF Leaves, LeaveLoop, InlineFresh, Untouched
<1>3. ASSUME NEW c \in Conn,
             \/ AddEndpoint(c) \/ EndCleanup(c) \/ ReceiveCancel(c) \/ ReceiveHello(c)
             \/ HelloAnswered(c) \/ LockRefusal(c)
      PROVE  InlineFresh'
  BY <1>3 DEF AddEndpoint, EndCleanup, ReceiveCancel, ReceiveHello, HelloAnswered,
     LockRefusal, Receives, taskVars, InlineFresh, Untouched
<1>4. ASSUME NEW c \in Conn, ReceiveRequest(c), NEW r, r = Head(inbox[c]).request
      PROVE  InlineFresh'
  <2>1. r # Free /\ inlineReq[ConnOf[r]] # r
    BY <1>4, RequestSteps, FreeIsNobody
  <2>2. QED
    BY <1>4, <2>1, RequestSteps DEF InlineFresh, Untouched
<1>5. ASSUME NEW c \in Conn, SendRefusal(c) PROVE InlineFresh'
  <2>1. /\ task' = task /\ inlineReq' = [inlineReq EXCEPT ![c] = Free]
        /\ loop' = [loop EXCEPT ![c] = "receiving"]
    BY <1>5 DEF SendRefusal
  <2>2. delivered' \in {delivered, [delivered EXCEPT ![inlineReq[c]] = @ + 1]}
    BY <1>5 DEF SendRefusal, Write
  <2>3. inlineReq[c] # Free /\ ConnOf[inlineReq[c]] = c
    BY <1>5 DEF SendRefusal, InlineFresh
  <2>4. QED
    BY <2>1, <2>2, <2>3 DEF InlineFresh, Untouched
<1>6. ASSUME NEW r \in Request, TaskStep(r) PROVE InlineFresh'
  <2>1. loop' = loop /\ inlineReq' = inlineReq
    BY <1>6, TaskFrame DEF OnlyTask
  <2>2. task[r] # "none"
    BY <1>6 DEF TaskStep, StartTask, Execute, LockReply, SendReply, Die, Alive
  <2>3. \A q \in Request \ {r} : task'[q] = task[q] /\ delivered'[q] = delivered[q]
    BY <1>6 DEF TaskStep, StartTask, Execute, LockReply, SendReply, Die, Write
  <2>4. QED
    BY <2>1, <2>2, <2>3 DEF InlineFresh, Untouched
<1>7. CASE ControlStep
  BY <1>7, <1>1, ControlFrame DEF OnlyControl, taskVars
<1>8. CASE UNCHANGED vars
  BY <1>8, <1>1 DEF vars, connVars, taskVars
<1>9. QED
  BY <1>2, <1>3, <1>4, <1>5, <1>6, <1>7, <1>8, Steps, ConnSteps

----------------------------------------------------------------------------
(* The send mutexes. *)

LEMMA MutexStep ==
  ASSUME ServerInv, [Next]_vars
  PROVE  MutexTrue'
<1> USE ServerAssumption DEF ServerInv, TypeOK
<1>1. ASSUME UNCHANGED <<loop, sendMutex, task>> PROVE MutexTrue'
  BY <1>1 DEF MutexTrue
<1>2. ASSUME NEW c \in Conn, Leaves(c) PROVE MutexTrue'
  BY <1>2 DEF Leaves, LeaveLoop, MutexTrue
<1>3. ASSUME NEW c \in Conn,
             \/ AddEndpoint(c) \/ EndCleanup(c) \/ ReceiveCancel(c) \/ ReceiveHello(c)
             \/ HelloAnswered(c)
      PROVE  MutexTrue'
  BY <1>3 DEF AddEndpoint, EndCleanup, ReceiveCancel, ReceiveHello, HelloAnswered, Receives,
     taskVars, MutexTrue
<1>4. ASSUME NEW c \in Conn, ReceiveRequest(c), NEW r, r = Head(inbox[c]).request
      PROVE  MutexTrue'
  BY <1>4, RequestSteps DEF MutexTrue
<1>5. ASSUME NEW c \in Conn, LockRefusal(c) \/ SendRefusal(c) PROVE MutexTrue'
  BY <1>5 DEF LockRefusal, SendRefusal, Unlocked, taskVars, MutexTrue
<1>6. ASSUME NEW r \in Request, TaskStep(r) PROVE MutexTrue'
  <2>1. loop' = loop
    BY <1>6, TaskFrame DEF OnlyTask
  <2>2. CASE StartTask(r) \/ Execute(r)
    BY <2>1, <2>2 DEF StartTask, Execute, MutexTrue
  <2>3. CASE LockReply(r)
    BY <2>1, <2>3 DEF LockReply, Unlocked, MutexTrue
  <2>4. CASE SendReply(r)
    BY <2>1, <2>4 DEF SendReply, MutexTrue
  <2>5. CASE Die(r)
    BY <2>1, <2>5 DEF Die, ReleasedBy, MutexTrue, Alive
  <2>6. QED
    BY <1>6, <2>2, <2>3, <2>4, <2>5 DEF TaskStep
<1>7. CASE ControlStep
  <2>1. loop' = loop /\ task' = task
    BY <1>7, ControlFrame DEF OnlyControl, taskVars
  <2>2. ASSUME NEW c \in Conn, LockControl(c) \/ Visit(c) PROVE MutexTrue'
    BY <2>1, <2>2 DEF LockControl, Visit, Unlocked, MutexTrue
  <2>3. CASE sendMutex' = sendMutex
    BY <1>1, <2>1, <2>3
  <2>4. QED
    BY <1>7, <2>2, <2>3 DEF ControlStep, BeginFlush, BeginShutdown, BeginClose, EndFlush,
       EndDrain, EndShut, EndWait, EndWaitClose, EndFinish
<1>8. CASE UNCHANGED vars
  BY <1>8, <1>1 DEF vars, connVars, taskVars
<1>9. QED
  BY <1>2, <1>3, <1>4, <1>5, <1>6, <1>7, <1>8, Steps, ConnSteps

----------------------------------------------------------------------------
(* Tasks, handles and answers. *)

LEMMA LiveStep ==
  ASSUME ServerInv, [Next]_vars
  PROVE  TasksLive'
<1> USE ServerAssumption DEF ServerInv, TypeOK
<1>1. ASSUME UNCHANGED <<mEndpoints, loop, task, killed, handles, delivered>>
      PROVE  TasksLive'
  BY <1>1 DEF TasksLive
<1>2. ASSUME NEW c \in Conn, Leaves(c) PROVE TasksLive'
  BY <1>2 DEF Leaves, LeaveLoop, SessionHandles, Killed, InFlight, TasksOf, TasksLive
<1>3. ASSUME NEW c \in Conn, AddEndpoint(c) PROVE TasksLive'
  BY <1>3 DEF AddEndpoint, taskVars, TasksLive, Looping
<1>4. ASSUME NEW c \in Conn, EndCleanup(c) PROVE TasksLive'
  BY <1>4 DEF EndCleanup, WaitsForTasks, InFlight, TasksOf, taskVars, TasksLive, Looping
<1>5. ASSUME NEW c \in Conn,
             \/ ReceiveCancel(c) \/ ReceiveHello(c) \/ HelloAnswered(c) \/ LockRefusal(c)
      PROVE  TasksLive'
  BY <1>5 DEF ReceiveCancel, ReceiveHello, HelloAnswered, LockRefusal, Receives, taskVars,
     TasksLive, Looping
<1>6. ASSUME NEW c \in Conn, ReceiveRequest(c), NEW r, r = Head(inbox[c]).request
      PROVE  TasksLive'
  BY <1>6, RequestSteps DEF TasksLive, Looping
<1>7. ASSUME NEW c \in Conn, SendRefusal(c) PROVE TasksLive'
  <2>1. task[inlineReq[c]] = "none" /\ loop[c] = "refuseSend"
    BY <1>7 DEF SendRefusal, InlineFresh, Untouched
  <2>2. delivered' \in {delivered, [delivered EXCEPT ![inlineReq[c]] = @ + 1]}
    BY <1>7 DEF SendRefusal, Write
  <2>3. /\ loop' = [loop EXCEPT ![c] = "receiving"]
        /\ UNCHANGED <<mEndpoints, task, killed, handles>>
    BY <1>7 DEF SendRefusal
  <2>4. QED
    BY <2>1, <2>2, <2>3 DEF TasksLive, Looping
<1>8. ASSUME NEW r \in Request, TaskStep(r) PROVE TasksLive'
  <2>1. loop' = loop /\ mEndpoints' = mEndpoints
    BY <1>8, TaskFrame DEF OnlyTask
  <2>2. CASE StartTask(r)
    BY <2>1, <2>2 DEF StartTask, Registered, TasksLive, Alive
  <2>3. CASE Execute(r)
    BY <2>1, <2>3 DEF Execute, TasksLive, Alive
  <2>4. CASE LockReply(r)
    BY <2>1, <2>4 DEF LockReply, TasksLive, Alive
  <2>5. CASE SendReply(r)
    BY <2>1, <2>5 DEF SendReply, Write, TasksLive, Alive
  <2>6. CASE Die(r)
    BY <2>1, <2>6 DEF Die, TasksLive, Alive
  <2>7. QED
    BY <1>8, <2>2, <2>3, <2>4, <2>5, <2>6 DEF TaskStep
<1>9. CASE ControlStep
  <2>1. UNCHANGED <<loop, task, killed, handles, delivered>>
    BY <1>9, ControlFrame DEF OnlyControl, taskVars
  <2>2. mEndpoints' \in {mEndpoints, {}}
    BY <1>9 DEF ControlStep, BeginFlush, BeginShutdown, BeginClose, LockControl, Visit,
       EndFlush, EndDrain, EndShut, EndWait, EndWaitClose, EndFinish
  <2>3. QED
    BY <2>1, <2>2 DEF TasksLive
<1>10. CASE UNCHANGED vars
  BY <1>10, <1>1 DEF vars, connVars, taskVars
<1>11. QED
  BY <1>2, <1>3, <1>4, <1>5, <1>6, <1>7, <1>8, <1>9, <1>10, Steps, ConnSteps

(* A handle that goes takes its request's task to its end, or the task is  *)
(* stopped in the same step.                                               *)
LEMMA CancellableStep ==
  ASSUME ServerInv, [Next]_vars
  PROVE  ExecutingIsCancellable'
<1> USE ServerAssumption DEF ServerInv, TypeOK
<1>1. ASSUME UNCHANGED <<task, killed, handles>> PROVE ExecutingIsCancellable'
  BY <1>1 DEF ExecutingIsCancellable
<1>2. ASSUME NEW c \in Conn, Leaves(c) PROVE ExecutingIsCancellable'
  BY <1>2 DEF Leaves, LeaveLoop, SessionHandles, Killed, InFlight, TasksOf, Alive,
     ExecutingIsCancellable
<1>3. ASSUME NEW c \in Conn, ReceiveRequest(c), NEW r, r = Head(inbox[c]).request
      PROVE  ExecutingIsCancellable'
  BY <1>3, RequestSteps DEF ExecutingIsCancellable
<1>4. ASSUME NEW c \in Conn,
             \/ AddEndpoint(c) \/ EndCleanup(c) \/ ReceiveCancel(c) \/ ReceiveHello(c)
             \/ HelloAnswered(c) \/ LockRefusal(c) \/ SendRefusal(c)
      PROVE  ExecutingIsCancellable'
  BY <1>4, <1>1 DEF AddEndpoint, EndCleanup, ReceiveCancel, ReceiveHello, HelloAnswered,
     LockRefusal, SendRefusal, taskVars
<1>5. ASSUME NEW r \in Request, TaskStep(r) PROVE ExecutingIsCancellable'
  BY <1>5 DEF TaskStep, StartTask, Registered, Execute, LockReply, SendReply, Die,
     ExecutingIsCancellable
<1>6. CASE ControlStep
  BY <1>6, <1>1, ControlFrame DEF OnlyControl, taskVars
<1>7. CASE UNCHANGED vars
  BY <1>7, <1>1 DEF vars, taskVars
<1>8. QED
  BY <1>2, <1>3, <1>4, <1>5, <1>6, <1>7, Steps, ConnSteps

(* Endpoints are only ever closed. *)
LEMMA OpenShrinks ==
  ASSUME [Next]_vars
  PROVE  open' \subseteq open
<1>1. ASSUME NEW c \in Conn, ConnStep(c) PROVE open' \subseteq open
  BY <1>1, ConnSteps DEF AddEndpoint, Leaves, EndCleanup, ReceiveCancel, ReceiveHello,
     HelloAnswered, ReceiveRequest, LockRefusal, SendRefusal, Write
<1>2. ASSUME NEW r \in Request, TaskStep(r) PROVE open' \subseteq open
  BY <1>2 DEF TaskStep, StartTask, Execute, LockReply, SendReply, Die, Write
<1>3. ASSUME ControlStep PROVE open' \subseteq open
  BY <1>3 DEF ControlStep, BeginFlush, BeginShutdown, BeginClose, LockControl, Visit,
     VisitedBy, EndFlush, EndDrain, EndShut, EndWait, EndWaitClose, EndFinish
<1>4. CASE UNCHANGED vars
  BY <1>4 DEF vars, connVars
<1>5. QED
  BY <1>1, <1>2, <1>3, <1>4, Steps

LEMMA AnsweredStep ==
  ASSUME ServerInv, [Next]_vars
  PROVE  DoneIsAnswered'
<1> USE ServerAssumption DEF ServerInv, TypeOK
<1>1. open' \subseteq open
  BY OpenShrinks
<1>2. ASSUME UNCHANGED <<task, delivered>>, killed \subseteq killed' PROVE DoneIsAnswered'
  BY <1>1, <1>2 DEF DoneIsAnswered
<1>3. ASSUME NEW c \in Conn,
             \/ AddEndpoint(c) \/ Leaves(c) \/ EndCleanup(c) \/ ReceiveCancel(c)
             \/ ReceiveHello(c) \/ HelloAnswered(c) \/ LockRefusal(c)
      PROVE  DoneIsAnswered'
  BY <1>2, <1>3 DEF AddEndpoint, Leaves, LeaveLoop, Killed, EndCleanup, ReceiveCancel,
     ReceiveHello, HelloAnswered, LockRefusal, taskVars
<1>4. ASSUME NEW c \in Conn, ReceiveRequest(c), NEW r, r = Head(inbox[c]).request
      PROVE  DoneIsAnswered'
  BY <1>4, RequestSteps DEF DoneIsAnswered
<1>5. ASSUME NEW c \in Conn, SendRefusal(c) PROVE DoneIsAnswered'
  <2>1. task[inlineReq[c]] = "none" /\ delivered[inlineReq[c]] = 0
    BY <1>5 DEF SendRefusal, InlineFresh, Untouched
  <2>2. delivered' \in {delivered, [delivered EXCEPT ![inlineReq[c]] = @ + 1]}
    BY <1>5 DEF SendRefusal, Write
  <2>3. UNCHANGED <<task, killed>>
    BY <1>5 DEF SendRefusal
  <2>4. QED
    BY <1>1, <2>1, <2>2, <2>3 DEF DoneIsAnswered
<1>6. ASSUME NEW r \in Request, TaskStep(r) PROVE DoneIsAnswered'
  <2>1. killed' = killed
    BY <1>6 DEF TaskStep, StartTask, Execute, LockReply, SendReply, Die
  <2>2. CASE StartTask(r) \/ LockReply(r)
    BY <1>1, <2>1, <2>2 DEF StartTask, LockReply, DoneIsAnswered
  <2>3. CASE Execute(r)
    BY <1>1, <2>1, <2>3 DEF Execute, DoneIsAnswered
  <2>4. CASE SendReply(r)
    <3>1. delivered[r] = 0
      BY <2>4 DEF SendReply, TasksLive
    <3>2. QED
      BY <1>1, <2>1, <2>4, <3>1 DEF SendReply, Write, DoneIsAnswered
  <2>5. CASE Die(r)
    BY <1>1, <2>1, <2>5 DEF Die, DoneIsAnswered
  <2>6. QED
    BY <1>6, <2>2, <2>3, <2>4, <2>5 DEF TaskStep
<1>7. CASE ControlStep
  BY <1>7, <1>2, ControlFrame DEF OnlyControl, taskVars
<1>8. CASE UNCHANGED vars
  BY <1>8, <1>2 DEF vars, taskVars
<1>9. QED
  BY <1>3, <1>4, <1>5, <1>6, <1>7, <1>8, Steps, ConnSteps

(* Only the receipt of a request puts one in flight. *)
LEMMA InFlightSteps ==
  ASSUME ServerInv, [Next]_vars, NEW d \in Conn
  PROVE  \/ InFlight(d)' \subseteq InFlight(d)
         \/ /\ HasRoom(d) /\ loop[d] = "receiving" /\ loop' = loop
            /\ \E r \in Request :
                 ConnOf[r] = d /\ task[r] = "none" /\ task' = [task EXCEPT ![r] = "spawned"]
<1> USE DEF ServerInv, TypeOK
<1>1. ASSUME task' = task PROVE InFlight(d)' \subseteq InFlight(d)
  BY <1>1 DEF InFlight
<1>2. ASSUME NEW c \in Conn, ReceiveRequest(c), NEW r, r = Head(inbox[c]).request,
             ~(InFlight(d)' \subseteq InFlight(d))
      PROVE  /\ HasRoom(d) /\ loop[d] = "receiving" /\ loop' = loop
             /\ \E q \in Request :
                  ConnOf[q] = d /\ task[q] = "none" /\ task' = [task EXCEPT ![q] = "spawned"]
  <2>1. task' # task
    BY <1>1, <1>2
  <2>2. /\ r \in Request /\ ConnOf[r] = c /\ task[r] = "none" /\ loop[c] = "receiving"
        /\ HasRoom(c) /\ task' = [task EXCEPT ![r] = "spawned"] /\ loop' = loop
    BY <1>2, <2>1, RequestSteps
  <2>3. d = c
    BY <1>2, <2>2 DEF InFlight, TasksOf
  <2>4. QED
    BY <2>2, <2>3
<1>3. ASSUME NEW c \in Conn,
             \/ AddEndpoint(c) \/ Leaves(c) \/ EndCleanup(c) \/ ReceiveCancel(c)
             \/ ReceiveHello(c) \/ HelloAnswered(c) \/ LockRefusal(c) \/ SendRefusal(c)
      PROVE  task' = task
  BY <1>3 DEF AddEndpoint, Leaves, LeaveLoop, EndCleanup, ReceiveCancel, ReceiveHello,
     HelloAnswered, LockRefusal, SendRefusal, taskVars
<1>4. ASSUME NEW r \in Request, TaskStep(r) PROVE InFlight(d)' \subseteq InFlight(d)
  BY <1>4 DEF TaskStep, StartTask, Execute, LockReply, SendReply, Die, InFlight, TasksOf, Alive
<1>5. CASE ControlStep
  BY <1>5, <1>1, ControlFrame DEF OnlyControl, taskVars
<1>6. CASE UNCHANGED vars
  BY <1>6, <1>1 DEF vars, taskVars
<1>7. QED
  BY <1>1, <1>2, <1>3, <1>4, <1>5, <1>6, Steps, ConnSteps

LEMMA InFlightFinite ==
  ASSUME NEW c \in Conn
  PROVE  IsFiniteSet(InFlight(c)) /\ Cardinality(InFlight(c)) \in Nat
BY FS_Subset, FS_CardinalityType, ServerAssumption DEF InFlight, TasksOf

LEMMA BoundedStep ==
  ASSUME ServerInv, [Next]_vars
  PROVE  InflightBounded'
<1> SUFFICES ASSUME NEW d \in Conn
             PROVE  Cardinality(InFlight(d)') <= MaxInflight
  BY DEF InflightBounded
<1>1. IsFiniteSet(InFlight(d)) /\ Cardinality(InFlight(d)) \in Nat
  BY InFlightFinite
<1>2. Cardinality(InFlight(d)) <= MaxInflight /\ MaxInflight \in Nat
  BY ServerAssumption DEF ServerInv, InflightBounded
<1>3. CASE InFlight(d)' \subseteq InFlight(d)
  <2>1. Cardinality(InFlight(d)') <= Cardinality(InFlight(d)) /\ Cardinality(InFlight(d)') \in Nat
    BY <1>1, <1>3, FS_Subset, FS_CardinalityType
  <2>2. QED
    BY <1>1, <1>2, <2>1
<1>4. ASSUME HasRoom(d), NEW r \in Request, ConnOf[r] = d, task[r] = "none",
             task' = [task EXCEPT ![r] = "spawned"]
      PROVE  Cardinality(InFlight(d)') <= MaxInflight
  <2>1. InFlight(d)' = InFlight(d) \cup {r} /\ r \notin InFlight(d)
    BY <1>4 DEF ServerInv, TypeOK, InFlight, TasksOf, Alive
  <2>2. Cardinality(InFlight(d)') = Cardinality(InFlight(d)) + 1
    BY <1>1, <2>1, FS_AddElement
  <2>3. QED
    BY <1>1, <1>2, <1>4, <2>2 DEF HasRoom
<1>5. QED
  BY <1>3, <1>4, InFlightSteps

----------------------------------------------------------------------------
(* Closing. *)

Ended == {"new", "gone", "rejected"}

(* Once all loops have ended, a server that closes starts no other. *)
LEMMA EndedStays ==
  ASSUME ServerInv, [Next]_vars, mClosing, \A c \in Conn : loop[c] \in Ended
  PROVE  \A c \in Conn : loop'[c] \in Ended
<1> USE DEF Ended, ServerInv, TypeOK
<1>1. ASSUME NEW c \in Conn, ConnStep(c) PROVE AddEndpoint(c)
  BY <1>1 DEF ConnStep, ReceiveNothing, StopLoop, EndCleanup, ReceiveInvalid,
     ReceiveCancel, ReceiveHello, EndHello, ReceiveRequest, LockRefusal, SendRefusal,
     Receives, Looping
<1>2. ASSUME NEW c \in Conn, AddEndpoint(c) PROVE \A d \in Conn : loop'[d] \in Ended
  BY <1>2 DEF AddEndpoint
<1>3. CASE \E c \in Conn : ConnStep(c)
  BY <1>1, <1>2, <1>3
<1>4. ASSUME NEW r \in Request, TaskStep(r) PROVE loop' = loop
  BY <1>4, TaskFrame DEF OnlyTask
<1>5. CASE ControlStep
  BY <1>5, ControlFrame DEF OnlyControl
<1>6. CASE UNCHANGED vars
  BY <1>6 DEF vars, connVars
<1>7. QED
  BY <1>3, <1>4, <1>5, <1>6, Steps

LEMMA RejectedStep ==
  ASSUME ServerInv, [Next]_vars
  PROVE  \A c \in Conn : loop'[c] = "rejected" => c \notin open'
<1> USE DEF ServerInv, TypeOK
<1>1. open' \subseteq open
  BY OpenShrinks
<1>2. ASSUME NEW d \in Conn, loop[d] = "rejected" PROVE d \notin open'
  BY <1>1, <1>2 DEF ClosingCloses
<1>3. ASSUME NEW c \in Conn, AddEndpoint(c), NEW d \in Conn, loop'[d] = "rejected"
      PROVE  d \notin open'
  BY <1>2, <1>3 DEF AddEndpoint
<1>4. ASSUME NEW c \in Conn, NEW s \in LoopState \ {"rejected"},
             loop' \in {loop, [loop EXCEPT ![c] = s]}
      PROVE  \A d \in Conn : loop'[d] = "rejected" => loop[d] = "rejected"
  BY <1>4
<1>5. ASSUME NEW c \in Conn,
             \/ Leaves(c) \/ EndCleanup(c) \/ ReceiveCancel(c) \/ ReceiveHello(c)
             \/ HelloAnswered(c) \/ ReceiveRequest(c) \/ LockRefusal(c) \/ SendRefusal(c)
      PROVE  \E s \in LoopState \ {"rejected"} : loop' \in {loop, [loop EXCEPT ![c] = s]}
  <2> USE DEF LoopState
  <2>1. CASE Leaves(c) \/ EndCleanup(c)
    BY <2>1 DEF Leaves, LeaveLoop, EndCleanup
  <2>2. CASE ReceiveCancel(c) \/ ReceiveHello(c) \/ HelloAnswered(c)
    BY <2>2 DEF ReceiveCancel, ReceiveHello, HelloAnswered
  <2>3. CASE ReceiveRequest(c) \/ LockRefusal(c) \/ SendRefusal(c)
    BY <2>3 DEF ReceiveRequest, LockRefusal, SendRefusal
  <2>4. QED
    BY <1>5, <2>1, <2>2, <2>3
<1>6. ASSUME loop' = loop PROVE \A d \in Conn : loop'[d] = "rejected" => d \notin open'
  BY <1>2, <1>6
<1>7. ASSUME NEW c \in Conn, ConnStep(c)
      PROVE  \A d \in Conn : loop'[d] = "rejected" => d \notin open'
  BY <1>2, <1>3, <1>4, <1>5, <1>7, ConnSteps
<1>8. ASSUME NEW r \in Request, TaskStep(r) PROVE loop' = loop
  BY <1>8, TaskFrame DEF OnlyTask
<1>9. ASSUME ControlStep \/ UNCHANGED vars PROVE loop' = loop
  BY <1>9, ControlFrame DEF OnlyControl, vars, connVars
<1>10. QED
  BY <1>6, <1>7, <1>8, <1>9, Steps

LEMMA ClosingStep ==
  ASSUME ServerInv, [Next]_vars
  PROVE  ClosingCloses'
<1> USE DEF ServerInv
<1>1. open' \subseteq open
  BY OpenShrinks
<1>2. \A c \in Conn : loop'[c] = "rejected" => c \notin open'
  BY RejectedStep
<1>3. ASSUME UNCHANGED <<mClosing, control, snapshot, todo>> PROVE ClosingCloses'
  <2>1. control \in {"finish", "closed"} => \A c \in Conn : loop'[c] \in Ended
    BY EndedStays DEF ClosingCloses, Ended
  <2>2. QED
    BY <1>1, <1>2, <1>3, <2>1 DEF ClosingCloses, Ended
<1>4. ASSUME NEW c \in Conn, ConnStep(c) PROVE ClosingCloses'
  BY <1>3, <1>4, ConnSteps DEF AddEndpoint, Leaves, LeaveLoop, EndCleanup, ReceiveCancel,
     ReceiveHello, HelloAnswered, ReceiveRequest, LockRefusal, SendRefusal, controlVars
<1>5. ASSUME NEW r \in Request, TaskStep(r) PROVE ClosingCloses'
  BY <1>3, <1>5, TaskFrame DEF OnlyTask, controlVars
<1>6. CASE ControlStep
  <2> USE DEF ClosingCloses
  <2>1. loop' = loop
    BY <1>6, ControlFrame DEF OnlyControl
  <2>2. CASE BeginFlush
    BY <1>2, <2>1, <2>2 DEF BeginFlush
  <2>3. CASE BeginShutdown \/ BeginClose
    BY <1>2, <2>1, <2>3 DEF BeginShutdown, BeginClose
  <2>4. ASSUME NEW c \in Conn, LockControl(c) PROVE ClosingCloses'
    BY <1>3, <2>4 DEF LockControl, controlVars
  <2>5. ASSUME NEW c \in Conn, Visit(c) PROVE ClosingCloses'
    BY <1>1, <1>2, <2>1, <2>5 DEF Visit, VisitedBy
  <2>6. CASE EndFlush \/ EndDrain \/ EndShut
    BY <1>2, <2>1, <2>6 DEF EndFlush, EndDrain, EndShut
  <2>7. CASE EndWait
    BY <1>2, <2>1, <2>7 DEF EndWait, ScopeEmpty, ScopeMembers, TypeOK
  <2>8. CASE EndWaitClose
    BY <1>2, <2>1, <2>8 DEF EndWaitClose, ScopeEmpty, ScopeMembers, TypeOK
  <2>9. CASE EndFinish
    BY <1>1, <1>2, <2>1, <2>9 DEF EndFinish
  <2>10. QED
    BY <1>6, <2>2, <2>3, <2>4, <2>5, <2>6, <2>7, <2>8, <2>9 DEF ControlStep
<1>7. CASE UNCHANGED vars
  BY <1>3, <1>7 DEF vars, connVars, controlVars
<1>8. QED
  BY <1>4, <1>5, <1>6, <1>7, Steps

----------------------------------------------------------------------------
(* The invariant holds. *)

LEMMA ServerInit == Init => ServerInv
<1> SUFFICES ASSUME Init PROVE ServerInv
  OBVIOUS
<1>1. TypeOK
  BY DEF Init, TypeOK, LoopState, TaskState, ControlState
<1>2. InboxFresh
  BY ServerAssumption, ScriptAssumption, FreeIsNobody DEF Init, InboxFresh, Untouched
<1>3. InlineFresh /\ MutexTrue /\ TasksLive /\ ClosingCloses
  BY ServerAssumption DEF Init, InlineFresh, MutexTrue, TasksLive, ClosingCloses, Alive
<1>4. \A c \in Conn : InFlight(c) = {}
  BY DEF Init, InFlight, TasksOf, Alive
<1>5. InflightBounded
  BY <1>4, FS_EmptySet, ServerAssumption DEF InflightBounded
<1>6. DoneIsAnswered /\ ExecutingIsCancellable
  BY ServerAssumption DEF Init, DoneIsAnswered, ExecutingIsCancellable
<1>7. QED
  BY <1>1, <1>2, <1>3, <1>5, <1>6 DEF ServerInv

LEMMA ServerInvariant == Spec => []ServerInv
<1>1. ServerInv /\ [Next]_vars => ServerInv'
  BY TypeStep, FreshStep, InlineStep, MutexStep, LiveStep, ClosingStep, BoundedStep,
     AnsweredStep, CancellableStep DEF ServerInv
<1>2. QED
  BY ServerInit, <1>1, PTL DEF Spec

(* Neither a connection that is gone nor a closed server leaves anything:  *)
(* the finally of _handleEndpoint and the waits of shutdown and close.     *)
THEOREM NothingLeftBehind == Spec => []NothingIsLeft
<1>1. ServerInv => GoneLeavesNothing
  BY ServerAssumption DEF ServerInv, TypeOK, MutexTrue, TasksLive, GoneLeavesNothing,
     InFlight, TasksOf, Alive, Looping
<1>2. ServerInv => ClosedIsQuiet
  BY ServerAssumption DEF ServerInv, TypeOK, TasksLive, ClosingCloses, ClosedIsQuiet
<1>3. QED
  BY ServerInvariant, <1>1, <1>2, PTL DEF NothingIsLeft

----------------------------------------------------------------------------
(* One writer. *)

(* A task that takes a step is there, and goes on or ends. *)
LEMMA TaskMoves ==
  ASSUME NEW r \in Request, TaskStep(r)
  PROVE  task[r] \in Alive /\ \E s \in Alive \cup {"done"} : task' = [task EXCEPT ![r] = s]
<1> USE DEF Alive
<1>1. CASE StartTask(r)
  BY <1>1 DEF StartTask
<1>2. CASE Execute(r)
  BY <1>2 DEF Execute
<1>3. CASE LockReply(r) \/ SendReply(r) \/ Die(r)
  BY <1>3 DEF LockReply, SendReply, Die
<1>4. QED
  BY <1>1, <1>2, <1>3 DEF TaskStep

LEMMA HelloAloneStep ==
  ASSUME ServerInv, HelloAlone, [Next]_vars
  PROVE  HelloAlone'
<1> USE DEF ServerInv, TypeOK
<1>1. ASSUME UNCHANGED <<loop, inbox, task>> PROVE HelloAlone'
  BY <1>1 DEF HelloAlone
<1>2. ASSUME NEW c \in Conn, Leaves(c) PROVE HelloAlone'
  <2>1. /\ inbox' = [inbox EXCEPT ![c] = <<>>] /\ loop' = [loop EXCEPT ![c] = "cleanup"]
        /\ task' = task
    BY <1>2 DEF Leaves, LeaveLoop
  <2>2. /\ DOMAIN inbox'[c] = {} /\ loop'[c] = "cleanup"
        /\ \A d \in Conn \ {c} : inbox'[d] = inbox[d] /\ loop'[d] = loop[d]
    BY <2>1 DEF InboxFresh
  <2>3. QED
    BY <2>1, <2>2 DEF HelloAlone
<1>3. ASSUME NEW c \in Conn,
             AddEndpoint(c) \/ EndCleanup(c) \/ HelloAnswered(c) \/ LockRefusal(c)
               \/ SendRefusal(c)
      PROVE  HelloAlone'
  <2>1. inbox' = inbox /\ task' = task
    BY <1>3 DEF AddEndpoint, EndCleanup, HelloAnswered, LockRefusal, SendRefusal, taskVars
  <2>2. loop'[c] # "answering" /\ \A d \in Conn \ {c} : loop'[d] = loop[d]
    BY <1>3 DEF AddEndpoint, EndCleanup, HelloAnswered, LockRefusal, SendRefusal
  <2>3. QED
    BY <2>1, <2>2 DEF HelloAlone
<1>4. ASSUME NEW c \in Conn, NEW k, Receives(c, k), NEW d \in Conn,
             NEW i \in DOMAIN inbox'[d], NEW j \in DOMAIN inbox'[d],
             inbox'[d][i].kind = "hello", inbox'[d][j].kind = "request"
      PROVE  i < j
  <2>1. CASE d = c
    <3>1. /\ i \in Nat /\ i + 1 \in DOMAIN inbox[c] /\ inbox'[c][i] = inbox[c][i + 1]
          /\ j \in Nat /\ j + 1 \in DOMAIN inbox[c] /\ inbox'[c][j] = inbox[c][j + 1]
      BY <1>4, <2>1, Received
    <3>2. i + 1 < j + 1
      BY <1>4, <2>1, <3>1 DEF HelloAlone
    <3>3. QED
      BY <3>1, <3>2
  <2>2. CASE d # c
    <3>1. inbox'[d] = inbox[d]
      BY <1>4, <2>2, Received
    <3>2. QED
      BY <1>4, <3>1 DEF HelloAlone
  <2>3. QED
    BY <2>1, <2>2
<1>5. ASSUME NEW c \in Conn, NEW k, Receives(c, k), NEW d \in Conn,
             NEW i \in DOMAIN inbox'[d], inbox'[d][i].kind = "hello"
      PROVE  \E j \in DOMAIN inbox[d] : inbox[d][j].kind = "hello"
  <2>1. CASE d = c
    <3>1. i + 1 \in DOMAIN inbox[c] /\ inbox'[c][i] = inbox[c][i + 1]
      BY <1>5, <2>1, Received
    <3>2. QED
      BY <1>5, <2>1, <3>1
  <2>2. CASE d # c
    <3>1. inbox'[d] = inbox[d]
      BY <1>5, <2>2, Received
    <3>2. QED
      BY <1>5, <3>1
  <2>3. QED
    BY <2>1, <2>2
<1>6. ASSUME NEW c \in Conn, ReceiveCancel(c) PROVE HelloAlone'
  <2>1. Receives(c, "cancel") /\ UNCHANGED <<loop, task>>
    BY <1>6 DEF ReceiveCancel
  <2>2. QED
    BY <1>4, <1>5, <2>1 DEF HelloAlone
<1>7. ASSUME NEW c \in Conn, ReceiveHello(c) PROVE HelloAlone'
  <2>1. Receives(c, "hello") /\ loop' = [loop EXCEPT ![c] = "answering"] /\ task' = task
    BY <1>7 DEF ReceiveHello, taskVars
  <2>2. \E j \in DOMAIN inbox[c] : inbox[c][j].kind = "hello"
    <3>1. 1 \in DOMAIN inbox[c] /\ Head(inbox[c]) = inbox[c][1]
      BY <2>1, Received
    <3>2. Head(inbox[c]).kind = "hello"
      BY <2>1 DEF Receives
    <3>3. QED
      BY <3>1, <3>2
  <2>3. \A d \in Conn \ {c} : loop'[d] = loop[d]
    BY <2>1
  <2>4. QED
    BY <1>4, <1>5, <2>1, <2>2, <2>3 DEF HelloAlone
<1>8. ASSUME NEW c \in Conn, ReceiveRequest(c), NEW r, r = Head(inbox[c]).request
      PROVE  HelloAlone'
  <2>1. Receives(c, "request")
    BY <1>8 DEF ReceiveRequest
  <2>2. \A i \in DOMAIN inbox[c] : inbox[c][i].kind # "hello"
    <3>1. 1 \in DOMAIN inbox[c] /\ inbox[c][1].kind = "request" /\ inbox[c] \in Seq(Frame)
      BY <2>1, Received DEF Receives, InboxFresh
    <3>2. \A i \in DOMAIN inbox[c] : inbox[c][i].kind = "hello" => i < 1
      BY <3>1 DEF HelloAlone
    <3>3. \A i \in DOMAIN inbox[c] : i \in Nat \ {0}
      BY <3>1
    <3>4. QED
      BY <3>2, <3>3
  <2>3. /\ loop'[c] # "answering" /\ \A d \in Conn \ {c} : loop'[d] = loop[d]
        /\ \A q \in Request : ConnOf[q] # c => task'[q] = task[q]
    BY <1>8, RequestSteps
  <2>4. ~ \E i \in DOMAIN inbox'[c] : inbox'[c][i].kind = "hello"
    BY <1>5, <2>1, <2>2
  <2>5. QED
    BY <1>4, <1>5, <2>1, <2>3, <2>4 DEF HelloAlone
<1>9. ASSUME NEW r \in Request, TaskStep(r) PROVE HelloAlone'
  <2>1. loop' = loop /\ inbox' = inbox
    BY <1>9, TaskFrame DEF OnlyTask
  <2>2. task[r] # "none" /\ \A q \in Request \ {r} : task'[q] = task[q]
    BY <1>9, TaskMoves DEF Alive
  <2>3. QED
    BY <2>1, <2>2 DEF HelloAlone
<1>10. CASE ControlStep
  BY <1>1, <1>10, ControlFrame DEF OnlyControl, taskVars
<1>11. CASE UNCHANGED vars
  BY <1>1, <1>11 DEF vars, connVars, taskVars
<1>12. QED
  BY <1>2, <1>3, <1>6, <1>7, <1>8, <1>9, <1>10, <1>11, Steps, ConnSteps

LEMMA WriterAlone == ServerInv /\ HelloAlone => OneWriter
<1> SUFFICES ASSUME ServerInv, HelloAlone, NEW c \in Conn
             PROVE  Cardinality(Writers(c)) <= 1
  BY DEF OneWriter
<1> USE ServerAssumption DEF ServerInv, TypeOK
<1>1. CASE loop[c] \in {"answering", "refuseSend"}
  <2>1. \A r \in TasksOf(c) : task[r] # "sending"
    <3>1. CASE loop[c] = "answering"
      BY <3>1 DEF TasksOf, HelloAlone
    <3>2. CASE loop[c] = "refuseSend"
      BY <3>2, FreeIsNobody DEF TasksOf, MutexTrue
    <3>3. QED
      BY <1>1, <3>1, <3>2
  <2>2. Writers(c) = {Loop}
    BY <1>1, <2>1 DEF Writers
  <2>3. Cardinality({Loop}) = 1
    BY FS_Singleton
  <2>4. QED
    BY <2>2, <2>3
<1>2. CASE loop[c] \notin {"answering", "refuseSend"}
  <2>1. Writers(c) \subseteq {sendMutex[c]}
    BY <1>2 DEF Writers, TasksOf, MutexTrue
  <2>2. IsFiniteSet({sendMutex[c]}) /\ Cardinality({sendMutex[c]}) = 1
    BY FS_Singleton
  <2>3. Cardinality(Writers(c)) <= Cardinality({sendMutex[c]})
    BY <2>1, <2>2, FS_Subset
  <2>4. QED
    BY <2>2, <2>3
<1>3. QED
  BY <1>1, <1>2

(* The part of that which holds whatever the peer sends: the limit of      *)
(* _handleClient, one answer at the end, and a handle to cancel by.        *)
THEOREM LimitsAndAnswersHold ==
  Spec => [](TypeOK /\ InflightBounded /\ DoneIsAnswered /\ ExecutingIsCancellable)
<1>1. ServerInv => TypeOK /\ InflightBounded /\ DoneIsAnswered /\ ExecutingIsCancellable
  BY DEF ServerInv
<1>2. QED
  BY ServerInvariant, <1>1, PTL

(* A request of a connection is served: its task is one of at most         *)
(* MaxInflight, its handler can be cancelled while it runs, whoever writes *)
(* to its peer writes alone, and it ends with one answer unless it was     *)
(* stopped or its endpoint closed.  The handshake is answered without the  *)
(* send mutex, so the peer has to negotiate before it calls, as RpcClient  *)
(* does.                                                                   *)
THEOREM RequestsAreServed == ASSUME HelloFirst PROVE Spec => []RequestsServed
<1>1. Init => HelloAlone
  BY HelloFirst DEF Init, HelloAlone, HelloFirst
<1>2. ServerInv /\ HelloAlone /\ [Next]_vars => HelloAlone'
  BY HelloAloneStep
<1>3. ServerInv /\ HelloAlone => RequestsServed
  BY WriterAlone DEF ServerInv, RequestsServed
<1>4. QED
  BY ServerInvariant, <1>1, <1>2, <1>3, PTL DEF Spec

----------------------------------------------------------------------------
(* Who stops a request. *)

(* One peer never stops the request of another: cancelSession and the      *)
(* receipt of a Cancel frame pick the handlers of one session, and the     *)
(* task scope that is stopped is that of one connection.                   *)
THEOREM OthersNeverStop == Spec => OnlyOwnPeerStops
<1> DEFINE Own(r) == LET c == ConnOf[r]
                     IN  \/ loop[c] \in Looping /\ loop'[c] = "cleanup"
                         \/ /\ inbox'[c] # inbox[c]
                            /\ Head(inbox[c]).kind = "cancel"
                            /\ Head(inbox[c]).id = IdOf[r]
           News == (stopped' \cup killed') \ (stopped \cup killed)
<1>1. ASSUME ServerInv, [Next]_vars, NEW r \in Request, r \in News PROVE Own(r)
  <2> USE DEF ServerInv
  <2>1. ASSUME UNCHANGED <<stopped, killed>> PROVE FALSE
    BY <1>1, <2>1
  <2>2. ASSUME NEW c \in Conn, Leaves(c) PROVE Own(r)
    <3>1. ConnOf[r] = c
      BY <1>1, <2>2 DEF Leaves, LeaveLoop, SessionHandles, Killed, InFlight, TasksOf
    <3>2. loop[c] \in Looping /\ loop'[c] = "cleanup"
      BY <1>1, <2>2 DEF Leaves, LeaveLoop, TypeOK
    <3>3. QED
      BY <3>1, <3>2
  <2>3. ASSUME NEW c \in Conn, ReceiveCancel(c) PROVE Own(r)
    <3>1. Receives(c, "cancel")
      BY <2>3 DEF ReceiveCancel
    <3>2. ConnOf[r] = c /\ IdOf[r] = Head(inbox[c]).id
      BY <1>1, <2>3 DEF ReceiveCancel, CancelledBy, SessionHandles, TasksOf
    <3>3. Head(inbox[c]).kind = "cancel" /\ inbox'[c] = Tail(inbox[c])
      BY <1>1, <3>1 DEF Receives, InboxFresh
    <3>4. inbox[c] \in Seq(Frame) /\ inbox[c] # <<>>
      BY <1>1, <3>1 DEF Receives, InboxFresh
    <3>5. Len(Tail(inbox[c])) # Len(inbox[c])
      BY <3>4
    <3>6. QED
      BY <3>2, <3>3, <3>5
  <2>4. ASSUME NEW c \in Conn,
               \/ AddEndpoint(c) \/ EndCleanup(c) \/ ReceiveHello(c) \/ HelloAnswered(c)
               \/ ReceiveRequest(c) \/ LockRefusal(c) \/ SendRefusal(c)
        PROVE  UNCHANGED <<stopped, killed>>
    BY <2>4 DEF AddEndpoint, EndCleanup, ReceiveHello, HelloAnswered, ReceiveRequest,
       LockRefusal, SendRefusal, taskVars
  <2>5. ASSUME NEW q \in Request, TaskStep(q) PROVE UNCHANGED <<stopped, killed>>
    BY <2>5 DEF TaskStep, StartTask, Execute, LockReply, SendReply, Die
  <2>6. ASSUME ControlStep \/ UNCHANGED vars PROVE UNCHANGED <<stopped, killed>>
    BY <2>6, ControlFrame DEF OnlyControl, vars, taskVars
  <2>7. QED
    BY <1>1, <2>1, <2>2, <2>3, <2>4, <2>5, <2>6, Steps, ConnSteps
<1>2. ServerInv /\ [Next]_vars => [\A r \in Request : r \in News => Own(r)]_vars
  BY <1>1
<1>3. QED
  BY ServerInvariant, <1>2, PTL DEF Spec, OnlyOwnPeerStops

----------------------------------------------------------------------------
(* The refinement: a connection's life is that of ConnectionScope. *)

Lives == [c \in Conn |-> Life(c)]
Insides == [c \in Conn |-> InFlight(c)]
LifeIn(s) == IF s = "new" THEN "new" ELSE IF s \in Looping THEN "open"
             ELSE IF s = "cleanup" THEN "closing" ELSE "gone"

LEMMA LifeOfLoop ==
  ASSUME TypeOK, NEW c \in Conn
  PROVE  Life(c) = LifeIn(loop[c])
BY DEF TypeOK, LoopState, Life, LifeIn, Looping

LEMMA LivesMove ==
  ASSUME TypeOK, NEW c \in Conn, NEW s \in LoopState, loop' = [loop EXCEPT ![c] = s]
  PROVE  /\ Lives' = [Lives EXCEPT ![c] = LifeIn(s)] /\ Lives[c] = LifeIn(loop[c])
<1>1. TypeOK => \A d \in Conn : Life(d) = LifeIn(loop[d])
  BY LifeOfLoop
<1>2. loop' \in [Conn -> LoopState]
  BY DEF TypeOK
<1>3. \A d \in Conn : Life(d)' = LifeIn(loop'[d])
  BY <1>2 DEF LoopState, Life, LifeIn, Looping
<1>4. loop'[c] = s /\ \A d \in Conn \ {c} : loop'[d] = loop[d]
  BY DEF TypeOK
<1>5. QED
  BY <1>1, <1>3, <1>4 DEF Lives

LEMMA LivesKept == loop' = loop => Lives' = Lives
BY DEF Lives, Life

LEMMA InsidesKept == task' = task => Insides' = Insides
BY DEF Insides, InFlight

LEMMA InsidesMove ==
  ASSUME TypeOK, NEW r \in Request, NEW s \in TaskState, task' = [task EXCEPT ![r] = s]
  PROVE  Insides' = [Insides EXCEPT ![ConnOf[r]] =
                       IF s \in Alive THEN @ \cup {r} ELSE @ \ {r}]
<1>1. \A d \in Conn : InFlight(d)' = IF d = ConnOf[r]
                                     THEN IF s \in Alive THEN InFlight(d) \cup {r}
                                          ELSE InFlight(d) \ {r}
                                     ELSE InFlight(d)
  BY DEF TypeOK, InFlight, TasksOf
<1>2. QED
  BY <1>1 DEF Insides

LEMMA ScopeConnStep ==
  ASSUME ServerInv, NEW c \in Conn, ConnStep(c)
  PROVE  Scope!Next \/ UNCHANGED <<Lives, Insides>>
<1> USE DEF ServerInv
<1>1. ASSUME NEW s \in LoopState, loop' = [loop EXCEPT ![c] = s], task' = task,
             LifeIn(s) # LifeIn(loop[c]) =>
               <<LifeIn(loop[c]), LifeIn(s)>> \in
                 {<<"new", "open">>, <<"new", "gone">>, <<"open", "closing">>}
                 \cup (IF InFlight(c) = {} THEN {<<"closing", "gone">>} ELSE {})
      PROVE  Scope!Next \/ UNCHANGED <<Lives, Insides>>
  <2>1. /\ Lives' = [Lives EXCEPT ![c] = LifeIn(s)] /\ Lives[c] = LifeIn(loop[c])
        /\ Insides' = Insides /\ Insides[c] = InFlight(c)
    BY <1>1, LivesMove, InsidesKept DEF Insides
  <2>2. CASE LifeIn(s) = LifeIn(loop[c])
    BY <2>1, <2>2 DEF Lives
  <2>3. CASE LifeIn(s) # LifeIn(loop[c])
    BY <1>1, <2>1, <2>3 DEF Scope!Next, Scope!Open, Scope!Refuse, Scope!Close, Scope!Vanish,
       Scope!Move, Lives, Insides
  <2>4. QED
    BY <2>2, <2>3
<1> USE DEF LifeIn, LoopState, Looping
<1>2. CASE AddEndpoint(c)
  BY <1>1, <1>2 DEF AddEndpoint, taskVars
<1>3. CASE Leaves(c)
  BY <1>1, <1>3 DEF Leaves, LeaveLoop
<1>4. CASE EndCleanup(c)
  BY <1>1, <1>4 DEF EndCleanup, WaitsForTasks, taskVars
<1>5. CASE ReceiveHello(c) \/ HelloAnswered(c) \/ LockRefusal(c) \/ SendRefusal(c)
  BY <1>1, <1>5 DEF ReceiveHello, HelloAnswered, LockRefusal, SendRefusal, Receives, taskVars
<1>6. CASE ReceiveCancel(c)
  BY <1>6, LivesKept, InsidesKept DEF ReceiveCancel
<1>7. ASSUME ReceiveRequest(c), NEW r, r = Head(inbox[c]).request
      PROVE  Scope!Next \/ UNCHANGED <<Lives, Insides>>
  <2>1. /\ r \in Request /\ ConnOf[r] = c /\ task[r] = "none" /\ loop[c] = "receiving"
    BY <1>7, RequestSteps
  <2>2. CASE task' = [task EXCEPT ![r] = "spawned"] /\ loop' = loop
    <3>1. Lives' = Lives /\ Lives[c] = "open"
      BY <2>1, <2>2, LivesKept, LifeOfLoop DEF Lives
    <3>2. /\ Insides' = [Insides EXCEPT ![c] = @ \cup {r}] /\ r \notin Insides[c]
      BY <2>1, <2>2, InsidesMove DEF Insides, InFlight, Alive, TaskState
    <3>3. QED
      BY <2>1, <3>1, <3>2 DEF Scope!Next, Scope!Enter, Lives, Insides
  <2>3. CASE task' = task /\ loop' = loop
    BY <2>3, LivesKept, InsidesKept
  <2>4. CASE task' = task /\ loop' = [loop EXCEPT ![c] = "refuseLock"]
    BY <1>1, <2>1, <2>4
  <2>5. QED
    BY <1>7, <2>2, <2>3, <2>4, RequestSteps
<1>8. QED
  BY <1>2, <1>3, <1>4, <1>5, <1>6, <1>7, ConnSteps

LEMMA ScopeTaskStep ==
  ASSUME ServerInv, NEW r \in Request, TaskStep(r)
  PROVE  Scope!Next \/ UNCHANGED <<Lives, Insides>>
<1>1. Lives' = Lives
  BY TaskFrame, LivesKept DEF OnlyTask
<1>2. PICK s \in Alive \cup {"done"} : task' = [task EXCEPT ![r] = s]
  BY TaskMoves
<1>3. r \in Insides[ConnOf[r]] /\ ConnOf[r] \in Conn
  BY TaskMoves, ServerAssumption DEF Insides, InFlight, TasksOf
<1>4. Insides' = [Insides EXCEPT ![ConnOf[r]] = IF s \in Alive THEN @ \cup {r} ELSE @ \ {r}]
  BY <1>2, InsidesMove DEF ServerInv, Alive, TaskState
<1>5. CASE s \in Alive
  BY <1>1, <1>3, <1>4, <1>5 DEF Insides
<1>6. CASE s \notin Alive
  BY <1>1, <1>3, <1>4, <1>6 DEF Scope!Next, Scope!Leave, Lives, Insides
<1>7. QED
  BY <1>5, <1>6

(* The connections of the server are those of ConnectionScope: a task      *)
(* enters only through a connection whose loop runs, and the cleanup of a  *)
(* connection ends only when its last task has.                            *)
THEOREM ServerImplementsConnectionScope == Spec => ImplementsConnectionScope
<1>1. Init => Scope!Init
  <2> SUFFICES ASSUME Init PROVE Scope!Init
    OBVIOUS
  <2>1. \A c \in Conn : Life(c) = "new"
    BY ServerInit, LifeOfLoop DEF Init, ServerInv, LifeIn
  <2>2. \A c \in Conn : InFlight(c) = {}
    BY DEF Init, InFlight, TasksOf, Alive
  <2>3. QED
    BY <2>1, <2>2 DEF Scope!Init
<1>2. ServerInv /\ [Next]_vars => [Scope!Next]_<<Lives, Insides>>
  <2> SUFFICES ASSUME ServerInv, [Next]_vars
               PROVE  Scope!Next \/ UNCHANGED <<Lives, Insides>>
    OBVIOUS
  <2>1. CASE ControlStep
    BY <2>1, ControlFrame, LivesKept, InsidesKept DEF OnlyControl, taskVars
  <2>2. CASE UNCHANGED vars
    BY <2>2, LivesKept, InsidesKept DEF vars, connVars, taskVars
  <2>3. QED
    BY <2>1, <2>2, Steps, ScopeConnStep, ScopeTaskStep
<1>3. QED
  BY <1>1, <1>2, ServerInvariant, PTL
     DEF Spec, ImplementsConnectionScope, Scope!Spec, Scope!vars, Lives, Insides
============================================================================
