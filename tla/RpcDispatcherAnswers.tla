----------------------- MODULE RpcDispatcherAnswers -----------------------
(***************************************************************************)
(* Proofs about the answers, the shared maps, the timeouts and the         *)
(* counters of RpcDispatcher, on top of the accounting of the limiter.     *)
(***************************************************************************)
EXTENDS RpcDispatcherProofs

Answering == {"encoded", "unencodable", "silent"}

(* Only a request that ended has a response, and only if it expects one. *)
SlotsOfEnded ==
  \A r \in Request : slot[r] # "none" => phase[r] \in Ended /\ r \in WantsReply

(* The requests of a message whose responses were encoded ended, answered. *)
AnsweredEnded ==
  \A r \in Request :
    msg[MsgOf[r]] \in Answering =>
      phase[r] \in Ended /\ (r \in WantsReply => slot[r] # "none")

(* A handle is that of a request admitted under its own key. *)
HandlesNamed ==
  \A k \in Key : LET r == mCancelHandles[k]
                 IN  r # None => /\ r \in WantsReply /\ KeyOf(r) = k /\ Processed(r)
                                 /\ phase[r] \in {"admitted", "running", "finished", "dropped"}

(* Both maps list the same keys. *)
MapsAgree == \A k \in Key : mRequestStates[k] # "absent" <=> mCancelHandles[k] # None

AnswerInv ==
  /\ LimiterInv /\ SlotsOfEnded /\ AnsweredEnded /\ HandlesNamed /\ MapsAgree
  /\ EveryRequestCancellable

(* Requests a handle was stopped for, as far as their message goes on.     *)
StoppedByHandle == {r \in stop : msg[MsgOf[r]] \notin {"stopping", "stopped"}}

(* A request that ended without an answer was stopped, and one that is     *)
(* told Canceled was stopped through its handle.                           *)
EndedUnanswered == \A r \in WantsReply : phase[r] \in Ended /\ slot[r] = "none" => r \in stop
ToldWereStopped ==
  \A r \in Request : slot[r] = "Canceled" => r \in stop /\ msg[MsgOf[r]] \in Answering

CancelInv ==
  /\ EndedUnanswered /\ ToldWereStopped
  /\ Cardinality(StoppedByHandle) <= mCanceled
----------------------------------------------------------------------------
(* What the steps of a request, of a message and of a control do. *)

(* A request moves from a state in which it has no response yet; what ends *)
(* it sets its own slot, and no other.                                     *)
LEMMA RequestMove ==
  ASSUME LimiterInv, NEW q \in Request, RequestStep(q)
  PROVE  /\ msg' = msg /\ phase[q] \in {"decoded", "admitted", "running"}
         /\ \A r \in Request \ {q} : phase'[r] = phase[r] /\ slot'[r] = slot[r]
         /\ phase'[q] \notin {"new", "decoded"}
         /\ slot'[q] # slot[q] => phase'[q] \in Ended /\ (slot'[q] # "none" => q \in WantsReply)
<1> USE DEF LimiterInv, TypeOK, Live
<1>1. CASE RefuseUnknown(q) \/ RefuseOverloaded(q)
  BY <1>1 DEF RefuseUnknown, RefuseOverloaded, Refuse, IsNext, Respond, Ended, Outcome
<1>2. CASE Admit(q)
  BY <1>2 DEF Admit, IsNext
<1>3. CASE Start(q)
  BY <1>3 DEF Start
<1>4. CASE Complete(q) \/ Expire(q) \/ Abort(q)
  <2>1. /\ Release(q) /\ q \in Live
        /\ slot' = slot \/ \E o \in Outcome : slot' = [slot EXCEPT ![q] = Respond(q, o)]
    BY <1>4 DEF Complete, Expire, Abort, Outcome
  <2>2. msg' = msg /\ \E p \in {"finished", "dropped"} : phase' = [phase EXCEPT ![q] = p]
    BY <2>1 DEF Release
  <2>3. QED
    BY <2>1, <2>2 DEF Respond, Ended
<1>5. ASSUME NEW ns \in Nanos, SetConnectionTimeout(q, ns)
      PROVE  msg' = msg /\ phase' = phase /\ slot' = slot /\ phase[q] = "running"
  BY <1>5 DEF SetConnectionTimeout, requestVars
<1>6. QED
  BY <1>1, <1>2, <1>3, <1>4, <1>5 DEF RequestStep

(* A message takes its own requests from "new" to "decoded", and answers   *)
(* them when all of them ended.                                            *)
LEMMA MessageMove ==
  ASSUME LimiterInv, NEW m \in Message, MessageStep(m)
  PROVE  /\ \A n \in Message \ {m} : msg'[n] = msg[n]
         /\ \A r \in Request : MsgOf[r] # m => phase'[r] = phase[r] /\ slot'[r] = slot[r]
         /\ \/ Finish(m) /\ phase' = phase
            \/ /\ slot' = slot /\ msg'[m] \notin Answering
               /\ \/ phase' = phase
                  \/ msg[m] = "new" /\ msg'[m] = "dispatching"
<1> USE DEF LimiterInv, TypeOK, Answering, requestVars
<1>1. ASSUME NEW reject \in BOOLEAN, Begin(m, reject)
      PROVE  /\ msg' = [msg EXCEPT ![m] = "dispatching"] /\ msg[m] = "new" /\ slot' = slot
             /\ \A r \in Request : MsgOf[r] # m => phase'[r] = phase[r]
  BY <1>1 DEF Begin
<1>2. CASE AwaitAll(m)
  BY <1>2 DEF AwaitAll
<1>3. CASE Finish(m)
  <2>1. phase' = phase /\ slot' = Fill(m) /\ \E outcome : msg' = [msg EXCEPT ![m] = outcome]
    BY <1>3 DEF Finish
  <2>2. QED
    BY <1>3, <2>1 DEF Fill
<1>4. CASE EndStopped(m)
  BY <1>4 DEF EndStopped
<1>5. CASE AbandonCall(m)
  BY <1>5 DEF AbandonCall
<1>6. QED
  BY <1>1, <1>2, <1>3, <1>4, <1>5 DEF MessageStep

(* Control only stops tasks, empties maps and takes messages of a closed   *)
(* session out of processing.                                              *)
LEMMA ControlMove ==
  ASSUME LimiterInv, ControlStep
  PROVE  /\ phase' = phase /\ slot' = slot /\ stop \subseteq stop'
         /\ \A m \in Message : msg'[m] = msg[m] \/ msg'[m] \in {"stopped", "stopping"}
<1> USE DEF StopTasks, LimiterInv, TypeOK
<1>1. ASSUME NEW K, CancelKeys(K)
      PROVE  phase' = phase /\ slot' = slot /\ stop \subseteq stop' /\ msg' = msg
  BY <1>1 DEF CancelKeys
<1>2. CASE CancelAll
  BY <1>2 DEF CancelAll
<1>3. ASSUME NEW s \in Session, CloseSession(s)
      PROVE  /\ phase' = phase /\ slot' = slot /\ stop \subseteq stop'
             /\ \A m \in Message : msg'[m] = msg[m] \/ msg'[m] \in {"stopped", "stopping"}
  BY <1>3 DEF CloseSession
<1>4. QED
  BY <1>1, <1>2, <1>3 DEF ControlStep, Cancel, CancelId

----------------------------------------------------------------------------
(* The answers. *)

LEMMA AnswerStep ==
  ASSUME LimiterInv, SlotsOfEnded, AnsweredEnded, [Next]_vars
  PROVE  SlotsOfEnded' /\ AnsweredEnded'
<1> USE DispatcherAssumption DEF SlotsOfEnded, AnsweredEnded
<1>1. ASSUME NEW m \in Message, MessageStep(m) PROVE SlotsOfEnded' /\ AnsweredEnded'
  <2>1. CASE Finish(m) /\ phase' = phase
    <3>1. \A r \in Request : MsgOf[r] = m => phase[r] \in Ended
      BY <2>1 DEF Finish, RequestsOf
    <3>2. \A r \in Request :
            slot'[r] = IF MsgOf[r] = m /\ r \in WantsReply /\ slot[r] = "none" THEN "Canceled" ELSE slot[r]
      BY <2>1 DEF Finish, Fill
    <3>3. \A n \in Message \ {m} : msg'[n] = msg[n]
      BY <1>1, MessageMove
    <3>4. QED
      BY <2>1, <3>1, <3>2, <3>3
  <2>2. CASE slot' = slot /\ msg'[m] \notin Answering /\ phase' = phase
    BY <1>1, <2>2, MessageMove
  <2>3. CASE slot' = slot /\ msg'[m] = "dispatching" /\ msg[m] = "new"
    <3>1. \A r \in Request : MsgOf[r] = m => phase[r] = "new"
      BY <2>3 DEF LimiterInv, EntryInv, NewUntouched
    <3>2. \A r \in Request : MsgOf[r] = m => slot[r] = "none"
      BY <3>1 DEF Ended
    <3>3. \A r \in Request : MsgOf[r] # m => phase'[r] = phase[r] /\ msg'[MsgOf[r]] = msg[MsgOf[r]]
      BY <1>1, MessageMove
    <3>4. QED
      BY <2>3, <3>2, <3>3 DEF Answering
  <2>4. QED
    BY <1>1, <2>1, <2>2, <2>3, MessageMove
<1>2. ASSUME NEW q \in Request, RequestStep(q) PROVE SlotsOfEnded' /\ AnsweredEnded'
  <2>1. phase[q] \notin Ended /\ slot[q] = "none" /\ msg[MsgOf[q]] \notin Answering
    BY <1>2, RequestMove DEF Ended
  <2>2. QED
    BY <1>2, <2>1, RequestMove
<1>3. CASE ControlStep
  BY <1>3, ControlMove DEF Answering
<1>4. CASE UNCHANGED vars
  BY <1>4 DEF vars, requestVars
<1>5. QED
  BY <1>1, <1>2, <1>3, <1>4 DEF Next

----------------------------------------------------------------------------
(* The maps all connections share. *)

MapInv == HandlesNamed /\ MapsAgree /\ EveryRequestCancellable

(* Keys leave both maps together, with the requests their message is done  *)
(* with, or with those a stop reaches.                                     *)
LEMMA MapsShrink ==
  ASSUME LimiterInv, LimiterInv', MapInv, NEW K \in SUBSET Key,
         mCancelHandles' = [k \in Key |-> IF k \in K THEN None ELSE mCancelHandles[k]],
         mRequestStates' = [k \in Key |-> IF k \in K THEN "absent" ELSE mRequestStates[k]],
         phase' = phase, stop \subseteq stop',
         \A k \in Key \ K : mCancelHandles[k] # None => Processed(mCancelHandles[k])',
         \A r \in Live \cap WantsReply :
           /\ KeyOf(r) \in K /\ mCancelHandles[KeyOf(r)] = r
           /\ \A q \in Request \ {r} : KeyOf(q) # KeyOf(r)
           => r \in stop'
  PROVE  MapInv'
<1> USE DispatcherAssumption DEF LimiterInv, TypeOK, MapInv
<1>1. HandlesNamed' /\ MapsAgree'
  BY DEF HandlesNamed, MapsAgree, KeyOf
<1>2. EveryRequestCancellable'
  <2> SUFFICES ASSUME NEW r \in Live \cap WantsReply, \A q \in Request \ {r} : KeyOf(q) # KeyOf(r)
               PROVE  mCancelHandles'[KeyOf(r)] = r \/ r \in stop'
    BY DEF EveryRequestCancellable, Live, KeyOf
  <2>1. KeyOf(r) \in Key /\ r \in Request
    BY KeyOfRequest DEF Live
  <2>2. mCancelHandles[KeyOf(r)] = r \/ r \in stop
    BY DEF EveryRequestCancellable
  <2>3. QED
    BY <2>1, <2>2
<1>3. QED
  BY <1>1, <1>2

LEMMA MapsKept ==
  ASSUME MapInv, UNCHANGED <<mCancelHandles, mRequestStates>>, stop \subseteq stop',
         \A r \in Request : Processed(r) => Processed(r)',
         \A r \in Request : phase'[r] = phase[r] \/ (phase[r] = "new" /\ phase'[r] = "decoded"),
         LimiterInv, LimiterInv'
  PROVE  MapInv'
<1> USE DispatcherAssumption DEF MapInv, LimiterInv, TypeOK
<1>1. HandlesNamed' /\ MapsAgree'
  BY DEF HandlesNamed, MapsAgree, KeyOf
<1>2. EveryRequestCancellable'
  BY DEF EveryRequestCancellable, Live, KeyOf
<1>3. QED
  BY <1>1, <1>2
LEMMA MessageMapStep ==
  ASSUME LimiterInv, LimiterInv', MapInv, NEW m \in Message, MessageStep(m)
  PROVE  MapInv'
<1> USE DispatcherAssumption DEF LimiterInv, TypeOK, requestVars, mapVars
<1>1. CASE Finish(m)
  <2>1. ActiveKeys(m) \in SUBSET Key
    BY KeyOfRequest DEF ActiveKeys, RequestsOf
  <2>2. \A r \in Request : MsgOf[r] = m => r \notin Live
    BY <1>1 DEF Finish, RequestsOf, Live, Ended
  <2>3. \A r \in Request : MsgOf[r] # m => msg'[MsgOf[r]] = msg[MsgOf[r]]
    BY <1>1 DEF Finish
  <2>4. ASSUME NEW k \in Key \ ActiveKeys(m), mCancelHandles[k] # None
        PROVE  Processed(mCancelHandles[k])'
    <3> DEFINE r == mCancelHandles[k]
    <3>1. r \in Request /\ r \in WantsReply /\ KeyOf(r) = k /\ Processed(r) /\ phase[r] # "refused"
      BY <2>4 DEF MapInv, HandlesNamed
    <3>2. MsgOf[r] # m
      BY <3>1 DEF ActiveKeys, RequestsOf
    <3>3. mCancelHandles'[k] = r
      BY <1>1 DEF Finish
    <3>4. QED
      BY <2>3, <3>1, <3>2, <3>3 DEF Processed
  <2>5. ASSUME NEW r \in Live \cap WantsReply, KeyOf(r) \in ActiveKeys(m),
               \A q \in Request \ {r} : KeyOf(q) # KeyOf(r)
        PROVE  FALSE
    BY <2>2, <2>5 DEF ActiveKeys, RequestsOf, Live
  <2>6. QED
    BY <1>1, <2>1, <2>4, <2>5, MapsShrink DEF Finish
<1>2. CASE ~Finish(m)
  <2>1. UNCHANGED <<mCancelHandles, mRequestStates>> /\ stop \subseteq stop'
    BY <1>2 DEF MessageStep, Begin, AwaitAll, EndStopped, AbandonCall, StopTasks
  <2>2. \A r \in Request : Processed(r) => Processed(r)'
    BY <1>2 DEF MessageStep, Begin, AwaitAll, EndStopped, AbandonCall, Processed
  <2>3. \A r \in Request : phase'[r] = phase[r] \/ (phase[r] = "new" /\ phase'[r] = "decoded")
    BY <1>2 DEF MessageStep, Begin, AwaitAll, EndStopped, AbandonCall, EntryInv, NewUntouched
  <2>4. QED
    BY <2>1, <2>2, <2>3, MapsKept
<1>3. QED
  BY <1>1, <1>2

LEMMA RequestMapStep ==
  ASSUME LimiterInv, LimiterInv', MapInv, NEW q \in Request, RequestStep(q)
  PROVE  MapInv'
<1> USE DispatcherAssumption DEF LimiterInv, TypeOK, requestVars, mapVars
<1>1. CASE Admit(q) /\ q \in WantsReply
  <2> DEFINE key == KeyOf(q)
  <2>1. key \in Key
    BY KeyOfRequest
  <2>2. /\ mCancelHandles' = [mCancelHandles EXCEPT ![key] = q]
        /\ mRequestStates' = [mRequestStates EXCEPT ![key] = "queued"]
        /\ phase' = [phase EXCEPT ![q] = "admitted"] /\ msg' = msg /\ stop' = stop
        /\ phase[q] = "decoded" /\ msg[MsgOf[q]] = "dispatching"
    BY <1>1 DEF Admit, IsNext
  <2>3. HandlesNamed'
    BY <1>1, <2>1, <2>2 DEF MapInv, HandlesNamed, Processed, KeyOf
  <2>4. MapsAgree'
    BY <2>1, <2>2 DEF MapInv, MapsAgree
  <2>5. EveryRequestCancellable'
    <3> SUFFICES ASSUME NEW r \in Request, r \in Live', r \in WantsReply,
                        \A p \in Request \ {r} : KeyOf(p) # KeyOf(r)
                 PROVE  mCancelHandles'[KeyOf(r)] = r \/ r \in stop'
      BY DEF EveryRequestCancellable, Live, KeyOf
    <3>1. CASE r = q
      BY <2>1, <2>2, <3>1
    <3>2. CASE r # q
      <4>1. r \in Live /\ KeyOf(r) # key /\ KeyOf(r) \in Key
        BY <2>2, <3>2, KeyOfRequest DEF Live
      <4>2. mCancelHandles[KeyOf(r)] = r \/ r \in stop
        BY <4>1 DEF MapInv, EveryRequestCancellable
      <4>3. QED
        BY <2>2, <4>1, <4>2
    <3>3. QED
      BY <3>1, <3>2
  <2>6. QED
    BY <2>3, <2>4, <2>5 DEF MapInv
<1>2. CASE Start(q)
  <2>1. /\ mCancelHandles' = mCancelHandles /\ stop' = stop /\ msg' = msg
        /\ phase' = [phase EXCEPT ![q] = "running"] /\ phase[q] = "admitted"
    BY <1>2 DEF Start
  <2>2. \A k \in Key : mRequestStates'[k] # "absent" <=> mRequestStates[k] # "absent"
    BY <1>2, KeyOfRequest DEF Start
  <2>3. HandlesNamed' /\ MapsAgree'
    BY <2>1, <2>2 DEF MapInv, HandlesNamed, MapsAgree, Processed, KeyOf
  <2>4. EveryRequestCancellable'
    BY <2>1 DEF MapInv, EveryRequestCancellable, Live, KeyOf
  <2>5. QED
    BY <2>3, <2>4 DEF MapInv
<1>3. CASE ~(Admit(q) /\ q \in WantsReply) /\ ~Start(q)
  <2>1. UNCHANGED <<mCancelHandles, mRequestStates, stop, msg>>
    BY <1>3 DEF RequestStep, RefuseUnknown, RefuseOverloaded, Refuse, Admit, Complete, Expire,
                Abort, Release, SetConnectionTimeout
  <2>2. /\ \A r \in Request \ {q} : phase'[r] = phase[r]
        /\ \/ phase'[q] \in {"admitted", "refused"} /\ phase[q] = "decoded"
              /\ (phase'[q] = "admitted" => q \notin WantsReply)
           \/ phase'[q] \in {"finished", "dropped"} /\ phase[q] \in {"admitted", "running"}
           \/ phase'[q] = phase[q]
    <3>1. CASE RefuseUnknown(q) \/ RefuseOverloaded(q) \/ Admit(q)
      BY <1>3, <3>1 DEF RefuseUnknown, RefuseOverloaded, Refuse, Admit, IsNext
    <3>2. CASE Complete(q) \/ Expire(q) \/ Abort(q)
      <4>1. q \in Live /\ \E p \in {"finished", "dropped"} : phase' = [phase EXCEPT ![q] = p]
        BY <3>2 DEF Complete, Expire, Abort, Release, Live
      <4>2. QED
        BY <4>1 DEF Live
    <3>3. ASSUME NEW ns \in Nanos, SetConnectionTimeout(q, ns) PROVE phase' = phase
      BY <3>3 DEF SetConnectionTimeout
    <3>4. QED
      BY <1>3, <3>1, <3>2, <3>3 DEF RequestStep
  <2>3. HandlesNamed' /\ MapsAgree'
    BY <2>1, <2>2 DEF MapInv, HandlesNamed, MapsAgree, Processed, KeyOf
  <2>4. EveryRequestCancellable'
    BY <2>1, <2>2 DEF MapInv, EveryRequestCancellable, Live, KeyOf
  <2>5. QED
    BY <2>3, <2>4 DEF MapInv
<1>4. QED
  BY <1>1, <1>2, <1>3

LEMMA ControlMapStep ==
  ASSUME LimiterInv, LimiterInv', MapInv, ControlStep
  PROVE  MapInv'
<1> USE DispatcherAssumption DEF LimiterInv, TypeOK, StopTasks
<1>1. ASSUME NEW K, CancelKeys(K) PROVE MapInv'
  <2>1. /\ UNCHANGED <<mCancelHandles, mRequestStates>> /\ stop \subseteq stop'
        /\ \A r \in Request : Processed(r) => Processed(r)'
        /\ phase' = phase
    BY <1>1 DEF CancelKeys, mapVars, Processed
  <2>2. QED
    BY <2>1, MapsKept
<1>2. CASE CancelAll
  <2>1. \A r \in Live \cap WantsReply : mCancelHandles[KeyOf(r)] = r => r \in stop'
    BY <1>2, KeyOfRequest DEF CancelAll, Handles, Live
  <2>2. /\ mCancelHandles' = [k \in Key |-> IF k \in Key THEN None ELSE mCancelHandles[k]]
        /\ mRequestStates' = [k \in Key |-> IF k \in Key THEN "absent" ELSE mRequestStates[k]]
        /\ phase' = phase /\ stop \subseteq stop'
    BY <1>2 DEF CancelAll
  <2>3. QED
    BY <2>1, <2>2, MapsShrink
<1>3. ASSUME NEW s \in Session, CloseSession(s) PROVE MapInv'
  <2> DEFINE keys == {s} \X Id
  <2>1. keys \in SUBSET Key /\ \A k \in Key : k \in keys <=> k[1] = s
    BY DEF Key
  <2>2. /\ mCancelHandles' = [k \in Key |-> IF k[1] = s THEN None ELSE mCancelHandles[k]]
        /\ mRequestStates' = [k \in Key |-> IF k[1] = s THEN "absent" ELSE mRequestStates[k]]
        /\ phase' = phase /\ stop \subseteq stop'
    BY <1>3 DEF CloseSession
  <2>3. ASSUME NEW k \in Key \ keys, mCancelHandles[k] # None
        PROVE  Processed(mCancelHandles[k])'
    <3> DEFINE r == mCancelHandles[k]
    <3>1. r \in Request /\ KeyOf(r) = k /\ Processed(r)
      BY <2>3 DEF MapInv, HandlesNamed
    <3>2. SessionOf[MsgOf[r]] # s
      BY <2>1, <3>1 DEF KeyOf
    <3>3. msg'[MsgOf[r]] = msg[MsgOf[r]]
      BY <1>3, <3>1, <3>2 DEF CloseSession, MessagesOf
    <3>4. mCancelHandles'[k] = r
      BY <2>1, <2>2
    <3>5. QED
      BY <3>1, <3>3, <3>4 DEF Processed
  <2>4. \A r \in Live \cap WantsReply :
          KeyOf(r) \in keys /\ mCancelHandles[KeyOf(r)] = r => r \in stop'
    BY <1>3 DEF CloseSession, Handles, Live
  <2>5. /\ mCancelHandles' = [k \in Key |-> IF k \in keys THEN None ELSE mCancelHandles[k]]
        /\ mRequestStates' = [k \in Key |-> IF k \in keys THEN "absent" ELSE mRequestStates[k]]
    BY <2>1, <2>2
  <2>6. QED
    BY <2>1, <2>2, <2>3, <2>4, <2>5, MapsShrink
<1>4. QED
  BY <1>1, <1>2, <1>3 DEF ControlStep, Cancel, CancelId
----------------------------------------------------------------------------
(* The theorems on requests. *)

LEMMA AnswerInvInit == Init => AnswerInv
<1> SUFFICES ASSUME Init PROVE AnswerInv
  OBVIOUS
<1> USE DispatcherAssumption
<1>1. LimiterInv
  BY LimiterInit
<1>2. SlotsOfEnded /\ AnsweredEnded /\ HandlesNamed /\ MapsAgree
  BY DEF Init, SlotsOfEnded, AnsweredEnded, Answering, HandlesNamed, MapsAgree
<1>3. EveryRequestCancellable
  BY DEF Init, EveryRequestCancellable, Live
<1>4. QED
  BY <1>1, <1>2, <1>3 DEF AnswerInv

LEMMA AnswerInvStep == AnswerInv /\ [Next]_vars => AnswerInv'
<1> SUFFICES ASSUME AnswerInv, [Next]_vars PROVE AnswerInv'
  OBVIOUS
<1>1. LimiterInv /\ LimiterInv' /\ MapInv
  BY LimiterStep DEF AnswerInv, MapInv
<1>2. SlotsOfEnded' /\ AnsweredEnded'
  BY AnswerStep DEF AnswerInv
<1>3. MapInv'
  <2>1. CASE UNCHANGED vars
    BY <1>1, <2>1 DEF vars, requestVars, mapVars, MapInv, HandlesNamed, MapsAgree, Processed,
                      EveryRequestCancellable, Live
  <2>2. QED
    BY <1>1, <2>1, MessageMapStep, RequestMapStep, ControlMapStep DEF Next
<1>4. QED
  BY <1>1, <1>2, <1>3 DEF AnswerInv, MapInv

LEMMA AnswerInvariant == Spec => []AnswerInv
BY AnswerInvInit, AnswerInvStep, PTL DEF Spec

(* Every request is accounted for, whatever is refused, timed out, stopped *)
(* or closed meanwhile: one response when its message is encoded, a handle *)
(* to stop it by until it ends, and no handle or state once its message    *)
(* left processMessage.                                                    *)
THEOREM RequestsStayAccountedFor == Spec => []RequestsAccountedFor
<1>1. AnswerInv => RequestsAccountedFor
  <2> SUFFICES ASSUME AnswerInv PROVE RequestsAccountedFor
    OBVIOUS
  <2> USE DEF AnswerInv
  <2>1. EveryRequestAnswered
    BY DEF EveryRequestAnswered, SlotsOfEnded, AnsweredEnded, Answering
  <2>2. NoLeftovers
    <3> SUFFICES ASSUME NEW k \in Key, mRequestStates[k] # "absent" \/ mCancelHandles[k] # None
                 PROVE  /\ Processed(mCancelHandles[k])
                        /\ \E r \in WantsReply : KeyOf(r) = k /\ Processed(r)
      BY DEF NoLeftovers
    <3>1. mCancelHandles[k] # None
      BY DEF MapsAgree
    <3>2. QED
      BY <3>1 DEF HandlesNamed
  <2>3. QED
    BY <2>1, <2>2 DEF RequestsAccountedFor
<1>2. QED
  BY <1>1, AnswerInvariant, PTL

(* A refusal finds the limiter full, by the books that balance. *)
LEMMA RefusalFindsNoRoom ==
  ASSUME LimiterInv, NEW r \in Known, RefuseOverloaded(r), ~rejectOnly[MsgOf[r]]
  PROVE  Cardinality(Live) >= Capacity
<1>1. mOutstanding = Cardinality(Live) /\ mOutstanding \in Nat
  BY Books
<1>2. QED
  BY <1>1, DispatcherAssumption DEF RefuseOverloaded, NoCapacity, WouldQueue, Capacity

(* A request only moves on: no late stop, deadline or filler replaces an   *)
(* answer, and Overloaded is answered only where there was no room.        *)
THEOREM RequestsOnlyMoveOn == Spec => RequestsMoveOn
<1>1. AnswerInv /\ [Next]_vars =>
        [\A r \in Request : /\ slot[r] # "none" => slot'[r] = slot[r]
                            /\ phase[r] \in Ended => phase'[r] = phase[r]]_vars
  <2> SUFFICES ASSUME AnswerInv, Next, NEW r \in Request
               PROVE  /\ slot[r] # "none" => slot'[r] = slot[r]
                      /\ phase[r] \in Ended => phase'[r] = phase[r]
    OBVIOUS
  <2> USE DEF AnswerInv
  <2>1. slot[r] # "none" => phase[r] \in Ended
    BY DEF SlotsOfEnded
  <2>2. ASSUME NEW m \in Message, MessageStep(m)
        PROVE  /\ slot[r] # "none" => slot'[r] = slot[r]
               /\ phase[r] \in Ended => phase'[r] = phase[r]
    <3>1. CASE Finish(m) /\ phase' = phase
      BY <3>1 DEF Finish, Fill
    <3>2. CASE slot' = slot /\ phase' = phase
      BY <3>2
    <3>3. CASE slot' = slot /\ msg[m] = "new"
      BY <2>2, <3>3, MessageMove DEF LimiterInv, EntryInv, NewUntouched, Ended
    <3>4. QED
      BY <2>2, <3>1, <3>2, <3>3, MessageMove
  <2>3. ASSUME NEW q \in Request, RequestStep(q)
        PROVE  /\ slot[r] # "none" => slot'[r] = slot[r]
               /\ phase[r] \in Ended => phase'[r] = phase[r]
    BY <2>1, <2>3, RequestMove DEF Ended
  <2>4. CASE ControlStep
    BY <2>4, ControlMove
  <2>5. QED
    BY <2>2, <2>3, <2>4 DEF Next
<1>2. AnswerInv /\ [Next]_vars =>
        [\A r \in Known : phase[r] = "decoded" /\ phase'[r] = "refused" =>
           rejectOnly[MsgOf[r]] \/ Cardinality(Live) >= Capacity]_vars
  <2> SUFFICES ASSUME AnswerInv, Next, NEW r \in Known, phase[r] = "decoded", phase'[r] = "refused",
                      ~rejectOnly[MsgOf[r]]
               PROVE  Cardinality(Live) >= Capacity
    OBVIOUS
  <2> USE DEF AnswerInv, LimiterInv, TypeOK
  <2>0. r \in Request
    BY DispatcherAssumption
  <2>1. ASSUME NEW m \in Message, MessageStep(m) PROVE FALSE
    BY <2>0, <2>1 DEF MessageStep, Begin, AwaitAll, Finish, EndStopped, AbandonCall, requestVars
  <2>2. CASE ControlStep
    BY <2>0, <2>2, ControlMove
  <2>3. ASSUME NEW q \in Request, RequestStep(q) PROVE RefuseOverloaded(r)
    <3>1. q = r
      BY <2>0, <2>3, RequestMove
    <3>2. ~RefuseUnknown(r)
      BY DEF RefuseUnknown
    <3>3. \A p \in Phase \ {"refused"} : phase' # [phase EXCEPT ![r] = p]
      BY <2>0 DEF Phase
    <3>4. phase' # phase
      BY <2>0
    <3>5. QED
      BY <2>0, <2>3, <3>1, <3>2, <3>3, <3>4
         DEF RequestStep, Admit, Start, Complete, Expire, Abort, Release, SetConnectionTimeout,
             requestVars, Phase
  <2>4. QED
    BY <2>1, <2>2, <2>3, RefusalFindsNoRoom DEF Next
<1>3. QED
  BY <1>1, <1>2, AnswerInvariant, PTL
     DEF Spec, RequestsMoveOn, AnswersAreFinal, RefusalJustified
----------------------------------------------------------------------------
(* The timeouts. *)

LEMMA EffectiveTightens ==
  ASSUME LimiterInv, LimitsTighten, RequestTimeout # NoTimeout, NEW s \in Session
  PROVE  EffectiveTimeout(s) # NoTimeout /\ EffectiveTimeout(s) <= RequestTimeout
BY DispatcherAssumption DEF LimiterInv, TypeOK, LimitsTighten, EffectiveTimeout, Timeout

LEMMA LimitsKept ==
  ASSUME LimitsTighten, UNCHANGED limit, Live' \subseteq Live,
         \A s \in Session : mConnectionTimeouts'[s] \in {mConnectionTimeouts[s], NoTimeout}
  PROVE  LimitsTighten'
BY DEF LimitsTighten

LEMMA LimitsStep ==
  ASSUME LimiterInv, LimitsTighten, [Next]_vars
  PROVE  LimitsTighten'
<1> USE DispatcherAssumption DEF LimiterInv, TypeOK
<1>1. ASSUME NEW m \in Message, MessageStep(m) PROVE LimitsTighten'
  <2>1. limit' = limit /\ mConnectionTimeouts' = mConnectionTimeouts
    BY <1>1 DEF MessageStep, Begin, AwaitAll, Finish, EndStopped, AbandonCall, requestVars, mapVars
  <2>2. Live' \subseteq Live
    BY <1>1, MessageMove DEF Live, EntryInv, NewUntouched, MessageStep, Begin, AwaitAll, Finish,
                             EndStopped, AbandonCall, requestVars
  <2>3. QED
    BY <2>1, <2>2, LimitsKept
<1>2. ASSUME NEW q \in Request, Admit(q) PROVE LimitsTighten'
  <2>1. /\ limit' = [limit EXCEPT ![q] = EffectiveTimeout(SessionOf[MsgOf[q]])]
        /\ mConnectionTimeouts' = mConnectionTimeouts /\ Live' \subseteq Live \cup {q}
    BY <1>2 DEF Admit, Live
  <2>2. QED
    BY <2>1, EffectiveTightens DEF LimitsTighten, Live
<1>3. ASSUME NEW q \in Request, NEW ns \in Nanos, SetConnectionTimeout(q, ns) PROVE LimitsTighten'
  <2>1. limit' = limit /\ Live' = Live
    BY <1>3 DEF SetConnectionTimeout, requestVars, Live
  <2>2. CASE ns = 0 /\ mConnectionTimeouts' =
                         [mConnectionTimeouts EXCEPT ![SessionOf[MsgOf[q]]] = NoTimeout]
    BY <2>1, <2>2, LimitsKept
  <2>3. CASE AcceptsTimeout(ns) /\ mConnectionTimeouts' =
                         [mConnectionTimeouts EXCEPT ![SessionOf[MsgOf[q]]] = ns]
    BY <2>1, <2>3 DEF LimitsTighten, AcceptsTimeout
  <2>4. QED
    BY <1>3, <2>2, <2>3 DEF SetConnectionTimeout
<1>4. ASSUME NEW q \in Request, RequestStep(q), ~Admit(q),
             \A ns \in Nanos : ~SetConnectionTimeout(q, ns)
      PROVE  LimitsTighten'
  <2>1. limit' = limit /\ mConnectionTimeouts' = mConnectionTimeouts
    BY <1>4 DEF RequestStep, RefuseUnknown, RefuseOverloaded, Refuse, Start, Complete, Expire,
                Abort, Release, mapVars
  <2>2. Live' \subseteq Live
    <3>1. phase'[q] \in {"admitted", "running"} => phase[q] \in {"admitted", "running"}
      BY <1>4 DEF RequestStep, RefuseUnknown, RefuseOverloaded, Refuse, Start, Complete, Expire,
                  Abort, Release, Live
    <3>2. QED
      BY <1>4, <3>1, RequestMove DEF Live
  <2>3. QED
    BY <2>1, <2>2, LimitsKept
<1>5. CASE ControlStep
  <2>1. limit' = limit
        /\ \A s \in Session : mConnectionTimeouts'[s] \in {mConnectionTimeouts[s], NoTimeout}
    BY <1>5 DEF ControlStep, Cancel, CancelId, CancelKeys, CancelAll, CloseSession, mapVars
  <2>2. Live' = Live
    BY <1>5, ControlMove DEF Live
  <2>3. QED
    BY <2>1, <2>2, LimitsKept
<1>6. CASE UNCHANGED vars
  BY <1>6, LimitsKept DEF vars, requestVars, mapVars, Live
<1>7. QED
  BY <1>1, <1>2, <1>3, <1>4, <1>5, <1>6 DEF Next

----------------------------------------------------------------------------
(* The counters of metrics(). *)

Finished == {r \in Request : phase[r] = "finished"}
TurnedAway == {r \in Known : phase[r] = "refused"}
Late == {r \in Request : slot[r] = "DeadlineExceeded"}
Mute == {r \in Request \ WantsReply : phase[r] \in {"finished", "dropped"}}

(* The counters but mCanceled, which the stops account for. *)
TotalsTrue ==
  /\ mCompleted = Cardinality(Finished)
  /\ mRejected = Cardinality(TurnedAway)
  /\ Cardinality(Late) <= mTimedOut
  /\ mTimedOut <= Cardinality(Late) + Cardinality(Mute)

LEMMA CounterSetsFinite ==
  /\ IsFiniteSet(Finished) /\ IsFiniteSet(TurnedAway) /\ IsFiniteSet(Late) /\ IsFiniteSet(Mute)
  /\ Cardinality(Finished) \in Nat /\ Cardinality(TurnedAway) \in Nat
  /\ Cardinality(Late) \in Nat /\ Cardinality(Mute) \in Nat
<1>1. Finished \subseteq Request /\ TurnedAway \subseteq Request /\ Late \subseteq Request
      /\ Mute \subseteq Request
  BY DispatcherAssumption DEF Finished, TurnedAway, Late, Mute
<1>2. QED
  BY <1>1, FS_Subset, FS_CardinalityType, DispatcherAssumption

LEMMA TotalsKept ==
  ASSUME TotalsTrue, Finished' = Finished, TurnedAway' = TurnedAway, Late' = Late, Mute' = Mute,
         UNCHANGED <<mCompleted, mRejected, mTimedOut>>
  PROVE  TotalsTrue'
BY DEF TotalsTrue

(* One request ends: late or mute, or neither counted as timed out. *)
LEMMA ReleaseCounts ==
  ASSUME LimiterInv, TotalsTrue, NEW q \in Request, q \in Live, Release(q),
         \/ /\ mTimedOut' = mTimedOut /\ Late' = Late
         \/ /\ mTimedOut' = mTimedOut + 1
            /\ IF q \in WantsReply THEN q \notin Late /\ Late' = Late \cup {q} ELSE Late' = Late
  PROVE  TotalsTrue'
<1> USE CounterSetsFinite, DispatcherAssumption DEF LimiterInv, TypeOK
<1>1. TurnedAway' = TurnedAway /\ mRejected' = mRejected
  BY DEF Release, TurnedAway, Live
<1>2. mCompleted' = Cardinality(Finished')
  <2>1. mCompleted = Cardinality(Finished)
    BY DEF TotalsTrue
  <2>2. CASE phase[q] = "running"
    <3>1. Finished' = Finished \cup {q} /\ q \notin Finished /\ mCompleted' = mCompleted + 1
      BY <2>2 DEF Release, LeaveGauges, Finished
    <3>2. QED
      BY <2>1, <3>1, CountStep
  <2>3. CASE phase[q] = "admitted"
    <3>1. Finished' = Finished /\ mCompleted' = mCompleted
      BY <2>3 DEF Release, LeaveGauges, Finished
    <3>2. QED
      BY <2>1, <3>1
  <2>4. QED
    BY <2>2, <2>3 DEF Live
<1>3. IF q \in WantsReply THEN Mute' = Mute ELSE q \notin Mute /\ Mute' = Mute \cup {q}
  <2>1. phase[q] \in {"admitted", "running"}
        /\ \E p \in {"finished", "dropped"} : phase' = [phase EXCEPT ![q] = p]
    BY DEF Release, Live
  <2>2. QED
    BY <2>1 DEF Mute
<1>4. /\ Cardinality(Mute') \in Nat /\ Cardinality(Mute) <= Cardinality(Mute')
      /\ q \notin WantsReply => Cardinality(Mute') = Cardinality(Mute) + 1
  BY <1>3, CountStep
<1>5. Cardinality(Late') <= mTimedOut' /\ mTimedOut' <= Cardinality(Late') + Cardinality(Mute')
  <2>1. Cardinality(Late) <= mTimedOut /\ mTimedOut <= Cardinality(Late) + Cardinality(Mute)
    BY DEF TotalsTrue
  <2>2. CASE Late' = Late /\ mTimedOut' = mTimedOut
    BY <1>4, <2>1, <2>2
  <2>3. CASE q \in WantsReply /\ q \notin Late /\ Late' = Late \cup {q} /\ mTimedOut' = mTimedOut + 1
    <3>1. Cardinality(Late') = Cardinality(Late) + 1
      BY <2>3, CountStep
    <3>2. QED
      BY <1>4, <2>1, <2>3, <3>1
  <2>4. CASE q \notin WantsReply /\ Late' = Late /\ mTimedOut' = mTimedOut + 1
    BY <1>4, <2>1, <2>4
  <2>5. QED
    BY <2>2, <2>3, <2>4
<1>6. mRejected' = Cardinality(TurnedAway')
  BY <1>1 DEF TotalsTrue
<1>7. QED
  BY <1>2, <1>5, <1>6 DEF TotalsTrue

LEMMA RefuseCounts ==
  ASSUME LimiterInv, SlotsOfEnded, TotalsTrue, NEW q \in Request, RefuseUnknown(q) \/ RefuseOverloaded(q)
  PROVE  TotalsTrue'
<1> USE CounterSetsFinite, DispatcherAssumption DEF LimiterInv, TypeOK
<1>1. /\ phase' = [phase EXCEPT ![q] = "refused"] /\ phase[q] = "decoded"
      /\ \E o \in {"MethodNotFound", "Overloaded", "none"} : slot' = [slot EXCEPT ![q] = o]
      /\ UNCHANGED <<mCompleted, mTimedOut>>
  BY DEF RefuseUnknown, RefuseOverloaded, Refuse, IsNext, Respond
<1>2. slot[q] = "none"
  BY <1>1 DEF SlotsOfEnded, Ended
<1>3. Finished' = Finished /\ Late' = Late /\ Mute' = Mute
  BY <1>1, <1>2 DEF Finished, Late, Mute
<1>4. mRejected' = Cardinality(TurnedAway')
  <2>1. mRejected = Cardinality(TurnedAway)
    BY DEF TotalsTrue
  <2>2. CASE RefuseUnknown(q)
    <3>1. TurnedAway' = TurnedAway /\ mRejected' = mRejected
      BY <1>1, <2>2 DEF RefuseUnknown, TurnedAway
    <3>2. QED
      BY <2>1, <3>1
  <2>3. CASE RefuseOverloaded(q)
    <3>1. TurnedAway' = TurnedAway \cup {q} /\ q \notin TurnedAway /\ mRejected' = mRejected + 1
      BY <1>1, <2>3 DEF RefuseOverloaded, TurnedAway
    <3>2. QED
      BY <2>1, <3>1, CountStep
  <2>4. QED
    BY <2>2, <2>3
<1>5. QED
  BY <1>1, <1>3, <1>4 DEF TotalsTrue

LEMMA TotalsStep ==
  ASSUME LimiterInv, SlotsOfEnded, TotalsTrue, [Next]_vars
  PROVE  TotalsTrue'
<1> USE DispatcherAssumption DEF LimiterInv, TypeOK
<1>1. ASSUME NEW m \in Message, MessageStep(m) PROVE TotalsTrue'
  <2>1. UNCHANGED <<mCompleted, mRejected, mTimedOut>>
    BY <1>1 DEF MessageStep, Begin, AwaitAll, Finish, EndStopped, AbandonCall, limiterVars
  <2>2. Finished' = Finished /\ TurnedAway' = TurnedAway /\ Mute' = Mute
    <3>1. \A r \in Request : phase'[r] = phase[r] \/ (phase[r] = "new" /\ phase'[r] = "decoded")
      BY <1>1 DEF MessageStep, Begin, AwaitAll, Finish, EndStopped, AbandonCall, requestVars,
                  EntryInv, NewUntouched
    <3>2. QED
      BY <3>1 DEF Finished, TurnedAway, Mute
  <2>3. Late' = Late
    BY <1>1 DEF MessageStep, Begin, AwaitAll, Finish, EndStopped, AbandonCall, requestVars, Fill, Late
  <2>4. QED
    BY <2>1, <2>2, <2>3, TotalsKept
<1>2. ASSUME NEW q \in Request, RequestStep(q) PROVE TotalsTrue'
  <2>1. CASE RefuseUnknown(q) \/ RefuseOverloaded(q)
    BY <2>1, RefuseCounts
  <2>2. CASE Admit(q) \/ Start(q)
    <3>1. UNCHANGED <<mCompleted, mRejected, mTimedOut, slot>>
      BY <2>2 DEF Admit, Start
    <3>2. phase[q] \in {"decoded", "admitted"}
          /\ \E p \in {"admitted", "running"} : phase' = [phase EXCEPT ![q] = p]
      BY <2>2 DEF Admit, Start, IsNext
    <3>3. QED
      BY <3>1, <3>2, TotalsKept DEF Finished, TurnedAway, Late, Mute
  <2>3. CASE Complete(q) \/ Expire(q) \/ Abort(q)
    <3>1. q \in Live /\ Release(q) /\ slot[q] = "none"
      BY <2>3 DEF Complete, Expire, Abort, Live, SlotsOfEnded, Ended
    <3>2. CASE Complete(q) \/ Abort(q)
      <4>1. mTimedOut' = mTimedOut /\ Late' = Late
        BY <3>1, <3>2 DEF Complete, Abort, Late, Respond
      <4>2. QED
        BY <3>1, <4>1, ReleaseCounts
    <3>3. CASE Expire(q)
      <4>1. /\ mTimedOut' = mTimedOut + 1
            /\ IF q \in WantsReply THEN q \notin Late /\ Late' = Late \cup {q} ELSE Late' = Late
        BY <3>1, <3>3 DEF Expire, Late, Respond
      <4>2. QED
        BY <3>1, <4>1, ReleaseCounts
    <3>4. QED
      BY <2>3, <3>2, <3>3
  <2>4. ASSUME NEW ns \in Nanos, SetConnectionTimeout(q, ns) PROVE TotalsTrue'
    BY <2>4, TotalsKept DEF SetConnectionTimeout, requestVars, limiterVars, Finished, TurnedAway, Late, Mute
  <2>5. QED
    BY <1>2, <2>1, <2>2, <2>3, <2>4 DEF RequestStep
<1>3. CASE ControlStep
  <2>1. UNCHANGED <<mCompleted, mRejected, mTimedOut>>
    BY <1>3 DEF ControlStep, Cancel, CancelId, CancelKeys, CancelAll, CloseSession
  <2>2. QED
    BY <1>3, <2>1, ControlMove, TotalsKept DEF Finished, TurnedAway, Late, Mute
<1>4. CASE UNCHANGED vars
  BY <1>4, TotalsKept DEF vars, requestVars, limiterVars, Finished, TurnedAway, Late, Mute
<1>5. QED
  BY <1>1, <1>2, <1>3, <1>4 DEF Next

----------------------------------------------------------------------------
(* mCanceled and the stops. *)

LEMMA StoppedFinite ==
  ASSUME LimiterInv
  PROVE  IsFiniteSet(StoppedByHandle) /\ Cardinality(StoppedByHandle) \in Nat
<1>1. StoppedByHandle \subseteq Request
  BY DEF StoppedByHandle, LimiterInv, TypeOK
<1>2. QED
  BY <1>1, FS_Subset, FS_CardinalityType, DispatcherAssumption

(* Each handle stopped was found under a key of its own. *)
LEMMA HandlesCounted ==
  ASSUME LimiterInv, NEW K \in SUBSET Key
  PROVE  /\ IsFiniteSet(Handles(K))
         /\ Cardinality(Handles(K)) \in Nat /\ Cardinality(Registered(K)) \in Nat
         /\ Cardinality(Handles(K)) <= Cardinality(Registered(K))
<1> DEFINE f == [k \in Registered(K) |-> mCancelHandles[k]]
<1>1. IsFiniteSet(Registered(K))
  <2>1. IsFiniteSet(Key)
    BY FS_Product, DispatcherAssumption DEF Key
  <2>2. QED
    BY <2>1, FS_Subset DEF Registered
<1>2. f \in Surjection(Registered(K), Handles(K))
  BY DEF Surjection, Registered, Handles
<1>3. IsFiniteSet(Handles(K)) /\ Cardinality(Handles(K)) <= Cardinality(Registered(K))
  BY <1>1, <1>2, FS_Surjection
<1>4. QED
  BY <1>1, <1>3, FS_CardinalityType

LEMMA CancelCounts ==
  ASSUME LimiterInv, LimiterInv', Cardinality(StoppedByHandle) <= mCanceled, NEW K \in SUBSET Key,
         StoppedByHandle' \subseteq StoppedByHandle \cup Handles(K),
         mCanceled' = mCanceled + Cardinality(Registered(K))
  PROVE  Cardinality(StoppedByHandle)' <= mCanceled'
<1> DEFINE S == StoppedByHandle
           T == StoppedByHandle'
           H == Handles(K)
<1>1. IsFiniteSet(S) /\ Cardinality(S) \in Nat /\ IsFiniteSet(H) /\ Cardinality(H) \in Nat
  BY StoppedFinite, HandlesCounted
<1>2. /\ IsFiniteSet(S \cup H) /\ IsFiniteSet(S \cap H)
      /\ Cardinality(S \cup H) = Cardinality(S) + Cardinality(H) - Cardinality(S \cap H)
  <2>1. IsFiniteSet(S \cap H)
    BY <1>1, FS_Subset
  <2>2. QED
    BY <1>1, <2>1, FS_Union
<1>3. Cardinality(S \cup H) <= Cardinality(S) + Cardinality(H) /\ Cardinality(S \cup H) \in Nat
  BY <1>1, <1>2, FS_CardinalityType
<1>4. Cardinality(T) <= Cardinality(S \cup H) /\ Cardinality(T) \in Nat
  <2>1. T \in SUBSET (S \cup H)
    OBVIOUS
  <2>2. IsFiniteSet(T) /\ Cardinality(T) <= Cardinality(S \cup H)
    BY <1>2, <2>1, FS_Subset
  <2>3. QED
    BY <2>2, FS_CardinalityType
<1>5. Cardinality(H) <= Cardinality(Registered(K)) /\ Cardinality(Registered(K)) \in Nat
  BY HandlesCounted
<1>6. mCanceled \in Nat
  BY DEF LimiterInv, TypeOK
<1>7. QED
  BY <1>1, <1>3, <1>4, <1>5, <1>6

(* Stops that reach nobody new leave the count right. *)
LEMMA CancelKept ==
  ASSUME LimiterInv, Cardinality(StoppedByHandle) <= mCanceled,
         StoppedByHandle' \subseteq StoppedByHandle, mCanceled' = mCanceled
  PROVE  Cardinality(StoppedByHandle)' <= mCanceled'
<1>1. Cardinality(StoppedByHandle') <= Cardinality(StoppedByHandle) /\ IsFiniteSet(StoppedByHandle')
  BY StoppedFinite, FS_Subset
<1>2. Cardinality(StoppedByHandle') \in Nat /\ mCanceled \in Nat
  BY <1>1, FS_CardinalityType DEF LimiterInv, TypeOK
<1>3. QED
  BY <1>1, <1>2, StoppedFinite

LEMMA CancelMessageStep ==
  ASSUME AnswerInv, AnswerInv', CancelInv, NEW m \in Message, MessageStep(m)
  PROVE  CancelInv'
<1> USE DispatcherAssumption DEF AnswerInv, LimiterInv, TypeOK
<1>1. mCanceled' = mCanceled
  BY DEF MessageStep, Begin, AwaitAll, Finish, EndStopped, AbandonCall, limiterVars
<1>2. \A n \in Message \ {m} : msg'[n] = msg[n]
  BY MessageMove
<1>3. CASE Finish(m)
  <2>1. stop' = stop /\ phase' = phase /\ msg[m] = "waiting" /\ msg'[m] \in Answering
        /\ \A r \in Request : MsgOf[r] = m => phase[r] \in Ended
    BY <1>3 DEF Finish, Answering, RequestsOf
  <2>2. \A r \in Request :
          slot'[r] = IF MsgOf[r] = m /\ r \in WantsReply /\ slot[r] = "none" THEN "Canceled" ELSE slot[r]
    BY <1>3 DEF Finish, Fill
  <2>3. StoppedByHandle' = StoppedByHandle
    BY <1>2, <2>1 DEF StoppedByHandle, Answering
  <2>4. EndedUnanswered'
    BY <2>1, <2>2 DEF CancelInv, EndedUnanswered
  <2>5. ToldWereStopped'
    BY <1>2, <2>1, <2>2 DEF CancelInv, ToldWereStopped, EndedUnanswered
  <2>6. QED
    BY <1>1, <2>3, <2>4, <2>5 DEF CancelInv
<1>4. CASE ~Finish(m)
  <2>1. /\ slot' = slot /\ msg[m] \notin Answering
        /\ \A r \in Request : phase'[r] = phase[r] \/ (phase[r] = "new" /\ phase'[r] = "decoded")
    BY <1>4 DEF MessageStep, Begin, AwaitAll, EndStopped, AbandonCall, requestVars, Answering,
                EntryInv, NewUntouched
  <2>2. stop \subseteq stop' /\ StoppedByHandle' \subseteq StoppedByHandle
    <3>1. CASE AbandonCall(m)
      <4>1. msg'[m] = "stopping" /\ \A r \in stop' \ stop : MsgOf[r] = m
        BY <3>1 DEF AbandonCall, StopTasks, RequestsOf
      <4>2. QED
        BY <1>2, <3>1, <4>1 DEF StoppedByHandle, AbandonCall, StopTasks
    <3>2. CASE ~AbandonCall(m)
      <4>1. stop' = stop /\ (msg[m] \in {"stopping", "stopped"} => msg'[m] \in {"stopping", "stopped"})
        BY <1>4, <3>2 DEF MessageStep, Begin, AwaitAll, EndStopped, requestVars
      <4>2. QED
        BY <1>2, <4>1 DEF StoppedByHandle
    <3>3. QED
      BY <3>1, <3>2
  <2>3. EndedUnanswered'
    BY <2>1, <2>2 DEF CancelInv, EndedUnanswered, Ended
  <2>4. ToldWereStopped'
    BY <1>2, <2>1, <2>2 DEF CancelInv, ToldWereStopped
  <2>5. QED
    BY <1>1, <2>2, <2>3, <2>4, CancelKept DEF CancelInv
<1>5. QED
  BY <1>3, <1>4

LEMMA CancelRequestStep ==
  ASSUME AnswerInv, CancelInv, NEW q \in Request, RequestStep(q)
  PROVE  CancelInv'
<1> USE DispatcherAssumption DEF AnswerInv, LimiterInv, TypeOK
<1>1. stop' = stop /\ msg' = msg /\ mCanceled' = mCanceled
  BY DEF RequestStep, RefuseUnknown, RefuseOverloaded, Refuse, Admit, Start, Complete, Expire, Abort,
         Release, SetConnectionTimeout, requestVars, limiterVars
<1>2. slot'[q] # "Canceled" /\ (q \in WantsReply /\ phase'[q] \in Ended /\ slot'[q] = "none" => q \in stop)
  <2>1. slot[q] = "none" /\ phase[q] \notin Ended
    BY RequestMove DEF SlotsOfEnded, Ended
  <2>2. CASE RefuseUnknown(q) \/ RefuseOverloaded(q)
    BY <2>2 DEF RefuseUnknown, RefuseOverloaded, Refuse, Respond
  <2>3. CASE Admit(q)
    BY <2>1, <2>3 DEF Admit, Ended
  <2>4. CASE Start(q)
    BY <2>1, <2>4 DEF Start, Ended
  <2>5. CASE Complete(q) \/ Expire(q)
    BY <2>5 DEF Complete, Expire, Respond
  <2>6. CASE Abort(q)
    BY <2>1, <2>6 DEF Abort
  <2>7. ASSUME NEW ns \in Nanos, SetConnectionTimeout(q, ns) PROVE slot' = slot /\ phase' = phase
    BY <2>7 DEF SetConnectionTimeout, requestVars
  <2>8. QED
    BY <2>1, <2>2, <2>3, <2>4, <2>5, <2>6, <2>7 DEF RequestStep
<1>3. \A r \in Request \ {q} : phase'[r] = phase[r] /\ slot'[r] = slot[r]
  BY RequestMove
<1>4. EndedUnanswered'
  BY <1>1, <1>2, <1>3 DEF CancelInv, EndedUnanswered
<1>5. ToldWereStopped'
  BY <1>1, <1>2, <1>3 DEF CancelInv, ToldWereStopped
<1>6. StoppedByHandle' = StoppedByHandle
  BY <1>1 DEF StoppedByHandle
<1>7. QED
  BY <1>1, <1>4, <1>5, <1>6 DEF CancelInv

LEMMA CancelControlStep ==
  ASSUME AnswerInv, AnswerInv', CancelInv, ControlStep
  PROVE  CancelInv'
<1> USE DispatcherAssumption DEF AnswerInv, LimiterInv, TypeOK, StopTasks
<1>1. phase' = phase /\ slot' = slot /\ stop \subseteq stop'
  BY ControlMove
<1>2. /\ \A m \in Message : msg[m] \in Answering => msg'[m] = msg[m]
      /\ Cardinality(StoppedByHandle)' <= mCanceled'
  <2>1. ASSUME NEW K \in SUBSET Key, CancelKeys(K)
        PROVE  msg' = msg /\ Cardinality(StoppedByHandle)' <= mCanceled'
    <3>1. msg' = msg /\ stop' \subseteq stop \cup Handles(K)
          /\ mCanceled' = mCanceled + Cardinality(Registered(K))
      BY <2>1 DEF CancelKeys
    <3>2. StoppedByHandle' \subseteq StoppedByHandle \cup Handles(K)
      BY <3>1 DEF StoppedByHandle
    <3>3. QED
      BY <3>1, <3>2, CancelCounts DEF CancelInv
  <2>2. CASE CancelAll
    <3>1. msg' = msg /\ stop' \subseteq stop \cup Handles(Key)
          /\ mCanceled' = mCanceled + Cardinality(Registered(Key))
      BY <2>2 DEF CancelAll
    <3>2. StoppedByHandle' \subseteq StoppedByHandle \cup Handles(Key)
      BY <3>1 DEF StoppedByHandle
    <3>3. QED
      BY <3>1, <3>2, CancelCounts DEF CancelInv
  <2>3. ASSUME NEW s \in Session, CloseSession(s)
        PROVE  /\ \A m \in Message : msg[m] \in Answering => msg'[m] = msg[m]
               /\ Cardinality(StoppedByHandle)' <= mCanceled'
    <3> DEFINE keys == {s} \X Id
    <3>1. keys \in SUBSET Key
      BY DEF Key
    <3>2. /\ \A m \in Message : msg'[m] = IF m \notin MessagesOf(s) THEN msg[m]
                                          ELSE IF msg[m] = "new" THEN "stopped"
                                          ELSE IF msg[m] = "waiting" THEN "stopping" ELSE msg[m]
          /\ \A m \in Message : msg[m] # "dispatching"
          /\ mCanceled' = mCanceled + Cardinality(Registered(keys))
      BY <2>3 DEF CloseSession, Idle
    <3>3. ASSUME NEW r \in stop', r \notin stop, r \notin Handles(keys)
          PROVE  r \in Request /\ r \in Live /\ MsgOf[r] \in MessagesOf(s)
      BY <2>3, <3>3 DEF CloseSession, Live
    <3>4. ASSUME NEW r \in Live, MsgOf[r] \in MessagesOf(s)
          PROVE  msg'[MsgOf[r]] \in {"stopping", "stopped"}
      <4>1. r \in Request /\ MsgOf[r] \in Message /\ phase[r] \notin Ended
        BY DEF Live, Ended
      <4>2. msg[MsgOf[r]] \notin Answering
        BY <4>1 DEF AnsweredEnded
      <4>3. QED
        BY <3>2, <3>4, <4>1, <4>2 DEF Answering, MsgStatus
    <3>5. StoppedByHandle' \subseteq StoppedByHandle \cup Handles(keys)
      <4> SUFFICES ASSUME NEW r \in stop', msg'[MsgOf[r]] \notin {"stopping", "stopped"}
                   PROVE  r \in StoppedByHandle \cup Handles(keys)
        BY DEF StoppedByHandle
      <4>1. CASE r \in stop
        <5>1. MsgOf[r] \in Message
          BY <4>1
        <5>2. msg[MsgOf[r]] \notin {"stopping", "stopped"}
          BY <3>2, <5>1
        <5>3. QED
          BY <4>1, <5>2 DEF StoppedByHandle
      <4>2. CASE r \notin stop
        BY <3>3, <3>4, <4>2
      <4>3. QED
        BY <4>1, <4>2
    <3>6. \A m \in Message : msg[m] \in Answering => msg'[m] = msg[m]
      BY <3>2 DEF Answering
    <3>7. QED
      BY <3>1, <3>2, <3>5, <3>6, CancelCounts DEF CancelInv
  <2>4. (\A id \in Id : Session \X {id} \in SUBSET Key)
        /\ \A s \in Session, id \in Id : {<<s, id>>} \in SUBSET Key
    BY DEF Key
  <2>5. QED
    BY <2>1, <2>2, <2>3, <2>4 DEF ControlStep, Cancel, CancelId
<1>3. EndedUnanswered'
  BY <1>1 DEF CancelInv, EndedUnanswered
<1>4. ToldWereStopped'
  BY <1>1, <1>2 DEF CancelInv, ToldWereStopped
<1>5. QED
  BY <1>2, <1>3, <1>4 DEF CancelInv

(* Whatever rpc.set_connection_timeout sets, no request runs beyond        *)
(* request_timeout; the counters of metrics() count each completed,        *)
(* refused and late request, and nobody is told Canceled uncounted.        *)
THEOREM LimitsAndCountersHold == Spec => []LimitsAndCounters
<1> DEFINE Inv == AnswerInv /\ LimitsTighten /\ TotalsTrue /\ CancelInv
<1>1. Init => Inv
  <2> SUFFICES ASSUME Init PROVE Inv
    OBVIOUS
  <2>1. AnswerInv
    BY AnswerInvInit
  <2>2. LimitsTighten
    BY DEF Init, LimitsTighten, Live
  <2>3. Finished = {} /\ TurnedAway = {} /\ Late = {} /\ Mute = {} /\ StoppedByHandle = {}
    BY DispatcherAssumption DEF Init, Finished, TurnedAway, Late, Mute, StoppedByHandle
  <2>4. Cardinality({}) = 0
    BY FS_EmptySet
  <2>5. TotalsTrue
    BY <2>3, <2>4 DEF Init, TotalsTrue
  <2>6. EndedUnanswered /\ ToldWereStopped
    BY DispatcherAssumption DEF Init, EndedUnanswered, ToldWereStopped, Ended
  <2>7. CancelInv
    BY <2>3, <2>4, <2>6 DEF Init, CancelInv
  <2>8. QED
    BY <2>1, <2>2, <2>5, <2>7
<1>2. Inv /\ [Next]_vars => Inv'
  <2> SUFFICES ASSUME Inv, [Next]_vars PROVE Inv'
    OBVIOUS
  <2>1. AnswerInv /\ AnswerInv' /\ LimiterInv /\ SlotsOfEnded
    BY AnswerInvStep DEF AnswerInv
  <2>2. LimitsTighten' /\ TotalsTrue'
    BY <2>1, LimitsStep, TotalsStep
  <2>3. CancelInv'
    <3>1. CASE UNCHANGED vars
      BY <3>1 DEF vars, requestVars, limiterVars, CancelInv, EndedUnanswered, ToldWereStopped,
                  StoppedByHandle
    <3>2. QED
      BY <2>1, <3>1, CancelMessageStep, CancelRequestStep, CancelControlStep DEF Next
  <2>4. QED
    BY <2>1, <2>2, <2>3
<1>3. Inv => LimitsAndCounters
  <2> SUFFICES ASSUME Inv PROVE LimitsAndCounters
    OBVIOUS
  <2> DEFINE Told == {r \in Request : slot[r] = "Canceled"}
  <2>1. Told \in SUBSET StoppedByHandle
    BY DEF CancelInv, ToldWereStopped, StoppedByHandle, Answering
  <2>2. LimiterInv
    BY DEF AnswerInv
  <2>3. IsFiniteSet(Told) /\ Cardinality(Told) <= Cardinality(StoppedByHandle)
    BY <2>1, <2>2, StoppedFinite, FS_Subset
  <2>4. Cardinality(Told) \in Nat /\ mCanceled \in Nat
    BY <2>2, <2>3, FS_CardinalityType DEF LimiterInv, TypeOK
  <2>5. Cardinality(Told) <= mCanceled
    BY <2>2, <2>3, <2>4, StoppedFinite DEF CancelInv
  <2>6. QED
    BY <2>5 DEF LimitsAndCounters, CountersTruthful, TotalsTrue, Finished, TurnedAway, Late, Mute
<1>4. QED
  BY <1>1, <1>2, <1>3, PTL DEF Spec
============================================================================
