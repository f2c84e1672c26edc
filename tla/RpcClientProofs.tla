-------------------------- MODULE RpcClientProofs --------------------------
(***************************************************************************)
(* Proofs about RpcClient, for every set of calls, notifications and       *)
(* endpoints and every limit on pending calls.                             *)
(***************************************************************************)
EXTENDS RpcClient, FiniteSetTheorems, TLAPS

Requests == Call \ Notify

----------------------------------------------------------------------------
(* The readers of a stream.  These parts do not depend on the ids.         *)

(* A call that talks works on an endpoint, and an endpoint in use, or once *)
(* used, is not the fresh one a setEndpoint installs.                      *)
EndpointsUsed ==
  /\ mEndpoint # None => link[mEndpoint] # "unused"
  /\ \A c \in Call : /\ ep[c] # None => link[ep[c]] # "unused"
                     /\ pc[c] \notin {"idle", "ended"} => ep[c] # None

(* Session negotiation happens under mProtocolMutex. *)
Negotiating(c) == pc[c] \in {"helloLock", "hello"}
ProtocolHeld == \A c \in Call : Negotiating(c) => mProtocolMutex = c

(* A reset still to be done was asked for after the negotiating call locked *)
(* mProtocolMutex: the endpoint of that call is no longer the current one. *)
ResetStale ==
  mResetPeerSession => \A c \in Call : Negotiating(c) => mEndpoint # ep[c]

(* mReceiverStarted is true: the loop runs, and on the current endpoint. *)
StartedRuns ==
  mReceiverStarted => mEndpoint # None /\ receiver[mEndpoint] = "running"

(* A receive loop runs only on a session that was negotiated and that no   *)
(* reset makes stale; a hello is under way only while there is none.       *)
RunningNegotiated ==
  \A e \in Endpoint : receiver[e] = "running" => peer # None /\ ~mResetPeerSession
HelloUnknown == \A c \in Call : pc[c] = "hello" => peer = None

ReaderInv ==
  /\ EndpointsUsed /\ ProtocolHeld /\ ResetStale
  /\ OneReceiver /\ StartedRuns /\ RunningNegotiated /\ HelloUnknown

----------------------------------------------------------------------------
(* The ids.                                                                *)

(* Only a request that was encoded has an id, and only requests wait. *)
Encoded == {c \in Requests : pc[c] \notin {"idle", "protocol", "helloLock", "hello"}}
OnlyRequestsWait ==
  /\ \A c \in Call : pc[c] \in {"waiting", "recover"} => c \notin Notify
  /\ \A c \in Call : Guarded(c) => id[c] # 0
  /\ retried \subseteq Encoded
  /\ (RetryOnce \/ retried = {})

(* As many ids were taken as requests were encoded, first or again. *)
IdsCounted == nextId <= Cardinality(Encoded) + Cardinality(retried)

(* An id belongs to one call: those in use, on the wire, or named by a     *)
(* Cancel frame were taken before, so the next one is new.                 *)
IdsUnique ==
  /\ \A c \in Call : id[c] <= nextId
  /\ \A c, d \in Call : id[c] = id[d] /\ id[c] # 0 => c = d
  /\ \A e \in Endpoint : \A x \in wire[e] :
       x[1] <= nextId /\ \A c \in Call : id[c] = x[1] => c = x[2]
  /\ \A x \in cancels : x[2] <= nextId

(* NoLostCall, already from the insertion of the entry on. *)
NeverLost ==
  \A c \in Call : Guarded(c) => inbox[c] # "empty" \/ mPending[id[c]] = c

(* Without a retry, which works on whatever endpoint its call had, what is  *)
(* registered is served.                                                   *)
PendingServed ==
  \A i \in Pending : mPending[i] \notin retried => receiver[ep[mPending[i]]] = "running"

IdInv == OnlyRequestsWait /\ IdsCounted
CallInv ==
  /\ IdsUnique /\ PendingLive /\ NeverLost /\ CancelNamesNoLiveCall /\ OwnAnswer
  /\ PendingServed

ClientInv == TypeOK /\ ReaderInv /\ IdInv /\ CallInv

(* The ids do not run out: every request is encoded once, and once more if *)
(* it may be retried.                                                      *)
IdsSuffice ==
  (IF RetryOnce THEN 2 ELSE 1) * Cardinality(Requests) <= IdMax

----------------------------------------------------------------------------
(* Type correctness. *)

USE DEF Guarded, Negotiating

LEMMA FreshIdType == TypeOK => FreshId \in Id
BY ClientAssumption DEF TypeOK, FreshId, Id

LEMMA EndTypes ==
  ASSUME TypeOK, NEW c \in Call, NEW r \in Result, End(c, r)
  PROVE  /\ pc' \in [Call -> CallState] /\ result' \in [Call -> Result]
         /\ mProtocolMutex' \in Call \cup {None}
         /\ mSendMutex' \in Call \cup {None, "shutdown"}
BY DEF TypeOK, End, CallState

LEMMA RegisterTypes ==
  ASSUME TypeOK, NEW c \in Call, NEW s \in Endpoint \cup {None}, Register(c, s)
  PROVE  /\ pc' \in [Call -> CallState] /\ result' \in [Call -> Result]
         /\ mProtocolMutex' \in Call \cup {None}
         /\ mSendMutex' \in Call \cup {None, "shutdown"}
         /\ ep' = ep /\ from' = from
         /\ encodedFor' \in [Call -> Endpoint \cup {None}]
         /\ id' \in [Call -> 0 .. IdMax]
         /\ inbox' \in [Call -> Inbox]
         /\ mPending' \in [Id -> Call \cup {None}]
         /\ nextId' \in 0 .. IdMax
<1> USE DEF TypeOK
<1>1. FreshId \in Id /\ Id \subseteq 0 .. IdMax
  BY FreshIdType, ClientAssumption DEF Id
<1>2. CASE c \in Notify
  BY <1>2 DEF Register, CallState
<1>3. CASE c \notin Notify /\ (PendingFull \/ mPending[FreshId] # None)
  BY <1>1, <1>3, EndTypes DEF Register, Result
<1>4. CASE c \notin Notify /\ ~(PendingFull \/ mPending[FreshId] # None)
  BY <1>1, <1>4 DEF Register, CallState, Inbox
<1>5. QED
  BY <1>2, <1>3, <1>4

LEMMA ReadyTypes ==
  ASSUME TypeOK, NEW c \in Call, NEW s \in Endpoint, ep[c] # None, Ready(c, s)
  PROVE  /\ pc' \in [Call -> CallState] /\ result' \in [Call -> Result]
         /\ mProtocolMutex' \in Call \cup {None}
         /\ mSendMutex' \in Call \cup {None, "shutdown"}
         /\ ep' = ep /\ from' = from
         /\ encodedFor' \in [Call -> Endpoint \cup {None}]
         /\ id' \in [Call -> 0 .. IdMax]
         /\ inbox' \in [Call -> Inbox]
         /\ mPending' \in [Id -> Call \cup {None}]
         /\ nextId' \in 0 .. IdMax
         /\ mReceiverStarted' \in BOOLEAN
         /\ receiver' \in [Endpoint -> {"none", "running", "ended"}]
<1>1. CASE mEndpoint # ep[c] \/ ~mReceiverScope
  BY <1>1, EndTypes DEF TypeOK, Ready, Result
<1>2. CASE ~(mEndpoint # ep[c] \/ ~mReceiverScope)
  <2>1. Register(c, s) /\ mReceiverStarted' = TRUE
    BY <1>2 DEF Ready
  <2>2. receiver' \in [Endpoint -> {"none", "running", "ended"}]
    BY <1>2 DEF TypeOK, Ready
  <2>3. QED
    BY <2>1, <2>2, RegisterTypes
<1>3. QED
  BY <1>1, <1>2

LEMMA AbandonTypes ==
  ASSUME TypeOK, OnlyRequestsWait, NEW c \in Call, Abandon(c)
  PROVE  mPending' \in [Id -> Call \cup {None}] /\ cancels' \subseteq Endpoint \X Id
<1>1. CASE Guarded(c)
  <2>1. id[c] \in Id
    BY <1>1, ClientAssumption DEF OnlyRequestsWait, TypeOK, Id
  <2>2. mEndpoint # None => <<mEndpoint, id[c]>> \in Endpoint \X Id
    BY <2>1 DEF TypeOK
  <2>3. QED
    BY <1>1, <2>1, <2>2 DEF Abandon, TypeOK
<1>2. CASE ~Guarded(c)
  BY <1>2 DEF Abandon, TypeOK
<1>3. QED
  BY <1>1, <1>2

LEMMA FailAllTypes ==
  ASSUME TypeOK, FailAll
  PROVE  mPending' \in [Id -> Call \cup {None}] /\ inbox' \in [Call -> Inbox]
BY DEF TypeOK, FailAll, Inbox

LEMMA CallTypeStep ==
  ASSUME TypeOK, OnlyRequestsWait, EndpointsUsed, NEW c \in Call, CallStep(c) \/ GiveUp(c)
  PROVE  TypeOK'
<1> USE ClientAssumption DEF TypeOK, callVars, stateVars, netVars
<1>1. CASE Begin(c)
  <2>1. CASE mEndpoint = None \/ (mEndpoint # None /\ c \notin Notify /\ PendingFull)
    BY <1>1, <2>1, EndTypes DEF Begin, Result
  <2>2. CASE mEndpoint # None /\ ~(c \notin Notify /\ PendingFull)
    BY <1>1, <2>2 DEF Begin, CallState
  <2>3. QED
    BY <2>1, <2>2
<1>2. CASE LockProtocol(c)
  BY <1>2 DEF LockProtocol, CallState
<1>3. CASE LockHello(c)
  <2>1. CASE peer # None
    BY <1>3, <2>1, ReadyTypes DEF LockHello, EndpointsUsed
  <2>2. CASE peer = None
    BY <1>3, <2>2 DEF LockHello, CallState
  <2>3. QED
    BY <2>1, <2>2
<1>4. CASE HelloAccepted(c)
  <2>1. ep[c] \in Endpoint
    BY <1>4 DEF HelloAccepted, EndpointsUsed
  <2>2. QED
    BY <1>4, <2>1, ReadyTypes DEF HelloAccepted
<1>5. CASE HelloFailed(c)
  BY <1>5, EndTypes DEF HelloFailed, Result
<1>6. CASE LockSend(c)
  BY <1>6 DEF LockSend, CallState
<1>7. CASE Sent(c)
  <2>1. CASE c \in Notify
    BY <1>7, <2>1, EndTypes DEF Sent, Result
  <2>2. CASE c \notin Notify
    <3>1. id[c] \in Id
      BY <1>7, <2>2 DEF Sent, OnlyRequestsWait, Id
    <3>2. wire' \in [Endpoint -> SUBSET (Id \X Call)]
      BY <1>7, <2>2, <3>1 DEF Sent
    <3>3. QED
      BY <1>7, <2>2, <3>2 DEF Sent, CallState
  <2>3. QED
    BY <2>1, <2>2
<1>8. CASE SendFailed(c)
  BY <1>8, EndTypes, AbandonTypes DEF SendFailed, Result
<1>9. CASE Resume(c)
  <2>1. CASE inbox[c] = "failed" /\ End(c, "error") /\ Abandon(c)
    BY <1>9, <2>1, EndTypes, AbandonTypes DEF Resume, Result
  <2>2. CASE inbox[c] = "ok" /\ End(c, "ok") /\ UNCHANGED <<mPending, cancels>>
    BY <1>9, <2>2, EndTypes DEF Resume, Result
  <2>3. CASE /\ pc' = [pc EXCEPT ![c] = "recover"]
             /\ UNCHANGED <<result, mProtocolMutex, mSendMutex, mPending, cancels>>
    BY <1>9, <2>3 DEF Resume, CallState
  <2>4. QED
    BY <1>9, <2>1, <2>2, <2>3 DEF Resume
<1>10. CASE Recover(c)
  <2>1. CASE retried' = retried \cup {c} /\ Register(c, peer)
    BY <1>10, <2>1, RegisterTypes DEF Recover
  <2>2. CASE /\ End(c, "error")
             /\ UNCHANGED <<ep, id, retried, inbox, from, encodedFor, mPending, nextId>>
    BY <1>10, <2>2, EndTypes DEF Recover, Result
  <2>3. QED
    BY <1>10, <2>1, <2>2 DEF Recover
<1>11. CASE GiveUp(c)
  <2>1. misaligned' \subseteq Endpoint
    BY <1>11 DEF GiveUp, EndpointsUsed
  <2>2. QED
    BY <1>11, <2>1, EndTypes, AbandonTypes DEF GiveUp, Result
<1>12. QED
  BY <1>1, <1>2, <1>3, <1>4, <1>5, <1>6, <1>7, <1>8, <1>9, <1>10, <1>11 DEF CallStep

(* What the receive loop, the peer and the application do. *)
OtherStep ==
  \/ \E e \in Endpoint : LoopStep(e) \/ PeerCloses(e) \/ SetEndpoint(e)
  \/ Close \/ BeginShutdown \/ LockShutdown \/ EndShutdown
  \/ \E i \in Id : CancelRemote(i)

LEMMA OtherTypeStep ==
  ASSUME TypeOK, OtherStep
  PROVE  TypeOK'
<1> USE ClientAssumption DEF TypeOK, callVars, stateVars, netVars
<1>1. ASSUME NEW e \in Endpoint, NEW i \in Id, NEW c \in Call, NEW kind \in {"ok", "error"},
             Receive(e, i, c, kind)
      PROVE  TypeOK'
  <2>1. CASE mPending[i] = None
    BY <1>1, <2>1 DEF Receive
  <2>2. CASE mPending[i] # None
    BY <1>1, <2>2 DEF Receive, Inbox
  <2>3. QED
    BY <2>1, <2>2
<1>2. ASSUME NEW e \in Endpoint, Disconnect(e) PROVE TypeOK'
  <2>1. link' \in [Endpoint -> {"unused", "open", "eof", "closed"}]
    BY <1>2 DEF Disconnect
  <2>2. mEndpoint' \in Endpoint \cup {None} /\ mReceiverStarted' \in BOOLEAN
    BY <1>2 DEF Disconnect
  <2>3. mPending' \in [Id -> Call \cup {None}] /\ inbox' \in [Call -> Inbox]
    BY <1>2, FailAllTypes DEF Disconnect
  <2>4. QED
    BY <1>2, <2>1, <2>2, <2>3 DEF Disconnect
<1>3. ASSUME NEW e \in Endpoint, NEW i \in Id, SendCancel(e, i) PROVE TypeOK'
  BY <1>3 DEF SendCancel
<1>4. ASSUME NEW e \in Endpoint, PeerCloses(e) PROVE TypeOK'
  BY <1>4 DEF PeerCloses
<1>5. ASSUME NEW next \in Endpoint \cup {None}, Install(next) PROVE TypeOK'
  BY <1>5, FailAllTypes DEF Install, StopScope
<1>6. CASE BeginShutdown \/ LockShutdown
  BY <1>6 DEF BeginShutdown, LockShutdown
<1>7. CASE EndShutdown
  BY <1>7, FailAllTypes DEF EndShutdown, StopScope
<1>8. ASSUME NEW i \in Id, CancelRemote(i) PROVE TypeOK'
  BY <1>8 DEF CancelRemote, Inbox
<1>9. QED
  BY <1>1, <1>2, <1>3, <1>4, <1>5, <1>6, <1>7, <1>8
     DEF OtherStep, LoopStep, SetEndpoint, Close
----------------------------------------------------------------------------
(* The readers of a stream. *)

LEMMA ReaderInit == Init => ReaderInv
BY ClientAssumption
   DEF Init, ReaderInv, EndpointsUsed, ProtocolHeld, ResetStale, OneReceiver, StartedRuns,
       RunningNegotiated, HelloUnknown

(* A step of c, after which c does not negotiate, and by which no other    *)
(* call loses mProtocolMutex.                                              *)
Leaves(c) ==
  /\ \A d \in Call : Negotiating(d)' => d # c /\ Negotiating(d) /\ pc'[d] = pc[d]
  /\ \A d \in Call \ {c} : pc'[d] = pc[d]
  /\ mProtocolMutex # c => mProtocolMutex' = mProtocolMutex

LEMMA EndLeaves ==
  ASSUME TypeOK, NEW c \in Call, NEW r, End(c, r)
  PROVE  Leaves(c) /\ pc'[c] = "ended"
BY DEF TypeOK, End, Leaves

LEMMA RegisterLeaves ==
  ASSUME TypeOK, NEW c \in Call, NEW s, Register(c, s)
  PROVE  Leaves(c) /\ pc'[c] \in {"sendLock", "ended"}
<1>1. CASE c \in Notify
  BY <1>1 DEF TypeOK, Register, Leaves
<1>2. CASE c \notin Notify /\ (PendingFull \/ mPending[FreshId] # None)
  BY <1>2, EndLeaves DEF Register
<1>3. CASE c \notin Notify /\ ~(PendingFull \/ mPending[FreshId] # None)
  BY <1>3 DEF TypeOK, Register, Leaves
<1>4. QED
  BY <1>1, <1>2, <1>3

LEMMA LeavesKeepsReaders ==
  ASSUME TypeOK, ReaderInv, NEW c \in Call, Leaves(c), ep[c] # None \/ pc'[c] = "ended",
         UNCHANGED <<ep, mEndpoint, mReceiverStarted, mResetPeerSession, peer, link, receiver>>
  PROVE  ReaderInv'
BY DEF TypeOK, Leaves, ReaderInv, EndpointsUsed, ProtocolHeld, ResetStale, OneReceiver,
       StartedRuns, RunningNegotiated, HelloUnknown

(* _ensureReceiver starts the loop only on the endpoint the session was    *)
(* negotiated for, which no reset can concern.                             *)
LEMMA ReadyKeepsReaders ==
  ASSUME TypeOK, ReaderInv, NEW c \in Call, NEW s \in Endpoint, Negotiating(c), Ready(c, s),
         peer' = s, UNCHANGED <<ep, mEndpoint, mResetPeerSession, link>>
  PROVE  ReaderInv'
<1> USE ClientAssumption DEF TypeOK
<1>1. Leaves(c) /\ pc'[c] \in {"sendLock", "ended"}
  BY EndLeaves, RegisterLeaves DEF Ready
<1>2. ep[c] \in Endpoint /\ mProtocolMutex = c /\ (mResetPeerSession => mEndpoint # ep[c])
  BY DEF ReaderInv, EndpointsUsed, ProtocolHeld, ResetStale
<1>3. \A d \in Call : ~Negotiating(d)'
  BY <1>1, <1>2 DEF ReaderInv, ProtocolHeld, Leaves
<1>4. EndpointsUsed' /\ ProtocolHeld' /\ ResetStale' /\ HelloUnknown'
  <2>1. \A d \in Call : pc'[d] \notin {"idle", "ended"} => ep[d] # None
    BY <1>1, <1>2 DEF Leaves, ReaderInv, EndpointsUsed
  <2>2. QED
    BY <1>3, <2>1 DEF ReaderInv, EndpointsUsed, ProtocolHeld, ResetStale, HelloUnknown
<1>5. OneReceiver' /\ StartedRuns' /\ RunningNegotiated'
  <2>1. CASE mEndpoint # ep[c] \/ ~mReceiverScope
    BY <2>1 DEF Ready, ReaderInv, OneReceiver, StartedRuns, RunningNegotiated
  <2>2. CASE ~(mEndpoint # ep[c] \/ ~mReceiverScope)
    <3>1. mEndpoint \in Endpoint /\ ~mResetPeerSession /\ mReceiverStarted'
          /\ receiver' = IF mReceiverStarted THEN receiver
                         ELSE [receiver EXCEPT ![mEndpoint] = "running"]
      BY <1>2, <2>2 DEF Ready
    <3>2. QED
      BY <3>1 DEF ReaderInv, OneReceiver, StartedRuns, RunningNegotiated
  <2>3. QED
    BY <2>1, <2>2
<1>6. QED
  BY <1>4, <1>5 DEF ReaderInv

LEMMA CallReaderStep ==
  ASSUME TypeOK, ReaderInv, NEW c \in Call, CallStep(c) \/ GiveUp(c)
  PROVE  ReaderInv'
<1> USE ClientAssumption DEF TypeOK, callVars, stateVars, netVars
<1>1. CASE Begin(c)
  <2>1. CASE mEndpoint = None \/ (mEndpoint # None /\ c \notin Notify /\ PendingFull)
    <3>1. Leaves(c) /\ pc'[c] = "ended"
      BY <1>1, <2>1, EndLeaves DEF Begin
    <3>2. QED
      BY <1>1, <2>1, <3>1, LeavesKeepsReaders DEF Begin
  <2>2. CASE mEndpoint # None /\ ~(c \notin Notify /\ PendingFull)
    BY <1>1, <2>2
       DEF Begin, ReaderInv, EndpointsUsed, ProtocolHeld, ResetStale, OneReceiver,
           StartedRuns, RunningNegotiated, HelloUnknown
  <2>3. QED
    BY <2>1, <2>2
<1>2. CASE LockProtocol(c)
  <2>1. \A d \in Call : ~Negotiating(d) /\ (Negotiating(d)' => d = c)
    BY <1>2 DEF LockProtocol, ReaderInv, ProtocolHeld
  <2>2. EndpointsUsed' /\ ProtocolHeld' /\ ResetStale' /\ HelloUnknown'
    BY <1>2, <2>1
       DEF LockProtocol, ReaderInv, EndpointsUsed, ProtocolHeld, ResetStale, HelloUnknown
  <2>3. OneReceiver' /\ StartedRuns' /\ RunningNegotiated'
    BY <1>2 DEF LockProtocol, ReaderInv, OneReceiver, StartedRuns, RunningNegotiated
  <2>4. QED
    BY <2>2, <2>3 DEF ReaderInv
<1>3. CASE LockHello(c)
  <2>1. CASE peer # None
    BY <1>3, <2>1, ReadyKeepsReaders DEF LockHello, Ready, Register
  <2>2. CASE peer = None
    BY <1>3, <2>2
       DEF LockHello, ReaderInv, EndpointsUsed, ProtocolHeld, ResetStale, OneReceiver,
           StartedRuns, RunningNegotiated, HelloUnknown
  <2>3. QED
    BY <2>1, <2>2
<1>4. CASE HelloAccepted(c)
  <2>1. ep[c] \in Endpoint /\ ep' = ep
    BY <1>4 DEF HelloAccepted, Ready, Register, ReaderInv, EndpointsUsed
  <2>2. QED
    BY <1>4, <2>1, ReadyKeepsReaders DEF HelloAccepted
<1>5. CASE HelloFailed(c)
  <2>1. Leaves(c) /\ pc'[c] = "ended"
    BY <1>5, EndLeaves DEF HelloFailed
  <2>2. \A d \in Call : ~Negotiating(d)'
    BY <1>5, <2>1 DEF HelloFailed, Leaves, ReaderInv, ProtocolHeld
  <2>3. EndpointsUsed' /\ ProtocolHeld' /\ ResetStale' /\ HelloUnknown'
    BY <1>5, <2>1, <2>2
       DEF HelloFailed, Leaves, ReaderInv, EndpointsUsed, ProtocolHeld, ResetStale, HelloUnknown
  <2>4. OneReceiver' /\ StartedRuns' /\ RunningNegotiated'
    BY <1>5
       DEF HelloFailed, ReaderInv, OneReceiver, StartedRuns, RunningNegotiated, EndpointsUsed
  <2>5. QED
    BY <2>3, <2>4 DEF ReaderInv
<1>6. CASE LockSend(c) \/ Sent(c) \/ SendFailed(c) \/ Resume(c) \/ Recover(c) \/ GiveUp(c)
  <2>1. UNCHANGED <<ep, mEndpoint, mReceiverStarted, mResetPeerSession, peer, link, receiver>>
    BY <1>6 DEF LockSend, Sent, SendFailed, Resume, Recover, Register, GiveUp
  <2>2. Leaves(c)
    <3>1. CASE \E r \in Result : End(c, r)
      BY <3>1, EndLeaves
    <3>2. CASE Register(c, peer)
      BY <3>2, RegisterLeaves
    <3>3. CASE /\ UNCHANGED mProtocolMutex
               /\ \E p \in {"sending", "waiting", "recover"} : pc' = [pc EXCEPT ![c] = p]
      BY <3>3 DEF Leaves
    <3>4. QED
      BY <1>6, <3>1, <3>2, <3>3 DEF LockSend, Sent, SendFailed, Resume, Recover, GiveUp, Result
  <2>3. ep[c] # None \/ pc'[c] = "ended"
    BY <1>6 DEF LockSend, Sent, SendFailed, Resume, Recover, GiveUp, End, ReaderInv, EndpointsUsed
  <2>4. QED
    BY <2>1, <2>2, <2>3, LeavesKeepsReaders
<1>7. QED
  BY <1>1, <1>2, <1>3, <1>4, <1>5, <1>6 DEF CallStep

LEMMA OtherReaderStep ==
  ASSUME TypeOK, ReaderInv, OtherStep
  PROVE  ReaderInv'
<1> USE ClientAssumption DEF TypeOK, callVars, stateVars, netVars
<1> USE DEF ReaderInv, EndpointsUsed, ProtocolHeld, ResetStale, OneReceiver, StartedRuns,
            RunningNegotiated, HelloUnknown
<1>1. ASSUME NEW e \in Endpoint, NEW i \in Id, NEW c \in Call, NEW kind, Receive(e, i, c, kind)
      PROVE  ReaderInv'
  BY <1>1 DEF Receive
<1>2. ASSUME NEW e \in Endpoint, Disconnect(e) PROVE ReaderInv'
  <2>1. \A d \in Endpoint : link'[d] = "unused" => link[d] = "unused"
    BY <1>2 DEF Disconnect
  <2>2. mEndpoint = e /\ mEndpoint' = None /\ ~mReceiverStarted'
    BY <1>2 DEF Disconnect
  <2>3. EndpointsUsed' /\ ProtocolHeld' /\ ResetStale' /\ HelloUnknown'
    BY <1>2, <2>1, <2>2 DEF Disconnect
  <2>4. OneReceiver' /\ StartedRuns' /\ RunningNegotiated'
    BY <1>2, <2>2 DEF Disconnect
  <2>5. QED
    BY <2>3, <2>4
<1>3. ASSUME NEW e \in Endpoint, NEW i \in Id, SendCancel(e, i) PROVE ReaderInv'
  BY <1>3 DEF SendCancel
<1>4. ASSUME NEW e \in Endpoint, PeerCloses(e) PROVE ReaderInv'
  BY <1>4 DEF PeerCloses
<1>5. ASSUME NEW next \in Endpoint \cup {None}, next # None => link[next] = "unused",
             Install(next)
      PROVE  ReaderInv'
  <2>1. \A e \in Endpoint : receiver'[e] # "running"
    BY <1>5 DEF Install, StopScope
  <2>2. \A d \in Endpoint : link'[d] = "unused" => link[d] = "unused" /\ d # next
    BY <1>5 DEF Install
  <2>3. EndpointsUsed' /\ ProtocolHeld' /\ ResetStale' /\ HelloUnknown'
    BY <1>5, <2>2 DEF Install
  <2>4. OneReceiver' /\ StartedRuns' /\ RunningNegotiated'
    BY <1>5, <2>1 DEF Install
  <2>5. QED
    BY <2>3, <2>4
<1>6. CASE BeginShutdown \/ LockShutdown
  BY <1>6 DEF BeginShutdown, LockShutdown
<1>7. CASE EndShutdown
  <2>1. \A d \in Endpoint : link'[d] = "unused" => link[d] = "unused"
    BY <1>7 DEF EndShutdown
  <2>2. \/ mEndpoint' = None /\ ~mReceiverStarted'
           /\ \A e \in Endpoint : receiver'[e] # "running"
        \/ UNCHANGED <<mEndpoint, mReceiverStarted, receiver>>
    BY <1>7 DEF EndShutdown, StopScope
  <2>3. EndpointsUsed' /\ ProtocolHeld' /\ ResetStale' /\ HelloUnknown'
    BY <1>7, <2>1, <2>2 DEF EndShutdown
  <2>4. OneReceiver' /\ StartedRuns' /\ RunningNegotiated'
    BY <1>7, <2>2 DEF EndShutdown
  <2>5. QED
    BY <2>3, <2>4
<1>8. ASSUME NEW i \in Id, CancelRemote(i) PROVE ReaderInv'
  BY <1>8 DEF CancelRemote
<1>9. QED
  BY <1>1, <1>2, <1>3, <1>4, <1>5, <1>6, <1>7, <1>8
     DEF OtherStep, LoopStep, SetEndpoint, Close
----------------------------------------------------------------------------
(* The ids that were taken. *)

LEMMA RequestSetsFinite ==
  ASSUME OnlyRequestsWait
  PROVE  /\ IsFiniteSet(Requests) /\ IsFiniteSet(Encoded) /\ IsFiniteSet(retried)
         /\ Encoded \subseteq Requests /\ retried \subseteq Encoded
         /\ Cardinality(Requests) \in Nat /\ Cardinality(Encoded) \in Nat
         /\ Cardinality(retried) \in Nat
<1>1. IsFiniteSet(Requests)
  BY ClientAssumption, FS_Difference DEF Requests
<1>2. Encoded \subseteq Requests /\ retried \subseteq Encoded
  BY DEF Encoded, OnlyRequestsWait
<1>3. QED
  BY <1>1, <1>2, FS_Subset, FS_CardinalityType

(* A request that is encoded finds an id above all that were taken.        *)
LEMMA NextIdIsNew ==
  ASSUME IdsSuffice, TypeOK, OnlyRequestsWait, IdsCounted, NEW c \in Requests,
         c \notin Encoded \/ (RetryOnce /\ c \notin retried)
  PROVE  FreshId = nextId + 1 /\ FreshId \in Id /\ nextId < IdMax
<1> USE RequestSetsFinite
<1> DEFINE n == Cardinality(Requests)
<1>1. Cardinality(Encoded) <= n /\ (c \notin Encoded => Cardinality(Encoded) < n)
  <2>1. Cardinality(Encoded) <= n /\ (Cardinality(Encoded) = n => Encoded = Requests)
    BY FS_Subset
  <2>2. QED
    BY <2>1
<1>2. Cardinality(retried) <= n /\ (c \notin retried => Cardinality(retried) < n)
  <2>1. Cardinality(retried) <= n /\ (Cardinality(retried) = n => retried = Requests)
    BY FS_Subset
  <2>2. QED
    BY <2>1
<1>3. ~RetryOnce => Cardinality(retried) = 0
  BY FS_EmptySet DEF OnlyRequestsWait
<1>4. c \notin Encoded => c \notin retried
  OBVIOUS
<1>5. Cardinality(Encoded) + Cardinality(retried) < IdMax
  <2>1. CASE RetryOnce
    BY <1>1, <1>2, <1>4, <2>1, ClientAssumption DEF IdsSuffice
  <2>2. CASE ~RetryOnce
    BY <1>1, <1>3, <2>2, ClientAssumption DEF IdsSuffice
  <2>3. QED
    BY <2>1, <2>2
<1>6. nextId < IdMax
  BY <1>5, ClientAssumption DEF IdsCounted, TypeOK
<1>7. QED
  BY <1>6, FreshIdType DEF FreshId, TypeOK

(* What the steps of a call do to the sets the ids are counted by.         *)
LEMMA EncodedGrows ==
  ASSUME TypeOK, NEW c \in Call, NEW p \in CallState, pc' = [pc EXCEPT ![c] = p],
         pc[c] \in {"idle", "protocol", "helloLock", "hello"}
           \/ p \notin {"idle", "protocol", "helloLock", "hello"}
  PROVE  Encoded' = IF c \in Requests /\ p \notin {"idle", "protocol", "helloLock", "hello"}
                    THEN Encoded \cup {c} ELSE Encoded
BY DEF TypeOK, Encoded, Requests

LEMMA CountsKept ==
  ASSUME TypeOK, OnlyRequestsWait, Encoded \subseteq Encoded', IsFiniteSet(Encoded'),
         UNCHANGED <<retried, nextId>>,
         \A c \in Call : pc'[c] \in {"waiting", "recover"} => c \notin Notify,
         \A c \in Call : Guarded(c)' => id'[c] # 0
  PROVE  OnlyRequestsWait' /\ (IdsCounted => IdsCounted')
<1>1. OnlyRequestsWait'
  BY DEF OnlyRequestsWait
<1>2. Cardinality(Encoded) <= Cardinality(Encoded')
  BY FS_Subset
<1>3. Cardinality(Encoded') \in Nat
  BY FS_CardinalityType
<1>4. IdsCounted => IdsCounted'
  BY <1>2, <1>3, RequestSetsFinite DEF IdsCounted, TypeOK
<1>5. QED
  BY <1>1, <1>4

(* A step of a call that takes no id. *)
LEMMA NoIdTaken ==
  ASSUME TypeOK, OnlyRequestsWait, NEW c \in Call, NEW p \in CallState, pc' = [pc EXCEPT ![c] = p],
         pc[c] \in {"idle", "protocol", "helloLock", "hello"}
           \/ p \notin {"idle", "protocol", "helloLock", "hello"},
         UNCHANGED <<retried, nextId, id>>,
         p \in {"waiting", "recover"} => c \notin Notify,
         p \in {"sendLock", "sending", "waiting"} => c \in Notify \/ Guarded(c)
  PROVE  OnlyRequestsWait' /\ (IdsSuffice /\ IdsCounted => IdsCounted')
<1>1. Encoded \subseteq Encoded' /\ IsFiniteSet(Encoded')
  <2>1. Encoded' = Encoded \cup {c} \/ Encoded' = Encoded
    BY EncodedGrows
  <2>2. QED
    BY <2>1, RequestSetsFinite, FS_AddElement
<1>2. \A d \in Call : pc'[d] \in {"waiting", "recover"} => d \notin Notify
  BY DEF TypeOK, OnlyRequestsWait
<1>3. \A d \in Call : Guarded(d)' => id'[d] # 0
  BY DEF TypeOK, OnlyRequestsWait
<1>4. QED
  BY <1>1, <1>2, <1>3, CountsKept

(* encodeRequest for a request that was not encoded yet, or is retried.    *)
LEMMA IdTaken ==
  ASSUME TypeOK, OnlyRequestsWait, NEW c \in Requests, NEW s, Register(c, s),
         \/ c \notin Encoded /\ retried' = retried
         \/ c \in Encoded /\ RetryOnce /\ c \notin retried /\ retried' = retried \cup {c}
  PROVE  OnlyRequestsWait' /\ (IdsSuffice /\ IdsCounted => IdsCounted')
<1> USE RequestSetsFinite
<1>1. FreshId \in Id
  BY FreshIdType
<1>2. nextId' = FreshId /\ c \notin Notify /\ c \in Call
  BY <1>1 DEF Register, Requests
<1>3. PICK p \in {"sendLock", "ended"} : pc' = [pc EXCEPT ![c] = p]
  BY <1>2 DEF Register, End
<1>4. Encoded' = Encoded \cup {c}
  <2>1. p \in CallState
    BY DEF CallState
  <2>2. QED
    BY <1>2, <1>3, <2>1, EncodedGrows
<1>5. ASSUME IdsSuffice, IdsCounted PROVE IdsCounted'
  <2>1. nextId' <= Cardinality(Encoded) + Cardinality(retried) + 1
    BY <1>2, <1>5, NextIdIsNew DEF IdsCounted, TypeOK
  <2>2. CASE c \notin Encoded /\ retried' = retried
    <3>1. Cardinality(Encoded') = Cardinality(Encoded) + 1
      BY <1>4, <2>2, FS_AddElement
    <3>2. QED
      BY <2>1, <2>2, <3>1 DEF IdsCounted
  <2>3. CASE c \in Encoded /\ c \notin retried /\ retried' = retried \cup {c}
    <3>1. Cardinality(retried') = Cardinality(retried) + 1
          /\ Cardinality(Encoded') = Cardinality(Encoded)
      BY <1>4, <2>3, FS_AddElement
    <3>2. QED
      BY <2>1, <3>1 DEF IdsCounted
  <2>4. QED
    BY <2>2, <2>3
<1>6. OnlyRequestsWait'
  <2>1. \A d \in Call : pc'[d] \in {"waiting", "recover"} => d \notin Notify
    BY <1>3 DEF TypeOK, OnlyRequestsWait
  <2>2. \A d \in Call : Guarded(d)' => id'[d] # 0
    <3>1. CASE PendingFull \/ mPending[FreshId] # None
      <4>1. pc' = [pc EXCEPT ![c] = "ended"] /\ id' = id
        BY <1>2, <3>1 DEF Register, End
      <4>2. QED
        BY <4>1 DEF TypeOK, OnlyRequestsWait
    <3>2. CASE ~(PendingFull \/ mPending[FreshId] # None)
      <4>1. /\ pc' = [pc EXCEPT ![c] = "sendLock"]
            /\ id' = [id EXCEPT ![c] = FreshId] /\ FreshId # 0
        BY <1>1, <1>2, <3>2 DEF Register, Id
      <4>2. QED
        BY <1>2, <4>1 DEF TypeOK, OnlyRequestsWait
    <3>3. QED
      BY <3>1, <3>2
  <2>3. QED
    BY <1>4, <2>1, <2>2 DEF OnlyRequestsWait
<1>7. QED
  BY <1>5, <1>6

(* A notification is encoded without an id. *)
LEMMA NotificationTakesNone ==
  ASSUME TypeOK, OnlyRequestsWait, NEW c \in Call, c \in Notify, NEW s, Register(c, s), retried' = retried
  PROVE  OnlyRequestsWait' /\ (IdsSuffice /\ IdsCounted => IdsCounted')
<1>1. pc' = [pc EXCEPT ![c] = "sendLock"] /\ UNCHANGED <<id, nextId>>
  BY DEF Register
<1>2. QED
  BY <1>1, NoIdTaken DEF CallState

LEMMA ReadyIds ==
  ASSUME TypeOK, OnlyRequestsWait, NEW c \in Call, NEW s, Ready(c, s), Negotiating(c),
         retried' = retried
  PROVE  OnlyRequestsWait' /\ (IdsSuffice /\ IdsCounted => IdsCounted')
<1>1. CASE mEndpoint # ep[c] \/ ~mReceiverScope
  BY <1>1, NoIdTaken DEF Ready, End, CallState
<1>2. CASE ~(mEndpoint # ep[c] \/ ~mReceiverScope)
  <2>1. Register(c, s) /\ c \notin Encoded
    BY <1>2 DEF Ready, Encoded
  <2>2. QED
    BY <2>1, IdTaken, NotificationTakesNone DEF Requests
<1>3. QED
  BY <1>1, <1>2

LEMMA CallIdStep ==
  ASSUME TypeOK, OnlyRequestsWait, NEW c \in Call, CallStep(c) \/ GiveUp(c)
  PROVE  OnlyRequestsWait' /\ (IdsSuffice /\ IdsCounted => IdsCounted')
<1> USE DEF CallState, End
<1>1. CASE Begin(c)
  BY <1>1, NoIdTaken DEF Begin
<1>2. CASE LockProtocol(c)
  BY <1>2, NoIdTaken DEF LockProtocol
<1>3. CASE LockHello(c)
  <2>1. CASE peer # None
    BY <1>3, <2>1, ReadyIds DEF LockHello
  <2>2. CASE peer = None
    BY <1>3, <2>2, NoIdTaken DEF LockHello
  <2>3. QED
    BY <2>1, <2>2
<1>4. CASE HelloAccepted(c)
  BY <1>4, ReadyIds DEF HelloAccepted
<1>5. CASE HelloFailed(c)
  BY <1>5, NoIdTaken DEF HelloFailed
<1>6. CASE LockSend(c)
  BY <1>6, NoIdTaken DEF LockSend
<1>7. CASE Sent(c)
  BY <1>7, NoIdTaken DEF Sent
<1>8. CASE SendFailed(c)
  BY <1>8, NoIdTaken DEF SendFailed
<1>9. CASE Resume(c)
  <2>1. c \notin Notify
    BY <1>9 DEF Resume, OnlyRequestsWait
  <2>2. QED
    BY <1>9, <2>1, NoIdTaken DEF Resume
<1>10. CASE Recover(c)
  <2>1. c \in Requests /\ c \in Encoded
    BY <1>10 DEF Recover, OnlyRequestsWait, Encoded, Requests
  <2>2. CASE RetryOnce /\ c \notin retried /\ retried' = retried \cup {c} /\ Register(c, peer)
    BY <2>1, <2>2, IdTaken
  <2>3. CASE /\ End(c, "error")
             /\ UNCHANGED <<ep, id, retried, inbox, from, encodedFor, mPending, nextId>>
    BY <2>3, NoIdTaken
  <2>4. QED
    BY <1>10, <2>2, <2>3 DEF Recover
<1>11. CASE GiveUp(c)
  BY <1>11, NoIdTaken DEF GiveUp
<1>12. QED
  BY <1>1, <1>2, <1>3, <1>4, <1>5, <1>6, <1>7, <1>8, <1>9, <1>10, <1>11 DEF CallStep

LEMMA OtherStepTakesNoId ==
  ASSUME OtherStep
  PROVE  UNCHANGED <<pc, ep, id, retried, nextId>>
BY DEF OtherStep, LoopStep, SetEndpoint, Close, Install, Receive, Disconnect, SendCancel,
       PeerCloses, BeginShutdown, LockShutdown, EndShutdown, CancelRemote, callVars
----------------------------------------------------------------------------
(* Calls, their entries and their answers. *)

(* A step after which c is not in flight: its entry, if it had one, is     *)
(* gone, and only a Cancel frame for its id may have been spawned.         *)
Withdraws(c) ==
  /\ \A d \in Call : Guarded(d)' <=> d # c /\ Guarded(d)
  /\ \A i \in Id : mPending'[i] = IF mPending[i] = c THEN None ELSE mPending[i]
  /\ \A x \in cancels' : x \in cancels \/ (Guarded(c) /\ x[2] = id[c])
  /\ UNCHANGED <<id, inbox, from, wire>>
  /\ nextId <= nextId' /\ retried \subseteq retried'
  /\ \A d \in Call \ {c} : ep'[d] = ep[d]
  /\ \A e \in Endpoint : receiver[e] = "running" => receiver'[e] = "running"

LEMMA WithdrawKeepsCalls ==
  ASSUME TypeOK, TypeOK', ReaderInv, OnlyRequestsWait, CallInv, NEW c \in Call, Withdraws(c)
  PROVE  CallInv'
<1> USE ClientAssumption DEF TypeOK, Withdraws
<1>1. IdsUnique'
  <2>1. /\ \A d \in Call : id'[d] <= nextId'
        /\ \A d, f \in Call : id'[d] = id'[f] /\ id'[d] # 0 => d = f
    BY DEF CallInv, IdsUnique
  <2>2. ASSUME NEW e \in Endpoint, NEW x \in wire[e], NEW d \in Call
        PROVE  x[1] <= nextId' /\ (id[d] = x[1] => d = x[2])
    <3>1. x[1] <= nextId /\ x[1] \in Id /\ (id[d] = x[1] => d = x[2])
      BY DEF CallInv, IdsUnique
    <3>2. QED
      BY <3>1 DEF Id
  <2>3. ASSUME NEW x \in cancels' PROVE x[2] <= nextId'
    <3>1. x[2] <= nextId /\ x[2] \in Id
      BY DEF CallInv, IdsUnique
    <3>2. QED
      BY <3>1 DEF Id
  <2>4. QED
    BY <2>1, <2>2, <2>3 DEF IdsUnique
<1>2. PendingLive' /\ NeverLost'
  <2>1. \A i \in Id : mPending'[i] # None => mPending'[i] = mPending[i] /\ mPending[i] # c
    OBVIOUS
  <2>2. PendingLive'
    <3> SUFFICES ASSUME NEW i \in Id, mPending'[i] # None
                 PROVE  /\ Guarded(mPending[i])' /\ id'[mPending'[i]] = i
                        /\ inbox'[mPending'[i]] = "empty"
      BY DEF PendingLive, Pending
    <3>1. QED
      BY <2>1 DEF CallInv, PendingLive, Pending
  <2>3. NeverLost'
    BY DEF CallInv, NeverLost, OnlyRequestsWait, Id
  <2>4. QED
    BY <2>2, <2>3
<1>3. CancelNamesNoLiveCall'
  BY DEF CallInv, CancelNamesNoLiveCall, IdsUnique, OnlyRequestsWait
<1>4. OwnAnswer'
  BY DEF CallInv, OwnAnswer
<1>5. PendingServed'
  <2> SUFFICES ASSUME NEW i \in Id, mPending'[i] # None, mPending'[i] \notin retried'
               PROVE  receiver'[ep'[mPending'[i]]] = "running"
    BY DEF PendingServed, Pending
  <2>1. mPending'[i] = mPending[i] /\ mPending[i] \in Call \ {c}
    OBVIOUS
  <2>2. receiver[ep[mPending[i]]] = "running" /\ ep[mPending[i]] \in Endpoint
    BY <2>1 DEF CallInv, PendingServed, Pending, PendingLive, ReaderInv, EndpointsUsed
  <2>3. QED
    BY <2>1, <2>2
<1>6. QED
  BY <1>1, <1>2, <1>3, <1>4, <1>5 DEF CallInv

(* The entry of a call in flight is the only one with its name. *)
LEMMA OwnEntry ==
  ASSUME TypeOK, CallInv, NEW c \in Call
  PROVE  /\ \A i \in Id : mPending[i] = c => i = id[c] /\ Guarded(c) /\ inbox[c] = "empty"
         /\ Guarded(c) /\ mPending[id[c]] # None /\ id[c] \in Id => mPending[id[c]] = c
BY ClientAssumption DEF TypeOK, CallInv, PendingLive, Pending, IdsUnique, Id

LEMMA AbandonWithdraws ==
  ASSUME TypeOK, OnlyRequestsWait, CallInv, NEW c \in Call, Abandon(c)
  PROVE  /\ \A i \in Id : mPending'[i] = IF mPending[i] = c THEN None ELSE mPending[i]
         /\ \A x \in cancels' : x \in cancels \/ (Guarded(c) /\ x[2] = id[c])
<1> USE ClientAssumption DEF TypeOK
<1>1. CASE Guarded(c)
  <2>1. id[c] \in Id
    BY <1>1 DEF OnlyRequestsWait, Id
  <2>2. mPending' = [mPending EXCEPT ![id[c]] = None]
    BY <1>1 DEF Abandon
  <2>3. QED
    BY <1>1, <2>1, <2>2, OwnEntry DEF Abandon
<1>2. CASE ~Guarded(c)
  BY <1>2, OwnEntry DEF Abandon
<1>3. QED
  BY <1>1, <1>2

(* Steps that neither withdraw a call nor register one: c moves on among   *)
(* the states in which it is, or is not, in flight.                        *)
LEMMA MoveKeepsCalls ==
  ASSUME TypeOK, TypeOK', ReaderInv, OnlyRequestsWait, CallInv, NEW c \in Call,
         \A d \in Call : Guarded(d)' <=> Guarded(d),
         \A d \in Call : d = c \/ ep'[d] = ep[d], ~Guarded(c) \/ ep' = ep,
         UNCHANGED <<id, inbox, from, mPending, cancels, retried, receiver>>,
         nextId' = nextId,
         \A e \in Endpoint : \A x \in wire'[e] :
           x \in wire[e] \/ (Guarded(c) /\ x = <<id[c], c>>)
  PROVE  CallInv'
<1> USE ClientAssumption DEF TypeOK
<1>1. IdsUnique'
  BY DEF CallInv, IdsUnique, OnlyRequestsWait
<1>2. PendingLive' /\ NeverLost'
  BY DEF CallInv, PendingLive, NeverLost, Pending
<1>3. CancelNamesNoLiveCall' /\ OwnAnswer'
  BY DEF CallInv, CancelNamesNoLiveCall, OwnAnswer
<1>4. PendingServed'
  BY OwnEntry DEF CallInv, PendingServed, Pending
<1>5. QED
  BY <1>1, <1>2, <1>3, <1>4 DEF CallInv

(* Registration under a new id, of a call that is not in flight. *)
LEMMA RegisterKeepsCalls ==
  ASSUME TypeOK, TypeOK', OnlyRequestsWait, CallInv, NEW c \in Requests, ~Guarded(c),
         nextId' = nextId + 1, nextId' \in Id,
         id' = [id EXCEPT ![c] = nextId'],
         mPending' = [mPending EXCEPT ![nextId'] = c],
         inbox' = [inbox EXCEPT ![c] = "empty"],
         pc' = [pc EXCEPT ![c] = "sendLock"],
         UNCHANGED <<ep, from, cancels, wire>>,
         retried \subseteq retried',
         \A e \in Endpoint : receiver[e] = "running" => receiver'[e] = "running",
         c \in retried' \/ receiver'[ep[c]] = "running",
         \A d \in Call : Guarded(d) => ep[d] \in Endpoint
  PROVE  CallInv'
<1> USE ClientAssumption DEF TypeOK
<1>1. c \in Call /\ c \notin Notify /\ nextId \in Nat /\ nextId' > nextId /\ c # None
  BY DEF Requests
<1>2. \A d \in Call : d # c => id'[d] = id[d] /\ (Guarded(d)' <=> Guarded(d))
  OBVIOUS
<1>3. \A d \in Call : id[d] < nextId' /\ id[d] # nextId'
  BY <1>1 DEF CallInv, IdsUnique
<1>4. id'[c] = nextId' /\ Guarded(c)' /\ mPending'[nextId'] = c /\ inbox'[c] = "empty"
  BY <1>1
<1>5. IdsUnique'
  <2>1. /\ \A d \in Call : id'[d] <= nextId'
        /\ \A d, f \in Call : id'[d] = id'[f] /\ id'[d] # 0 => d = f
    BY <1>1, <1>2, <1>3, <1>4 DEF CallInv, IdsUnique
  <2>2. ASSUME NEW e \in Endpoint, NEW x \in wire[e], NEW d \in Call
        PROVE  x[1] <= nextId' /\ (id'[d] = x[1] => d = x[2])
    <3>1. x[1] <= nextId /\ x[1] \in Id /\ (id[d] = x[1] => d = x[2])
      BY DEF CallInv, IdsUnique
    <3>2. QED
      BY <1>1, <1>2, <1>4, <3>1 DEF Id
  <2>3. \A x \in cancels' : x[2] <= nextId'
    <3>1. \A x \in cancels : x[2] <= nextId /\ x[2] \in Id
      BY DEF CallInv, IdsUnique
    <3>2. QED
      BY <1>1, <3>1 DEF Id
  <2>4. QED
    BY <2>1, <2>2, <2>3 DEF IdsUnique
<1>6. \A i \in Id : mPending[i] = c => FALSE
  BY OwnEntry, <1>1
<1>7. PendingLive'
  <2> SUFFICES ASSUME NEW i \in Id, mPending'[i] # None
               PROVE  /\ Guarded(mPending[i])' /\ id'[mPending'[i]] = i
                      /\ inbox'[mPending'[i]] = "empty"
    BY DEF PendingLive, Pending
  <2>1. CASE i = nextId'
    BY <1>4, <2>1
  <2>2. CASE i # nextId'
    <3>1. mPending'[i] = mPending[i] /\ mPending[i] \in Call /\ mPending[i] # c
      BY <2>2, <1>6
    <3>2. Guarded(mPending[i]) /\ id[mPending[i]] = i /\ inbox[mPending[i]] = "empty"
      BY <3>1, OwnEntry
    <3>3. QED
      BY <1>2, <3>1, <3>2
  <2>3. QED
    BY <2>1, <2>2
<1>8. NeverLost'
  <2> SUFFICES ASSUME NEW d \in Call, Guarded(d)'
               PROVE  inbox'[d] # "empty" \/ mPending'[id'[d]] = d
    BY DEF NeverLost
  <2>1. CASE d = c
    BY <1>4, <2>1
  <2>2. CASE d # c
    <3>1. inbox[d] # "empty" \/ mPending[id[d]] = d
      BY <1>2, <2>2 DEF CallInv, NeverLost
    <3>2. id[d] \in Id
      BY <1>2, <2>2 DEF OnlyRequestsWait, Id
    <3>3. QED
      BY <1>2, <1>3, <2>2, <3>1, <3>2
  <2>3. QED
    BY <2>1, <2>2
<1>9. CancelNamesNoLiveCall'
  <2>1. \A x \in cancels : x[2] # nextId' /\ \A d \in Call : Guarded(d) => id[d] # x[2]
    <3>1. \A x \in cancels : x[2] <= nextId /\ x[2] \in Id
      BY DEF CallInv, IdsUnique
    <3>2. QED
      BY <1>1, <3>1 DEF CallInv, CancelNamesNoLiveCall, Id
  <2>2. QED
    BY <1>2, <1>4, <2>1 DEF CancelNamesNoLiveCall
<1>10. OwnAnswer'
  BY DEF CallInv, OwnAnswer
<1>11. PendingServed'
  <2> SUFFICES ASSUME NEW i \in Id, mPending'[i] # None, mPending'[i] \notin retried'
               PROVE  receiver'[ep[mPending'[i]]] = "running"
    BY DEF PendingServed, Pending
  <2>1. CASE mPending'[i] = c
    BY <2>1
  <2>2. CASE mPending'[i] # c
    <3>1. mPending'[i] = mPending[i] /\ mPending[i] \in Call
      BY <1>4, <2>2
    <3>2. receiver[ep[mPending[i]]] = "running"
      BY <3>1 DEF CallInv, PendingServed, Pending
    <3>3. ep[mPending[i]] \in Endpoint
      BY <3>1, OwnEntry
    <3>4. QED
      BY <3>1, <3>2, <3>3
  <2>3. QED
    BY <2>1, <2>2
<1>12. QED
  BY <1>5, <1>7, <1>8, <1>9, <1>10, <1>11 DEF CallInv
LEMMA ReadyCalls ==
  ASSUME IdsSuffice, TypeOK, TypeOK', ReaderInv, IdInv, CallInv, NEW c \in Call,
         NEW s \in Endpoint, Negotiating(c), Ready(c, s),
         UNCHANGED <<retried, cancels, wire, mEndpoint>>
  PROVE  CallInv'
<1> USE ClientAssumption DEF TypeOK
<1>0. OnlyRequestsWait /\ ~Guarded(c) /\ ep[c] \in Endpoint
  BY DEF IdInv, ReaderInv, EndpointsUsed
<1>1. CASE mEndpoint # ep[c] \/ ~mReceiverScope
  <2>1. Withdraws(c)
    BY <1>0, <1>1, OwnEntry DEF Ready, End, Withdraws
  <2>2. QED
    BY <1>0, <2>1, WithdrawKeepsCalls
<1>2. CASE ~(mEndpoint # ep[c] \/ ~mReceiverScope)
  <2>1. Register(c, s) /\ ep' = ep /\ from' = from
    BY <1>2 DEF Ready, Register
  <2>2. /\ \A e \in Endpoint : receiver[e] = "running" => receiver'[e] = "running"
        /\ receiver'[ep[c]] = "running"
    BY <1>0, <1>2 DEF Ready, ReaderInv, StartedRuns
  <2>3. CASE c \in Notify
    <3>1. pc' = [pc EXCEPT ![c] = "sendLock"] /\ UNCHANGED <<id, inbox, mPending, nextId>>
      BY <2>1, <2>3 DEF Register
    <3>2. Withdraws(c)
      BY <1>0, <2>1, <2>2, <2>3, <3>1, OwnEntry DEF Withdraws
    <3>3. QED
      BY <1>0, <3>2, WithdrawKeepsCalls
  <2>4. CASE c \notin Notify
    <3>1. c \in Requests /\ c \notin Encoded
      BY <2>4 DEF Requests, Encoded
    <3>2. FreshId = nextId + 1 /\ FreshId \in Id
      BY <3>1, NextIdIsNew DEF IdInv
    <3>3. nextId' = nextId + 1 /\ nextId' \in Id /\ nextId' = FreshId
      BY <2>1, <2>4, <3>2 DEF Register
    <3>4. CASE PendingFull \/ mPending[FreshId] # None
      <4>1. pc' = [pc EXCEPT ![c] = "ended"] /\ UNCHANGED <<id, inbox, mPending>>
        BY <2>1, <2>4, <3>4 DEF Register, End
      <4>2. Withdraws(c)
        BY <1>0, <2>1, <2>2, <3>3, <4>1, OwnEntry DEF Withdraws
      <4>3. QED
        BY <1>0, <4>2, WithdrawKeepsCalls
    <3>5. CASE ~(PendingFull \/ mPending[FreshId] # None)
      <4>1. /\ id' = [id EXCEPT ![c] = nextId'] /\ mPending' = [mPending EXCEPT ![nextId'] = c]
            /\ inbox' = [inbox EXCEPT ![c] = "empty"] /\ pc' = [pc EXCEPT ![c] = "sendLock"]
        BY <2>1, <2>4, <3>3, <3>5 DEF Register
      <4>2. \A d \in Call : Guarded(d) => ep[d] \in Endpoint
        BY DEF ReaderInv, EndpointsUsed
      <4>3. QED
        BY <1>0, <2>1, <2>2, <3>1, <3>3, <4>1, <4>2, RegisterKeepsCalls
    <3>6. QED
      BY <3>4, <3>5
  <2>5. QED
    BY <2>3, <2>4
<1>3. QED
  BY <1>1, <1>2

(* The retry: the same call is registered again under a new id. *)
LEMMA RetryCalls ==
  ASSUME IdsSuffice, TypeOK, TypeOK', ReaderInv, IdInv, CallInv, NEW c \in Call,
         pc[c] = "recover", RetryOnce, c \notin retried, retried' = retried \cup {c},
         Register(c, peer), UNCHANGED <<cancels, wire, receiver>>
  PROVE  CallInv'
<1> USE ClientAssumption DEF TypeOK
<1>1. OnlyRequestsWait /\ ~Guarded(c) /\ c \in Requests /\ c \notin Notify
  BY DEF IdInv, OnlyRequestsWait, Requests
<1>2. FreshId = nextId + 1 /\ FreshId \in Id
  BY <1>1, NextIdIsNew DEF IdInv
<1>3. nextId' = nextId + 1 /\ nextId' \in Id /\ nextId' = FreshId /\ ep' = ep /\ from' = from
  BY <1>1, <1>2 DEF Register
<1>4. CASE PendingFull \/ mPending[FreshId] # None
  <2>1. pc' = [pc EXCEPT ![c] = "ended"] /\ UNCHANGED <<id, inbox, mPending>>
    BY <1>1, <1>4 DEF Register, End
  <2>2. Withdraws(c)
    BY <1>1, <1>3, <2>1, OwnEntry DEF Withdraws
  <2>3. QED
    BY <1>1, <2>2, WithdrawKeepsCalls
<1>5. CASE ~(PendingFull \/ mPending[FreshId] # None)
  <2>1. /\ id' = [id EXCEPT ![c] = nextId'] /\ mPending' = [mPending EXCEPT ![nextId'] = c]
        /\ inbox' = [inbox EXCEPT ![c] = "empty"] /\ pc' = [pc EXCEPT ![c] = "sendLock"]
    BY <1>1, <1>3, <1>5 DEF Register
  <2>2. \A d \in Call : Guarded(d) => ep[d] \in Endpoint
    BY DEF ReaderInv, EndpointsUsed
  <2>3. QED
    BY <1>1, <1>3, <2>1, <2>2, RegisterKeepsCalls
<1>6. QED
  BY <1>4, <1>5
LEMMA CallCallStep ==
  ASSUME IdsSuffice, TypeOK, TypeOK', ReaderInv, IdInv, CallInv,
         NEW c \in Call, CallStep(c) \/ GiveUp(c)
  PROVE  CallInv'
<1> USE ClientAssumption DEF TypeOK, callVars, stateVars, netVars
<1>0. OnlyRequestsWait
  BY DEF IdInv
<1>1. CASE Begin(c)
  <2>1. Withdraws(c)
    BY <1>1, OwnEntry DEF Begin, End, Withdraws
  <2>2. QED
    BY <1>0, <2>1, WithdrawKeepsCalls
<1>2. CASE LockProtocol(c)
  <2>1. Withdraws(c)
    BY <1>2, OwnEntry DEF LockProtocol, Withdraws
  <2>2. QED
    BY <1>0, <2>1, WithdrawKeepsCalls
<1>3. CASE LockHello(c)
  <2>1. CASE peer # None
    BY <1>3, <2>1, ReadyCalls DEF LockHello
  <2>2. CASE peer = None
    <3>1. Withdraws(c)
      BY <1>3, <2>2, OwnEntry DEF LockHello, Withdraws
    <3>2. QED
      BY <1>0, <3>1, WithdrawKeepsCalls
  <2>3. QED
    BY <2>1, <2>2
<1>4. CASE HelloAccepted(c)
  <2>1. ep[c] \in Endpoint
    BY <1>4 DEF HelloAccepted, ReaderInv, EndpointsUsed
  <2>2. QED
    BY <1>4, <2>1, ReadyCalls DEF HelloAccepted
<1>5. CASE HelloFailed(c)
  <2>1. Withdraws(c)
    BY <1>5, OwnEntry DEF HelloFailed, End, Withdraws
  <2>2. QED
    BY <1>0, <2>1, WithdrawKeepsCalls
<1>6. CASE LockSend(c)
  BY <1>0, <1>6, MoveKeepsCalls DEF LockSend
<1>7. CASE Sent(c)
  <2>1. CASE c \in Notify
    <3>1. Withdraws(c)
      BY <1>7, <2>1, OwnEntry DEF Sent, End, Withdraws
    <3>2. QED
      BY <1>0, <3>1, WithdrawKeepsCalls
  <2>2. CASE c \notin Notify
    <3>1. \A d \in Call : Guarded(d)' <=> Guarded(d)
      BY <1>7, <2>2 DEF Sent
    <3>2. \A e \in Endpoint : \A x \in wire'[e] :
            x \in wire[e] \/ (Guarded(c) /\ x = <<id[c], c>>)
      BY <1>7, <2>2 DEF Sent
    <3>3. UNCHANGED <<ep, id, inbox, from, mPending, cancels, retried, receiver, nextId>>
      BY <1>7, <2>2 DEF Sent
    <3>4. QED
      BY <1>0, <3>1, <3>2, <3>3, MoveKeepsCalls
  <2>3. QED
    BY <2>1, <2>2
<1>8. CASE SendFailed(c)
  <2>1. Withdraws(c)
    BY <1>0, <1>8, AbandonWithdraws DEF SendFailed, End, Withdraws
  <2>2. QED
    BY <1>0, <2>1, WithdrawKeepsCalls
<1>9. CASE Resume(c)
  <2>1. /\ \A i \in Id : mPending'[i] = IF mPending[i] = c THEN None ELSE mPending[i]
        /\ \A x \in cancels' : x \in cancels \/ (Guarded(c) /\ x[2] = id[c])
    BY <1>0, <1>9, AbandonWithdraws, OwnEntry DEF Resume
  <2>2. Withdraws(c)
    BY <1>9, <2>1 DEF Resume, End, Withdraws
  <2>3. QED
    BY <1>0, <2>2, WithdrawKeepsCalls
<1>10. CASE Recover(c)
  <2>1. CASE RetryOnce /\ c \notin retried /\ retried' = retried \cup {c} /\ Register(c, peer)
    BY <1>10, <2>1, RetryCalls DEF Recover
  <2>2. CASE /\ End(c, "error")
             /\ UNCHANGED <<ep, id, retried, inbox, from, encodedFor, mPending, nextId>>
    <3>1. Withdraws(c)
      BY <1>10, <2>2, OwnEntry DEF Recover, End, Withdraws
    <3>2. QED
      BY <1>0, <3>1, WithdrawKeepsCalls
  <2>3. QED
    BY <1>10, <2>1, <2>2 DEF Recover
<1>11. CASE GiveUp(c)
  <2>1. Withdraws(c)
    BY <1>0, <1>11, AbandonWithdraws DEF GiveUp, End, Withdraws
  <2>2. QED
    BY <1>0, <2>1, WithdrawKeepsCalls
<1>12. QED
  BY <1>1, <1>2, <1>3, <1>4, <1>5, <1>6, <1>7, <1>8, <1>9, <1>10, <1>11 DEF CallStep

(* Entries are taken out of mPending, and each call they named has been    *)
(* given an answer of its own or a failure.                                *)
Settles ==
  /\ UNCHANGED <<pc, ep, id, retried, nextId>>
  /\ \A e \in Endpoint : wire'[e] \subseteq wire[e]
  /\ cancels' \subseteq cancels
  /\ \A d \in Call : from'[d] \in {None, d}
  /\ \A i \in Id : mPending'[i] \in {mPending[i], None}
  /\ \A d \in Call : \/ inbox'[d] = inbox[d] /\ \A i \in Id : mPending[i] = d => mPending'[i] = d
                     \/ inbox'[d] # "empty" /\ \A i \in Id : mPending[i] = d => mPending'[i] = None
  /\ \A e \in Endpoint : receiver[e] = "running" =>
       receiver'[e] = "running" \/ \A i \in Id : mPending'[i] = None

LEMMA SettlesKeepsCalls ==
  ASSUME TypeOK, TypeOK', ReaderInv, OnlyRequestsWait, CallInv, Settles
  PROVE  CallInv'
<1> USE ClientAssumption DEF TypeOK, Settles
<1>1. IdsUnique'
  BY DEF CallInv, IdsUnique
<1>2. PendingLive'
  <2> SUFFICES ASSUME NEW i \in Id, mPending'[i] # None
               PROVE  /\ Guarded(mPending[i])' /\ id'[mPending'[i]] = i
                      /\ inbox'[mPending'[i]] = "empty"
    BY DEF PendingLive, Pending
  <2>1. mPending'[i] = mPending[i] /\ mPending[i] \in Call
    OBVIOUS
  <2>2. QED
    BY <2>1, OwnEntry
<1>3. NeverLost'
  <2> SUFFICES ASSUME NEW d \in Call, Guarded(d)
               PROVE  inbox'[d] # "empty" \/ mPending'[id[d]] = d
    BY DEF NeverLost
  <2>1. id[d] \in Id /\ (inbox[d] # "empty" \/ mPending[id[d]] = d)
    BY DEF CallInv, NeverLost, OnlyRequestsWait, Id
  <2>2. QED
    BY <2>1
<1>4. CancelNamesNoLiveCall' /\ OwnAnswer'
  BY DEF CallInv, CancelNamesNoLiveCall, OwnAnswer
<1>5. PendingServed'
  <2> SUFFICES ASSUME NEW i \in Id, mPending'[i] # None, mPending'[i] \notin retried
               PROVE  receiver'[ep[mPending'[i]]] = "running"
    BY DEF PendingServed, Pending
  <2>1. mPending'[i] = mPending[i] /\ mPending[i] \in Call
    OBVIOUS
  <2>2. receiver[ep[mPending[i]]] = "running" /\ ep[mPending[i]] \in Endpoint
    BY <2>1, OwnEntry DEF CallInv, PendingServed, Pending, ReaderInv, EndpointsUsed
  <2>3. QED
    BY <2>1, <2>2
<1>6. QED
  BY <1>1, <1>2, <1>3, <1>4, <1>5 DEF CallInv

LEMMA FailAllSettles ==
  ASSUME TypeOK, CallInv, FailAll, UNCHANGED <<pc, ep, id, retried, nextId, wire, from>>,
         cancels' \subseteq cancels
  PROVE  Settles
BY DEF TypeOK, CallInv, OwnAnswer, FailAll, Settles

LEMMA OtherCallStep ==
  ASSUME TypeOK, TypeOK', ReaderInv, OnlyRequestsWait, CallInv, OtherStep
  PROVE  CallInv'
<1> USE ClientAssumption DEF TypeOK, callVars, stateVars, netVars
<1>1. ASSUME NEW e \in Endpoint, NEW i \in Id, NEW c \in Call, NEW kind \in {"ok", "error"},
             Receive(e, i, c, kind)
      PROVE  Settles
  <2>1. CASE mPending[i] = None
    BY <1>1, <2>1 DEF Receive, Settles, CallInv, OwnAnswer
  <2>2. CASE mPending[i] # None
    <3>1. mPending[i] \in Call /\ id[mPending[i]] = i
      BY <2>2, OwnEntry
    <3>2. mPending[i] = c
      BY <1>1, <3>1 DEF Receive, CallInv, IdsUnique
    <3>3. /\ inbox' = [inbox EXCEPT ![c] = kind] /\ from' = [from EXCEPT ![c] = c]
          /\ mPending' = [mPending EXCEPT ![i] = None] /\ wire' = [wire EXCEPT ![e] = @ \ {<<i, c>>}]
      BY <1>1, <2>2, <3>2 DEF Receive
    <3>4. \A j \in Id : mPending[j] = c => j = i
      BY <3>1, <3>2, OwnEntry
    <3>5. QED
      BY <1>1, <3>2, <3>3, <3>4 DEF Receive, Settles, CallInv, OwnAnswer
  <2>3. QED
    BY <2>1, <2>2
<1>2. ASSUME NEW e \in Endpoint, Disconnect(e) PROVE Settles
  <2>1. FailAll /\ UNCHANGED <<pc, ep, id, retried, nextId, wire, from>> /\ cancels' \subseteq cancels
    BY <1>2 DEF Disconnect
  <2>2. QED
    BY <2>1, FailAllSettles
<1>3. ASSUME NEW e \in Endpoint, NEW i \in Id, SendCancel(e, i) PROVE Settles
  BY <1>3 DEF SendCancel, Settles, CallInv, OwnAnswer
<1>4. ASSUME NEW e \in Endpoint, PeerCloses(e) PROVE Settles
  BY <1>4 DEF PeerCloses, Settles, CallInv, OwnAnswer
<1>5. ASSUME NEW next \in Endpoint \cup {None}, Install(next) PROVE Settles
  <2>1. FailAll /\ UNCHANGED <<pc, ep, id, retried, nextId, wire, from>> /\ cancels' \subseteq cancels
    BY <1>5 DEF Install, StopScope
  <2>2. QED
    BY <2>1, FailAllSettles
<1>6. ASSUME BeginShutdown \/ LockShutdown PROVE Settles
  BY <1>6 DEF BeginShutdown, LockShutdown, Settles, CallInv, OwnAnswer
<1>7. ASSUME EndShutdown PROVE Settles
  <2>1. FailAll /\ UNCHANGED <<pc, ep, id, retried, nextId, wire, from>> /\ cancels' \subseteq cancels
    BY <1>7 DEF EndShutdown, StopScope
  <2>2. QED
    BY <2>1, FailAllSettles
<1>8. ASSUME NEW i \in Id, CancelRemote(i) PROVE Settles
  BY <1>8, OwnEntry DEF CancelRemote, Settles, CallInv, OwnAnswer
<1>9. Settles
  BY <1>1, <1>2, <1>3, <1>4, <1>5, <1>6, <1>7, <1>8
     DEF OtherStep, LoopStep, SetEndpoint, Close
<1>10. QED
  BY <1>9, SettlesKeepsCalls
----------------------------------------------------------------------------
(* The theorems. *)

LEMMA TypeInit == Init => TypeOK
<1> SUFFICES ASSUME Init PROVE TypeOK
  OBVIOUS
<1> USE ClientAssumption DEF Init, CallState, Inbox, Result
<1>1. /\ pc \in [Call -> CallState] /\ ep \in [Call -> Endpoint \cup {None}]
      /\ id \in [Call -> 0 .. IdMax] /\ retried \subseteq Call /\ inbox \in [Call -> Inbox]
      /\ from \in [Call -> Call \cup {None}] /\ result \in [Call -> Result]
      /\ encodedFor \in [Call -> Endpoint \cup {None}]
  OBVIOUS
<1>2. /\ mPending \in [Id -> Call \cup {None}] /\ nextId \in 0 .. IdMax
      /\ link \in [Endpoint -> {"unused", "open", "eof", "closed"}]
      /\ receiver \in [Endpoint -> {"none", "running", "ended"}]
      /\ wire \in [Endpoint -> SUBSET (Id \X Call)] /\ cancels \subseteq Endpoint \X Id
  OBVIOUS
<1>3. QED
  BY <1>1, <1>2 DEF TypeOK

LEMMA IdInit == Init => IdInv
<1> SUFFICES ASSUME Init PROVE IdInv
  OBVIOUS
<1>1. Encoded = {} /\ retried = {} /\ nextId = 0
  BY DEF Init, Encoded, Requests
<1>2. Cardinality({}) = 0
  BY FS_EmptySet
<1>3. OnlyRequestsWait
  BY <1>1 DEF Init, OnlyRequestsWait
<1>4. QED
  BY <1>1, <1>2, <1>3 DEF IdInv, IdsCounted

LEMMA CallInit == Init => CallInv
BY ClientAssumption
   DEF Init, CallInv, IdsUnique, PendingLive, Pending, NeverLost, CancelNamesNoLiveCall,
       OwnAnswer, PendingServed
(* What does not depend on how many ids there are. *)
BaseInv == TypeOK /\ ReaderInv /\ OnlyRequestsWait

LEMMA BaseStep ==
  ASSUME BaseInv, [Next]_vars
  PROVE  BaseInv' /\ (IdsSuffice /\ IdsCounted => IdsCounted')
<1> USE DEF BaseInv
<1>0. EndpointsUsed
  BY DEF ReaderInv
<1>1. ASSUME NEW c \in Call, CallStep(c) \/ GiveUp(c)
      PROVE  BaseInv' /\ (IdsSuffice /\ IdsCounted => IdsCounted')
  BY <1>0, <1>1, CallTypeStep, CallReaderStep, CallIdStep
<1>2. CASE OtherStep
  <2>1. TypeOK' /\ ReaderInv'
    BY <1>2, OtherTypeStep, OtherReaderStep
  <2>2. UNCHANGED <<pc, ep, id, retried, nextId>>
    BY <1>2, OtherStepTakesNoId
  <2>3. OnlyRequestsWait' /\ (IdsCounted => IdsCounted')
    BY <2>2 DEF OnlyRequestsWait, IdsCounted, Encoded
  <2>4. QED
    BY <2>1, <2>3
<1>3. CASE UNCHANGED vars
  <2>1. TypeOK'
    BY <1>3 DEF vars, callVars, stateVars, netVars, TypeOK
  <2>2. ReaderInv'
    BY <1>3 DEF vars, callVars, stateVars, netVars, ReaderInv, EndpointsUsed, ProtocolHeld,
                ResetStale, OneReceiver, StartedRuns, RunningNegotiated, HelloUnknown
  <2>3. OnlyRequestsWait' /\ (IdsCounted => IdsCounted')
    BY <1>3 DEF vars, callVars, stateVars, netVars, OnlyRequestsWait, IdsCounted, Encoded
  <2>4. QED
    BY <2>1, <2>2, <2>3
<1>4. QED
  BY <1>1, <1>2, <1>3 DEF Next, OtherStep

LEMMA BaseInvariant == Spec => []BaseInv
<1>1. Init => BaseInv
  BY TypeInit, ReaderInit, IdInit DEF BaseInv, IdInv
<1>2. BaseInv /\ [Next]_vars => BaseInv'
  BY BaseStep
<1>3. QED
  BY <1>1, <1>2, PTL DEF Spec

(* A stream has one reader, the receive loop or the hello of one call,     *)
(* whatever is closed, replaced, reset or given up while a call            *)
(* negotiates (_ensureReceiver, setEndpoint, close, shutdown).             *)
THEOREM StreamHasOneReader == Spec => []OneReader
<1>1. BaseInv => OneReader
  BY ClientAssumption
     DEF BaseInv, TypeOK, ReaderInv, OneReader, OneReceiver, RunningNegotiated, HelloUnknown,
         HelloOwnsStream, EndpointsUsed
<1>2. QED
  BY <1>1, BaseInvariant, PTL

(* Only registration adds an entry, and it finds room for it. *)
LEMMA PendingStep ==
  ASSUME BaseInv, [Next]_vars
  PROVE  Pending' \subseteq Pending \/ (~PendingFull /\ Pending' \subseteq Pending \cup {FreshId})
<1> USE ClientAssumption DEF Pending, BaseInv, TypeOK, vars, callVars, stateVars, netVars
<1>1. ASSUME NEW c \in Call, NEW s, Register(c, s)
      PROVE  Pending' \subseteq Pending
               \/ (~PendingFull /\ Pending' \subseteq Pending \cup {FreshId})
  <2>1. UNCHANGED mPending \/ (~PendingFull /\ mPending' = [mPending EXCEPT ![FreshId] = c])
    BY <1>1 DEF Register
  <2>2. QED
    BY <2>1
<1>2. ASSUME NEW c \in Call, Abandon(c) PROVE Pending' \subseteq Pending
  BY <1>2 DEF Abandon
<1>3. ASSUME NEW c \in Call, CallStep(c) \/ GiveUp(c), ~(\E s : Register(c, s)), ~Abandon(c)
      PROVE  UNCHANGED mPending
  BY <1>3 DEF CallStep, Begin, LockProtocol, LockHello, HelloAccepted, HelloFailed, LockSend,
              Sent, SendFailed, Resume, Recover, GiveUp, Ready
<1>4. ASSUME OtherStep PROVE Pending' \subseteq Pending
  <2>1. ASSUME FailAll PROVE Pending' \subseteq Pending
    BY <2>1 DEF FailAll
  <2>2. ASSUME NEW i \in Id, mPending' = [mPending EXCEPT ![i] = None]
        PROVE  Pending' \subseteq Pending
    BY <2>2
  <2>3. FailAll \/ UNCHANGED mPending \/ \E i \in Id : mPending' = [mPending EXCEPT ![i] = None]
    BY <1>4 DEF OtherStep, LoopStep, SetEndpoint, Close, Install, Receive, Disconnect, SendCancel,
                PeerCloses, BeginShutdown, LockShutdown, EndShutdown, CancelRemote
  <2>4. QED
    BY <2>1, <2>2, <2>3
<1>5. CASE UNCHANGED vars
  BY <1>5
<1>6. QED
  BY <1>1, <1>2, <1>3, <1>4, <1>5 DEF Next, OtherStep

LEMMA PendingFinite == IsFiniteSet(Pending) /\ Cardinality(Pending) \in Nat
<1>1. Pending \subseteq 1 .. IdMax
  BY DEF Pending, Id
<1>2. IsFiniteSet(1 .. IdMax)
  BY FS_Interval, ClientAssumption
<1>3. QED
  BY <1>1, <1>2, FS_Subset, FS_CardinalityType

(* options.max_pending_calls holds at any time: the check before the       *)
(* negotiation may be stale, the one at insertion is not.                  *)
THEOREM PendingStaysBounded == Spec => []PendingBounded
<1>1. Init => PendingBounded
  <2>1. Cardinality({}) = 0
    BY FS_EmptySet
  <2>2. Init => Pending = {}
    BY DEF Init, Pending
  <2>3. QED
    BY <2>1, <2>2, ClientAssumption DEF PendingBounded
<1>2. BaseInv /\ PendingBounded /\ [Next]_vars => PendingBounded'
  <2> SUFFICES ASSUME BaseInv, PendingBounded, [Next]_vars PROVE PendingBounded'
    OBVIOUS
  <2> USE PendingFinite, ClientAssumption
  <2>1. CASE Pending' \subseteq Pending
    <3>1. Cardinality(Pending') <= Cardinality(Pending) /\ Cardinality(Pending') \in Nat
      BY <2>1, FS_Subset, FS_CardinalityType
    <3>2. QED
      BY <3>1 DEF PendingBounded
  <2>2. CASE ~PendingFull /\ Pending' \subseteq Pending \cup {FreshId}
    <3>1. /\ IsFiniteSet(Pending \cup {FreshId})
          /\ Cardinality(Pending \cup {FreshId}) <= Cardinality(Pending) + 1
      <4>1. /\ IsFiniteSet(Pending \cup {FreshId})
            /\ Cardinality(Pending \cup {FreshId}) = IF FreshId \in Pending THEN Cardinality(Pending)
                                                     ELSE Cardinality(Pending) + 1
        BY FS_AddElement
      <4>2. QED
        BY <4>1
    <3>2. Cardinality(Pending') <= Cardinality(Pending \cup {FreshId})
      BY <2>2, <3>1, FS_Subset
    <3>3. Cardinality(Pending') \in Nat /\ Cardinality(Pending \cup {FreshId}) \in Nat
      BY <2>2, <3>1, FS_Subset, FS_CardinalityType
    <3>4. Cardinality(Pending) + 1 <= MaxPending
      BY <2>2 DEF PendingFull
    <3>5. QED
      BY <3>1, <3>2, <3>3, <3>4 DEF PendingBounded
  <2>3. QED
    BY <2>1, <2>2, PendingStep
<1>3. QED
  BY <1>1, <1>2, BaseInvariant, PTL DEF Spec

LEMMA ClientStep ==
  ASSUME IdsSuffice, ClientInv, [Next]_vars
  PROVE  ClientInv'
<1> USE DEF ClientInv
<1>1. BaseInv
  BY DEF BaseInv, IdInv
<1>2. TypeOK' /\ ReaderInv' /\ IdInv'
  BY <1>1, BaseStep DEF BaseInv, IdInv
<1>3. CASE UNCHANGED vars
  <2>1. CallInv'
    BY <1>3 DEF vars, callVars, stateVars, netVars, CallInv, IdsUnique, PendingLive, Pending,
                NeverLost, CancelNamesNoLiveCall, OwnAnswer, PendingServed
  <2>2. QED
    BY <1>2, <2>1
<1>4. ASSUME NEW c \in Call, CallStep(c) \/ GiveUp(c) PROVE ClientInv'
  BY <1>2, <1>4, CallCallStep
<1>5. CASE OtherStep
  BY <1>1, <1>2, <1>5, OtherCallStep DEF BaseInv
<1>6. QED
  BY <1>3, <1>4, <1>5 DEF Next, OtherStep

LEMMA ClientInvariant == ASSUME IdsSuffice PROVE Spec => []ClientInv
<1>1. Init => ClientInv
  BY TypeInit, ReaderInit, IdInit, CallInit DEF ClientInv
<1>2. ClientInv /\ [Next]_vars => ClientInv'
  BY ClientStep
<1>3. QED
  BY <1>1, <1>2, PTL DEF Spec

(* A call is given the answer to its own request or none: no late answer   *)
(* reaches a call made after a deadline, a cancellation, a retry or a      *)
(* reconnection (the receive loop's lookup in mPending).                   *)
THEOREM AnswersReachTheirCall == ASSUME IdsSuffice PROVE Spec => []OwnAnswer
<1>1. ClientInv => OwnAnswer
  BY DEF ClientInv, CallInv
<1>2. QED
  BY <1>1, ClientInvariant, PTL

(* mPending names exactly the calls in flight that have no answer yet, and *)
(* a Cancel frame none of them, whichever way the others ended.            *)
THEOREM PendingStaysTrue == ASSUME IdsSuffice PROVE Spec => []PendingIsTrue
<1>1. ClientInv => PendingIsTrue
  BY DEF ClientInv, IdInv, OnlyRequestsWait, CallInv, NeverLost, NoLostCall, PendingIsTrue
<1>2. QED
  BY <1>1, ClientInvariant, PTL

(* _failAllPending misses nobody: a call that waits is served by a running *)
(* loop, after any disconnect, close, shutdown or replacement.             *)
THEOREM NobodyWaitsUnserved == ASSUME IdsSuffice PROVE Spec => []DisconnectFailsPending
<1>1. ClientInv => DisconnectFailsPending
  <2> SUFFICES ASSUME ClientInv, NEW c \in Call, c \notin retried, pc[c] = "waiting",
                      inbox[c] = "empty"
               PROVE  receiver[ep[c]] = "running"
    BY DEF DisconnectFailsPending
  <2>1. Guarded(c) /\ id[c] # 0
    BY DEF ClientInv, IdInv, OnlyRequestsWait
  <2>2. id[c] \in Id /\ mPending[id[c]] = c
    BY <2>1, ClientAssumption DEF ClientInv, TypeOK, CallInv, NeverLost, Id
  <2>3. QED
    BY <2>2, ClientAssumption DEF ClientInv, CallInv, PendingServed, Pending
<1>2. QED
  BY <1>1, ClientInvariant, PTL
============================================================================
