----------------------------- MODULE RpcClient -----------------------------
(***************************************************************************)
(* RpcClient (include/nekoproto/rpc/client.hpp): concurrent calls on one   *)
(* connection, a single receive loop that gives every response to the call *)
(* waiting for its id, deadlines and cancellation, disconnects, close,     *)
(* shutdown and replacement of the endpoint.                               *)
(*                                                                         *)
(* An action is what runs between two suspension points of a coroutine on  *)
(* the client's executor.  The peer is external: it answers a request it   *)
(* received, at any time and in any order, or closes the stream.           *)
(***************************************************************************)
EXTENDS Integers, FiniteSets

CONSTANTS
  Call,        \* activations of _callRemoteWithOptions
  Notify,      \* those whose method is a notification
  Endpoint,    \* endpoint objects given to setEndpoint
  MaxPending,  \* options.max_pending_calls
  RetryOnce,   \* options.retry_method_id_error_once
  IdMax,       \* the largest request id
  None

ASSUME ClientAssumption ==
  /\ IsFiniteSet(Call)
  /\ Notify \subseteq Call
  /\ MaxPending \in Nat
  /\ RetryOnce \in BOOLEAN
  /\ IdMax \in Nat \ {0}
  /\ None \notin Call \cup Endpoint

VARIABLES
  pc,                 \* [Call -> CallState]
  ep,                 \* [Call -> endpoint]: the endpoint a call works on
  id,                 \* [Call -> Nat]: request.id, 0 before the first
  retried,            \* calls with retry_count = 1
  inbox,              \* [Call -> Inbox]: the oneshot channel of the call
  from,               \* [Call -> Call \cup {None}]: whose request was answered
  result,             \* [Call -> Result]
  mEndpoint,          \* the current endpoint
  mReceiverScope,     \* the scope of the receive loop exists
  mReceiverStarted,
  mResetPeerSession,
  peer,               \* endpoint mPeerSession was negotiated on, or None
  encodedFor,         \* [Call -> endpoint whose session encoded its request]
  mPending,           \* [Id -> Call \cup {None}]
  nextId,             \* mBackendContext.next_id
  mProtocolMutex,     \* the call that holds it, or None
  mSendMutex,         \* the call that holds it, "shutdown" or None
  cancels,            \* spawned best effort Cancel frames: <<endpoint, id>>
  link,               \* [Endpoint -> {"unused", "open", "eof", "closed"}]
  receiver,           \* [Endpoint -> {"none", "running", "ended"}]
  misaligned,         \* endpoints with a receive cancelled inside a frame
  wire,               \* [Endpoint -> requests the peer has not answered]
  shut                \* the endpoint shutdown() works on, or None

callVars == <<pc, ep, id, retried, inbox, from, result, encodedFor>>
stateVars == <<mEndpoint, mReceiverScope, mReceiverStarted, mResetPeerSession, peer>>
netVars == <<link, receiver, misaligned, wire>>
vars == <<callVars, stateVars, mPending, nextId, mProtocolMutex, mSendMutex,
          cancels, netVars, shut>>

----------------------------------------------------------------------------
Id == 1 .. IdMax

CallState == {"idle", "protocol", "helloLock", "hello", "sendLock", "sending",
              "waiting", "recover", "ended"}
Inbox  == {"empty", "ok", "error", "failed"}
Result == {"none", "ok", "error", "notInit", "rejected", "gaveUp"}

(* The pending entries of the client, and the limit on them. *)
Pending == {i \in Id : mPending[i] # None}
PendingFullLate == Cardinality({i \in Id : mPending[i] # None}) > MaxPending
PendingFull == Cardinality(Pending) >= MaxPending

(* A call between the insertion of its pending entry and its result. *)
Guarded(c) == c \notin Notify /\ pc[c] \in {"sendLock", "sending", "waiting"}

Init ==
  /\ pc = [c \in Call |-> "idle"]
  /\ ep = [c \in Call |-> None]
  /\ id = [c \in Call |-> 0]
  /\ retried = {}
  /\ inbox = [c \in Call |-> "empty"]
  /\ from = [c \in Call |-> None]
  /\ result = [c \in Call |-> "none"]
  /\ encodedFor = [c \in Call |-> None]
  /\ mEndpoint = None
  /\ mReceiverScope = FALSE
  /\ mReceiverStarted = FALSE
  /\ mResetPeerSession = FALSE
  /\ peer = None
  /\ mPending = [i \in Id |-> None]
  /\ nextId = 0
  /\ mProtocolMutex = None
  /\ mSendMutex = None
  /\ cancels = {}
  /\ link = [e \in Endpoint |-> "unused"]
  /\ receiver = [e \in Endpoint |-> "none"]
  /\ misaligned = {}
  /\ wire = [e \in Endpoint |-> {}]
  /\ shut = None

----------------------------------------------------------------------------
(* Helpers on the primed state; each says what it assigns. *)

(* pc, result, mProtocolMutex, mSendMutex: the coroutine of c returns, its *)
(* guards release the mutexes it holds.                                    *)
EndKeepsProtocol(c, r) ==
  /\ pc' = [pc EXCEPT ![c] = "ended"]
  /\ result' = [result EXCEPT ![c] = r]
  /\ UNCHANGED mProtocolMutex
  /\ mSendMutex' = IF mSendMutex = c THEN None ELSE mSendMutex
End(c, r) ==
  /\ pc' = [pc EXCEPT ![c] = "ended"]
  /\ result' = [result EXCEPT ![c] = r]
  /\ mProtocolMutex' = IF mProtocolMutex = c THEN None ELSE mProtocolMutex
  /\ mSendMutex' = IF mSendMutex = c THEN None ELSE mSendMutex

(* mPending, cancels: PendingEraseGuard runs _abandonPending, which spawns *)
(* a Cancel frame on whatever endpoint is current.                         *)
AbandonKeepsEntry(c) ==
  /\ UNCHANGED mPending
  /\ cancels' = IF Guarded(c) /\ mEndpoint # None /\ mReceiverScope
                THEN cancels \cup {<<mEndpoint, id[c]>>} ELSE cancels
Abandon(c) ==
  IF Guarded(c)
  THEN /\ mPending' = [mPending EXCEPT ![id[c]] = None]
       /\ cancels' = IF mEndpoint # None /\ mReceiverScope
                     THEN cancels \cup {<<mEndpoint, id[c]>>} ELSE cancels
  ELSE UNCHANGED <<mPending, cancels>>

(* mPending, inbox: _failAllPending *)
FailAllSilently == mPending' = [i \in Id |-> None] /\ UNCHANGED inbox
FailAll ==
  /\ mPending' = [i \in Id |-> None]
  /\ inbox' = [c \in Call |-> IF \E i \in Id : mPending[i] = c THEN "failed" ELSE inbox[c]]

(* The id encodeRequest takes. *)
FreshIdRestart == IF Pending = {} THEN 1 ELSE nextId + 1
FreshId == IF nextId = IdMax THEN 1 ELSE nextId + 1

(* callVars, mPending, nextId and both mutexes: encodeRequest with the     *)
(* session, negotiated on s, and registration of the call under its id.    *)
Register(c, s) ==
  /\ encodedFor' = [encodedFor EXCEPT ![c] = s]
  /\ UNCHANGED <<ep, from>>
  /\ IF c \in Notify
     THEN /\ pc' = [pc EXCEPT ![c] = "sendLock"]
          /\ mProtocolMutex' = IF mProtocolMutex = c THEN None ELSE mProtocolMutex
          /\ mSendMutex' = IF mSendMutex = c THEN None ELSE mSendMutex
          /\ UNCHANGED <<id, inbox, result, mPending, nextId>>
     ELSE /\ nextId' = FreshId
          /\ IF PendingFull \/ mPending[FreshId] # None
             THEN End(c, "rejected") /\ UNCHANGED <<id, inbox, mPending>>
             ELSE /\ id' = [id EXCEPT ![c] = FreshId]
                  /\ mPending' = [mPending EXCEPT ![FreshId] = c]
                  /\ inbox' = [inbox EXCEPT ![c] = "empty"]
                  /\ pc' = [pc EXCEPT ![c] = "sendLock"]
                  /\ mProtocolMutex' = IF mProtocolMutex = c THEN None ELSE mProtocolMutex
                  /\ mSendMutex' = IF mSendMutex = c THEN None ELSE mSendMutex
                  /\ UNCHANGED result

(* What _ensureReceiver does once the session is ready, and the call after *)
(* it, up to the lock of mSendMutex.                                       *)
Ready(c, s) ==
  IF mEndpoint # ep[c] \/ ~mReceiverScope
  THEN /\ End(c, "notInit")
       /\ UNCHANGED <<ep, id, inbox, from, encodedFor, mPending, nextId, mReceiverStarted,
                      receiver>>
  ELSE /\ mReceiverStarted' = TRUE
       /\ receiver' = IF mReceiverStarted THEN receiver
                      ELSE [receiver EXCEPT ![mEndpoint] = "running"]
       /\ Register(c, s)

----------------------------------------------------------------------------
(* A call. *)

Begin(c) ==
  /\ pc[c] = "idle"
  /\ IF mEndpoint = None
     THEN End(c, "notInit") /\ UNCHANGED ep
     ELSE IF c \notin Notify /\ PendingFull
          THEN End(c, "rejected") /\ UNCHANGED ep
          ELSE /\ pc' = [pc EXCEPT ![c] = "protocol"]
               /\ ep' = [ep EXCEPT ![c] = mEndpoint]
               /\ UNCHANGED <<result, mProtocolMutex, mSendMutex>>
  /\ UNCHANGED <<id, retried, inbox, from, encodedFor, stateVars, mPending, nextId,
                 cancels, netVars, shut>>

LockProtocolForgets(c) ==
  /\ pc[c] = "protocol"
  /\ mProtocolMutex = None
  /\ mProtocolMutex' = c
  /\ pc' = [pc EXCEPT ![c] = "helloLock"]
  /\ peer' = None
  /\ UNCHANGED <<ep, id, retried, inbox, from, result, encodedFor, mEndpoint, mReceiverScope,
                 mReceiverStarted, mResetPeerSession, mPending, nextId, mSendMutex, cancels,
                 netVars, shut>>

LockProtocol(c) ==
  /\ pc[c] = "protocol"
  /\ mProtocolMutex = None
  /\ mProtocolMutex' = c
  /\ pc' = [pc EXCEPT ![c] = "helloLock"]
  /\ peer' = IF mResetPeerSession THEN None ELSE peer
  /\ mResetPeerSession' = FALSE
  /\ UNCHANGED <<ep, id, retried, inbox, from, result, encodedFor, mEndpoint,
                 mReceiverScope, mReceiverStarted, mPending, nextId, mSendMutex,
                 cancels, netVars, shut>>

(* ensureClientReady returns at once for a session already negotiated. *)
LockHello(c) ==
  /\ pc[c] = "helloLock"
  /\ mSendMutex = None
  /\ IF peer # None
     THEN Ready(c, peer)
     ELSE /\ mSendMutex' = c
          /\ pc' = [pc EXCEPT ![c] = "hello"]
          /\ UNCHANGED <<ep, id, inbox, from, result, encodedFor, mPending, nextId,
                         mProtocolMutex, mReceiverStarted, receiver>>
  /\ UNCHANGED <<retried, mEndpoint, mReceiverScope, mResetPeerSession, peer, cancels,
                 link, misaligned, wire, shut>>

HelloAccepted(c) ==
  /\ pc[c] = "hello"
  /\ link[ep[c]] = "open"
  /\ peer' = ep[c]
  /\ Ready(c, ep[c])
  /\ UNCHANGED <<retried, mEndpoint, mReceiverScope, mResetPeerSession, cancels,
                 link, misaligned, wire, shut>>

(* The answer marks the session negotiated even when it lacks what the     *)
(* client requires.                                                        *)
HelloFailed(c) ==
  /\ pc[c] = "hello"
  /\ peer' \in IF link[ep[c]] = "open" THEN {peer, ep[c]} ELSE {peer}
  /\ End(c, "error")
  /\ UNCHANGED <<ep, id, retried, inbox, from, encodedFor, mEndpoint, mReceiverScope,
                 mReceiverStarted, mResetPeerSession, mPending, nextId, cancels, netVars, shut>>

LockSend(c) ==
  /\ pc[c] = "sendLock"
  /\ mSendMutex = None
  /\ mSendMutex' = c
  /\ pc' = [pc EXCEPT ![c] = "sending"]
  /\ UNCHANGED <<ep, id, retried, inbox, from, result, encodedFor, stateVars, mPending,
                 nextId, mProtocolMutex, cancels, netVars, shut>>

(* A stream whose peer closed its side still takes our bytes. *)
Sent(c) ==
  /\ pc[c] = "sending"
  /\ link[ep[c]] \in {"open", "eof"}
  /\ IF c \in Notify
     THEN End(c, "ok") /\ UNCHANGED wire
     ELSE /\ pc' = [pc EXCEPT ![c] = "waiting"]
          /\ mSendMutex' = None
          /\ wire' = IF link[ep[c]] = "open"
                     THEN [wire EXCEPT ![ep[c]] = @ \cup {<<id[c], c>>}] ELSE wire
          /\ UNCHANGED <<result, mProtocolMutex>>
  /\ UNCHANGED <<ep, id, retried, inbox, from, encodedFor, stateVars, mPending, nextId,
                 cancels, link, receiver, misaligned, shut>>

SendFailed(c) ==
  /\ pc[c] = "sending"
  /\ End(c, "error")
  /\ Abandon(c)
  /\ UNCHANGED <<ep, id, retried, inbox, from, encodedFor, stateVars, nextId, netVars, shut>>

(* The oneshot receiver resumes the call.  The guard of the pending entry  *)
(* is still active when the answer is a local failure.                     *)
Resume(c) ==
  /\ pc[c] = "waiting"
  /\ \/ /\ inbox[c] = "failed"
        /\ End(c, "error")
        /\ Abandon(c)
     \/ /\ inbox[c] = "ok"
        /\ End(c, "ok")
        /\ UNCHANGED <<mPending, cancels>>
     \/ /\ inbox[c] = "error"
        /\ pc' = [pc EXCEPT ![c] = "recover"]
        /\ UNCHANGED <<result, mProtocolMutex, mSendMutex, mPending, cancels>>
  /\ UNCHANGED <<ep, id, retried, inbox, from, encodedFor, stateVars, nextId, netVars, shut>>

(* recoverClientCall under mProtocolMutex: an error about method ids is    *)
(* retried once, in the next round of the loop; any other error is final.  *)
Recover(c) ==
  /\ pc[c] = "recover"
  /\ mProtocolMutex = None
  /\ \/ /\ RetryOnce /\ c \notin retried
        /\ retried' = retried \cup {c}
        /\ Register(c, peer)
     \/ /\ End(c, "error")
        /\ UNCHANGED <<ep, id, retried, inbox, from, encodedFor, mPending, nextId>>
  /\ UNCHANGED <<stateVars, cancels, netVars, shut>>

(* The deadline of the call passes, its token stops it, or its caller      *)
(* drops it.  A receive given up inside a frame leaves the stream          *)
(* misaligned.                                                             *)
GiveUp(c) ==
  /\ pc[c] # "ended"
  /\ End(c, "gaveUp")
  /\ Abandon(c)
  /\ \/ UNCHANGED misaligned
     \/ pc[c] = "hello" /\ misaligned' = misaligned \cup {ep[c]}
  /\ UNCHANGED <<ep, id, retried, inbox, from, encodedFor, stateVars, nextId,
                 link, receiver, wire, shut>>

----------------------------------------------------------------------------
(* The receive loop and the spawned Cancel frames. *)

Receive(e, i, c, kind) ==
  /\ receiver[e] = "running"
  /\ link[e] = "open"
  /\ <<i, c>> \in wire[e]
  /\ wire' = [wire EXCEPT ![e] = @ \ {<<i, c>>}]
  /\ LET w == mPending[i]
     IN  IF w = None
         THEN UNCHANGED <<inbox, from, mPending>>
         ELSE /\ inbox' = [inbox EXCEPT ![w] = kind]
              /\ from' = [from EXCEPT ![w] = c]
              /\ mPending' = [mPending EXCEPT ![i] = None]
  /\ UNCHANGED <<pc, ep, id, retried, result, encodedFor, stateVars, nextId, mProtocolMutex,
                 mSendMutex, cancels, link, receiver, misaligned, shut>>

(* recv fails or meets the end of the stream, and the endpoint stays as it *)
(* is; or a frame breaks a limit, and the loop closes the endpoint first.  *)
Disconnect(e) ==
  /\ receiver[e] = "running"
  /\ \/ UNCHANGED link
     \/ link[e] = "open" /\ link' = [link EXCEPT ![e] = "closed"]
  /\ receiver' = [receiver EXCEPT ![e] = "ended"]
  /\ mEndpoint' = IF mEndpoint = e THEN None ELSE mEndpoint
  /\ mReceiverStarted' = IF mEndpoint = e THEN FALSE ELSE mReceiverStarted
  /\ FailAll
  /\ UNCHANGED <<pc, ep, id, retried, from, result, encodedFor, mReceiverScope,
                 mResetPeerSession, peer, nextId, mProtocolMutex, mSendMutex, cancels,
                 misaligned, wire, shut>>

SendCancel(e, i) ==
  /\ <<e, i>> \in cancels
  /\ mSendMutex = None
  /\ cancels' = cancels \ {<<e, i>>}
  /\ UNCHANGED <<callVars, stateVars, mPending, nextId, mProtocolMutex, mSendMutex,
                 netVars, shut>>

PeerCloses(e) ==
  /\ link[e] = "open"
  /\ link' = [link EXCEPT ![e] = "eof"]
  /\ UNCHANGED <<callVars, stateVars, mPending, nextId, mProtocolMutex, mSendMutex,
                 cancels, receiver, misaligned, wire, shut>>

----------------------------------------------------------------------------
(* Operations of the application. *)

(* receiver, cancels: a scope is stopped and waited for. *)
StopScope ==
  /\ receiver' = [e \in Endpoint |-> IF receiver[e] = "running" THEN "ended" ELSE receiver[e]]
  /\ cancels' = {}

(* close(), followed by the installation of next when it is an endpoint. *)
Install(next) ==
  /\ link' = [e \in Endpoint |-> IF e = mEndpoint THEN "closed"
                                 ELSE IF e = next THEN "open" ELSE link[e]]
  /\ FailAll
  /\ StopScope
  /\ mEndpoint' = next
  /\ mReceiverScope' = (next # None)
  /\ mReceiverStarted' = FALSE
  /\ mResetPeerSession' = (mResetPeerSession \/ next # None)
  /\ UNCHANGED <<pc, ep, id, retried, from, result, encodedFor, peer, nextId,
                 mProtocolMutex, mSendMutex, misaligned, wire, shut>>

Close == Install(None)

SetEndpoint(e) == link[e] = "unused" /\ Install(e)

BeginShutdown ==
  /\ shut = None
  /\ mEndpoint # None
  /\ shut' = mEndpoint
  /\ UNCHANGED <<callVars, stateVars, mPending, nextId, mProtocolMutex, mSendMutex,
                 cancels, netVars>>

LockShutdown ==
  /\ shut # None
  /\ mSendMutex = None
  /\ mSendMutex' = "shutdown"
  /\ UNCHANGED <<callVars, stateVars, mPending, nextId, mProtocolMutex, cancels, netVars, shut>>

(* Flushed and shut down, or failed to: the endpoint is closed, and what   *)
(* is pending fails.                                                       *)
EndShutdown ==
  /\ mSendMutex = "shutdown"
  /\ mSendMutex' = None
  /\ link' = [link EXCEPT ![shut] = "closed"]
  /\ FailAll
  /\ IF mEndpoint = shut
     THEN /\ mEndpoint' = None
          /\ mReceiverScope' = FALSE
          /\ mReceiverStarted' = FALSE
          /\ StopScope
     ELSE UNCHANGED <<mEndpoint, mReceiverScope, mReceiverStarted, receiver, cancels>>
  /\ shut' = None
  /\ UNCHANGED <<pc, ep, id, retried, from, result, encodedFor, mResetPeerSession, peer,
                 nextId, mProtocolMutex, misaligned, wire>>

(* cancelRemote, at its end: the Cancel frame was sent, the call fails      *)
(* locally. The endpoint was chosen before it waited for the mutex and      *)
(* wrote, and need not be the client's any more; while it waits and writes  *)
(* it changes nothing here but keeps the mutex, as a slower write does.     *)
CancelRemote(i) ==
  /\ mSendMutex = None
  /\ mPending[i] # None
  /\ inbox' = [inbox EXCEPT ![mPending[i]] = "failed"]
  /\ mPending' = [mPending EXCEPT ![i] = None]
  /\ UNCHANGED <<pc, ep, id, retried, from, result, encodedFor, stateVars, nextId,
                 mProtocolMutex, mSendMutex, cancels, netVars, shut>>

----------------------------------------------------------------------------
CallStep(c) ==
  \/ Begin(c) \/ LockProtocol(c) \/ LockHello(c) \/ HelloAccepted(c) \/ HelloFailed(c)
  \/ LockSend(c) \/ Sent(c) \/ SendFailed(c) \/ Resume(c) \/ Recover(c)

LoopStep(e) ==
  \/ \E i \in Id, c \in Call, kind \in {"ok", "error"} : Receive(e, i, c, kind)
  \/ Disconnect(e)
  \/ \E i \in Id : SendCancel(e, i)

Next ==
  \/ \E c \in Call : CallStep(c) \/ GiveUp(c)
  \/ \E e \in Endpoint : LoopStep(e) \/ PeerCloses(e) \/ SetEndpoint(e)
  \/ Close \/ BeginShutdown \/ LockShutdown \/ EndShutdown
  \/ \E i \in Id : CancelRemote(i)

Spec == Init /\ [][Next]_vars

(* The executor resumes what can run; a write ends and the peer answers a  *)
(* hello or the stream fails; the loop notices the end of a stream.        *)
Fairness ==
  /\ \A c \in Call : /\ WF_vars(LockProtocol(c) \/ LockHello(c) \/ LockSend(c))
                     /\ WF_vars(HelloAccepted(c) \/ HelloFailed(c))
                     /\ WF_vars(Sent(c) \/ SendFailed(c))
                     /\ WF_vars(Resume(c)) /\ WF_vars(Recover(c))
  /\ \A e \in Endpoint : WF_vars(Disconnect(e) /\ link[e] = "eof")
  /\ WF_vars(LockShutdown \/ EndShutdown)

FairSpec == Spec /\ Fairness

----------------------------------------------------------------------------
(* Properties. *)

(* Every variable stays in its type; a mutex names a holder that exists. *)
TypeOK ==
  /\ pc \in [Call -> CallState]
  /\ ep \in [Call -> Endpoint \cup {None}]
  /\ id \in [Call -> 0 .. IdMax]
  /\ retried \subseteq Call
  /\ inbox \in [Call -> Inbox]
  /\ from \in [Call -> Call \cup {None}]
  /\ result \in [Call -> Result]
  /\ encodedFor \in [Call -> Endpoint \cup {None}]
  /\ mEndpoint \in Endpoint \cup {None}
  /\ mReceiverScope \in BOOLEAN
  /\ mReceiverStarted \in BOOLEAN
  /\ mResetPeerSession \in BOOLEAN
  /\ peer \in Endpoint \cup {None}
  /\ mPending \in [Id -> Call \cup {None}]
  /\ nextId \in 0 .. IdMax
  /\ mProtocolMutex \in Call \cup {None}
  /\ mSendMutex \in Call \cup {None, "shutdown"}
  /\ cancels \subseteq Endpoint \X Id
  /\ link \in [Endpoint -> {"unused", "open", "eof", "closed"}]
  /\ receiver \in [Endpoint -> {"none", "running", "ended"}]
  /\ misaligned \subseteq Endpoint
  /\ wire \in [Endpoint -> SUBSET (Id \X Call)]
  /\ shut \in Endpoint \cup {None}

(* A response is given to the call whose request it answers: a late answer *)
(* to a call that was given up never reaches a later call, whatever was    *)
(* retried, cancelled or reconnected in between.                           *)
OwnAnswer == \A c \in Call : from[c] \in {None, c}

(* No call waits for an answer nothing can deliver: it has its result, or  *)
(* its sender is still registered under its id.                            *)
NoLostCall ==
  \A c \in Call : pc[c] = "waiting" => inbox[c] # "empty" \/ mPending[id[c]] = c

(* An entry of mPending belongs to a call in flight that has no result:    *)
(* deadlines, failures and cancellation leave no entry behind to fill the  *)
(* budget of pending calls.                                                *)
PendingLive ==
  \A i \in Pending : LET c == mPending[i]
                     IN  Guarded(c) /\ id[c] = i /\ inbox[c] = "empty"

(* The limit on pending calls holds although it is read before a call      *)
(* negotiates and only later inserted: the check at insertion decides.     *)
PendingBounded == Cardinality(Pending) <= MaxPending

(* A best effort Cancel frame, spawned for whatever endpoint is current,   *)
(* never names the id of a call still in flight.                           *)
CancelNamesNoLiveCall ==
  \A x \in cancels, c \in Call : Guarded(c) => id[c] # x[2]

(* At most one receive loop, and it serves the current endpoint: a call    *)
(* that was negotiating on an endpoint replaced meanwhile starts none.     *)
OneReceiver ==
  \A e \in Endpoint : receiver[e] = "running" => mEndpoint = e /\ mReceiverStarted

(* The hello is read by the call itself, so the receive loop must not be   *)
(* reading the same stream.                                                *)
HelloOwnsStream ==
  \A c \in Call : pc[c] = "hello" => receiver[ep[c]] # "running"

(* A disconnect fails every pending call: a call that waits and has no     *)
(* result yet is served by a running receive loop.  A call that was        *)
(* retried may work on an endpoint replaced before the retry.              *)
DisconnectFailsPending ==
  \A c \in Call \ retried :
    pc[c] = "waiting" /\ inbox[c] = "empty" => receiver[ep[c]] = "running"

(* Once its endpoint is closed or at its end, a call that began returns,   *)
(* whatever it was waiting for: a mutex, a hello, a write or an answer.    *)
DisconnectEndsCalls ==
  \A c \in Call :
    pc[c] # "idle" /\ ep[c] # None /\ link[ep[c]] \in {"eof", "closed"} ~> pc[c] = "ended"

(* mPending is true, in both directions: a call that waits is in it, and   *)
(* what is in it waits; the variables keep their types.                    *)
PendingIsTrue == TypeOK /\ NoLostCall /\ PendingLive /\ CancelNamesNoLiveCall

(* A stream has one reader, the receive loop or a hello.                   *)
OneReader == OneReceiver /\ HelloOwnsStream
============================================================================
