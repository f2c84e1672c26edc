------------------------ MODULE RpcDispatcherProofs ------------------------
(***************************************************************************)
(* Proofs about RpcDispatcher, for every set of messages, requests and     *)
(* sessions and every capacity, timeout and id assignment.                 *)
(***************************************************************************)
EXTENDS RpcDispatcherRefinement, FiniteSetTheorems, TLAPS

QueuedWaiting == Waiting \cap queued

USE DEF Dequeue, ReturnPermit, LeaveGauges, Fill, AcceptsTimeout

(* What the limiter counts are subsets of the finite set of requests. *)
LEMMA CountedSetsFinite ==
  /\ IsFiniteSet(Live) /\ IsFiniteSet(Running) /\ IsFiniteSet(QueuedWaiting)
  /\ Cardinality(Live) \in Nat /\ Cardinality(Running) \in Nat
  /\ Cardinality(QueuedWaiting) \in Nat
<1>1. /\ Live \subseteq Request /\ Running \subseteq Request
      /\ QueuedWaiting \subseteq Request
  BY DEF Live, Running, Waiting, QueuedWaiting
<1>2. QED
  BY <1>1, FS_Subset, FS_CardinalityType, DispatcherAssumption

(* A request whose message has not been received is untouched. *)
NewUntouched == \A r \in Request : msg[MsgOf[r]] = "new" => phase[r] = "new"

(* Only a request that was admitted has an Admission with mQueued set. *)
QueuedEntered == \A r \in queued : phase[r] \notin {"new", "decoded"}

EntryInv == NewUntouched /\ QueuedEntered

(* The inductive invariant behind the limiter's accounting. *)
LimiterInv ==
  /\ TypeOK
  /\ EntryInv
  /\ BooksBalance
  /\ Cardinality(Live) <= Capacity

LEMMA LimiterInit == Init => LimiterInv
<1> SUFFICES ASSUME Init PROVE LimiterInv
  OBVIOUS
<1> USE DispatcherAssumption
<1>1. TypeOK
  BY DEF Init, TypeOK, MsgStatus, Phase, Outcome, Key, Timeout
<1>2. Live = {} /\ Running = {} /\ Waiting \cap queued = {}
  BY DEF Init, Live, Running, Waiting
<1>3. Cardinality({}) = 0
  BY FS_EmptySet
<1>4. EntryInv
  BY DEF Init, EntryInv, NewUntouched, QueuedEntered
<1>5. BooksBalance
  BY <1>2, <1>3 DEF Init, BooksBalance
<1>6. QED
  BY <1>1, <1>2, <1>3, <1>4, <1>5 DEF LimiterInv, Capacity

(* The steps that neither admit, start nor end a request keep the books.   *)
LEMMA BooksKept ==
  ASSUME LimiterInv, TypeOK', EntryInv',
         Live' = Live, Running' = Running, Waiting' = Waiting,
         UNCHANGED <<queued, mPermits, mOutstanding, mActive, mQueued>>
  PROVE  LimiterInv'
BY DEF LimiterInv, BooksBalance, Capacity

(* In particular the steps that leave the phases alone. *)
LEMMA PhasesKept ==
  ASSUME LimiterInv, TypeOK', EntryInv',
         UNCHANGED <<phase, queued, mPermits, mOutstanding, mActive, mQueued>>
  PROVE  LimiterInv'
<1>1. Live' = Live /\ Running' = Running /\ Waiting' = Waiting
  BY DEF Live, Running, Waiting
<1>2. QED
  BY <1>1, BooksKept

----------------------------------------------------------------------------
(* Type correctness.  The gauges stay in Nat because the books balance: a  *)
(* request that leaves was counted when it entered.                        *)

LEMMA LiveMembers ==
  ASSUME LimiterInv, NEW r \in Request
  PROVE  /\ phase[r] = "running" =>
              mActive > 0 /\ mOutstanding > 0 /\ r \in Running /\ r \in Live
         /\ phase[r] = "admitted" =>
              mOutstanding > 0 /\ r \in Live /\ (r \in queued => mQueued > 0)
<1> USE CountedSetsFinite
<1>1. \A S : IsFiniteSet(S) => (Cardinality(S) = 0 <=> S = {})
  BY FS_EmptySet
<1>2. phase[r] = "running" => r \in Running /\ r \in Live
  BY DEF Running, Live
<1>3. phase[r] = "admitted" => r \in Live /\ (r \in queued => r \in QueuedWaiting)
  BY DEF Live, Waiting, QueuedWaiting
<1>4. /\ r \in Running => Cardinality(Running) > 0
      /\ r \in Live => Cardinality(Live) > 0
      /\ r \in QueuedWaiting => Cardinality(QueuedWaiting) > 0
  BY <1>1
<1>5. QED
  BY <1>2, <1>3, <1>4 DEF LimiterInv, BooksBalance, QueuedWaiting

LEMMA TypeOfEffectiveTimeout ==
  ASSUME TypeOK, NEW s \in Session
  PROVE  EffectiveTimeout(s) \in Timeout
BY DispatcherAssumption DEF TypeOK, EffectiveTimeout, Timeout

LEMMA KeyOfRequest == ASSUME NEW r \in Request PROVE KeyOf(r) \in Key
BY DispatcherAssumption DEF KeyOf, Key

LEMMA MessageTypeStep ==
  ASSUME LimiterInv, NEW m \in Message, MessageStep(m)
  PROVE  TypeOK'
<1> USE DispatcherAssumption DEF LimiterInv, TypeOK, vars, requestVars, mapVars, limiterVars
<1>1. ASSUME NEW reject \in BOOLEAN, Begin(m, reject) PROVE TypeOK'
  BY <1>1 DEF Begin, MsgStatus, Phase
<1>2. CASE AwaitAll(m)
  BY <1>2 DEF AwaitAll, MsgStatus
<1>3. CASE Finish(m)
  BY <1>3 DEF Finish, MsgStatus, Outcome
<1>4. CASE EndStopped(m)
  BY <1>4 DEF EndStopped, MsgStatus
<1>5. CASE AbandonCall(m)
  BY <1>5 DEF AbandonCall, StopTasks, Live, MsgStatus
<1>6. QED
  BY <1>1, <1>2, <1>3, <1>4, <1>5 DEF MessageStep

LEMMA ReleaseTypes ==
  ASSUME LimiterInv, NEW r \in Request, r \in Live, Release(r)
  PROVE  /\ phase' \in [Request -> Phase]
         /\ mOutstanding' \in Nat /\ mPermits' \in Nat
         /\ mActive' \in Nat /\ mQueued' \in Nat /\ mCompleted' \in Nat
BY LiveMembers DEF Release, Live, LimiterInv, TypeOK, Phase

LEMMA RequestTypeStep ==
  ASSUME LimiterInv, NEW r \in Request, RequestStep(r)
  PROVE  TypeOK'
<1> USE DispatcherAssumption DEF LimiterInv, TypeOK, vars, requestVars, mapVars, limiterVars
<1>1. CASE RefuseUnknown(r)
  BY <1>1 DEF RefuseUnknown, Refuse, Respond, Phase, Outcome
<1>2. CASE RefuseOverloaded(r)
  BY <1>2 DEF RefuseOverloaded, Refuse, Respond, Phase, Outcome
<1>3. CASE Admit(r)
  <2>1. EffectiveTimeout(SessionOf[MsgOf[r]]) \in Timeout
    BY TypeOfEffectiveTimeout
  <2>2. KeyOf(r) \in Key
    BY KeyOfRequest
  <2>3. QED
    BY <1>3, <2>1, <2>2 DEF Admit, Phase
<1>4. CASE Start(r)
  <2>1. r \in queued => mQueued > 0
    BY <1>4, LiveMembers DEF Start
  <2>2. KeyOf(r) \in Key
    BY KeyOfRequest
  <2>3. QED
    BY <1>4, <2>1, <2>2 DEF Start, Phase
<1>5. CASE Complete(r)
  <2>1. r \in Live
    BY <1>5 DEF Complete, Live
  <2>2. QED
    BY <1>5, <2>1, ReleaseTypes DEF Complete, Release, Respond, Outcome
<1>6. CASE Expire(r)
  <2>1. /\ r \in Live /\ Release(r) /\ mTimedOut' = mTimedOut + 1
        /\ slot' = [slot EXCEPT ![r] = Respond(r, "DeadlineExceeded")]
    BY <1>6 DEF Expire
  <2>2. UNCHANGED <<msg, rejectOnly, queued, limit, stop, mapVars, mCanceled, mRejected>>
    BY <2>1 DEF Release
  <2>3. QED
    BY <2>1, <2>2, ReleaseTypes DEF Respond, Outcome
<1>7. CASE Abort(r)
  <2>1. r \in Live /\ Release(r) /\ UNCHANGED <<slot, mTimedOut>>
    BY <1>7 DEF Abort
  <2>2. UNCHANGED <<msg, rejectOnly, queued, limit, stop, mapVars, mCanceled, mRejected>>
    BY <2>1 DEF Release
  <2>3. QED
    BY <2>1, <2>2, ReleaseTypes
<1>8. ASSUME NEW ns \in Nanos, SetConnectionTimeout(r, ns) PROVE TypeOK'
  BY <1>8 DEF SetConnectionTimeout, Timeout
<1>9. QED
  BY <1>1, <1>2, <1>3, <1>4, <1>5, <1>6, <1>7, <1>8 DEF RequestStep

LEMMA RegisteredCount ==
  ASSUME NEW K \in SUBSET Key
  PROVE  Cardinality(Registered(K)) \in Nat
<1>1. IsFiniteSet(Key)
  BY FS_Product, DispatcherAssumption DEF Key
<1>2. Registered(K) \subseteq Key
  BY DEF Registered
<1>3. QED
  BY <1>1, <1>2, FS_Subset, FS_CardinalityType

LEMMA CancelKeysTypes ==
  ASSUME LimiterInv, NEW K \in SUBSET Key, CancelKeys(K)
  PROVE  TypeOK'
<1>1. mCanceled' \in Nat
  BY RegisteredCount DEF CancelKeys, LimiterInv, TypeOK
<1>2. QED
  BY <1>1 DEF CancelKeys, StopTasks, LimiterInv, TypeOK, mapVars, Live

LEMMA ControlTypeStep ==
  ASSUME LimiterInv, ControlStep
  PROVE  TypeOK'
<1>1. ASSUME NEW s \in Session, NEW id \in Id, Cancel(s, id) PROVE TypeOK'
  <2>1. {<<s, id>>} \in SUBSET Key
    BY DEF Key
  <2>2. QED
    BY <1>1, <2>1, CancelKeysTypes DEF Cancel
<1>2. ASSUME NEW id \in Id, CancelId(id) PROVE TypeOK'
  <2>1. Session \X {id} \in SUBSET Key
    BY DEF Key
  <2>2. QED
    BY <1>2, <2>1, CancelKeysTypes DEF CancelId
<1>3. CASE CancelAll
  <2>1. mCanceled' \in Nat
    BY <1>3, RegisteredCount DEF CancelAll, LimiterInv, TypeOK
  <2>2. QED
    BY <1>3, <2>1 DEF CancelAll, StopTasks, LimiterInv, TypeOK, Live, Timeout
<1>4. ASSUME NEW s \in Session, CloseSession(s) PROVE TypeOK'
  <2>1. {s} \X Id \in SUBSET Key
    BY DEF Key
  <2>2. mCanceled' \in Nat
    BY <1>4, <2>1, RegisteredCount DEF CloseSession, LimiterInv, TypeOK
  <2>3. msg' \in [Message -> MsgStatus]
    BY <1>4 DEF CloseSession, LimiterInv, TypeOK, MsgStatus
  <2>4. mCancelHandles' \in [Key -> Request \cup {None}]
    BY <1>4 DEF CloseSession, LimiterInv, TypeOK
  <2>5. mRequestStates' \in [Key -> {"absent", "queued", "running"}]
    BY <1>4 DEF CloseSession, LimiterInv, TypeOK
  <2>6. QED
    BY <1>4, <2>2, <2>3, <2>4, <2>5
       DEF CloseSession, StopTasks, LimiterInv, TypeOK, Live, Timeout
<1>5. QED
  BY <1>1, <1>2, <1>3, <1>4 DEF ControlStep

LEMMA TypeStep == LimiterInv /\ [Next]_vars => TypeOK'
<1>1. LimiterInv /\ UNCHANGED vars => TypeOK'
  BY DEF LimiterInv, TypeOK, vars, requestVars, mapVars, limiterVars
<1>2. QED
  BY <1>1, MessageTypeStep, RequestTypeStep, ControlTypeStep DEF Next

----------------------------------------------------------------------------
(* A message's requests stay untouched until Begin. *)

LEMMA NewUntouchedStep == LimiterInv /\ [Next]_vars => NewUntouched'
<1> SUFFICES ASSUME LimiterInv, [Next]_vars, NEW r \in Request, msg'[MsgOf[r]] = "new"
             PROVE  phase'[r] = "new"
  BY DEF NewUntouched
<1> USE DispatcherAssumption DEF LimiterInv, TypeOK
<1>0. MsgOf[r] \in Message
  OBVIOUS
<1>1. msg[MsgOf[r]] = "new" => phase[r] = "new"
  BY DEF EntryInv, NewUntouched
<1>2. ASSUME NEW m \in Message, MessageStep(m) PROVE phase'[r] = "new"
  BY <1>0, <1>1, <1>2 DEF MessageStep, Begin, AwaitAll, Finish, EndStopped, AbandonCall, requestVars
<1>3. ASSUME NEW q \in Request, RequestStep(q) PROVE phase'[r] = "new"
  <2>1. msg' = msg /\ phase[q] # "new"
    BY <1>3 DEF RequestStep, RefuseUnknown, RefuseOverloaded, Refuse, Admit, IsNext, Start,
                Complete, Expire, Abort, Release, SetConnectionTimeout, Live
  <2>2. phase' = phase \/ \E v \in Phase : phase' = [phase EXCEPT ![q] = v]
    BY <1>3 DEF RequestStep, RefuseUnknown, RefuseOverloaded, Refuse, Admit, Start, Phase,
                Complete, Expire, Abort, Release, SetConnectionTimeout, requestVars
  <2>3. QED
    BY <1>1, <2>1, <2>2
<1>4. CASE ControlStep
  <2>1. phase' = phase
    BY <1>4 DEF ControlStep, Cancel, CancelId, CancelKeys, CancelAll, CloseSession
  <2>2. msg[MsgOf[r]] = "new"
    BY <1>4, <1>0 DEF ControlStep, Cancel, CancelId, CancelKeys, CancelAll, CloseSession
  <2>3. QED
    BY <1>1, <2>1, <2>2
<1>5. CASE UNCHANGED vars
  BY <1>5, <1>1 DEF vars, requestVars
<1>6. QED
  BY <1>2, <1>3, <1>4, <1>5 DEF Next

LEMMA QueuedEnteredStep == LimiterInv /\ [Next]_vars => QueuedEntered'
<1> SUFFICES ASSUME LimiterInv, [Next]_vars, NEW r \in queued'
             PROVE  phase'[r] \notin {"new", "decoded"}
  BY DEF QueuedEntered
<1> USE DispatcherAssumption DEF LimiterInv, TypeOK
<1>1. r \in queued => r \in Request /\ phase[r] \notin {"new", "decoded"}
  BY DEF EntryInv, QueuedEntered
<1>2. ASSUME NEW m \in Message, MessageStep(m) PROVE phase'[r] \notin {"new", "decoded"}
  <2>1. queued' = queued
    BY <1>2 DEF MessageStep, Begin, AwaitAll, Finish, EndStopped, AbandonCall, requestVars
  <2>2. phase' = phase \/ (msg[m] = "new" /\ \A q \in Request : MsgOf[q] # m => phase'[q] = phase[q])
    BY <1>2 DEF MessageStep, Begin, AwaitAll, Finish, EndStopped, AbandonCall, requestVars
  <2>3. MsgOf[r] = m => msg[m] # "new"
    BY <1>1, <2>1 DEF EntryInv, NewUntouched
  <2>4. QED
    BY <1>1, <2>1, <2>2, <2>3
<1>3. ASSUME NEW q \in Request, RequestStep(q) PROVE phase'[r] \notin {"new", "decoded"}
  <2>1. /\ queued' \subseteq queued \cup {q}
        /\ \/ phase' = phase
           \/ \E v \in Phase \ {"new", "decoded"} : phase' = [phase EXCEPT ![q] = v]
    BY <1>3 DEF RequestStep, RefuseUnknown, RefuseOverloaded, Refuse, Admit, Start, Phase,
                Complete, Expire, Abort, Release, SetConnectionTimeout, requestVars
  <2>2. phase' = phase => queued' = queued
    BY <1>3 DEF RequestStep, RefuseUnknown, RefuseOverloaded, Refuse, Admit, IsNext, Start,
                Complete, Expire, Abort, Release, SetConnectionTimeout, requestVars, Live
  <2>3. QED
    BY <1>1, <2>1, <2>2
<1>4. CASE ControlStep
  <2>1. phase' = phase /\ queued' = queued
    BY <1>4 DEF ControlStep, Cancel, CancelId, CancelKeys, CancelAll, CloseSession
  <2>2. QED
    BY <1>1, <2>1
<1>5. CASE UNCHANGED vars
  BY <1>5, <1>1 DEF vars, requestVars
<1>6. QED
  BY <1>2, <1>3, <1>4, <1>5 DEF Next

----------------------------------------------------------------------------
(* The books.  A step moves at most one request between the counted sets.  *)

(* One member more or one less is one more or one less in the count.       *)
LEMMA CountStep ==
  ASSUME NEW S, IsFiniteSet(S), NEW r
  PROVE  /\ r \notin S => Cardinality(S \cup {r}) = Cardinality(S) + 1
         /\ r \in S => Cardinality(S \ {r}) = Cardinality(S) - 1
BY FS_AddElement, FS_RemoveElement

(* The books as numbers. *)
LEMMA Books ==
  ASSUME LimiterInv
  PROVE  /\ mPermits \in Nat /\ mOutstanding \in Nat /\ mActive \in Nat /\ mQueued \in Nat
         /\ mPermits + Cardinality(Running) = MaxActive
         /\ mOutstanding = Cardinality(Live)
         /\ mActive = Cardinality(Running)
         /\ mQueued = Cardinality(QueuedWaiting)
BY DEF LimiterInv, TypeOK, BooksBalance, QueuedWaiting

LEMMA BooksFromCounts ==
  ASSUME mPermits' + Cardinality(Running') = MaxActive,
         mOutstanding' = Cardinality(Live'),
         mActive' = Cardinality(Running'),
         mQueued' = Cardinality(QueuedWaiting')
  PROVE  BooksBalance'
BY DEF BooksBalance, QueuedWaiting

LEMMA AdmitBooks ==
  ASSUME LimiterInv, TypeOK', EntryInv', NEW r \in Request, Admit(r)
  PROVE  LimiterInv'
<1> USE DispatcherAssumption
<1>1. phase[r] = "decoded" /\ phase' = [phase EXCEPT ![r] = "admitted"]
  BY DEF Admit, IsNext
<1>2. /\ r \notin Live /\ Live' = Live \cup {r}
      /\ Running' = Running
      /\ r \notin QueuedWaiting
  BY <1>1 DEF Live, Running, Waiting, QueuedWaiting, LimiterInv, TypeOK
<1>3. WouldQueue => QueuedWaiting' = QueuedWaiting \cup {r}
  BY <1>1 DEF Admit, Waiting, QueuedWaiting, LimiterInv, TypeOK
<1>4. Cardinality(Live') = Cardinality(Live) + 1
  BY <1>2, CountStep, CountedSetsFinite
<1>5. WouldQueue => Cardinality(QueuedWaiting') = Cardinality(QueuedWaiting) + 1
  BY <1>2, <1>3, CountStep, CountedSetsFinite
<1>6. ~WouldQueue => QueuedWaiting' = QueuedWaiting
  <2>1. r \notin queued
    BY <1>1 DEF LimiterInv, EntryInv, QueuedEntered
  <2>2. QED
    BY <2>1, <1>1 DEF Admit, Waiting, QueuedWaiting, LimiterInv, TypeOK
<1>7. Cardinality(Live') <= Capacity
  BY <1>4, CountedSetsFinite
     DEF Admit, NoCapacity, WouldQueue, Capacity, LimiterInv, BooksBalance
<1>8. BooksBalance'
  BY <1>2, <1>4, <1>5, <1>6, Books, BooksFromCounts, CountedSetsFinite DEF Admit
<1>9. QED
  BY <1>7, <1>8 DEF LimiterInv, Capacity

LEMMA StartBooks ==
  ASSUME LimiterInv, TypeOK', EntryInv', NEW r \in Request, Start(r)
  PROVE  LimiterInv'
<1>1. phase[r] = "admitted" /\ phase' = [phase EXCEPT ![r] = "running"]
  BY DEF Start
<1>2. /\ Live' = Live
      /\ r \notin Running /\ Running' = Running \cup {r}
      /\ QueuedWaiting' = QueuedWaiting \ {r}
      /\ r \in queued <=> r \in QueuedWaiting
  BY <1>1 DEF Start, Live, Running, Waiting, QueuedWaiting, LimiterInv, TypeOK
<1>3. Cardinality(Running') = Cardinality(Running) + 1
  BY <1>2, CountStep, CountedSetsFinite
<1>4. r \in queued => Cardinality(QueuedWaiting') = Cardinality(QueuedWaiting) - 1
  BY <1>2, CountStep, CountedSetsFinite
<1>5. r \notin queued => QueuedWaiting' = QueuedWaiting
  BY <1>2
<1>6. BooksBalance'
  <2>1. mQueued' = Cardinality(QueuedWaiting')
    BY <1>4, <1>5, Books DEF Start
  <2>2. mOutstanding' = Cardinality(Live') /\ mActive' = Cardinality(Running')
    BY <1>2, <1>3, Books DEF Start
  <2>3. mPermits' + Cardinality(Running') = MaxActive
    BY <1>3, Books, CountedSetsFinite DEF Start
  <2>4. QED
    BY <2>1, <2>2, <2>3, BooksFromCounts
<1>7. QED
  BY <1>2, <1>6 DEF LimiterInv, Capacity

(* Whatever ends a request, Release gives back what Admit and Start took.  *)
LEMMA ReleaseBooks ==
  ASSUME LimiterInv, TypeOK', EntryInv', NEW r \in Request, r \in Live, Release(r)
  PROVE  LimiterInv'
<1>1. /\ Live' = Live \ {r}
      /\ phase[r] = "running" => /\ r \in Running /\ Running' = Running \ {r}
                                 /\ QueuedWaiting' = QueuedWaiting
      /\ phase[r] # "running" => /\ Running' = Running
                                 /\ QueuedWaiting' = QueuedWaiting \ {r}
                                 /\ r \in queued <=> r \in QueuedWaiting
  BY DEF Release, Live, Running, Waiting, QueuedWaiting, LimiterInv, TypeOK
<1>2. Cardinality(Live') = Cardinality(Live) - 1
  BY <1>1, CountStep, CountedSetsFinite
<1>3. CASE phase[r] = "running"
  <2>1. Cardinality(Running') = Cardinality(Running) - 1
    BY <1>1, <1>3, CountStep, CountedSetsFinite
  <2>2. BooksBalance'
    BY <1>1, <1>2, <1>3, <2>1, Books, BooksFromCounts, CountedSetsFinite, DispatcherAssumption
       DEF Release
  <2>3. QED
    BY <1>2, <2>2, CountedSetsFinite, DispatcherAssumption DEF LimiterInv, Capacity
<1>4. CASE phase[r] # "running"
  <2>1. r \in queued => Cardinality(QueuedWaiting') = Cardinality(QueuedWaiting) - 1
    BY <1>1, <1>4, CountStep, CountedSetsFinite
  <2>2. r \notin queued => QueuedWaiting' = QueuedWaiting
    BY <1>1, <1>4
  <2>3. BooksBalance'
    BY <1>1, <1>2, <1>4, <2>1, <2>2, Books, BooksFromCounts, CountedSetsFinite,
       DispatcherAssumption
       DEF Release
  <2>4. QED
    BY <1>2, <2>3, CountedSetsFinite, DispatcherAssumption DEF LimiterInv, Capacity
<1>5. QED
  BY <1>3, <1>4

LEMMA RequestBooks ==
  ASSUME LimiterInv, TypeOK', EntryInv', NEW r \in Request, RequestStep(r)
  PROVE  LimiterInv'
<1>1. CASE RefuseUnknown(r) \/ RefuseOverloaded(r)
  <2>1. phase[r] = "decoded" /\ phase' = [phase EXCEPT ![r] = "refused"]
    BY <1>1 DEF RefuseUnknown, RefuseOverloaded, Refuse, IsNext
  <2>2. Live' = Live /\ Running' = Running /\ Waiting' = Waiting
    BY <2>1 DEF Live, Running, Waiting, LimiterInv, TypeOK
  <2>3. UNCHANGED <<queued, mPermits, mOutstanding, mActive, mQueued>>
    BY <1>1 DEF RefuseUnknown, RefuseOverloaded, Refuse
  <2>4. QED
    BY <2>2, <2>3, BooksKept
<1>2. CASE Admit(r)
  BY <1>2, AdmitBooks
<1>3. CASE Start(r)
  BY <1>3, StartBooks
<1>4. CASE Complete(r) \/ Expire(r) \/ Abort(r)
  <2>1. r \in Live /\ Release(r)
    BY <1>4 DEF Complete, Expire, Abort, Live
  <2>2. QED
    BY <2>1, ReleaseBooks
<1>5. ASSUME NEW ns \in Nanos, SetConnectionTimeout(r, ns) PROVE LimiterInv'
  BY <1>5, PhasesKept DEF SetConnectionTimeout, requestVars, limiterVars
<1>6. QED
  BY <1>1, <1>2, <1>3, <1>4, <1>5 DEF RequestStep

LEMMA MessageBooks ==
  ASSUME LimiterInv, TypeOK', EntryInv', NEW m \in Message, MessageStep(m)
  PROVE  LimiterInv'
<1>1. ASSUME NEW reject \in BOOLEAN, Begin(m, reject) PROVE LimiterInv'
  <2>1. \A r \in Request : phase'[r] = phase[r] \/ (phase[r] = "new" /\ phase'[r] = "decoded")
    BY <1>1 DEF Begin, LimiterInv, EntryInv, NewUntouched
  <2>2. Live' = Live /\ Running' = Running /\ Waiting' = Waiting
    BY <2>1 DEF Live, Running, Waiting
  <2>3. QED
    BY <1>1, <2>2, BooksKept DEF Begin, limiterVars
<1>2. CASE AwaitAll(m) \/ Finish(m) \/ EndStopped(m) \/ AbandonCall(m)
  BY <1>2, PhasesKept DEF AwaitAll, Finish, EndStopped, AbandonCall, requestVars, limiterVars
<1>3. QED
  BY <1>1, <1>2 DEF MessageStep

LEMMA LimiterStep == LimiterInv /\ [Next]_vars => LimiterInv'
<1> SUFFICES ASSUME LimiterInv, [Next]_vars PROVE LimiterInv'
  OBVIOUS
<1>1. TypeOK' /\ EntryInv'
  BY TypeStep, NewUntouchedStep, QueuedEnteredStep DEF EntryInv
<1>2. CASE ControlStep
  BY <1>1, <1>2, PhasesKept DEF ControlStep, Cancel, CancelId, CancelKeys, CancelAll, CloseSession
<1>3. CASE UNCHANGED vars
  BY <1>1, <1>3, PhasesKept DEF vars, requestVars, limiterVars
<1>4. QED
  BY <1>1, <1>2, <1>3, RequestBooks, MessageBooks DEF Next

(* The inductive invariant of the limiter holds in every reachable state.  *)
THEOREM LimiterInvariant == Spec => []LimiterInv
BY LimiterInit, LimiterStep, PTL DEF Spec

(* Every member of RpcDispatcher and of the limiter keeps its type; in     *)
(* particular no gauge or permit count of the limiter goes below zero.     *)
THEOREM TypeCorrect == Spec => []TypeOK
<1>1. LimiterInv => TypeOK
  BY DEF LimiterInv
<1>2. QED
  BY <1>1, LimiterInvariant, PTL

(* The permits, admissions and gauges of the limiter are at all times      *)
(* those of the requests inside it, whichever way requests leave.          *)
THEOREM BooksAlwaysBalance == Spec => []BooksBalance
<1>1. LimiterInv => BooksBalance
  BY DEF LimiterInv
<1>2. QED
  BY <1>1, LimiterInvariant, PTL

(* tryAdmit and the semaphore bound the running handlers by max_active and *)
(* the admitted requests by max_active + max_queued.                       *)
THEOREM CapacityRespected == Spec => []WithinCapacity
<1>1. LimiterInv => WithinCapacity
  BY CountedSetsFinite, DispatcherAssumption
     DEF LimiterInv, TypeOK, BooksBalance, WithinCapacity
<1>2. QED
  BY <1>1, LimiterInvariant, PTL

----------------------------------------------------------------------------
(* The dispatcher implements BoundedService. *)

(* How the pool sees a step that moves one request to another phase.       *)
LEMMA PoolMove ==
  ASSUME LimiterInv, NEW r \in Request, NEW p \in Phase,
         phase' = [phase EXCEPT ![r] = p], rejectOnly' = rejectOnly
  PROVE  PoolState' = [PoolState EXCEPT ![r] = PoolState'[r]]
<1>1. \A q \in Request : q # r => PoolState'[q] = PoolState[q]
  BY DEF PoolState, LimiterInv, TypeOK
<1>2. QED
  BY <1>1 DEF PoolState

(* The instance has its own copy of FiniteSets: it counts alike. *)
LEMMA SameCardinality == ASSUME NEW S PROVE Pool!Cardinality(S) = Cardinality(S)
BY Zenon DEF Cardinality, Pool!Cardinality

LEMMA PoolCounts ==
  ASSUME LimiterInv
  PROVE  /\ Pool!Inside = Live /\ Pool!Busy = Running
         /\ Pool!Cardinality(Pool!Inside) = mOutstanding
         /\ Pool!Cardinality(Pool!Busy) = Cardinality(Running)
<1>1. Pool!Inside = Live /\ Pool!Busy = Running
  BY DEF LimiterInv, TypeOK, Phase, PoolState, Live, Running, Pool!Inside, Pool!Busy
<1>2. QED
  BY <1>1, SameCardinality, Books

LEMMA PoolKept ==
  ASSUME UNCHANGED <<phase, rejectOnly>>
  PROVE  UNCHANGED PoolState
BY DEF PoolState

LEMMA PoolMessageStep ==
  ASSUME LimiterInv, NEW m \in Message, MessageStep(m)
  PROVE  UNCHANGED PoolState
<1>1. ASSUME NEW reject \in BOOLEAN, Begin(m, reject) PROVE UNCHANGED PoolState
  <2>1. \A r \in Request : /\ PoolState'[r] = PoolState[r]
    <3> SUFFICES ASSUME NEW r \in Request PROVE PoolState'[r] = PoolState[r]
      OBVIOUS
    <3>1. CASE MsgOf[r] = m
      BY <1>1, <3>1 DEF Begin, LimiterInv, TypeOK, EntryInv, NewUntouched, PoolState
    <3>2. CASE MsgOf[r] # m
      <4>1. phase'[r] = phase[r] /\ rejectOnly'[MsgOf[r]] = rejectOnly[MsgOf[r]]
        BY <1>1, <3>2, DispatcherAssumption DEF Begin, LimiterInv, TypeOK
      <4>2. QED
        BY <4>1 DEF PoolState
    <3>3. QED
      BY <3>1, <3>2
  <2>2. QED
    BY <2>1 DEF PoolState
<1>2. CASE AwaitAll(m) \/ Finish(m) \/ EndStopped(m) \/ AbandonCall(m)
  BY <1>2, PoolKept DEF AwaitAll, Finish, EndStopped, AbandonCall, requestVars
<1>3. QED
  BY <1>1, <1>2 DEF MessageStep

LEMMA PoolRequestStep ==
  ASSUME LimiterInv, NEW r \in Request, RequestStep(r)
  PROVE  Pool!Next \/ UNCHANGED PoolState
<1> USE DEF Pool!Next, Pool!Move
<1>1. CASE RefuseUnknown(r)
  <2>1. PoolState[r] = "offered" /\ PoolState' = [PoolState EXCEPT ![r] = PoolState'[r]]
    BY <1>1, PoolMove DEF RefuseUnknown, Refuse, IsNext, PoolState, Phase
  <2>2. PoolState'[r] = "done"
    BY <1>1 DEF RefuseUnknown, Refuse, PoolState, LimiterInv, TypeOK
  <2>3. QED
    BY <2>1, <2>2 DEF Pool!Decline
<1>2. CASE RefuseOverloaded(r)
  <2>1. PoolState[r] = "offered" /\ PoolState' = [PoolState EXCEPT ![r] = PoolState'[r]]
    BY <1>2, PoolMove DEF RefuseOverloaded, Refuse, IsNext, PoolState, Phase
  <2>2. CASE rejectOnly[MsgOf[r]]
    <3>1. PoolState'[r] = "done"
      BY <1>2, <2>2 DEF RefuseOverloaded, Refuse, PoolState, LimiterInv, TypeOK
    <3>2. QED
      BY <2>1, <3>1 DEF Pool!Decline
  <2>3. CASE ~rejectOnly[MsgOf[r]]
    <3>1. PoolState'[r] = "turnedAway"
      BY <1>2, <2>3 DEF RefuseOverloaded, Refuse, PoolState, LimiterInv, TypeOK
    <3>2. ~Pool!Room
      BY <1>2, <2>3, PoolCounts, Books, CountedSetsFinite, DispatcherAssumption
         DEF RefuseOverloaded, NoCapacity, WouldQueue, Pool!Room
    <3>3. QED
      BY <2>1, <3>1, <3>2 DEF Pool!TurnAway
  <2>4. QED
    BY <2>2, <2>3
<1>3. CASE Admit(r)
  <2>1. PoolState[r] = "offered" /\ PoolState' = [PoolState EXCEPT ![r] = PoolState'[r]]
    BY <1>3, PoolMove DEF Admit, IsNext, PoolState, Phase
  <2>2. PoolState'[r] = "waiting"
    BY <1>3 DEF Admit, PoolState, LimiterInv, TypeOK
  <2>3. Pool!Room
    BY <1>3, PoolCounts, Books, CountedSetsFinite, DispatcherAssumption
       DEF Admit, NoCapacity, WouldQueue, Pool!Room
  <2>4. QED
    BY <2>1, <2>2, <2>3 DEF Pool!Accept
<1>4. CASE Start(r)
  <2>1. PoolState[r] = "waiting" /\ PoolState' = [PoolState EXCEPT ![r] = PoolState'[r]]
    BY <1>4, PoolMove DEF Start, PoolState, Phase
  <2>2. PoolState'[r] = "running"
    BY <1>4 DEF Start, PoolState, LimiterInv, TypeOK
  <2>3. Pool!Cardinality(Pool!Busy) < MaxActive
    BY <1>4, PoolCounts, Books, CountedSetsFinite, DispatcherAssumption DEF Start
  <2>4. QED
    BY <2>1, <2>2, <2>3 DEF Pool!Run
<1>5. CASE Complete(r) \/ Expire(r) \/ Abort(r)
  <2>1. r \in Live /\ Release(r)
    BY <1>5 DEF Complete, Expire, Abort, Live
  <2>2. PoolState[r] \in {"waiting", "running"}
    BY <2>1 DEF Live, PoolState
  <2>3. PICK p \in {"finished", "dropped"} : phase' = [phase EXCEPT ![r] = p]
    BY <2>1 DEF Release
  <2>4. PoolState' = [PoolState EXCEPT ![r] = PoolState'[r]]
    BY <2>1, <2>3, PoolMove DEF Release, Phase
  <2>5. PoolState'[r] = "done"
    BY <2>3 DEF PoolState, LimiterInv, TypeOK
  <2>6. QED
    BY <2>2, <2>4, <2>5 DEF Pool!Leave
<1>6. ASSUME NEW ns \in Nanos, SetConnectionTimeout(r, ns) PROVE UNCHANGED PoolState
  BY <1>6, PoolKept DEF SetConnectionTimeout, requestVars
<1>7. QED
  BY <1>1, <1>2, <1>3, <1>4, <1>5, <1>6 DEF RequestStep

(* RpcExecutionLimiter and RpcDispatcher together keep the promise of a    *)
(* bounded pool, stated without permits, gauges, deadlines or handles.     *)
THEOREM DispatcherImplementsBoundedService == Spec => ImplementsBoundedService
<1>1. Init => Pool!Init
  BY DEF Init, Pool!Init, PoolState
<1>2. LimiterInv /\ [Next]_vars => [Pool!Next]_PoolState
  <2> SUFFICES ASSUME LimiterInv, [Next]_vars PROVE [Pool!Next]_PoolState
    OBVIOUS
  <2>1. CASE ControlStep
    BY <2>1, PoolKept DEF ControlStep, Cancel, CancelId, CancelKeys, CancelAll, CloseSession
  <2>2. CASE UNCHANGED vars
    BY <2>2, PoolKept DEF vars, requestVars
  <2>3. QED
    BY <2>1, <2>2, PoolMessageStep, PoolRequestStep DEF Next
<1>3. QED
  BY <1>1, <1>2, LimiterInvariant, PTL DEF Spec, ImplementsBoundedService, Pool!Spec

============================================================================
