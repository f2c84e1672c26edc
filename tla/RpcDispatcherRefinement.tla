---------------------- MODULE RpcDispatcherRefinement ----------------------
(***************************************************************************)
(* RpcDispatcher implements BoundedService.                                *)
(***************************************************************************)
EXTENDS RpcDispatcher

(* Where the pool sees a request.  A request refused for its method or by  *)
(* the per-connection limit is no business of the pool: it is "done".      *)
PoolState ==
  [r \in Request |->
     CASE phase[r] \in {"new", "decoded"} -> "offered"
       [] phase[r] = "admitted" -> "waiting"
       [] phase[r] = "running" -> "running"
       [] phase[r] = "refused" /\ r \in Known /\ ~rejectOnly[MsgOf[r]] -> "turnedAway"
       [] OTHER -> "done"]

Pool == INSTANCE BoundedService WITH Workers <- MaxActive, Backlog <- MaxQueued,
                                     state <- PoolState

(* The dispatcher is a bounded service: admission, the semaphore, deadlines *)
(* and cancellation together never run more than max_active requests, keep *)
(* more than max_queued waiting, or turn one away while there is room.     *)
ImplementsBoundedService == Pool!Spec

============================================================================
