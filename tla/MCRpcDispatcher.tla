-------------------------- MODULE MCRpcDispatcher --------------------------
(***************************************************************************)
(* Finite instances of RpcDispatcher.                                      *)
(***************************************************************************)
EXTENDS RpcDispatcherRefinement, TLC

(* A batch (1, 2) and a single request 3 on connection "a", whose peer     *)
(* uses the id of request 1 again, and a request 4 with that id on "b".    *)
MCMessage == {"a1", "a2", "b1"}
MCRequest == 1 .. 4
MCSession == {"a", "b"}
MCId == {"x", "y"}
MCSessionOf == "a1" :> "a" @@ "a2" :> "a" @@ "b1" :> "b"
MCMsgOf == <<"a1", "a1", "a2", "b1">>
MCPosition == <<1, 2, 1, 1>>
MCIdOf == <<"x", "y", "x", "x">>

(* Connection "a" carries a batch with an unknown method, then a           *)
(* notification that is admitted under the timeout the batch may have set, *)
(* and "b1" is a direct call.                                              *)
SmallMessage == {"a1", "a2", "b1"}
SmallRequest == 1 .. 4
SmallSessionOf == "a1" :> "a" @@ "a2" :> "a" @@ "b1" :> "b"
SmallMsgOf == <<"a1", "a1", "b1", "a2">>
SmallPosition == <<1, 2, 1, 1>>
SmallIdOf == <<"x", "y", "x", "z">>
SmallId == {"x", "y", "z"}

============================================================================
