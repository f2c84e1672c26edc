---------------------------- MODULE MCRpcClient ----------------------------
(***************************************************************************)
(* Finite instances of RpcClient.  Calls of one kind are interchangeable,  *)
(* and so are endpoints nobody has used.                                   *)
(***************************************************************************)
EXTENDS RpcClient, TLC

Interchangeable == Permutations(Call \ Notify) \cup Permutations(Endpoint)

============================================================================
