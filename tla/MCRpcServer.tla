----------------------------- MODULE MCRpcServer -----------------------------
(* Two connections: one that says hello, sends two requests and a Cancel   *)
(* for the first; one whose request has the same id.                       *)
EXTENDS RpcServer, TLC

CONSTANTS c1, c2, r1, r2, q1

MCConn == {c1, c2}
MCRequest == {r1, r2, q1}
MCConnOf == (r1 :> c1) @@ (r2 :> c1) @@ (q1 :> c2)
MCIdOf == (r1 :> 1) @@ (r2 :> 2) @@ (q1 :> 1)

Hello == [kind |-> "hello"]
Call(r) == [kind |-> "request", request |-> r]
CancelOf(id) == [kind |-> "cancel", id |-> id]

MCScript == (c1 :> <<Hello, Call(r1), Call(r2), CancelOf(1)>>)
         @@ (c2 :> <<Call(q1)>>)
==============================================================================
