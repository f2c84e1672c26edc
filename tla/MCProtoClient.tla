---------------------------- MODULE MCProtoClient ----------------------------
(* Two programs: both know p, whose number is reserved.  The sender has a, *)
(* the receiver registers a and b while messages are on their way, in any  *)
(* order, so that the two number them differently.                         *)
EXTENDS ProtoClient

CONSTANTS p, a, b

MCDictionary == <<a, b, p>>
MCStatics == [s \in Side |-> IF s = Sender THEN {p, a} ELSE {p}]
MCDynamics == [s \in Side |-> IF s = Sender THEN {b} ELSE {a, b}]
MCSpecify == (p :> 1) @@ (a :> -1) @@ (b :> -1)
==============================================================================
