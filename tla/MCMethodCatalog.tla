-------------------------- MODULE MCMethodCatalog --------------------------
(***************************************************************************)
(* Finite instances of MethodCatalog.                                      *)
(***************************************************************************)
EXTENDS MethodCatalog, TLC

(* Two methods of two signatures; the first signatures of both collide.    *)
MCNameOrder == <<"add", "sink">>
MCHashOf ==
  <<"add", "int">> :> 1 @@ <<"add", "text">> :> 2 @@ <<"sink", "int">> :> 1 @@ <<"sink", "text">> :> 3
MCNameOf == 1 :> "add" @@ 2 :> "sink"
MCStart == {[n \in {"add", "sink"} |-> "int"]}
NoCallNames == <<>>

(* Three methods, for the table alone. *)
ThreeNames == <<"add", "mul", "sink">>
ThreeHashOf ==
  [p \in {"add", "mul", "sink"} \X {"int", "text"} |->
     IF p[2] = "text" THEN 2 ELSE IF p[1] = "mul" THEN 3 ELSE 1]
ThreeStart == {[n \in {"add", "mul", "sink"} |-> s] : s \in {"int", "none"}}

============================================================================
