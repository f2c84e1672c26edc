--------------------------- MODULE ConnectionScope ---------------------------
(***************************************************************************)
(* What a server promises about the life of a connection, without the      *)
(* mechanism: work enters only while the connection is open, may leave at  *)
(* any time, and the connection is gone only when all of its work is.      *)
(***************************************************************************)
CONSTANTS Conn, Work

VARIABLES
  life,   \* [Conn -> {"new", "open", "closing", "gone"}]
  inside  \* [Conn -> SUBSET Work]: what runs on behalf of the connection

vars == <<life, inside>>

Init == /\ life = [c \in Conn |-> "new"]
        /\ inside = [c \in Conn |-> {}]

Move(c, from, to) == life[c] = from /\ life' = [life EXCEPT ![c] = to]

Open(c)  == Move(c, "new", "open") /\ UNCHANGED inside
Refuse(c) == Move(c, "new", "gone") /\ UNCHANGED inside

Enter(c, w) == /\ life[c] = "open"
               /\ w \notin inside[c]
               /\ inside' = [inside EXCEPT ![c] = @ \cup {w}]
               /\ UNCHANGED life

Leave(c, w) == /\ w \in inside[c]
               /\ inside' = [inside EXCEPT ![c] = @ \ {w}]
               /\ UNCHANGED life

Close(c) == Move(c, "open", "closing") /\ UNCHANGED inside

Vanish(c) == inside[c] = {} /\ Move(c, "closing", "gone") /\ UNCHANGED inside

Next == \E c \in Conn : \/ Open(c) \/ Refuse(c) \/ Close(c) \/ Vanish(c)
                        \/ \E w \in Work : Enter(c, w) \/ Leave(c, w)

Spec == Init /\ [][Next]_vars
==============================================================================
