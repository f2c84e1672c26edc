--------------------------- MODULE BoundedService ---------------------------
(***************************************************************************)
(* What the execution core promises its callers, without its mechanism: a  *)
(* pool that runs at most Workers requests, lets at most Backlog more      *)
(* wait, and turns a request away for lack of room only when there is      *)
(* none.  Each request goes through the pool at most once.                 *)
(***************************************************************************)
EXTENDS Integers, FiniteSets

CONSTANTS Request,  \* the requests offered to the pool
          Workers,  \* requests it runs at once
          Backlog   \* requests it lets wait

VARIABLE state      \* [Request -> State]

State == {"offered", "turnedAway", "waiting", "running", "done"}

Busy   == {r \in Request : state[r] = "running"}
Inside == {r \in Request : state[r] \in {"waiting", "running"}}
Room   == Workers > 0 /\ Cardinality(Inside) < Workers + Backlog

Init == state = [r \in Request |-> "offered"]

Move(r, from, to) ==
  /\ state[r] = from
  /\ state' = [state EXCEPT ![r] = to]

Accept(r)   == Room /\ Move(r, "offered", "waiting")
TurnAway(r) == ~Room /\ Move(r, "offered", "turnedAway")
Decline(r)  == Move(r, "offered", "done")  \* for a reason other than room
Run(r)      == Cardinality(Busy) < Workers /\ Move(r, "waiting", "running")
Leave(r)    == Move(r, "waiting", "done") \/ Move(r, "running", "done")

Next == \E r \in Request : Accept(r) \/ TurnAway(r) \/ Decline(r) \/ Run(r) \/ Leave(r)

Spec == Init /\ [][Next]_state

============================================================================
