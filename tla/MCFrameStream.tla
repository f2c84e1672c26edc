---------------------------- MODULE MCFrameStream -----------------------------
\* Connections of one client and one server, two calls each.
EXTENDS FrameStream

\* Payloads: runs of one byte, and literals in which no byte repeats its neighbour.
Run(n) == [i \in 1..n |-> 65]
Literal(n) == [i \in 1..n |-> 1 + (i % 120)]

Twice(payload) == payload \o payload
FirstCells == {1, HeaderSize}

Large == [method |-> 8, payload |-> CellMax, extensions |-> 64, frame |-> 400]
Side(compression, minPayload, methodId) ==
  [compression |-> compression, minPayload |-> minPayload, methodId |-> methodId, limits |-> Large,
   budget |-> 300, ratio |-> 130, tableBudget |-> 64]

LongName == [i \in 1..(CellMax + 1) |-> 90]
Table == << [id |-> 0, state |-> 1, hash |-> 7, name |-> <<97>>],
            [id |-> 1, state |-> 2, hash |-> 8, name |-> << >>],
            [id |-> 2, state |-> 1, hash |-> 9, name |-> LongName] >>

Setup(client, server, calls, table, stops, closes) ==
  [options |-> [client |-> client, server |-> server], calls |-> calls, table |-> table, method |-> <<109>>,
   stops |-> stops, closes |-> closes]

Off == "Disable"
Plainly == Side(Off, 2, Off)
WithLimits(side, payload, extensions) ==
  [side EXCEPT !.limits.payload = payload, !.limits.extensions = extensions]

MCSetups == {
  \* nothing negotiated; calls are stopped anywhere and the client is closed
  Setup(Plainly, Plainly, <<Run(1), Literal(2)>>, << >>, {1}, FALSE),
  Setup(Plainly, Plainly, <<Run(1), << >> >>, << >>, {}, TRUE),
  \* both features, with different thresholds
  Setup(Side("Auto", 2, "Auto"), Side("Auto", 4, "Auto"), <<Run(5), Run(3)>>, Table, {}, FALSE),
  Setup(Side("Require", 5, "Require"), Side("Auto", 3, "Auto"), <<Run(4), Literal(3)>>, Table, {1}, FALSE),
  \* a required feature the server does not have, and one it cannot tell
  Setup(Side("Require", 2, Off), Plainly, <<Run(1), Run(1)>>, << >>, {}, FALSE),
  Setup(Side(Off, 2, "Require"), Side(Off, 2, "Auto"), <<Run(1), Run(1)>>, << >>, {}, FALSE),
  Setup(Side(Off, 2, "Auto"), [Side(Off, 2, "Auto") EXCEPT !.tableBudget = 10], <<Run(1), Run(1)>>, Table, {}, FALSE),
  \* the largest runs and literals
  Setup(Side("Auto", 2, Off), Side("Auto", 2, Off), <<Run(130), Literal(2) \o Run(131)>>, << >>, {}, FALSE),
  Setup(Side("Auto", 2, Off), Side("Auto", 2, Off),
        <<Literal(128) \o Run(9), Literal(63) \o Run(2) \o Literal(63) \o Run(9)>>, << >>, {}, FALSE),
  \* limits: a request too large, an answer too large, a payload beyond the reader's budget, a hello too large
  Setup(WithLimits(Plainly, 4, 64), WithLimits(Plainly, 7, 64), <<Run(5), Run(4)>>, << >>, {}, FALSE),
  Setup(Plainly, WithLimits(Plainly, 4, 64), <<Run(5), Run(1)>>, << >>, {}, FALSE),
  Setup(Side("Auto", 2, Off), [WithLimits(Side("Auto", 2, Off), 6, 64) EXCEPT !.budget = 6], <<Run(7), Run(3)>>, << >>, {}, FALSE),
  Setup([WithLimits(Side("Auto", 2, Off), 6, 64) EXCEPT !.budget = 6], Side("Auto", 2, Off), <<Run(4), Run(3)>>, << >>,
        {}, FALSE),
  Setup(Side(Off, 2, "Auto"), WithLimits(Side(Off, 2, "Auto"), 9, 2), <<Run(1), Run(1)>>, Table, {}, FALSE),
  Setup(WithLimits(Side("Auto", 2, Off), 9, 2), Side("Auto", 2, Off), <<Run(1), Run(1)>>, << >>, {}, FALSE)
}

===============================================================================
