SPECIFICATION Spec
CONSTANTS
  Calls = {1, 2}
  Setups <- MCSetups
  AnswerTo <- Twice
  CutSizes <- FirstCells
CHECK_DEADLOCK FALSE
INVARIANTS FramesArrive HandshakeHolds CallsAreAnswered
