SPECIFICATION Spec
CONSTANTS
    RunTurns = 2
    AutoRetry = TRUE
    Files = {f}
    MaxRounds = 3
    MaxToolCalls = 2
    MaxQuestions = 3
    Calls = 2
    Messages = 2
    Beats = 2
INVARIANTS
  TypeOK
  StdoutIsolated
  AnswerIsTrue
  EvaluationsClose
  BridgeKeepsOrder
PROPERTIES
  NothingUnasked
  WaitsEnd
CHECK_DEADLOCK FALSE
