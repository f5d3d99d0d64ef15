SPECIFICATION Spec

CONSTANTS
  server = server
  cli = cli
  Procs <- OneProc
  MaxCalls = 3
  MaxTurns = 2
  MaxCrashes = 0
  LLMDecides = TRUE
  Faults <- NoFaults

INVARIANTS
  ClarityPauseIsNewest
  TurnsBounded
PROPERTIES
  AnswerReachesItsQuestion

\* The host may stop calling: a behaviour may end with every process idle.
CHECK_DEADLOCK FALSE
