SPECIFICATION Spec

CONSTANTS
  server = server
  cli = cli
  Procs <- TwoProcs
  MaxCalls = 2
  MaxTurns = 2
  MaxCrashes = 1
  LLMDecides = FALSE
  Faults <- LateFaults

PROPERTIES
  LedgerKept
  RepliesMatchRecords

SYMMETRY ProcSymmetry

\* The host may stop calling: a behaviour may end with every process idle.
CHECK_DEADLOCK FALSE
