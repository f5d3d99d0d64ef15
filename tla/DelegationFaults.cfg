SPECIFICATION FairSpec

CONSTANTS
  server = server
  cli = cli
  Procs <- OneProc
  MaxCalls = 2
  MaxTurns = 2
  MaxCrashes = 1
  LLMDecides = FALSE
  Faults <- AllFaults

INVARIANTS
  TypeOK
  EnvelopesClose
PROPERTIES
  ProjectMemoryKept
  EveryCallReturns

\* The host may stop calling: a behaviour may end with every process idle.
CHECK_DEADLOCK FALSE
