SPECIFICATION FairSpec

CONSTANTS
  MaxDelegations = 2
  MaxRuns = 2
  MaxQuestions = 2
  Calls = {one}
  Answers = {yes}
  CacheToken <- OwnCoders

PROPERTIES
  GateEnds
\* The host may stop calling: a behaviour may end with the server idle.
CHECK_DEADLOCK FALSE
