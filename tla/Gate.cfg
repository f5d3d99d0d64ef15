SPECIFICATION Spec

CONSTANTS
  MaxDelegations = 2
  MaxRuns = 3
  MaxQuestions = 3
  Calls = {one}
  Answers = {yes}
  CacheToken <- OwnCoders

INVARIANTS
  RegistrySafe
  AnswersStayInDelegation
\* The host may stop calling: a behaviour may end with the server idle.
CHECK_DEADLOCK FALSE
