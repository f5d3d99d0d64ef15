SPECIFICATION Spec
CONSTANTS
    Questions = {q1, q2}
    RoundCap = 2
    NoSpec = NoSpec
    DelegationKinds = {"package", "legacy", "review"}
    MaxTurns = 3
    PathCount = 3
    MaxDiscover = 1
    MaxWeight = 3
    SmallWeight = 1
    HeadWeight = 1
    Budget = 4
INVARIANTS
  TypeOK
  ClarityHolds
  PhasesAccountFor
  PromptIsAudited
  PackageIsSound
PROPERTIES
  AskingIsFruitful
  EditTextsKept
CHECK_DEADLOCK FALSE
