SPECIFICATION GatesSpec
CONSTANTS
    Questions = {q1, q2}
    RoundCap = 2
    NoSpec = NoSpec
INVARIANT ResolvedAnswersWritten
