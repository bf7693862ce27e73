\* An auto-resume that works from a stale copy of the row.
CONSTANTS
    TurnCount = 1
    RequestCount = 2
    Horizon = 1
    NoTime = NoTime
    NoSummary = NoSummary
    Threshold = 2
SPECIFICATION Spec
PROPERTIES
    HumanUntilResumed
