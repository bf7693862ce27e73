\* An escalation that fails between its two transactions.
CONSTANTS
    TurnCount = 1
    RequestCount = 0
    Horizon = 1
    NoTime = NoTime
    NoSummary = NoSummary
    Threshold = 2
SPECIFICATION Spec
PROPERTIES
    FailedEscalationLeavesBotOn
