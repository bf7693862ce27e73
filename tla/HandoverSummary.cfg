\* A clearHumanSummary that lands after the next summary.
CONSTANTS
    TurnCount = 1
    RequestCount = 2
    Horizon = 1
    NoTime = NoTime
    NoSummary = NoSummary
    Threshold = 2
SPECIFICATION Spec
PROPERTIES
    SummaryInjectedBeforeCleared
