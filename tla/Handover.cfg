\* The handover state under two overlapping turns and two admin requests.
CONSTANTS
    TurnCount = 2
    RequestCount = 2
    Horizon = 1
    NoTime = NoTime
    NoSummary = NoSummary
    Threshold = 2
SPECIFICATION FairSpec
INVARIANTS
    TypeOK
    HandoffLineTruthful
    VoiceHandoffEarned
PROPERTIES
    WrapUpNotLost
    HumanHeldWithoutTimedPause
    NeverSilent
