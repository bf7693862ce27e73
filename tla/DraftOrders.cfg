\* Order capture: three overlapping calls, two conversations.
CONSTANTS
    c1 = c1
    c2 = c2
    c3 = c3
    k1 = k1
    k2 = k2
    Captures = {c1, c2, c3}
    Conversations = {k1, k2}
    NoCapture = NoCapture
    NoConversation = NoConversation
    NoOrder = NoOrder
    Torn = Torn
    RetryOf <- NoRetries
CONSTRAINT InOrder
SPECIFICATION FairSpec
INVARIANTS
    TypeOK
    OneOpenDraft
    ContentsWhole
    CartOfItsConversation
PROPERTIES
    CommittedFrozen
    SavedMeansStored
    ImplementsCart
    CaptureEnds
