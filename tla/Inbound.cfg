\* A message and a postback, sent four times in all, and one stop of the process.
CONSTANTS
    m1 = m1
    m2 = m2
    p1 = p1
    p2 = p2
    Mids = {m1}
    Postbacks = {p1}
    Window = 2
    MaxWait = 3
    MaxSent = 4
    MaxCrashes = 1
SPECIFICATION FairSpec
INVARIANTS
    TypeOK
    ItemsConserved
    FlushDeadline
    BurstIsOneTurn
    DuplicateHasAnswer
PROPERTIES
    EventuallySettled
