SPECIFICATION Spec
CONSTANTS
    t1 = t1
    t2 = t2
    s1 = s1
    s2 = s2
    p = p
    ad1 = ad1
    ad2 = ad2
    text = text
    w1 = w1
    k1 = k1
    Clicks = {k1}
    Debounced = FALSE
    None = None
    Turns = {t1, t2}
    Sends = {s1, s2}
    Wipes = {w1}
    Shows = {t1}
    PublishedAds = {ad1}
    MaxRows = 2
    MaxWindows = 1
    PsidOf <- MCPsidOf
    MidOf <- MCMidOf
    ContentOf <- MCContentOf
    ReferralOf <- MCReferralOf
    KeyOf <- MCKeyOf
INVARIANTS
    TypeOK
    AdProductOfFirstTouch
    SplitOnlyByRace
    HumanSentOnce
    HumanWordKept
    WipedForgets
PROPERTIES
    FirstTouchKept
CHECK_DEADLOCK FALSE
CONSTRAINT Scenario
