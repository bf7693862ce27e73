SPECIFICATION Spec
CONSTANTS
    t1 = t1
    t2 = t2
    p1 = p1
    p2 = p2
    e1 = e1
    e2 = e2
    e3 = e3
    a1 = a1
    a2 = a2
    s1 = s1
    s2 = s2
    u1 = u1
    u2 = u2
    u3 = u3
    key = key
    None = None
    Missing = Missing
    Default = Default
    NoCache = NoCache
    Turns = {t1, t2}
    Products = {p1, p2}
    Entries = {e1, e2, e3}
    Personas = {a1, a2}
    First = a1
    Switches = {s1, s2}
    Matching = {e2, e3}
    AdProduct = p2
    Web = {u1, u2, u3}
    FirstShelf <- MCFirstShelf
    FirstEntry <- MCFirstEntry
    Photos <- MCPhotos
    Recordings <- MCRecordings
    Spoken <- MCSpoken
    Pictures <- MCPictures
    Shown <- MCShown
    Scenarios <- MCScenarios
    Posts <- MCPosts
    MaxBytes = 1
    MaxSeconds = 2
    Sure = 1
    MaxEntries = 2
    MaxNote = 1
    MaxCalls = 2
    MaxCards = 1
    MaxShown = 1
    MaxImages = 2
    MaxBubbles = 2
INVARIANTS
    TypeOK
    InOrder
    PersonaIsRecent
PROPERTIES
    Answered
    NothingGuessed
    OnePersona
CHECK_DEADLOCK FALSE
