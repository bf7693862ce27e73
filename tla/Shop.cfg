SPECIFICATION Spec
CONSTANTS
    p1 = p1
    p2 = p2
    k1 = k1
    k2 = k2
    k3 = k3
    k4 = k4
    k5 = k5
    red = red
    green = green
    lime = lime
    red_family = red_family
    green_family = green_family
    lime_family = lime_family
    new_family = new_family
    w1 = w1
    w2 = w2
    text = text
    ad1 = ad1
    c1 = c1
    c2 = c2
    Script = Script
    Sentinel = Sentinel
    Unassigned = Unassigned
    None = None
    Products = {p1, p2}
    MaxEdits = 2
    MaxDrops = 2
    Mix <- MCMix
    ColourSets <- MCColourSets
    Colours = {red, green, lime, Sentinel}
    Families = {red_family, green_family, lime_family, new_family}
    Terms = {w1, w2}
    Texts = {text}
    TextHits = {p2}
    CloseKeys = {k1, k3}
    Ads = {ad1}
    NewKeys <- MCNewKeys
    Lists <- MCLists
    FirstRow <- MCFirstRow
    FirstTags <- MCFirstTags
    FirstVectors <- MCFirstVectors
    FirstFamily <- MCFirstFamily
    FirstSynonym <- MCFirstSynonym
    NameOf <- MCNameOf
    Spells <- MCSpells
    Resembles <- MCResembles
    Near <- MCNear
    MainFamily <- MCMainFamily
    FirstCats = {c1}
    Categories = {c1, c2}
INVARIANTS
    TypeOK
    UploadKept
    NoDeadImage
    
    ReadsAgree
PROPERTIES
    TaggedUntilRemoved
    DraftNeverFound
CHECK_DEADLOCK FALSE
