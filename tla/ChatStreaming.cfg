SPECIFICATION FairSpec
CONSTANTS
    c1 = c1
    c2 = c2
    c3 = c3
    u = u
    v = v
    w = w
    a = a
    b = b
    r1 = r1
    r2 = r2
    r3 = r3
    r4 = r4
    NoOwner = NoOwner
    Owners = {NoOwner}
    Convs = {c1, c2}
    Tokens = {a, b}
    NumLanes = 2
    MaxSlots = 8
    MaxSlotsPerUser = 0
    NoConv = NoConv
    NGen = 1
    DecodeMayFail = FALSE
    TrimMayFail = TRUE
    Ids = {r1, r2, r3}
    Requests <- StreamRequests
INVARIANT CleanContext
PROPERTY Answered
