SPECIFICATION Spec
CONSTANTS
    c1 = c1
    c2 = c2
    c3 = c3
    u = u
    v = v
    w = w
    a = a
    b = b
    r1 = r1
    r2 = r2
    r3 = r3
    r4 = r4
    NoOwner = NoOwner
    Owners = {NoOwner, u, v, w}
    Convs = {c1, c2, c3}
    Tokens = {a}
    NumLanes = 2
    MaxSlots = 2
    MaxSlotsPerUser = 1
    NoConv = NoConv
    NGen = 1
    DecodeMayFail = FALSE
    TrimMayFail = FALSE
    Ids = {r1, r2, r3, r4}
    Requests <- TenantRequests
SYMMETRY Symmetry
INVARIANT TypeOK
INVARIANT LanesOwned
INVARIANT CapsHold
INVARIANT TenantIsolation
PROPERTY KvOnlyByEngine
PROPERTY OwnChatsFirst
