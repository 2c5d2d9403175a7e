CONSTANTS
    gate = gate
    down = down
    big = big
    Tensors <- MCBigTensors
    Experts = {0, 1}
    SliceBytes <- MCBigSizes
    PageBytes = 1
    HardCap = 2
    ShieldEntries = 2
    UseOdirect = TRUE
    FillsMayFail = TRUE
    Calls <- MCBigCalls
    Prefetches <- MCPrefetches
SPECIFICATION FairSpec
INVARIANTS
    TypeOK
    PendingAbsent
    Accounting
    OvershootBounded
PROPERTIES
    ImplementsLru
    LockReleased
