CONSTANTS
    gate = gate
    down = down
    big = big
    Tensors <- MCTensors
    Experts = {0, 1}
    SliceBytes <- MCSizes
    PageBytes = 1
    HardCap = 2
    ShieldEntries = 2
    UseOdirect = TRUE
    FillsMayFail = TRUE
    Calls <- MCCalls
    Prefetches <- MCPrefetches
SPECIFICATION Spec
INVARIANTS
    ResidentIsLoaded
