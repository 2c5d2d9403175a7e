CONSTANTS
    gate = gate
    down = down
    big = big
    Tensors <- MCTensors
    Experts = {0, 1, 2}
    SliceBytes <- MCSizes
    PageBytes = 1
    HardCap = 3
    ShieldEntries = 2
    UseOdirect = TRUE
    FillsMayFail = TRUE
    Calls <- MCBatches
    Prefetches = {}
SPECIFICATION Spec
INVARIANTS
    ResidentIsLoaded
    ServedAtUse
    NoUntrackedMemory
