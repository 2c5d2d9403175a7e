CONSTANTS
    gate = gate
    down = down
    nextn = nextn
    Tensors <- MCTensors
    Experts = {0, 1}
    SliceBytes <- MCSizes
    PageBytes = 1
    HardCap = 1
    ShieldEntries = 1
    UseOdirect = TRUE
    FillsMayFail = FALSE
    Calls <- Batch
    Prefetches <- Batch
    Order <- MCOrder
    LayerOf <- MCLayerOf
    Graph <- MCGraph
    Drafts <- MCDrafts
    LookaheadNodes = 6
    PfModes = {"off", "full", "lookahead"}
    Routings <- MCRoutings
    MinKept = 1
    MaxStep = 0
    MaxEvals = 3
    MaxQueue = 1
SPECIFICATION StreamFairSpec
INVARIANTS
    RegistryUnshared
    LatestWins
    KernelServed
PROPERTIES
    WorkerStops
