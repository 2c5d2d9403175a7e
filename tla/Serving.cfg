CHECK_DEADLOCK FALSE
CONSTANTS
    Sites <- MCSites
    Drifts = {300}
    StagesFail = TRUE
    Huge = 1000000000
    UserIds <- MCUserIds
    Window = 1
    Ids = {"r1", "r2", "r3"}
    KeyLines <- MCKeyLines
    NoUser = NoUser
    PrefixTokens = 8
    ThinkOff = 6
    Never = Never
    Mixes <- MCMixes
    GatewayLines <- MCGatewayLines
    InternalKey <- MCInternalKey
    RpmPerUser = 1
    TokenCap = 100
    AllowThinking = FALSE
    Deployments <- MCDeployments
    MaxNow = 2
    MaxCrashes = 1
SPECIFICATION FairSpec
INVARIANTS
    CapLeavesRoom
    LimitsExact
    TenantNamed
    PolicyHolds
    FitsLane
PROPERTIES
    PlanEnds
    EveryRequestAnswered
