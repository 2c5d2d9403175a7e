CONSTANTS
    w1 = w1
    w2 = w2
    Lanes <- MCLanes
    MaxJobs = 3
    MaxSpurious = 1
SPECIFICATION FairSpec
INVARIANTS
    TypeOK
    CallerOutlivesJobs
PROPERTIES
    ImplementsBatch
    RunReturns
    DestructorReturns
