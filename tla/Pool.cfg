\* Three callers and two slots, under fair threads.
CONSTANTS
    c1 = c1
    c2 = c2
    c3 = c3
    s1 = s1
    s2 = s2
    s3 = s3
    none = none
    None = none
    Calls <- ThreeCalls
    Sessions <- ThreeSessions
    MaxConcurrency = 2
    MaxIdle = 1
SPECIFICATION FairSpec
INVARIANTS
    TypeOK
    NoSharedSession
    NothingStranded
    OldestFirst
    PoolWithinLimit
PROPERTIES
    EveryCallEnds
    ImplementsTransport
