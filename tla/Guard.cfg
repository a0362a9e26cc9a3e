\* The guard in front of every script, and its recovery.
CONSTANTS
    c1 = c1
    c2 = c2
    c3 = c3
    Callers <- ThreeCallers
    TTL = 2
SPECIFICATION FairSpec
INVARIANTS
    TypeOK
    OneProbeAtATime
PROPERTIES
    RefusalsAreFresh
    BacksOff
    Recovers
    EveryCallLeaves
