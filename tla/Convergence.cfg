\* Every move between two payloads, and every create and delete.
CONSTANTS
    none = none
    None = none
    s1 = s1
    n1 = n1
    n2 = n2
    Scopes <- OneScope
    Scope = s1
    Names <- TwoNames
    Masks <- SomeMasks
    Params <- SomeParams
    Dns <- SomeDns
    BootHosts <- SomeHosts
    BootFiles <- SomeFiles
    Peers <- SomePeers
    Tunings <- SomeTunings
    LastAddress = 5
    Payloads <- SomePayloads
SPECIFICATION Spec
INVARIANTS
    TypeOK
    AskedIsHeld
    NothingRefused
PROPERTIES
    PoolStaysBetween
    NoCmdletForNoChange
