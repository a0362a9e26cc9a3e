\* A new mode for a relationship that two resources share.
CONSTANTS
    x1 = x1
    x2 = x2
    r1 = r1
    r2 = r2
    r3 = r3
    s1 = s1
    s2 = s2
    n1 = n1
    none = none
    None = none
    Scopes <- TwoScopes
    Names <- OneName
    Masks <- OneMask
    Params <- OneParams
    Dns <- OneDns
    BootHosts <- OneHost
    BootFiles <- OneFile
    Peers <- SomePeers
    Tunings <- OneTuning
    LastAddress = 3
    Requests <- TwoRequests
    Verbs <- AllVerbs
    Payloads <- SomePayloads
    Faults <- NoFaults
    MaxFaults = 0
    Resources <- TwoResources
    Managing <- Manages
    Sending <- SendsOne
    Starts <- ModeStarts
SPECIFICATION ReconcilerSpec
PROPERTIES
    Converges
CHECK_DEADLOCK FALSE
