\* Resources that join and leave one relationship, with a fault and a resent
\* request.
CONSTANTS
    x1 = x1
    x2 = x2
    r1 = r1
    r2 = r2
    r3 = r3
    s1 = s1
    s2 = s2
    n1 = n1
    none = none
    None = none
    Scopes <- TwoScopes
    Names <- OneName
    Masks <- OneMask
    Params <- OneParams
    Dns <- OneDns
    BootHosts <- OneHost
    BootFiles <- OneFile
    Peers <- SomePeers
    Tunings <- OneTuning
    LastAddress = 3
    Requests <- ThreeRequests
    Verbs <- AllVerbs
    Payloads <- SomePayloads
    Faults <- SomeFaults
    MaxFaults = 1
    Resources <- TwoResources
    Managing <- Manages
    Sending <- Sends
    Starts <- SharedStarts
SPECIFICATION ReconcilerSpec
INVARIANTS
    ReconcilerTypeOK
PROPERTIES
    Converges
    EveryRequestEnds
CHECK_DEADLOCK FALSE
