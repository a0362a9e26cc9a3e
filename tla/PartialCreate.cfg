\* A create that stops half-way, and a second POST.
CONSTANTS
    r1 = r1
    r2 = r2
    s1 = s1
    n1 = n1
    none = none
    None = none
    Scopes <- OneScope
    Names <- OneName
    Masks <- SomeMasks
    Params <- SomeParams
    Dns <- SomeDns
    BootHosts <- SomeHosts
    BootFiles <- SomeFiles
    Peers <- SomePeers
    Tunings <- SomeTunings
    LastAddress = 6
    Requests <- TwoRequests
    Verbs <- OnlyPost
    Payloads <- TwoPayloads
    Faults <- OnlyFailed
    MaxFaults = 1
SPECIFICATION Spec
INVARIANTS
    RetryRepairs
CHECK_DEADLOCK FALSE
SYMMETRY Symmetric
