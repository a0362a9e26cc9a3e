\* A read of one scope, or of both, among two writes.
CONSTANTS
    r1 = r1
    r2 = r2
    s1 = s1
    s2 = s2
    n1 = n1
    none = none
    None = none
    Scopes <- TwoScopes
    Names <- OneName
    Masks <- OneMask
    Params <- SomeParams
    Dns <- OneDns
    BootHosts <- OneHost
    BootFiles <- OneFile
    Peers <- OnePeer
    Tunings <- OneTuning
    LastAddress = 4
    Requests <- TwoRequests
    Verbs <- Writes
    Payloads <- SomePayloads
    Faults <- NoFaults
    MaxFaults = 0
SPECIFICATION ReadsSpec
INVARIANTS
    ReadsTypeOK
PROPERTIES
    QuietScopesReadTrue
    MissingWasMissing
    NoEarlySuccess
CHECK_DEADLOCK FALSE
SYMMETRY Symmetric
