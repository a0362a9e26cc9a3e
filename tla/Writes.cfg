\* Two requests to one scope, and up to two faults of any kind that takes
\* effect before the caller is told, or none.
CONSTANTS
    r1 = r1
    r2 = r2
    s1 = s1
    n1 = n1
    none = none
    None = none
    Scopes <- OneScope
    Names <- OneName
    Masks <- SomeMasks
    Params <- SomeParams
    Dns <- SomeDns
    BootHosts <- SomeHosts
    BootFiles <- SomeFiles
    Peers <- SomePeers
    Tunings <- SomeTunings
    LastAddress = 6
    Requests <- TwoRequests
    Verbs <- AllVerbs
    Payloads <- AllPayloads
    Faults <- PromptFaults
    MaxFaults = 2
SPECIFICATION Spec
INVARIANTS
    TypeOK
    OneWriterPerScope
    FaultlessWritesSucceed
    BodyIsRequest
    OrphansTakeFaults
    ConfigIsRequest
    MembersExist
PROPERTIES
    DeletedMeansGone
    PartnerFollows
CHECK_DEADLOCK FALSE
SYMMETRY Symmetric
