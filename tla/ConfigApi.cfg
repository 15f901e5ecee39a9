\* Two clients that preview, save, revert, hang up, watch and outlive a restart.
SPECIFICATION Spec
CONSTANTS
    Clients = {a, b}
    Sections = {s}
    Values = {0, 1}
    Contents <- MCContents
    Default <- MCDefault
    None = None
    Other = Other
    Capacity = 2
    MayHangUp = TRUE
    MaxRevision = 2
    MaxGeneration = 2
    MaxEpoch = 2
    MaxNoise = 1
INVARIANTS
    TypeOK
    ConditionalWriteSawBasis
    VersionNamesOneDocument
    DrainedClientsHoldTheLastEvent
SYMMETRY Alike
