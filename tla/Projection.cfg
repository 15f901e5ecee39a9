\* Three documents, of which two may be written, and one fault of any kind.
SPECIFICATION FairSpec
CONSTANTS
    Outputs = {o1, o2}
    Specs <- MCSpecs
    None = None
    Direct = TRUE
    MaxMappings = 2
    MaxDocs = 3
    MaxFaults = 1
INVARIANTS
    TypeOK
    ClaimsWereShown
    FactsFitTheGeneration
    StoppedSaysNothing
PROPERTIES
    ClaimsNeverGoBack
    EditsReachTheWall
