SPECIFICATION FairSpec
CONSTANTS
    None = None
    MaxFaults = 4
INVARIANTS
    TypeOK
    SlicerGoesFirst
PROPERTY
    EndsLit
