\* The store implements DurableDocument, and every save ends.
SPECIFICATION FairSpec
CONSTANTS
    Contents = {d, x}
    Default = d
    None = None
    Tasks = {t1, t2}
    Garbled = Garbled
    Newer = Newer
    InitialDisks <- UsedDisks
    MayDamage = FALSE
    MayMisread = FALSE
    MaxRevision = 3
    MaxGeneration = 2
    MaxEpoch = 2
    MaxErrors = 1
PROPERTIES
    ImplementsDurableDocument
    EverySaveEnds
