\* Two concurrent saves, kills, power cuts, I/O errors, obsolete, newer and garbled files.
SPECIFICATION Spec
CONSTANTS
    Contents = {d, x}
    Default = d
    None = None
    Tasks = {t1, t2}
    Garbled = Garbled
    Newer = Newer
    InitialDisks <- AnyDisk
    MayDamage = TRUE
    MayMisread = TRUE
    MaxRevision = 3
    MaxGeneration = 3
    MaxEpoch = 3
    MaxErrors = 1
SYMMETRY Interchangeable
INVARIANTS
    TypeOK
    AcknowledgedSavesSurvive
    PreviewNeverSaved
    WorkingCopyIsHonest
    RepairsShownWhileNeeded
PROPERTIES
    DiskNeverGoesBack
    NewerNeverOverwritten
