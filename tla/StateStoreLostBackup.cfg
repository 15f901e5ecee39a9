\* state.json garbled once, recovered from the backup, then one interrupted save.
SPECIFICATION Spec
CONSTANTS
    Contents = {d, x}
    Default = d
    None = None
    Tasks = {t1, t2}
    Garbled = Garbled
    Newer = Newer
    InitialDisks <- DamagedDisk
    MayDamage = FALSE
    MayMisread = FALSE
    MaxRevision = 2
    MaxGeneration = 1
    MaxEpoch = 2
    MaxErrors = 0
INVARIANTS
    BackupIsAFallback
