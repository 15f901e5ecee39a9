\* One handler, the task, and a display plugged in again or an app that exits.
SPECIFICATION FairSpec
CONSTANTS
    Layouts = {left, right}
    Apps = {a, b}
    Blank = Blank
    Handlers = {h}
    Loop = Loop
    Contents <- MCContents
    Default <- MCDefault
    None = None
    MayGiveUp = FALSE
    MaxGeneration = 2
    MaxUpsets = 1
    MaxFailures = 0
INVARIANTS
    TypeOK
    NothingIsForgotten
    SyncedMeansRealized
PROPERTIES
    RetiredStayStopped
    Settles
