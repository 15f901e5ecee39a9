\* Handlers dropped at any await, a pass of theirs included, and a failed command or query.
SPECIFICATION Spec
CONSTANTS
    Layouts = {left, right}
    Apps = {a, b}
    Blank = Blank
    Handlers = {h}
    Loop = Loop
    Contents <- MCContents
    Default <- MCDefault
    None = None
    MayGiveUp = TRUE
    MaxGeneration = 2
    MaxUpsets = 0
    MaxFailures = 1
INVARIANTS
    QueuedRequestsAreServed
PROPERTIES
    AdoptionOnlyPins
    SyncedPassDidItsWork
