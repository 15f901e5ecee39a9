\* The task and one handler, which is dropped anywhere; three events of any kind.
SPECIFICATION FairSpec
CONSTANTS
    Handlers = {h}
    Loop = Loop
    Urls = {u}
    Configs <- MCConfigs
    None = None
    MayGiveUp = TRUE
    MaxEvents = 3
INVARIANTS
    TypeOK
    OneProcess
    
PROPERTIES
    LaunchesAreGated
    DeclinedStaysDown
    
