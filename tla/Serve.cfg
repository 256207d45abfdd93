\* Two requests of any kind in flight while the process starts, serves and stops.
SPECIFICATION FairSpec
CONSTANTS
    s1 = s1
    s2 = s2
    Slot <- Slots
    Routes <- SlotRoutes
    MaxDuration = 31
    Ttls = {0, 30}
    DefaultTtl = 10
    MaxFaults = 1
    Nil = nil
INVARIANTS
    TypeOK
    BumpsAccounted
    GracefulExitComplete
    CutOffReported
    RedisReleased
    AnswerTellsOutcome
    LoggedStatusSent
    CodeFixesStatus
    StoredTtlInRange
PROPERTIES
    SignalEndsProcess
