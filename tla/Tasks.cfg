SPECIFICATION FairSpec
CONSTANTS
    handler = handler
    pattern = pattern
    wrapping = wrapping
    later = later
    once = once
    Task <- Tasks
    NoTask = NoTask
    Kind <- KindOf
    Class <- ClassOf
    Period <- PeriodOf
    NumRepeats <- RepeatsOf
    RepeatLimit = 2
INVARIANTS
    TypeOK
    RunsAsAsked
    PendingOnce
PROPERTIES
    EveryTaskServed
    UrgentServed
