\* The scheduler behind the two controllers, with a driver for line 9 and no
\* handler for line 5.
CONSTANTS
    first = first
    a = a
    b = b
    Tasks = {first, a, b}
    First = first
    TimeMod = 7
    Tick = 2
    Durations = {2, 4}
    AnyCaller = FALSE
    MaxTerminated = 3
    Lines = {0, 5, 7, 9}
    DriverLines = {9}
SPECIFICATION PicFairSpec
INVARIANTS
    EveryTaskInItsPlace
PROPERTIES
    ReadyTaskRuns
    
    ImplementsScheduler
    HandledLinesReleased
