\* Every call from every context.
CONSTANTS
    first = first
    a = a
    b = b
    c = c
    Tasks = {first, a, b, c}
    First = first
    TimeMod = 9
    Tick = 2
    Durations = {1, 2, 3, 6}
    AnyCaller = TRUE
    MaxTerminated = 3
SYMMETRY Symmetry
SPECIFICATION Spec
INVARIANTS
    TypeOK
    InterruptsOnlyWhenIdle
    SleepersSorted
PROPERTY
    WokenByItsTick
