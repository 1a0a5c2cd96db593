\* The comment in the idle loop of schedule().
CONSTANTS
    first = first
    a = a
    b = b
    c = c
    Tasks = {first, a, b, c}
    First = first
    TimeMod = 9
    Tick = 2
    Durations = {2, 4, 6}
    AnyCaller = FALSE
    MaxTerminated = 4
SPECIFICATION Spec
INVARIANT
    AllBlockedWhenHalted
