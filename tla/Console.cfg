\* One conversion among ordinary characters, on every screen they can make.
CONSTANTS
    screen_width = 2
    screen_height = 3
    Start = {0, 5}
    LightGrey = 7
    Colors = {7, 4}
    IntMod = 256
    ShortMod = 64
    CharMod = 16
    Literals <- SomeLiterals
    Directives <- SomeDirectives
    Strings <- SomeStrings
    Bytes = {175}
    MaxFormat = 2
    MaxConversions = 1
    MaxBefore = 0
    MaxColored = 1
    MaxText = 5
SPECIFICATION FairSpec
INVARIANTS
    ScreenShowsTail
    FieldRight
PROPERTIES
    CallReturns
