SPECIFICATION Spec
CONSTANTS
    None = None
    x = x
    y = y
    on = on
    off = off
    Keys = {x, y}
    Prims = {on, off}
    Polls = {poll}
    poll = poll
    InitialPage <- SmallPage
    MaxRecipes = 2
    MaxSteps = 2
    MaxFresh = 1
INVARIANTS TypeOK StatesAreFinal
PROPERTIES ImplementsValues UntouchedKept
CHECK_DEADLOCK FALSE
