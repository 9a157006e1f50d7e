SPECIFICATION FairSpec
CONSTANTS
    None = None
    lamp = lamp
    screen = screen
    knob = knob
    x = x
    y = y
    Nodes = {lamp, screen, knob}
    Fragments = {x, y}
    Uuid <- ModuleUuids
    Requesting = {knob}
    MaxId = 2
    Capacity = 1
    MaxFaults = 1
INVARIANTS TypeOK IdsNotReused
PROPERTY LastNodeServed
CHECK_DEADLOCK FALSE
