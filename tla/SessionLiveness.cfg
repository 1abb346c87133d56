SPECIFICATION FairSpec
CONSTANTS
    Conns = {c1}
    Posts = {p1}
    Dreams = {}
    Sessions = {s1, s2}
    FirstSession = s1
    MaxLeases = 2
    MaxSays = 0
    MaxPanics = 1
    MaxSwitches = 0
PROPERTIES
    SlotReleased
    HandlersReturn
CHECK_DEADLOCK FALSE
