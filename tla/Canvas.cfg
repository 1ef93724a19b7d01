SPECIFICATION SpecScenes
CONSTANTS
    r1 = r1
    r2 = r2
    s1 = s1
    s2 = s2
    k1 = k1
    k2 = k2
    a = a
    Scenarios = {r1, r2}
    Authors = {s1, s2}
    Onlookers = {}
    Labels = {a, other}
    Slots = {k1, k2}
    MaxNode = 3
    MaxEdge = 1
    MaxWrites = 2
    MaxFaults = 2
    MaxInbox = 2
INVARIANT SettledBoardsAgree
SYMMETRY CanvasSymmetry
CHECK_DEADLOCK FALSE
