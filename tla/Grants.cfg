SPECIFICATION SpecGrants
CONSTANTS
    r1 = r1
    r2 = r2
    n1 = n1
    h1 = h1
    NoRange = NoRange
    MaxUser = 1
    MaxTeam = 2
    MaxSession = 2
    Ranges = {r1, r2}
    Nodes = {n1}
    RangeOf <- OneNode
    Hosts = {h1}
    HostOf <- OneHost
INVARIANT GrantIsHonoured
CHECK_DEADLOCK FALSE
