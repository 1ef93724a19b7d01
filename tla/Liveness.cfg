SPECIFICATION SpecLive
CONSTANTS
    r1 = r1
    r2 = r2
    n1 = n1
    h1 = h1
    NoRange = NoRange
    MaxUser = 1
    MaxTeam = 1
    MaxSession = 1
    Ranges = {r1}
    Nodes = {n1}
    RangeOf <- OneNode
    Hosts = {h1}
    HostOf <- OneHost
INVARIANT LinksAreAccountedFor
PROPERTY RemoteAccessSettles
CHECK_DEADLOCK FALSE
