SPECIFICATION SpecScenes
CONSTANTS
    x = x
    X = X
    y = y
    z = z
    a = a
    b = b
    u = u
    t1 = t1
    t2 = t2
    k1 = k1
    k2 = k2
    Accounts = {a, b}
    Students = {u}
    Teams = {t1, t2}
    Names = {x, X, y, z}
    Fold <- FoldXY
    Tokens = {k1, k2}
    None = None
    First = a
    FirstName = x
    Swapping = {X, y}
    MaxScript = 1
    MaxExec = 1
    MaxHost = 2
    MaxTechnique = 1
    MaxOccurrence = 2
    MaxTime = 2
    MaxSerial = 2
    MaxResets = 1
INVARIANT UsernamesAreOne
INVARIANT TokensKeepTheirPrivileges
INVARIANT SocketsFollowTokens
INVARIANT TimesToDetectAreReal
SYMMETRY IdentitySymmetry
CHECK_DEADLOCK FALSE
