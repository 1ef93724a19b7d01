SPECIFICATION SpecScenes
CONSTANTS
    o1 = o1
    o2 = o2
    t1 = t1
    t2 = t2
    r1 = r1
    r2 = r2
    u1 = u1
    u2 = u2
    i = i
    Organizations = {o1, o2}
    Teams = {t1, t2}
    Ranges = {r1, r2}
    Students = {u1, u2}
    Instructors = {i}
    Admin = Admin
    Nobody = Nobody
    Home <- BothHome
    MaxRecords = 2
    MaxTurns = 4
INVARIANT SessionsStayInScope
INVARIANT WorkStaysVisible
PROPERTY InstructorsKeepToTheirPairs
PROPERTY RecordsOutliveTheirAuthors
SYMMETRY ScopeSymmetry
CHECK_DEADLOCK FALSE
