SPECIFICATION SpecScenes
CONSTANTS
    r1 = r1
    r2 = r2
    c1 = c1
    Ranges = {r1, r2}
    StageRows <- OneStage
    Limit <- TwoUnits
    Clients = {c1}
    MaxRuns = 3
    MaxRows = 2
    MaxFaults = 1
    MaxInbox = 2
INVARIANT HelpIsForTheActive
INVARIANT ClocksShowThisRun
PROPERTY LateEntriesAreMarked
PROPERTY TimeUpIsTold
CHECK_DEADLOCK FALSE

