SPECIFICATION SpecScenes
CONSTANTS
    r1 = r1  r2 = r2  vm1 = vm1  vm2 = vm2
    Manual = Manual
    Ranges = {r1, r2}
    Machines = {vm1, vm2}
    MaxEnv = 2
    MaxNode = 2
    MaxRun = 2
    MaxExec = 1
    MaxJob = 2
INVARIANTS JobsAreExecutions PowerIsHeld
INVARIANTS DiscoveriesAgree SnapshotsFollowDeletion
PROPERTIES DeletionIsLocal
SYMMETRY Symmetry
