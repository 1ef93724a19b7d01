SPECIFICATION SetupSpec
CONSTANTS
    anna = anna
    ANNA = ANNA
    bob = bob
    Staff = {anna, ANNA, bob}
    Name <- MCName
    Drawn = drawn
    Later = later
    Library = {x, y}
    MaxCrashes = 2
    MaxChanges = 2
    Inventories <- MCInventories
    Spots <- MCSpots
    MaxCard = 4
    MaxZone = 2
    GridColumns = 2
    MaxRowWidth = 700
    MaxEdits = 4
    HandLines = 1
    HandCards = 3
    Secrets = {s1, s2}
    Logins = {l1, l2}
    Vaults = {va, vb}
    Requests = {r1, r2}
    MaxEnv = 2
    MaxNode = 1
    MaxTries = 2
INVARIANTS UpgradesKeepRecords DrawingsAreWhole ArrangedCardsStayApart SecretsAreTheirOwn
CHECK_DEADLOCK FALSE
