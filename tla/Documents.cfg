SPECIFICATION SceneSpec
CONSTANTS
    r1 = r1
    t1 = t1
    c1 = c1
    c2 = c2
    Ranges = {r1}
    Teams = {t1}
    Contents = {c1, c2}
    MaxDoc = 2
    MaxResource = 3
    MaxJob = 1
    Browsers = {b1}
    w1 = w1
    w2 = w2
    Words = {w1, w2}
    Named <- MCNamed
    Original = w1
    Unnamed = unnamed
    MaxScenario = 1
    MaxRow = 2
    MaxMade = 3
    n1 = n1
    n2 = n2
    n3 = n3
    Names = {n1, n2, n3}
    Trimmed <- MCTrimmed
    MaxEnvironment = 2
    Scenes = {"documents","certificates","scripts","awards","names"}
INVARIANT ProcessingIsWorkedOn
PROPERTY ResourcesAreTracked
PROPERTY PinsStand
INVARIANTS WordsAreTheirOwn CertificatesPrintAsPicked ScenarioNamesStand
SYMMETRY ContentSymmetry
CHECK_DEADLOCK FALSE
