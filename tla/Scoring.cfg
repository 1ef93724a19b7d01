SPECIFICATION SpecScenes
CONSTANTS
    t1 = t1
    t2 = t2
    parent = parent
    sub = sub
    Teams = {t1, t2}
    Techniques = {parent, sub}
    Parent <- SubParent
    MaxExpected = 2
    MaxEntry = 2
    MaxScore = 2
    Points = {1, 2}
    MaxTime = 1
    PerEntry = 2
    BudgetTier = 1
    BudgetFactor = 1
INVARIANTS CreditsAreDue BudgetHolds ScoresPairCredits ViewsAgree
SYMMETRY TeamSymmetry
CHECK_DEADLOCK FALSE
