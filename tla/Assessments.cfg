SPECIFICATION SpecScenes
CONSTANTS
    Rubric <- MCRubric
    ParentOf <- MCParentOf
    t1 = t1
    Teams = {t1, t2}
    t2 = t2
    Workers = {w1, w2}
    w1 = w1
    w2 = w2
    Works = {"blank", "written", "tagged"}
    Blank = "blank"
    Content <- MCContent
    Expected <- MCExpected
    Replies <- MCReplies
    MaxConcurrent = 2
    MaxRow = 3
    MaxRequest = 3
    MaxMoment = 4
INVARIANT ResultsAnswerARequest
INVARIANT UnchangedWorkIsPaidOnce
INVARIANT DecisionsRestOnResults
PROPERTY AssessmentsEnd
CHECK_DEADLOCK FALSE
