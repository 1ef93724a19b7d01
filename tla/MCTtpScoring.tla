------------------------------ MODULE MCTtpScoring ------------------------------
(* TLC instances of TtpScoring: T1087 with its sub-technique T1087.001.     *)
(*                                                                          *)
(* Two teams with two techniques are too many states for one run, so a      *)
(* behaviour keeps to one of two scenes.                                    *)
EXTENDS Debrief, TLC

CONSTANTS t1, t2, parent, sub

VARIABLE scene  \* the teams that play it

SubParent == [k \in Techniques |-> IF k = sub THEN parent ELSE 0]
\* teams are interchangeable
TeamSymmetry == Permutations(Teams)

\* One team: both techniques, removed and re-added expectations, the
\* clock and a budget that follows the number of expectations.
OneTeam(t) ==
    \/ \E techs \in SUBSET Techniques : AddEntry(t, 1, techs) \/ SetTags(t, 1, techs)
    \/ \E x \in ExpectedIds, k \in Techniques : AddExpectation(x, k, 1)
    \/ \E x \in ExpectedIds, voidDetections \in BOOLEAN : RemoveExpectation(x, voidDetections)
    \/ \E x \in ExpectedIds : VoidDetection(t, x)
    \/ \E x \in ExpectedIds, e \in EntryIds, s \in ScoreIds : ManualCredit(t, x, e, s)
    \/ StartScenario(t) \/ PauseScenario(t) \/ CompleteScenario(t)
    \/ DeleteTeams({t})
    \/ Tick

\* Two teams, an entry each, on one expectation of changing points: range-wide reconciles, score rows of
\* both teams and rowids that are reused.
AllTeams ==
    \/ \E t \in Teams, e \in EntryIds, techs \in SUBSET {parent} :
         (\A d \in EntryIds : entries[d] = NoEntry \/ entries[d].team # t) /\ AddEntry(t, e, techs)
    \/ \E pts \in Points : AddExpectation(1, parent, pts) \/ EditPoints(1, pts)
    \/ \E voidDetections \in BOOLEAN : RemoveExpectation(1, voidDetections)
    \/ \E t \in Teams : VoidDetection(t, 1)
    \/ \E t \in Teams, s \in ScoreIds : AwardPoints(t, 1, s)
    \/ \E t \in Teams, e \in EntryIds, s \in ScoreIds : ManualCredit(t, 1, e, s)
    \/ \E t \in Teams : StartScenario(t) \/ CompleteScenario(t)
    \/ Deleting

SceneInit == Init /\ scene \in SUBSET Teams \ {{}}

SpecScenes ==
    /\ SceneInit
    /\ [][/\ \/ \E t \in Teams : scene = {t} /\ OneTeam(t)
             \/ scene = Teams /\ AllTeams
          /\ UNCHANGED scene]_<<vars, scene>>
===============================================================================
