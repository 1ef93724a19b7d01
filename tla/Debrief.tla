-------------------------------- MODULE Debrief --------------------------------
(***************************************************************************)
(* What is shown of the scoring: the ATT&CK report of a team and of a      *)
(* scenario, the chips on the timeline, the live summary and the debrief,  *)
(* the team's score list and the leaderboard (services/ttpScoring,         *)
(* services/scoring, routes/teams, routes/documentation and their pages).  *)
(*                                                                         *)
(* Every view is read from the tables when it is asked for. Two families   *)
(* of them say how many points a team has: those that add up score rows,   *)
(* and those that add up the credits of the techniques still expected.     *)
(***************************************************************************)
EXTENDS TtpScoring, FiniteSetsExt

-------------------------------------------------------------------------------
(* Views of the score rows                                                  *)

RowsOf(t, sources) == {s \in ScoreRows : scores[s].team = t /\ scores[s].source \in sources}
PointsOf(rows) == MapThenSumSet(LAMBDA s : scores[s].points, rows)

\* computeLeaderboard, teamTotal
TeamTotal(t) == PointsOf(RowsOf(t, {"ttp", "manual"}))

\* GET /teams/me/scores, GET /admin/scores
MyScores(t) == [entries |-> RowsOf(t, {"ttp", "manual"}), teamTotal |-> TeamTotal(t)]

-------------------------------------------------------------------------------
(* Views of the credits                                                     *)

\* "an instructor void blocks the technique (across a remove+re-add)"
VoidedFor(t, x) == \E v \in voids :
    v[1] = t /\ v[3] = "judged" /\ expected[v[2]].tech = expected[x].tech

ExpectedResult(t, x) ==
    [technique |-> expected[x].tech,
     points    |-> expected[x].points,
     detected  |-> Credited(t, x),
     voided    |-> VoidedFor(t, x) /\ ~Credited(t, x),
     awarded   |-> IF Credited(t, x) THEN credits[<<t, x>>].points ELSE 0]

SatisfiesSome(tech) == \E x \in Live : Matches(tech, expected[x].tech)

BuildTeamTtpReport(t) ==
    LET rows == [x \in Live |-> ExpectedResult(t, x)] IN
    [expected        |-> rows,
     incorrect       |-> {k \in EverTagged(t) : ~SatisfiesSome(k)},
     earnedPoints    |-> MapThenSumSet(LAMBDA x : rows[x].awarded, Live),
     availablePoints |-> MapThenSumSet(LAMBDA x : expected[x].points, Live)]

\* GET .../ttp-report of a scenario, the matrix of the debrief
BuildRangeTtpReport == [t \in OnRange |-> BuildTeamTtpReport(t)]

\* tagsByEntry: the chips on an entry, each with whether its technique has brought points
TagsByEntry(t, e) ==
    {[technique |-> g.tech,
      credited  |-> \E x \in ExpectedIds : Credited(t, x) /\ Matches(g.tech, expected[x].tech)]
        : g \in {h \in tags : h.team = t /\ h.entry = e /\ h.active}}

-------------------------------------------------------------------------------
(* The debrief of a student                                                 *)

Finished(t) == progress[t].status = "completed"

\* "Revealed per SCENARIO, not per team"
Revealed(t) == Finished(t) /\ \A u \in OnRange : Finished(u)

\* GET /teams/me/cyber-ranges/:id/ttp-summary
TtpSummary(t) ==
    LET report == BuildTeamTtpReport(t) IN
    IF Live = {} THEN [scored |-> FALSE]
    ELSE IF Revealed(t) THEN [scored |-> TRUE, revealed |-> TRUE, report |-> report]
    ELSE [scored |-> TRUE, revealed |-> FALSE, earnedPoints |-> report.earnedPoints,
          credited |-> {x \in Live : report.expected[x].detected}]

-------------------------------------------------------------------------------
(* Properties                                                               *)

\* The points of a team are the same on every page: what its report, its debrief and its live
\* summary add up from credits, with what was given by hand, is what the leaderboard and its
\* score list add up from score rows.
PointsAgree ==
    LET matrix == BuildRangeTtpReport IN
    \A t \in OnRange :
        /\ matrix[t].earnedPoints + PointsOf(RowsOf(t, {"manual"})) = MyScores(t).teamTotal
        /\ Live # {} /\ ~Revealed(t) => TtpSummary(t).earnedPoints = matrix[t].earnedPoints

\* A tag on the timeline is shown to have brought points exactly if the report counts a
\* technique it satisfies.
ChipsAgree ==
    LET matrix == BuildRangeTtpReport IN
    \A t \in OnRange, e \in EntryIds : \A chip \in TagsByEntry(t, e) :
        chip.credited = \E x \in Live : matrix[t].expected[x].detected /\ Matches(chip.technique, expected[x].tech)

\* A technique that a report calls missed was missed: the team has no tag from before its
\* debrief for it, or the row says that a credit was voided, or the process died before
\* the reconcile.
MissesAreMisses == \A t \in OnRange \ owed, x \in Live :
    LET row == ExpectedResult(t, x) IN
    row.detected \/ row.voided \/ Evidence(t, row.technique, tags) = {}

\* Leaderboard, score list, live summary, report, debrief and timeline tell one story of points,
\* hits and misses, each from a query of its own, whatever was voided, removed, added again and
\* deleted.
ViewsAgree == PointsAgree /\ ChipsAgree /\ MissesAreMisses
===============================================================================
