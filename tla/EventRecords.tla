-------------------------------- MODULE EventRecords --------------------------------
(***************************************************************************)
(* What is kept of an event and who is shown it: the dashboard             *)
(* (routes/admin/dashboard), the history and the event summary             *)
(* (routes/history), the scores and the leaderboard (routes/admin/scoring, *)
(* scoring.service), the results export (eventExport.service) and the      *)
(* certificates (certificate.service, routes/admin/certificates), over the *)
(* organizations, teams and work of WorkScope.                             *)
(*                                                                         *)
(* Every view is a query made when it is asked for, so it is an operator   *)
(* of the state and of its reader. Awards are of one point each, and a sum *)
(* is a number of awards. Of the awards only the manual ones are given     *)
(* here; those for a detection are rows of the same kind (see TtpScoring). *)
(***************************************************************************)
EXTENDS WorkScope

VARIABLE grants     \* certificate_grants: <<student, scenario>>

recordVars == <<vars, grants>>

Scored(t, r) == {a \in awards : a.team = t /\ a.range = r}
Covered(p, t, r) == HasPair(p, orgOf[t], r)
Started(t) == {r \in Ranges : progress[<<t, r>>] # NotStarted}

-------------------------------------------------------------------------------
(* Dashboard                                                                *)

Live(t) == {r \in Ranges : progress[<<t, r>>] = "active"}

\* GET /admin/dashboard: the live scenario of a team, when its pair is held
OnDashboard(p, t) == {r \in Live(t) : PairInScope(p, t, r)}
ActiveOutOfScope(p, t) == Live(t) # {} /\ OnDashboard(p, t) = {}
CompletedCount(p, t) == Cardinality({r \in Ranges : progress[<<t, r>>] = "completed" /\ Covered(p, t, r)})
\* points of the team as such and of the covered scenarios
DashboardTotal(p, t) == Cardinality({a \in awards : a.team = t /\ (a.range = Nobody \/ Covered(p, t, a.range))})

-------------------------------------------------------------------------------
(* History                                                                  *)

\* Mutant: a scenario that was switched away from is neither live nor completed.
InHistory_Completed(p, t) == {r \in Ranges : progress[<<t, r>>] = "completed" /\ Covered(p, t, r)}
\* GET /history: every scenario of the team that is not the live one
InHistory(p, t) == {r \in Ranges : progress[<<t, r>>] \in {"completed", "paused"} /\ Covered(p, t, r)}

\* GET /history/event-summary
SummaryTotal(p, t) ==
    Cardinality({a \in awards : a.team = t /\ a.range \in Started(t) /\ Covered(p, t, a.range)})

\* what a join with the author's row leaves
Told(rows) == {e \in rows : students[e.author] # Nobody}

\* GET /history/:cyberRangeId
ScenarioHistory(t, r) == [entries |-> Told({e \in entries : e.team = t /\ e.range = r}),
                          total   |-> Cardinality(Scored(t, r))]

-------------------------------------------------------------------------------
(* Scores and leaderboard                                                   *)

\* computeLeaderboard, teamTotal
TeamTotal(t) == Cardinality({a \in awards : a.team = t})

\* leaderboardFor: staff the teams of their organizations
StaffBoard(p) == {t \in teams : TeamInScope(p, t)}
\* a student the teams of its own organization, and none while its team is alone in it
StudentBoard(u) ==
    LET own == students[u].team
        rivals == {t \in teams : orgOf[t] = orgOf[own]}
    IN IF orgOf[own] = Nobody \/ Cardinality(rivals) < 2 THEN {} ELSE rivals

-------------------------------------------------------------------------------
(* Export                                                                   *)

ExportedTeams(p) == {t \in teams : TeamInScope(p, t)}
ExportedScenarios(p, t) == {r \in Started(t) : Covered(p, t, r)}
ExportedEntries(p, t) == Told({e \in entries : e.team = t /\ e.range \in ExportedScenarios(p, t)})

\* awards that lie on no scenario are in the complete export only
OtherScores(p, t) == IF p = Admin THEN Scored(t, Nobody) ELSE {}
ExportedTotal(p, t) ==
    Cardinality({a \in awards : a.team = t /\ a.range \in ExportedScenarios(p, t)} \cup OtherScores(p, t))

-------------------------------------------------------------------------------
(* Certificates                                                             *)

\* studentCertificates: of the scenarios the student's present team completed, and those granted
Certificates(u) ==
    {r \in Ranges : progress[<<students[u].team, r>>] = "completed" \/ <<u, r>> \in grants}

\* studentCertificateOptions, in the pairs of the reader
CertificateOptions(p, u) == {r \in Started(students[u].team) : Covered(p, students[u].team, r)}

\* findStudent, assertTeamInScope and assertPairInScope
MayCertify(p, u, r) ==
    /\ students[u] # Nobody /\ students[u].active
    /\ TeamInScope(p, students[u].team) /\ PairInScope(p, students[u].team, r)

\* PUT .../certificate-grants/:cyberRangeId
GrantCertificate(p, u, r) ==
    /\ MayCertify(p, u, r) /\ r \in Started(students[u].team)
    /\ Turn(p)
    /\ grants' = grants \cup {<<u, r>>}
    /\ UNCHANGED <<organizational, work, students, remote>>

\* DELETE .../certificate-grants/:cyberRangeId
RevokeCertificate(p, u, r) ==
    /\ MayCertify(p, u, r)
    /\ Turn(p)
    /\ grants' = grants \ {<<u, r>>}
    /\ UNCHANGED <<organizational, work, students, remote>>

\* GET /admin/certificate-grants
GrantsListed(p) == {g \in grants : students[g[1]] # Nobody /\ PairInScope(p, students[g[1]].team, g[2])}

-------------------------------------------------------------------------------
\* grants go with the student's row
Standing == {g \in grants : students'[g[1]] # Nobody}

RecordInit == Init /\ grants = {}

RecordNext ==
    \/ Next /\ grants' = Standing
    \/ \E p \in Staff, u \in Students, r \in Ranges : GrantCertificate(p, u, r) \/ RevokeCertificate(p, u, r)

RecordSpec == RecordInit /\ [][RecordNext]_recordVars

-------------------------------------------------------------------------------
(* Properties                                                               *)

\* all of a team's work lies in the pairs of the reader
AllCovered(p, t) == \A r \in WorkOf(t) : Covered(p, t, r)
\* an award needs no session: it may lie on a scenario the team was never assigned
AllStarted(t) == \A a \in awards : a.team = t => a.range \in Started(t) \cup {Nobody}

\* Whatever becomes of teams, organizations, assignments and students, the work of a team does not
\* disappear from view ("A paused scenario used to be visible nowhere", routes/history): a reader in whose
\* scope the team is finds every scenario of its pairs, and no other, live on the dashboard or in
\* the history, with all entries, and in the export; and for a reader of all the team's pairs the
\* points on the dashboard, in the summary, in the export and on the leaderboard add up.
WorkStaysVisible == \A p \in Staff : \A t \in StaffBoard(p) :
    /\ OnDashboard(p, t) \cup InHistory(p, t) = {r \in WorkOf(t) \cap Started(t) : Covered(p, t, r)}
    /\ ExportedEntries(p, t) = {e \in entries : e.team = t /\ Covered(p, t, e.range)}
    /\ \A r \in ExportedScenarios(p, t) : ScenarioHistory(t, r).entries \subseteq ExportedEntries(p, t)
    /\ AllCovered(p, t) =>
         /\ DashboardTotal(p, t) = TeamTotal(t)
         /\ AllStarted(t) => /\ SummaryTotal(p, t) + Cardinality(Scored(t, Nobody)) = TeamTotal(t)
                             /\ ExportedTotal(Admin, t) = TeamTotal(t)
=====================================================================================
