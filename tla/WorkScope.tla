--------------------------------- MODULE WorkScope ---------------------------------
(***************************************************************************)
(* Whose work an instructor may touch: organizations and their teams       *)
(* (organizations.service, routes/admin/teams), assignments as pairs of an *)
(* organization and a scenario (routes/admin/accounts, authz/scope), the   *)
(* teams' scenarios and timelines, students that are moved and removed     *)
(* (routes/admin/users), and the instructors' own remote sessions.         *)
(*                                                                         *)
(* Every handler is one action. One team's work on one scenario is a row   *)
(* of progress, its entries and the points it was awarded; an entry keeps  *)
(* the id of its author and an award that of its student, and those        *)
(* references are checked by the database, not followed.                   *)
(***************************************************************************)
EXTENDS Integers, FiniteSets

CONSTANTS
    Organizations, Teams, Ranges, Students,
    Instructors,  \* accounts with the role instructor
    Admin,        \* stands for every admin
    Nobody,       \* no organization, no team, no row
    Home,         \* [Students -> Teams]: where the event's students start
    MaxRecords,   \* bound: entries filed and points awarded
    MaxTurns      \* bound: changes made by staff

Member == [team : Teams, active : BOOLEAN]

ASSUME HomesAreTeams ==
    /\ Home \in [Students -> Teams] /\ Admin \notin Instructors
    /\ Nobody \notin UNION {Organizations, Teams, Ranges, Students, Instructors, Member}
    /\ MaxRecords \in Nat /\ MaxTurns \in Nat

VARIABLES
    orgs,       \* organizations
    teams,      \* teams of the run
    orgOf,      \* organization_id of a team, or Nobody
    pairs,      \* instructor_assignments: [Instructors -> SUBSET (Organizations \X Ranges)]
    progress,   \* [Teams \X Ranges -> status]
    entries,    \* rows of documentation_entries: [id, team, range, author]
    awards,     \* rows of scores, of one point: [id, team, range or Nobody, to: a student or Nobody]
    filed,      \* entries and awards so far
    students,   \* [Students -> [team, active]] or Nobody
    remote,     \* staff sessions: [by, range, orphaned]
    lately,     \* history: who took the last step, a student or the system as Nobody
    turns       \* changes made by staff so far

organizational == <<orgs, teams, orgOf, pairs>>
work == <<progress, entries, awards, filed>>
vars == <<organizational, work, students, remote, lately, turns>>

Staff == Instructors \cup {Admin}
NotStarted == "not started"

TypeOK ==
    /\ orgs \subseteq Organizations /\ teams \subseteq Teams
    /\ orgOf \in [Teams -> Organizations \cup {Nobody}]
    /\ pairs \in [Instructors -> SUBSET (Organizations \X Ranges)]
    /\ progress \in [Teams \X Ranges -> {NotStarted, "active", "paused", "completed"}]
    /\ entries \subseteq [id : Nat, team : Teams, range : Ranges, author : Students]
    /\ awards \subseteq [id : Nat, team : Teams, range : Ranges \cup {Nobody}, to : Students \cup {Nobody}]
    /\ filed \in Nat /\ turns \in Nat
    /\ students \in [Students -> Member \cup {Nobody}]
    /\ remote \subseteq [by : Instructors, range : Ranges, orphaned : BOOLEAN]

-------------------------------------------------------------------------------
(* Scope: read afresh by every request                                      *)

\* loadScope and hasPair
HasPair(p, o, r) == IF p = Admin THEN TRUE ELSE <<o, r>> \in pairs[p]
PairInScope(p, t, r) == t \in teams /\ HasPair(p, orgOf[t], r)
\* teamInScope: any team of an assigned organization
OrganizationInScope(p, o) == \E r \in Ranges : HasPair(p, o, r)
TeamInScope(p, t) == t \in teams /\ OrganizationInScope(p, orgOf[t])
ScenarioInScope(p, r) == \E o \in orgs : HasPair(p, o, r)

\* scenariosWithTeamWork
WorkOf(t) == {r \in Ranges : progress[<<t, r>>] # NotStarted \/ \E e \in entries \cup awards : e.team = t /\ e.range = r}

\* teamWorkCoveredBy
TeamWorkCoveredBy(p, t, o) == \A r \in WorkOf(t) : HasPair(p, o, r)

\* scenarioExclusiveFor: every team on the scenario, active or paused, is in scope
Exclusive(p, r) ==
    \A t \in teams : progress[<<t, r>>] \in {"active", "paused"} => HasPair(p, orgOf[t], r)

Turn(p) == turns < MaxTurns /\ turns' = turns + 1 /\ lately' = p

-------------------------------------------------------------------------------
(* Organizations and assignments: admins                                    *)

CreateOrganization(o) ==
    /\ o \notin orgs /\ Turn(Admin)
    /\ orgs' = orgs \cup {o}
    /\ UNCHANGED <<teams, orgOf, pairs, work, students, remote>>

\* DELETE /admin/organizations/:id: its teams stay, without one, and its pairs go;
\* nothing looks at the sessions that stood on them
DeleteOrganization(o) ==
    /\ o \in orgs /\ Turn(Admin)
    /\ orgs' = orgs \ {o}
    /\ orgOf' = [t \in Teams |-> IF orgOf[t] = o THEN Nobody ELSE orgOf[t]]
    /\ pairs' = [i \in Instructors |-> {q \in pairs[i] : q[1] # o}]
    /\ remote' = {IF s.by \in Instructors /\ ~ScenarioInScope(s.by, s.range)'
                  THEN [s EXCEPT !.orphaned = TRUE] ELSE s : s \in remote}
    /\ UNCHANGED <<teams, work, students>>

\* Mutant: the sessions of a narrowed scope go on.
Narrowed_Kept(i, new) == remote
\* PUT .../assignments: with a pair less, all of the instructor's sessions end
Narrowed(i, new) == IF pairs[i] \subseteq new THEN remote ELSE {s \in remote : s.by # i}

Assign(i, new) ==
    /\ new # pairs[i] /\ new \subseteq orgs \X Ranges /\ Turn(Admin)
    /\ pairs' = [pairs EXCEPT ![i] = new]
    /\ remote' = Narrowed(i, new)
    /\ UNCHANGED <<orgs, teams, orgOf, work, students>>

-------------------------------------------------------------------------------
(* Teams                                                                    *)

\* POST /admin/teams: an instructor's new team lands in its scope
CreateTeam(p, t, o) ==
    /\ t \notin teams /\ o \in orgs \cup {Nobody}
    /\ p # Admin => o # Nobody /\ OrganizationInScope(p, o)
    /\ Turn(p)
    /\ teams' = teams \cup {t}
    /\ orgOf' = [orgOf EXCEPT ![t] = o]
    /\ UNCHANGED <<orgs, pairs, work, students, remote>>

\* PATCH /admin/teams/:id: the team's whole history moves with it
SetTeamOrganization(p, t, o) ==
    /\ TeamInScope(p, t) /\ o # orgOf[t] /\ o \in orgs \cup {Nobody}
    /\ p # Admin => o # Nobody /\ OrganizationInScope(p, o)
    /\ o # Nobody => TeamWorkCoveredBy(p, t, orgOf[t]) /\ TeamWorkCoveredBy(p, t, o)
    /\ Turn(p)
    /\ orgOf' = [orgOf EXCEPT ![t] = o]
    /\ UNCHANGED <<orgs, teams, pairs, work, students, remote>>

\* the students that go with a team, and the records that do not
Members(t) == {u \in Students : students[u] # Nobody /\ students[u].team = t}
Remaining(t) == {e \in entries : e.team # t}
RemainingAwards(t) == {a \in awards : a.team # t}

\* Mutant: as it would be, were author_user_id ON DELETE CASCADE.
StillReferred_Cascade(t) == FALSE
\* a record of another team refers to a student that would go: FOREIGN KEY failure
StillReferred(t) ==
    \/ \E e \in Remaining(t) : e.author \in Members(t)
    \/ \E a \in RemainingAwards(t) : a.to \in Members(t)

\* DELETE /admin/teams/:id. When the database refuses, the request fails after the team's
\* sessions have ended, and the team stays.
DeleteTeam(p, t) ==
    /\ TeamInScope(p, t) /\ TeamWorkCoveredBy(p, t, orgOf[t])
    /\ ~StillReferred(t)
    /\ Turn(p)
    /\ teams' = teams \ {t}
    /\ orgOf' = [orgOf EXCEPT ![t] = Nobody]
    /\ progress' = [x \in Teams \X Ranges |-> IF x[1] = t THEN NotStarted ELSE progress[x]]
    /\ entries' = {e \in Remaining(t) : e.author \notin Members(t)}
    /\ awards' = {a \in RemainingAwards(t) : a.to \notin Members(t)}
    /\ students' = [u \in Students |-> IF u \in Members(t) THEN Nobody ELSE students[u]]
    /\ UNCHANGED <<orgs, pairs, filed, remote>>

-------------------------------------------------------------------------------
(* Scenarios and timelines                                                  *)

\* Mutant: the scenario a team is taken off may be anyone's.
MaySwitch_Any(p, t, r) == TRUE
\* "not allowed when that live scenario belongs to another instructor's pair"
MaySwitch(p, t, r) == \A q \in Ranges \ {r} : progress[<<t, q>>] = "active" => PairInScope(p, t, q)

\* POST .../start
Start(p, t, r) ==
    /\ PairInScope(p, t, r) /\ MaySwitch(p, t, r) /\ progress[<<t, r>>] # "active"
    /\ Turn(p)
    /\ progress' = [x \in Teams \X Ranges |->
         IF x = <<t, r>> THEN "active"
         ELSE IF x[1] = t /\ progress[x] = "active" THEN "paused" ELSE progress[x]]
    /\ UNCHANGED <<organizational, entries, awards, filed, students, remote>>

\* POST .../complete
Complete(p, t, r) ==
    /\ PairInScope(p, t, r) /\ progress[<<t, r>>] \notin {NotStarted, "completed"}
    /\ Turn(p)
    /\ progress' = [progress EXCEPT ![<<t, r>>] = "completed"]
    /\ UNCHANGED <<organizational, entries, awards, filed, students, remote>>

\* POST /documentation, under the scenario the author's team has active
File(u) ==
    /\ filed < MaxRecords
    /\ students[u] # Nobody /\ students[u].active
    /\ \E r \in Ranges :
         /\ progress[<<students[u].team, r>>] = "active"
         /\ entries' = entries \cup {[id |-> filed + 1, team |-> students[u].team, range |-> r, author |-> u]}
    /\ filed' = filed + 1 /\ lately' = Nobody
    /\ UNCHANGED <<organizational, progress, awards, students, remote, turns>>

\* an award on a scenario needs the pair, one to the team as such only the team
MayAward(p, t, r) == TeamInScope(p, t) /\ (r # Nobody => PairInScope(p, t, r))

\* POST /admin/scores: to a member or to the team, on any scenario or none
Award(p, t, r, u) ==
    /\ filed < MaxRecords
    /\ MayAward(p, t, r)
    /\ u # Nobody => u \in Members(t) /\ students[u].active
    /\ Turn(p)
    /\ awards' = awards \cup {[id |-> filed + 1, team |-> t, range |-> r, to |-> u]}
    /\ filed' = filed + 1
    /\ UNCHANGED <<organizational, progress, entries, students, remote>>

-------------------------------------------------------------------------------
(* Students                                                                 *)

\* PATCH /admin/users/:id: what a student filed stays with the team it was filed in
MoveStudent(p, u, t) ==
    /\ students[u] # Nobody /\ students[u].active /\ students[u].team # t
    /\ TeamInScope(p, students[u].team) /\ TeamInScope(p, t)
    /\ Turn(p)
    /\ students' = [students EXCEPT ![u].team = t]
    /\ UNCHANGED <<organizational, work, remote>>

\* DELETE /admin/users/:id: a student with entries or awards is deactivated
DeleteStudent(p, u) ==
    /\ students[u] # Nobody /\ students[u].active /\ TeamInScope(p, students[u].team)
    /\ Turn(p)
    /\ students' = IF (\E e \in entries : e.author = u) \/ \E a \in awards : a.to = u
                   THEN [students EXCEPT ![u].active = FALSE]
                   ELSE [students EXCEPT ![u] = Nobody]
    /\ UNCHANGED <<organizational, work, remote>>

-------------------------------------------------------------------------------
(* Remote sessions of staff                                                 *)

\* a Connect of an instructor: scenario in scope, and nobody else's team on it
Connect(i, r) ==
    /\ ScenarioInScope(i, r) /\ Exclusive(i, r)
    /\ [by |-> i, range |-> r, orphaned |-> FALSE] \notin remote /\ Turn(i)
    /\ remote' = remote \cup {[by |-> i, range |-> r, orphaned |-> FALSE]}
    /\ UNCHANGED <<organizational, work, students>>

\* the session ends: closed, or its grant runs out
EndSession(s) ==
    /\ remote' = remote \ {s} /\ lately' = Nobody
    /\ UNCHANGED <<organizational, work, students, turns>>

-------------------------------------------------------------------------------
Init ==
    /\ orgs = Organizations /\ teams = Teams
    /\ orgOf \in [Teams -> Organizations]
    /\ pairs \in [Instructors -> SUBSET (Organizations \X Ranges)]
    /\ progress = [x \in Teams \X Ranges |-> NotStarted]
    /\ entries = {} /\ awards = {} /\ filed = 0
    /\ students = [u \in Students |-> [team |-> Home[u], active |-> TRUE]]
    /\ remote = {} /\ lately = Nobody /\ turns = 0

OfTeams(p) == \E t \in Teams :
    \/ \E o \in Organizations \cup {Nobody} : CreateTeam(p, t, o) \/ SetTeamOrganization(p, t, o)
    \/ DeleteTeam(p, t)
    \/ \E r \in Ranges : Start(p, t, r) \/ Complete(p, t, r)
    \/ \E r \in Ranges \cup {Nobody}, u \in Students \cup {Nobody} : Award(p, t, r, u)
OfStudents(p) == \E u \in Students : DeleteStudent(p, u) \/ \E t \in Teams : MoveStudent(p, u, t)

Next ==
    \/ \E o \in Organizations : CreateOrganization(o) \/ DeleteOrganization(o)
    \/ \E i \in Instructors, new \in SUBSET (Organizations \X Ranges) : Assign(i, new)
    \/ \E p \in Staff : OfTeams(p) \/ OfStudents(p)
    \/ \E i \in Instructors, r \in Ranges : Connect(i, r)
    \/ \E u \in Students : File(u)
    \/ \E s \in remote : EndSession(s)

Spec == Init /\ [][Next]_vars

-------------------------------------------------------------------------------
(* Properties                                                               *)

\* A step of an instructor changes the work of a team on a scenario, or the organization it
\* is filed under, only when the pair of organization and scenario is among the
\* instructor's, before and after: never through another pair that shares one of the two
\* (authz/scope: "the cross product again").
Touched(t, r) ==
    \/ progress'[<<t, r>>] # progress[<<t, r>>]
    \/ {e \in (entries \cup awards)' : e.team = t /\ e.range = r} # {e \in entries \cup awards : e.team = t /\ e.range = r}
    \/ r \in WorkOf(t) /\ orgOf'[t] # orgOf[t]
InstructorsKeepToTheirPairs ==
    [][\A i \in Instructors, t \in Teams, r \in Ranges : lately' = i /\ Touched(t, r) =>
         /\ <<orgOf[t], r>> \in pairs[i]
         /\ t \in teams' => <<orgOf'[t], r>> \in pairs[i]]_vars

\* A team loses an entry or an award only with the team itself: not when its author or student
\* is removed, moved to another team, or goes with that other team; and the student's row is
\* kept as long (routes/admin/users: "its work stays credited").
RecordsOutliveTheirAuthors ==
    [][/\ \A e \in (entries \cup awards) \ (entries \cup awards)' : e.team \notin teams'
       /\ \A e \in entries' : students'[e.author] # Nobody
       /\ \A a \in awards' : a.to # Nobody => students'[a.to] # Nobody]_vars

\* A remote session of an instructor is on a scenario in its scope, unless an organization
\* was deleted under it (routes/admin/accounts: "A narrowed scope must also end the
\* instructor's remote sessions on VMs that left it").
SessionsStayInScope == \A s \in remote : s.orphaned \/ ScenarioInScope(s.by, s.range)
====================================================================================
