----------------------------- MODULE WorkScopeProofs -----------------------------
(***************************************************************************)
(* Safety theorems about a team's work: who may touch it and where it      *)
(* shows (WorkScope, EventRecords), for every set of organizations, teams, *)
(* scenarios, students and instructors; and the board it draws together    *)
(* (InvestigationCanvas), for any number of browsers, rows and events.     *)
(***************************************************************************)
EXTENDS EventRecords, InvestigationCanvas, FiniteSetTheorems, TLAPS

-------------------------------------------------------------------------------
(* The steps                                                                *)

LEMMA NobodyIsNone ==
    /\ Nobody \notin Organizations /\ Nobody \notin Teams /\ Nobody \notin Ranges
    /\ Nobody \notin Students /\ Nobody \notin Instructors /\ Nobody \notin Member
BY HomesAreTeams

\* Handlers that leave teams, work and members alone.
Elsewhere == UNCHANGED <<teams, work, students>>

LEMMA ElsewhereSteps ==
    /\ \A o \in Organizations : CreateOrganization(o) \/ DeleteOrganization(o) => Elsewhere
    /\ \A i \in Instructors, new \in SUBSET (Organizations \X Ranges) : Assign(i, new) => Elsewhere
    /\ \A i \in Instructors, r \in Ranges : Connect(i, r) => Elsewhere
    /\ \A s \in remote : EndSession(s) => Elsewhere
    /\ \A p \in Staff, t \in Teams, o \in Organizations \cup {Nobody} : SetTeamOrganization(p, t, o) => Elsewhere
BY DEF CreateOrganization, DeleteOrganization, Assign, Connect, EndSession, SetTeamOrganization, Elsewhere,
       organizational, work

-------------------------------------------------------------------------------
(* Type correctness                                                         *)

LEMMA InitType == Init => TypeOK
<1> SUFFICES ASSUME Init  PROVE TypeOK
  OBVIOUS
<1>1. students \in [Students -> Member \cup {Nobody}]
  BY HomesAreTeams DEF Init, Member
<1>2. QED  BY <1>1 DEF Init, TypeOK

LEMMA TypeStep == TypeOK /\ [Next]_vars => TypeOK'
<1> SUFFICES ASSUME TypeOK, [Next]_vars  PROVE TypeOK'
  OBVIOUS
<1> USE DEF TypeOK
<1>1. ASSUME NEW o \in Organizations, CreateOrganization(o)  PROVE TypeOK'
  BY <1>1 DEF CreateOrganization, Turn, work
<1>2. ASSUME NEW o \in Organizations, DeleteOrganization(o)  PROVE TypeOK'
  <2>1. orgOf' \in [Teams -> Organizations \cup {Nobody}]
    BY <1>2 DEF DeleteOrganization
  <2>2. pairs' \in [Instructors -> SUBSET (Organizations \X Ranges)]
    BY <1>2 DEF DeleteOrganization
  <2>3. remote' \subseteq [by : Instructors, range : Ranges, orphaned : BOOLEAN]
    BY <1>2 DEF DeleteOrganization
  <2>4. QED  BY <1>2, <2>1, <2>2, <2>3 DEF DeleteOrganization, Turn, work
<1>3. ASSUME NEW i \in Instructors, NEW new \in SUBSET (Organizations \X Ranges), Assign(i, new)  PROVE TypeOK'
  BY <1>3 DEF Assign, Narrowed, Turn, work
<1>4. ASSUME NEW p \in Staff, NEW t \in Teams, NEW o \in Organizations \cup {Nobody}, CreateTeam(p, t, o)
      PROVE  TypeOK'
  BY <1>4 DEF CreateTeam, Turn, work
<1>5. ASSUME NEW p \in Staff, NEW t \in Teams, NEW o \in Organizations \cup {Nobody}, SetTeamOrganization(p, t, o)
      PROVE  TypeOK'
  BY <1>5 DEF SetTeamOrganization, Turn, work
<1>6. ASSUME NEW p \in Staff, NEW t \in Teams, DeleteTeam(p, t)  PROVE TypeOK'
  <2>1. progress' \in [Teams \X Ranges -> {NotStarted, "active", "paused", "completed"}]
    BY <1>6 DEF DeleteTeam
  <2>2. entries' \subseteq entries /\ awards' \subseteq awards
    BY <1>6 DEF DeleteTeam, Remaining, RemainingAwards
  <2>3. students' \in [Students -> Member \cup {Nobody}]
    BY <1>6 DEF DeleteTeam
  <2>4. QED  BY <1>6, <2>1, <2>2, <2>3 DEF DeleteTeam, Turn
<1>7. ASSUME NEW p \in Staff, NEW t \in Teams, NEW r \in Ranges, Start(p, t, r)  PROVE TypeOK'
  <2>1. progress' \in [Teams \X Ranges -> {NotStarted, "active", "paused", "completed"}]
    BY <1>7 DEF Start
  <2>2. QED  BY <1>7, <2>1 DEF Start, Turn, organizational
<1>8. ASSUME NEW p \in Staff, NEW t \in Teams, NEW r \in Ranges, Complete(p, t, r)  PROVE TypeOK'
  BY <1>8 DEF Complete, Turn, organizational
<1>9. ASSUME NEW p \in Staff, NEW t \in Teams, NEW r \in Ranges \cup {Nobody}, NEW u \in Students \cup {Nobody},
             Award(p, t, r, u)
      PROVE  TypeOK'
  BY <1>9 DEF Award, Turn, organizational
<1>10. ASSUME NEW p \in Staff, NEW u \in Students, DeleteStudent(p, u)  PROVE TypeOK'
  <2>1. students' \in [Students -> Member \cup {Nobody}]
    BY <1>10 DEF DeleteStudent, Member
  <2>2. QED  BY <1>10, <2>1 DEF DeleteStudent, Turn, organizational, work
<1>11. ASSUME NEW p \in Staff, NEW u \in Students, NEW t \in Teams, MoveStudent(p, u, t)  PROVE TypeOK'
  <2>1. students' \in [Students -> Member \cup {Nobody}]
    BY <1>11 DEF MoveStudent, Member
  <2>2. QED  BY <1>11, <2>1 DEF MoveStudent, Turn, organizational, work
<1>12. ASSUME NEW i \in Instructors, NEW r \in Ranges, Connect(i, r)  PROVE TypeOK'
  <2>1. [by |-> i, range |-> r, orphaned |-> FALSE] \in [by : Instructors, range : Ranges, orphaned : BOOLEAN]
    OBVIOUS
  <2>2. remote' = remote \cup {[by |-> i, range |-> r, orphaned |-> FALSE]} /\ turns' \in Nat
    BY <1>12 DEF Connect, Turn
  <2>3. UNCHANGED <<organizational, work, students>>
    BY <1>12 DEF Connect
  <2>4. QED  BY <2>1, <2>2, <2>3 DEF organizational, work
<1>13. ASSUME NEW u \in Students, File(u)  PROVE TypeOK'
  <2>1. students[u].team \in Teams
    BY <1>13 DEF File, Member
  <2>2. QED  BY <1>13, <2>1 DEF File, organizational
<1>14. ASSUME NEW s \in remote, EndSession(s)  PROVE TypeOK'
  BY <1>14 DEF EndSession, organizational, work
<1>15. CASE UNCHANGED vars
  BY <1>15 DEF vars, organizational, work
<1>16. QED
  BY <1>1, <1>2, <1>3, <1>4, <1>5, <1>6, <1>7, <1>8, <1>9, <1>10, <1>11, <1>12, <1>13, <1>14, <1>15
  DEF Next, OfTeams, OfStudents

-------------------------------------------------------------------------------
(* Remote sessions                                                          *)

LEMMA ScopeStep == TypeOK /\ SessionsStayInScope /\ [Next]_vars => SessionsStayInScope'
<1> SUFFICES ASSUME TypeOK, SessionsStayInScope, [Next]_vars  PROVE SessionsStayInScope'
  OBVIOUS
<1>1. ASSUME remote' \subseteq remote, UNCHANGED <<orgs, pairs>>  PROVE SessionsStayInScope'
  BY <1>1 DEF SessionsStayInScope, ScenarioInScope, HasPair
<1>2. ASSUME NEW o \in Organizations, CreateOrganization(o)  PROVE SessionsStayInScope'
  BY <1>2 DEF CreateOrganization, SessionsStayInScope, ScenarioInScope, HasPair
<1>3. ASSUME NEW o \in Organizations, DeleteOrganization(o)  PROVE SessionsStayInScope'
  <2> SUFFICES ASSUME NEW s \in remote', ~s.orphaned  PROVE ScenarioInScope(s.by, s.range)'
    BY DEF SessionsStayInScope
  <2>1. PICK was \in remote :
          s = IF was.by \in Instructors /\ ~ScenarioInScope(was.by, was.range)'
              THEN [was EXCEPT !.orphaned = TRUE] ELSE was
    BY <1>3 DEF DeleteOrganization
  <2>2. s = was \/ s.orphaned
    BY <2>1 DEF TypeOK
  <2>3. was.by \in Instructors
    BY DEF TypeOK
  <2>4. QED  BY <2>1, <2>2, <2>3
<1>4. ASSUME NEW i \in Instructors, NEW new \in SUBSET (Organizations \X Ranges), Assign(i, new)
      PROVE  SessionsStayInScope'
  <2> SUFFICES ASSUME NEW s \in remote', ~s.orphaned  PROVE ScenarioInScope(s.by, s.range)'
    BY DEF SessionsStayInScope
  <2>1. s \in remote /\ (s.by = i => pairs[i] \subseteq new)
    BY <1>4 DEF Assign, Narrowed
  <2>2. s.by \in Instructors /\ s.by # Admin
    BY <2>1, HomesAreTeams DEF TypeOK
  <2>3. PICK o \in orgs : <<o, s.range>> \in pairs[s.by]
    BY <2>1, <2>2 DEF SessionsStayInScope, ScenarioInScope, HasPair
  <2>4. o \in orgs' /\ <<o, s.range>> \in pairs'[s.by]
    BY <1>4, <2>1, <2>2, <2>3 DEF Assign, TypeOK
  <2>5. QED  BY <2>2, <2>4 DEF ScenarioInScope, HasPair
<1>5. ASSUME NEW i \in Instructors, NEW r \in Ranges, Connect(i, r)  PROVE SessionsStayInScope'
  <2>1. UNCHANGED <<orgs, pairs>> /\ remote' = remote \cup {[by |-> i, range |-> r, orphaned |-> FALSE]}
    BY <1>5 DEF Connect, organizational
  <2>2. ScenarioInScope(i, r)
    BY <1>5 DEF Connect
  <2>3. QED  BY <2>1, <2>2 DEF SessionsStayInScope, ScenarioInScope, HasPair
<1>6. ASSUME NEW p \in Staff, NEW t \in Teams
      PROVE  /\ \A o \in Organizations \cup {Nobody} :
                  CreateTeam(p, t, o) \/ SetTeamOrganization(p, t, o) => UNCHANGED <<remote, orgs, pairs>>
             /\ DeleteTeam(p, t) => UNCHANGED <<remote, orgs, pairs>>
             /\ \A r \in Ranges : Start(p, t, r) \/ Complete(p, t, r) => UNCHANGED <<remote, orgs, pairs>>
             /\ \A r \in Ranges \cup {Nobody}, u \in Students \cup {Nobody} :
                  Award(p, t, r, u) => UNCHANGED <<remote, orgs, pairs>>
             /\ \A u \in Students : MoveStudent(p, u, t) => UNCHANGED <<remote, orgs, pairs>>
  BY DEF CreateTeam, SetTeamOrganization, DeleteTeam, Start, Complete, Award, MoveStudent, organizational
<1>7. ASSUME NEW u \in Students
      PROVE  /\ \A p \in Staff : DeleteStudent(p, u) => UNCHANGED <<remote, orgs, pairs>>
             /\ File(u) => UNCHANGED <<remote, orgs, pairs>>
  BY DEF DeleteStudent, File, organizational
<1>8. UNCHANGED vars => UNCHANGED <<remote, orgs, pairs>>
  BY DEF vars, organizational
<1>9. ASSUME NEW s \in remote, EndSession(s)  PROVE remote' \subseteq remote /\ UNCHANGED <<orgs, pairs>>
  BY <1>9 DEF EndSession, organizational
<1>10. QED
  BY <1>1, <1>2, <1>3, <1>4, <1>5, <1>6, <1>7, <1>8, <1>9 DEF Next, OfTeams, OfStudents

-------------------------------------------------------------------------------
(* Work                                                                     *)

\* A team that is gone left nothing behind; an entry is on a scenario its team was assigned;
\* and a record's author or student still has a row.
WorkIsOfTeams == \A t \in Teams \ teams :
    /\ \A r \in Ranges : progress[<<t, r>>] = NotStarted
    /\ \A e \in entries \cup awards : e.team # t
EntriesAreOnStarted == \A e \in entries : progress[<<e.team, e.range>>] # NotStarted
AuthorsStay ==
    /\ \A e \in entries : students[e.author] # Nobody
    /\ \A a \in awards : a.to # Nobody => students[a.to] # Nobody
WorkInv == WorkIsOfTeams /\ EntriesAreOnStarted /\ AuthorsStay

\* What DELETE /admin/teams/:id takes: the team's own rows and nothing else, since the
\* database refuses whenever another team's row names a member.
LEMMA DeleteTeamTakesItsOwn ==
    ASSUME NEW p, NEW t, DeleteTeam(p, t)
    PROVE  /\ entries' = Remaining(t) /\ awards' = RemainingAwards(t)
           /\ \A e \in entries' : e.author \notin Members(t)
           /\ \A a \in awards' : a.to \notin Members(t)
BY DEF DeleteTeam, StillReferred

LEMMA WorkStep == TypeOK /\ WorkInv /\ [Next]_vars => WorkInv'
<1> SUFFICES ASSUME TypeOK, WorkInv, [Next]_vars  PROVE WorkInv'
  OBVIOUS
<1> USE DEF WorkInv
<1>1. CASE Elsewhere
  BY <1>1 DEF Elsewhere, work, WorkIsOfTeams, EntriesAreOnStarted, AuthorsStay
<1>2. ASSUME NEW p \in Staff, NEW t \in Teams, NEW o \in Organizations \cup {Nobody}, CreateTeam(p, t, o)
      PROVE  WorkInv'
  BY <1>2 DEF CreateTeam, work, WorkIsOfTeams, EntriesAreOnStarted, AuthorsStay
<1>3. ASSUME NEW p \in Staff, NEW t \in Teams, DeleteTeam(p, t)  PROVE WorkInv'
  <2>1. /\ entries' \subseteq entries /\ awards' \subseteq awards
        /\ \A e \in entries' \cup awards' : e.team # t
    BY <1>3, DeleteTeamTakesItsOwn DEF Remaining, RemainingAwards
  <2>2. \A x \in Teams \X Ranges : progress'[x] = IF x[1] = t THEN NotStarted ELSE progress[x]
    BY <1>3 DEF DeleteTeam
  <2>3. teams' = teams \ {t}
    BY <1>3 DEF DeleteTeam
  <2>4. WorkIsOfTeams'
    BY <2>1, <2>2, <2>3 DEF WorkIsOfTeams
  <2>5. EntriesAreOnStarted'
    BY <2>1, <2>2 DEF EntriesAreOnStarted, TypeOK
  <2>6. AuthorsStay'
    BY <1>3, <2>1, DeleteTeamTakesItsOwn, NobodyIsNone DEF AuthorsStay, DeleteTeam, TypeOK
  <2>7. QED  BY <2>4, <2>5, <2>6
<1>4. ASSUME NEW p \in Staff, NEW t \in Teams, NEW r \in Ranges, Start(p, t, r)  PROVE WorkInv'
  <2>1. t \in teams
    BY <1>4 DEF Start, PairInScope
  <2>2. \A x \in Teams \X Ranges : x[1] # t => progress'[x] = progress[x]
    BY <1>4 DEF Start
  <2>3. \A x \in Teams \X Ranges : progress[x] # NotStarted => progress'[x] # NotStarted
    BY <1>4 DEF Start, NotStarted
  <2>4. UNCHANGED <<teams, entries, awards, students>>
    BY <1>4 DEF Start, organizational
  <2>5. QED  BY <2>1, <2>2, <2>3, <2>4 DEF WorkIsOfTeams, EntriesAreOnStarted, AuthorsStay, TypeOK
<1>5. ASSUME NEW p \in Staff, NEW t \in Teams, NEW r \in Ranges, Complete(p, t, r)  PROVE WorkInv'
  <2>1. t \in teams
    BY <1>5 DEF Complete, PairInScope
  <2>2. progress' = [progress EXCEPT ![<<t, r>>] = "completed"]
    BY <1>5 DEF Complete
  <2>3. UNCHANGED <<teams, entries, awards, students>>
    BY <1>5 DEF Complete, organizational
  <2>4. QED  BY <2>1, <2>2, <2>3 DEF WorkIsOfTeams, EntriesAreOnStarted, AuthorsStay, TypeOK, NotStarted
<1>6. ASSUME NEW p \in Staff, NEW t \in Teams, NEW r \in Ranges \cup {Nobody}, NEW u \in Students \cup {Nobody},
             Award(p, t, r, u)
      PROVE  WorkInv'
  <2>1. t \in teams /\ (u # Nobody => students[u] # Nobody)
    BY <1>6 DEF Award, MayAward, TeamInScope, Members
  <2>2. awards' = awards \cup {[id |-> filed + 1, team |-> t, range |-> r, to |-> u]}
    BY <1>6 DEF Award
  <2>3. UNCHANGED <<teams, progress, entries, students>>
    BY <1>6 DEF Award, organizational
  <2>4. QED  BY <2>1, <2>2, <2>3 DEF WorkIsOfTeams, EntriesAreOnStarted, AuthorsStay
<1>7. ASSUME NEW p \in Staff, NEW u \in Students, DeleteStudent(p, u)  PROVE WorkInv'
  <2>1. UNCHANGED <<teams, progress, entries, awards>>
    BY <1>7 DEF DeleteStudent, organizational, work
  <2>2. AuthorsStay'
    <3>1. CASE (\E e \in entries : e.author = u) \/ \E a \in awards : a.to = u
      <4>1. students' = [students EXCEPT ![u].active = FALSE] /\ students[u] \in Member
        BY <1>7, <3>1 DEF DeleteStudent, TypeOK
      <4>2. students'[u] \in Member
        BY <4>1 DEF Member, TypeOK
      <4>3. QED  BY <2>1, <4>1, <4>2, NobodyIsNone DEF AuthorsStay, TypeOK
    <3>2. CASE ~((\E e \in entries : e.author = u) \/ \E a \in awards : a.to = u)
      <4>1. students' = [students EXCEPT ![u] = Nobody]
        BY <1>7, <3>2 DEF DeleteStudent
      <4>2. QED  BY <2>1, <3>2, <4>1 DEF AuthorsStay, TypeOK
    <3>3. QED  BY <3>1, <3>2
  <2>3. QED  BY <2>1, <2>2 DEF WorkIsOfTeams, EntriesAreOnStarted
<1>8. ASSUME NEW p \in Staff, NEW u \in Students, NEW t \in Teams, MoveStudent(p, u, t)  PROVE WorkInv'
  <2>1. UNCHANGED <<teams, progress, entries, awards>>
    BY <1>8 DEF MoveStudent, organizational, work
  <2>2. students' = [students EXCEPT ![u].team = t] /\ students[u] \in Member
    BY <1>8 DEF MoveStudent, TypeOK
  <2>3. students'[u] \in Member
    BY <2>2 DEF Member, TypeOK
  <2>4. QED  BY <2>1, <2>2, <2>3, NobodyIsNone DEF WorkIsOfTeams, EntriesAreOnStarted, AuthorsStay, TypeOK
<1>9. ASSUME NEW u \in Students, File(u)  PROVE WorkInv'
  <2>1. PICK r \in Ranges :
          /\ progress[<<students[u].team, r>>] = "active"
          /\ entries' = entries \cup {[id |-> filed + 1, team |-> students[u].team, range |-> r, author |-> u]}
    BY <1>9 DEF File
  <2>2. students[u] \in Member /\ UNCHANGED <<teams, progress, awards, students>>
    BY <1>9 DEF File, organizational, TypeOK
  <2>3. students[u].team \in teams
    BY <2>1, <2>2 DEF WorkIsOfTeams, Member, NotStarted
  <2>4. WorkIsOfTeams'
    BY <2>1, <2>2, <2>3 DEF WorkIsOfTeams
  <2>5. EntriesAreOnStarted'
    <3> SUFFICES ASSUME NEW e \in entries'  PROVE progress[<<e.team, e.range>>] # NotStarted
      BY <2>2 DEF EntriesAreOnStarted
    <3>1. CASE e \in entries
      BY <3>1 DEF EntriesAreOnStarted
    <3>2. CASE e \notin entries
      <4>1. e.team = students[u].team /\ e.range = r
        BY <2>1, <3>2
      <4>2. progress[<<e.team, e.range>>] = "active"
        BY <2>1, <4>1
      <4>3. QED  BY <4>2 DEF NotStarted
    <3>3. QED  BY <3>1, <3>2
  <2>6. AuthorsStay'
    BY <2>1, <2>2, NobodyIsNone DEF AuthorsStay
  <2>7. QED  BY <2>4, <2>5, <2>6
<1>10. UNCHANGED vars => Elsewhere
  BY DEF vars, Elsewhere, organizational, work
<1>11. QED
  BY <1>1, <1>2, <1>3, <1>4, <1>5, <1>6, <1>7, <1>8, <1>9, <1>10, ElsewhereSteps DEF Next, OfTeams, OfStudents

LEMMA RecordSteps ==
    [RecordNext]_recordVars =>
        \/ [Next]_vars
        \/ \E p \in Staff : Turn(p) /\ UNCHANGED <<organizational, work, students, remote>>
BY DEF RecordNext, recordVars, GrantCertificate, RevokeCertificate

\* Everything the theorems rest on.
RecordInv == TypeOK /\ SessionsStayInScope /\ WorkInv

LEMMA RecordInvStep == RecordInv /\ [RecordNext]_recordVars => RecordInv'
<1> SUFFICES ASSUME RecordInv, [RecordNext]_recordVars  PROVE RecordInv'
  OBVIOUS
<1>1. CASE [Next]_vars
  BY <1>1, TypeStep, ScopeStep, WorkStep DEF RecordInv
<1>2. ASSUME NEW p \in Staff, Turn(p), UNCHANGED <<organizational, work, students, remote>>  PROVE RecordInv'
  <2>1. TypeOK'
    BY <1>2 DEF RecordInv, TypeOK, Turn, organizational, work
  <2>2. SessionsStayInScope'
    BY <1>2 DEF RecordInv, SessionsStayInScope, ScenarioInScope, HasPair, organizational
  <2>3. WorkInv'
    BY <1>2 DEF RecordInv, WorkInv, WorkIsOfTeams, EntriesAreOnStarted, AuthorsStay, organizational, work
  <2>4. QED  BY <2>1, <2>2, <2>3 DEF RecordInv
<1>3. QED  BY <1>1, <1>2, RecordSteps

LEMMA RecordInvInit == RecordInit => RecordInv
<1> SUFFICES ASSUME RecordInit  PROVE RecordInv
  OBVIOUS
<1>1. TypeOK
  BY InitType DEF RecordInit
<1>2. SessionsStayInScope /\ WorkInv
  BY DEF RecordInit, Init, SessionsStayInScope, WorkInv, WorkIsOfTeams, EntriesAreOnStarted, AuthorsStay
<1>3. QED  BY <1>1, <1>2 DEF RecordInv

LEMMA RecordsInvariant == RecordSpec => []RecordInv
BY RecordInvInit, RecordInvStep, PTL DEF RecordSpec

\* A staff session stands on a pair of its instructor, unless an organization was deleted
\* under it (PUT .../assignments: a narrowed scope ends the sessions).
THEOREM StaffSessionsInScope == RecordSpec => []SessionsStayInScope
BY RecordsInvariant, PTL DEF RecordInv

-------------------------------------------------------------------------------
(* Records                                                                  *)

\* A team loses an entry or an award only with the team itself, and no record loses its
\* author or student (routes/admin/users, the foreign keys of entries and scores).
THEOREM RecordsStay == RecordSpec => RecordsOutliveTheirAuthors
<1> DEFINE Outlive ==
        /\ \A e \in (entries \cup awards) \ (entries \cup awards)' : e.team \notin teams'
        /\ \A e \in entries' : students'[e.author] # Nobody
        /\ \A a \in awards' : a.to # Nobody => students'[a.to] # Nobody
<1>1. ASSUME RecordInv, RecordInv', [RecordNext]_recordVars  PROVE Outlive
  <2>1. \/ entries \subseteq entries' /\ awards \subseteq awards'
        \/ \E p \in Staff, t \in Teams : DeleteTeam(p, t)
    <3>1. ASSUME NEW p \in Staff, NEW t \in Teams
          PROVE  /\ \A o \in Organizations \cup {Nobody} : CreateTeam(p, t, o) => UNCHANGED work
                 /\ \A r \in Ranges : Start(p, t, r) \/ Complete(p, t, r) => UNCHANGED <<entries, awards>>
                 /\ \A r \in Ranges \cup {Nobody}, u \in Students \cup {Nobody} :
                      Award(p, t, r, u) => UNCHANGED entries /\ awards \subseteq awards'
                 /\ \A u \in Students : MoveStudent(p, u, t) => UNCHANGED work
      BY DEF CreateTeam, Start, Complete, Award, MoveStudent
    <3>2. ASSUME NEW u \in Students
          PROVE  /\ \A p \in Staff : DeleteStudent(p, u) => UNCHANGED work
                 /\ File(u) => entries \subseteq entries' /\ UNCHANGED awards
      BY DEF DeleteStudent, File
    <3>3. /\ UNCHANGED vars => UNCHANGED work
          /\ Elsewhere => UNCHANGED work
      BY DEF vars, Elsewhere
    <3>4. UNCHANGED work => UNCHANGED <<entries, awards>>
      BY DEF work
    <3>5. [Next]_vars \/ UNCHANGED work
      BY <1>1, RecordSteps
    <3>6. CASE Next
      BY <3>1, <3>2, <3>3, <3>4, <3>6, ElsewhereSteps DEF Next, OfTeams, OfStudents
    <3>7. QED  BY <3>3, <3>4, <3>5, <3>6
  <2>2. ASSUME NEW p \in Staff, NEW t \in Teams, DeleteTeam(p, t)
        PROVE  \A e \in (entries \cup awards) \ (entries \cup awards)' : e.team \notin teams'
    BY <2>2, DeleteTeamTakesItsOwn DEF Remaining, RemainingAwards, DeleteTeam
  <2>3. QED  BY <1>1, <2>1, <2>2 DEF RecordInv, WorkInv, AuthorsStay
<1>2. RecordInv /\ RecordInv' /\ [RecordNext]_recordVars => [Outlive]_vars
  BY <1>1
<1>3. QED  BY <1>2, RecordsInvariant, PTL DEF RecordSpec, RecordsOutliveTheirAuthors

-------------------------------------------------------------------------------
(* Pairs                                                                    *)

\* An instructor reaches what lies in its pairs.
LEMMA PairHeld ==
    ASSUME NEW i \in Instructors, NEW o, NEW r, HasPair(i, o, r)
    PROVE  <<o, r>> \in pairs[i]
BY HomesAreTeams DEF HasPair

\* The rows of a team's work on a scenario.
RowsOf(t, r) == {e \in entries \cup awards : e.team = t /\ e.range = r}

LEMMA TouchedParts ==
    ASSUME NEW t, NEW r, Touched(t, r)
    PROVE  \/ progress'[<<t, r>>] # progress[<<t, r>>] \/ RowsOf(t, r)' # RowsOf(t, r)
           \/ (r \in WorkOf(t) /\ orgOf'[t] # orgOf[t])
BY DEF Touched, RowsOf

\* An instructor that changes a team's work, or where it is filed, holds its pair before and
\* after, and no other pair will do ("the cross product again", authz/scope).
Keeps(i) == \A t \in Teams, r \in Ranges : Touched(t, r) =>
    /\ <<orgOf[t], r>> \in pairs[i]
    /\ t \in teams' => <<orgOf'[t], r>> \in pairs[i]

LEMMA UntouchedKeeps ==
    ASSUME NEW i, UNCHANGED <<progress, entries, awards, orgOf>>  PROVE Keeps(i)
BY DEF Keeps, Touched

LEMMA CreateTeamKeeps ==
    ASSUME RecordInv, NEW i \in Instructors, NEW t \in Teams, NEW o \in Organizations \cup {Nobody},
           CreateTeam(i, t, o)
    PROVE  Keeps(i)
<1> SUFFICES ASSUME NEW s \in Teams, NEW r \in Ranges, Touched(s, r)  PROVE FALSE
  BY DEF Keeps
<1>1. UNCHANGED <<progress, entries, awards>> /\ orgOf' = [orgOf EXCEPT ![t] = o] /\ t \notin teams
  BY DEF CreateTeam, work
<1>2. WorkOf(t) = {}
  BY <1>1 DEF RecordInv, WorkInv, WorkIsOfTeams, WorkOf
<1>3. s # t => orgOf'[s] = orgOf[s]
  BY <1>1 DEF RecordInv, TypeOK
<1>4. QED  BY <1>1, <1>2, <1>3 DEF Touched

LEMMA SetTeamOrganizationKeeps ==
    ASSUME RecordInv, NEW i \in Instructors, NEW t \in Teams, NEW o \in Organizations \cup {Nobody},
           SetTeamOrganization(i, t, o)
    PROVE  Keeps(i)
<1> SUFFICES ASSUME NEW s \in Teams, NEW r \in Ranges, Touched(s, r)
             PROVE  <<orgOf[s], r>> \in pairs[i] /\ <<orgOf'[s], r>> \in pairs[i]
  BY DEF Keeps
<1>1. UNCHANGED <<progress, entries, awards>> /\ orgOf' = [orgOf EXCEPT ![t] = o]
  BY DEF SetTeamOrganization, work
<1>2. r \in WorkOf(s) /\ orgOf'[s] # orgOf[s]
  BY <1>1 DEF Touched
<1>3. s = t /\ orgOf'[t] = o
  BY <1>1, <1>2 DEF RecordInv, TypeOK
<1>4. HasPair(i, orgOf[t], r) /\ HasPair(i, o, r)
  BY <1>2, <1>3, HomesAreTeams DEF SetTeamOrganization, TeamWorkCoveredBy
<1>5. QED  BY <1>3, <1>4, PairHeld

LEMMA DeleteTeamKeeps ==
    ASSUME RecordInv, NEW i \in Instructors, NEW t \in Teams, DeleteTeam(i, t)
    PROVE  Keeps(i)
<1> SUFFICES ASSUME NEW s \in Teams, NEW r \in Ranges, Touched(s, r)
             PROVE  <<orgOf[s], r>> \in pairs[i] /\ s \notin teams'
  BY DEF Keeps
<1>1. /\ entries' = Remaining(t) /\ awards' = RemainingAwards(t) /\ teams' = teams \ {t}
      /\ \A x \in Teams \X Ranges : progress'[x] = IF x[1] = t THEN NotStarted ELSE progress[x]
      /\ orgOf' = [orgOf EXCEPT ![t] = Nobody]
  BY DeleteTeamTakesItsOwn DEF DeleteTeam
<1>2. s = t
  <2> SUFFICES ASSUME s # t  PROVE ~Touched(s, r)
    OBVIOUS
  <2>1. progress'[<<s, r>>] = progress[<<s, r>>] /\ orgOf'[s] = orgOf[s]
    BY <1>1 DEF RecordInv, TypeOK
  <2>2. RowsOf(s, r)' = RowsOf(s, r)
    BY <1>1 DEF RowsOf, Remaining, RemainingAwards
  <2>3. QED  BY <2>1, <2>2 DEF Touched, RowsOf
<1>3. r \in WorkOf(t)
  <2>1. progress'[<<t, r>>] = NotStarted /\ RowsOf(t, r)' = {}
    BY <1>1 DEF RowsOf, Remaining, RemainingAwards
  <2>2. progress[<<t, r>>] # NotStarted \/ RowsOf(t, r) # {} \/ r \in WorkOf(t)
    BY <1>2, <2>1, TouchedParts
  <2>3. QED  BY <2>2 DEF WorkOf, RowsOf
<1>4. HasPair(i, orgOf[t], r)
  BY <1>3 DEF DeleteTeam, TeamWorkCoveredBy
<1>5. QED  BY <1>1, <1>2, <1>4, PairHeld

LEMMA StartKeeps ==
    ASSUME RecordInv, NEW i \in Instructors, NEW t \in Teams, NEW q \in Ranges, Start(i, t, q)
    PROVE  Keeps(i)
<1> SUFFICES ASSUME NEW s \in Teams, NEW r \in Ranges, Touched(s, r)  PROVE <<orgOf[s], r>> \in pairs[i]
  BY DEF Keeps, Start, organizational
<1>1. UNCHANGED <<entries, awards, orgOf>>
  BY DEF Start, organizational
<1>2. progress'[<<s, r>>] # progress[<<s, r>>]
  BY <1>1 DEF Touched
<1>3. s = t /\ (r = q \/ progress[<<t, r>>] = "active")
  BY <1>2 DEF Start
<1>4. PairInScope(i, t, r)
  BY <1>3 DEF Start, MaySwitch
<1>5. QED  BY <1>3, <1>4, PairHeld DEF PairInScope

LEMMA CompleteKeeps ==
    ASSUME RecordInv, NEW i \in Instructors, NEW t \in Teams, NEW q \in Ranges, Complete(i, t, q)
    PROVE  Keeps(i)
<1> SUFFICES ASSUME NEW s \in Teams, NEW r \in Ranges, Touched(s, r)  PROVE <<orgOf[s], r>> \in pairs[i]
  BY DEF Keeps, Complete, organizational
<1>1. UNCHANGED <<entries, awards, orgOf>> /\ progress' = [progress EXCEPT ![<<t, q>>] = "completed"]
  BY DEF Complete, organizational
<1>2. progress'[<<s, r>>] # progress[<<s, r>>]
  BY <1>1 DEF Touched
<1>3. s = t /\ r = q
  BY <1>1, <1>2 DEF RecordInv, TypeOK
<1>4. QED  BY <1>3, PairHeld DEF Complete, PairInScope

LEMMA AwardKeeps ==
    ASSUME RecordInv, NEW i \in Instructors, NEW t \in Teams, NEW q \in Ranges \cup {Nobody},
           NEW u \in Students \cup {Nobody}, Award(i, t, q, u)
    PROVE  Keeps(i)
<1> SUFFICES ASSUME NEW s \in Teams, NEW r \in Ranges, Touched(s, r)  PROVE <<orgOf[s], r>> \in pairs[i]
  BY DEF Keeps, Award, organizational
<1>1. /\ UNCHANGED <<progress, entries, orgOf>>
      /\ awards' = awards \cup {[id |-> filed + 1, team |-> t, range |-> q, to |-> u]}
  BY DEF Award, organizational
<1>2. RowsOf(s, r)' # RowsOf(s, r)
  BY <1>1, TouchedParts
<1>3. s = t /\ r = q
  BY <1>1, <1>2 DEF RowsOf
<1>4. QED  BY <1>3, PairHeld, NobodyIsNone DEF Award, MayAward, PairInScope

\* Every step an instructor takes keeps to its pairs.
THEOREM PairsAreKept == RecordSpec => InstructorsKeepToTheirPairs
<1> DEFINE Kept == \A i \in Instructors, t \in Teams, r \in Ranges : lately' = i /\ Touched(t, r) =>
        /\ <<orgOf[t], r>> \in pairs[i]
        /\ t \in teams' => <<orgOf'[t], r>> \in pairs[i]
<1>1. ASSUME RecordInv, [RecordNext]_recordVars, NEW i \in Instructors, lately' = i, ~UNCHANGED vars
      PROVE  Keeps(i)
  <2>1. \A p : Turn(p) => p = i
    BY <1>1 DEF Turn
  <2>2. i # Admin /\ i # Nobody /\ i \in Staff
    BY HomesAreTeams, NobodyIsNone DEF Staff
  <2>3. ASSUME NEW p \in Staff, NEW t \in Teams, OfTeams(p)  PROVE Keeps(i)
    BY <2>1, <2>2, <2>3, <1>1, CreateTeamKeeps, SetTeamOrganizationKeeps, DeleteTeamKeeps, StartKeeps,
       CompleteKeeps, AwardKeeps
    DEF OfTeams, CreateTeam, SetTeamOrganization, DeleteTeam, Start, Complete, Award
  <2>4. ASSUME NEW p \in Staff, OfStudents(p)  PROVE Keeps(i)
    BY <2>4, UntouchedKeeps DEF OfStudents, DeleteStudent, MoveStudent, organizational, work
  <2>5. ASSUME NEW o \in Organizations, CreateOrganization(o) \/ DeleteOrganization(o)  PROVE FALSE
    BY <2>1, <2>2, <2>5 DEF CreateOrganization, DeleteOrganization
  <2>6. ASSUME NEW j \in Instructors, NEW new \in SUBSET (Organizations \X Ranges), Assign(j, new)  PROVE FALSE
    BY <2>1, <2>2, <2>6 DEF Assign
  <2>7. ASSUME NEW j \in Instructors, NEW r \in Ranges, Connect(j, r)  PROVE Keeps(i)
    BY <2>7, UntouchedKeeps DEF Connect, organizational, work
  <2>8. ASSUME NEW u \in Students, File(u)  PROVE FALSE
    BY <1>1, <2>2, <2>8 DEF File
  <2>9. ASSUME NEW s \in remote, EndSession(s)  PROVE FALSE
    BY <1>1, <2>2, <2>9 DEF EndSession
  <2>10. ASSUME UNCHANGED <<organizational, work>>  PROVE Keeps(i)
    BY <2>10, UntouchedKeeps DEF organizational, work
  <2>11. CASE Next
    BY <2>3, <2>4, <2>5, <2>6, <2>7, <2>8, <2>9, <2>11 DEF Next, OfTeams
  <2>12. QED  BY <1>1, <2>10, <2>11, RecordSteps
<1>2. RecordInv /\ [RecordNext]_recordVars => [Kept]_vars
  BY <1>1 DEF Keeps
<1>3. QED  BY <1>2, RecordsInvariant, PTL DEF RecordSpec, InstructorsKeepToTheirPairs

-------------------------------------------------------------------------------
(* Views                                                                    *)

LEMMA FiniteAwardsStep == IsFiniteSet(awards) /\ TypeOK /\ [RecordNext]_recordVars => IsFiniteSet(awards)'
<1> SUFFICES ASSUME IsFiniteSet(awards), TypeOK, [RecordNext]_recordVars  PROVE IsFiniteSet(awards')
  OBVIOUS
<1>1. ASSUME awards' \subseteq awards  PROVE IsFiniteSet(awards')
  BY <1>1, FS_Subset
<1>2. ASSUME NEW a, awards' = awards \cup {a}  PROVE IsFiniteSet(awards')
  BY <1>2, FS_AddElement
<1>3. CASE UNCHANGED awards
  BY <1>3
<1>4. ASSUME NEW p \in Staff, OfTeams(p)  PROVE awards' \subseteq awards \/ \E a : awards' = awards \cup {a}
  <2>1. ASSUME NEW t \in Teams, DeleteTeam(p, t)  PROVE awards' \subseteq awards
    BY <2>1, DeleteTeamTakesItsOwn DEF RemainingAwards
  <2>2. ASSUME NEW t \in Teams, NEW r \in Ranges \cup {Nobody}, NEW u \in Students \cup {Nobody}, Award(p, t, r, u)
        PROVE  \E a : awards' = awards \cup {a}
    BY <2>2 DEF Award
  <2>3. QED  BY <1>4, <2>1, <2>2 DEF OfTeams, CreateTeam, SetTeamOrganization, Start, Complete, work
<1>5. ASSUME NEW p \in Staff, OfStudents(p)  PROVE UNCHANGED awards
  BY <1>5 DEF OfStudents, DeleteStudent, MoveStudent, work
<1>6. UNCHANGED vars \/ UNCHANGED work \/ Elsewhere => UNCHANGED awards
  BY DEF vars, Elsewhere, work
<1>7. ASSUME NEW u \in Students, File(u)  PROVE UNCHANGED awards
  BY <1>7 DEF File
<1>8. CASE Next
  BY <1>1, <1>2, <1>3, <1>4, <1>5, <1>6, <1>7, <1>8, ElsewhereSteps DEF Next
<1>9. QED  BY <1>3, <1>6, <1>8, RecordSteps

\* The views of one reader on one team.
LEMMA ScenariosAreShown ==
    ASSUME RecordInv, NEW p \in Staff, NEW t \in teams
    PROVE  OnDashboard(p, t) \cup InHistory(p, t) = {r \in WorkOf(t) \cap Started(t) : Covered(p, t, r)}
<1>1. \A r \in Ranges : progress[<<t, r>>] \in {NotStarted, "active", "paused", "completed"}
  BY DEF RecordInv, TypeOK
<1>2. \A r : r \in WorkOf(t) \cap Started(t) <=> r \in Ranges /\ progress[<<t, r>>] # NotStarted
  BY DEF WorkOf, Started
<1>3. QED  BY <1>1, <1>2 DEF OnDashboard, Live, InHistory, PairInScope, Covered, NotStarted

LEMMA EntriesAreExported ==
    ASSUME RecordInv, NEW p \in Staff, NEW t \in teams
    PROVE  /\ ExportedEntries(p, t) = {e \in entries : e.team = t /\ Covered(p, t, e.range)}
           /\ \A r \in ExportedScenarios(p, t) : ScenarioHistory(t, r).entries \subseteq ExportedEntries(p, t)
<1>1. \A e \in entries : e.range \in Ranges /\ progress[<<e.team, e.range>>] # NotStarted /\ students[e.author] # Nobody
  BY DEF RecordInv, TypeOK, WorkInv, EntriesAreOnStarted, AuthorsStay
<1>2. ExportedEntries(p, t) = {e \in entries : e.team = t /\ Covered(p, t, e.range)}
  BY <1>1 DEF ExportedEntries, Told, ExportedScenarios, Started
<1>3. ASSUME NEW r \in ExportedScenarios(p, t), NEW e \in ScenarioHistory(t, r).entries
      PROVE  e \in ExportedEntries(p, t)
  <2>1. e \in entries /\ e.team = t /\ e.range = r
    BY <1>3 DEF ScenarioHistory, Told
  <2>2. Covered(p, t, r)
    BY <1>3 DEF ExportedScenarios
  <2>3. QED  BY <1>2, <2>1, <2>2
<1>4. QED  BY <1>2, <1>3

\* A reader of all the team's pairs sees all its awards.
LEMMA AwardsAreCovered ==
    ASSUME RecordInv, NEW p \in Staff, NEW t \in teams, AllCovered(p, t)
    PROVE  \A a \in awards : a.team = t => a.range = Nobody \/ Covered(p, t, a.range)
<1> SUFFICES ASSUME NEW a \in awards, a.team = t, a.range # Nobody  PROVE a.range \in WorkOf(t)
  BY DEF AllCovered
<1>1. a.range \in Ranges
  BY DEF RecordInv, TypeOK
<1>2. QED  BY <1>1 DEF WorkOf

LEMMA TotalsAgree ==
    ASSUME RecordInv, IsFiniteSet(awards), NEW p \in Staff, NEW t \in teams, AllCovered(p, t)
    PROVE  /\ DashboardTotal(p, t) = TeamTotal(t)
           /\ AllStarted(t) => /\ SummaryTotal(p, t) + Cardinality(Scored(t, Nobody)) = TeamTotal(t)
                               /\ ExportedTotal(Admin, t) = TeamTotal(t)
<1> DEFINE all == {a \in awards : a.team = t}
           summed == {a \in awards : a.team = t /\ a.range \in Started(t) /\ Covered(p, t, a.range)}
           exported == {a \in awards : a.team = t /\ a.range \in ExportedScenarios(Admin, t)} \cup OtherScores(Admin, t)
<1>1. DashboardTotal(p, t) = TeamTotal(t)
  <2>1. {a \in awards : a.team = t /\ (a.range = Nobody \/ Covered(p, t, a.range))} = all
    BY AwardsAreCovered
  <2>2. QED  BY <2>1 DEF DashboardTotal, TeamTotal
<1>2. ASSUME AllStarted(t)
      PROVE  SummaryTotal(p, t) + Cardinality(Scored(t, Nobody)) = TeamTotal(t)
  <2>1. all = summed \cup Scored(t, Nobody)
    BY <1>2, AwardsAreCovered, NobodyIsNone DEF AllStarted, Scored, Started
  <2>2. summed \cap Scored(t, Nobody) = {}
    BY NobodyIsNone DEF Scored, Started
  <2>3. IsFiniteSet(summed) /\ IsFiniteSet(Scored(t, Nobody))
    BY FS_Subset DEF Scored
  <2>4. Cardinality(all) = Cardinality(summed) + Cardinality(Scored(t, Nobody)) - Cardinality({})
    BY <2>1, <2>2, <2>3, FS_Union
  <2>5. Cardinality(summed) \in Nat /\ Cardinality(Scored(t, Nobody)) \in Nat
    BY <2>3, FS_CardinalityType
  <2>6. Cardinality({}) = 0
    BY FS_EmptySet
  <2>7. Cardinality(all) = Cardinality(summed) + Cardinality(Scored(t, Nobody))
    BY <2>4, <2>5, <2>6
  <2>8. QED  BY <2>7 DEF SummaryTotal, TeamTotal
<1>3. ASSUME AllStarted(t)  PROVE ExportedTotal(Admin, t) = TeamTotal(t)
  <2>1. exported = all
    BY <1>3 DEF AllStarted, OtherScores, Scored, ExportedScenarios, Covered, HasPair
  <2>2. QED  BY <2>1 DEF ExportedTotal, TeamTotal
<1>4. QED  BY <1>1, <1>2, <1>3

\* A team's work does not disappear from view: the dashboard, the history, the export, the
\* summary and the leaderboard tell of the same work to a reader in whose scope the team is.
THEOREM WorkIsVisible == RecordSpec => []WorkStaysVisible
<1>1. RecordInv /\ IsFiniteSet(awards) => WorkStaysVisible
  BY ScenariosAreShown, EntriesAreExported, TotalsAgree DEF WorkStaysVisible, StaffBoard
<1>2. RecordInit => IsFiniteSet(awards)
  BY FS_EmptySet DEF RecordInit, Init
<1>3. RecordInv => TypeOK
  BY DEF RecordInv
<1>4. QED  BY <1>1, <1>2, <1>3, FiniteAwardsStep, RecordsInvariant, PTL DEF RecordSpec

-------------------------------------------------------------------------------
(* The canvas: rows, boards, and the events between them                   *)

NodeEvents == [type : {"node_created", "node_updated", "node_deleted"}, row : Node]
EdgeEvents == [type : {"edge_created", "edge_deleted"}, row : Edge]
Queues == Seq(NodeEvents \cup EdgeEvents)
Boards == [nodes : SUBSET Node, edges : SUBSET Edge, loaded : BOOLEAN]

\* The events of a queue q after its first h: none of them says one of these things of row i.
None(q, h, says, i) == \A p \in 1..Len(q) : p > h => ~(q[p].type \in says /\ q[p].row.id = i)

Born == {"node_created"}
Redone == {"node_updated"}
Died == {"node_deleted"}
Drawn == {"edge_created"}
Erased == {"edge_deleted"}

Has(rows, i) == \E m \in rows : m.id = i
HasHere(rows, r, i) == \E m \in rows : m.id = i /\ m.range = r
OneRowAnId(rows) == \A m, n \in rows : m.id = n.id => m = n

\* What a queue says of the rows ns of the nodes and es of the edges is what is there once it is all heard.
NodesTold(q, ns) == \A p \in 1..Len(q) :
    LET i == q[p].row.id IN
    /\ q[p].type \in Died /\ None(q, p, Born, i) => ~Has(ns, i)
    /\ q[p].type \in Born \cup Redone /\ None(q, p, Died, i) =>
         /\ None(q, p, Born, i)
         /\ HasHere(ns, q[p].row.range, i)
         /\ None(q, p, Redone, i) => q[p].row \in ns
EdgesTold(q, es) == \A p \in 1..Len(q) :
    LET i == q[p].row.id IN
    /\ q[p].type \in Erased /\ None(q, p, Drawn, i) => ~Has(es, i)
    /\ q[p].type \in Drawn /\ None(q, p, Erased, i) => q[p].row \in es
    /\ q[p].type \in Died => \A e \in es : e.from = i \/ e.to = i => ~None(q, p, Drawn, e.id)

\* A board b of scenario r fits rows and queue: hearing the events after the first h leaves exactly the rows of r.
OfRange(b, r) ==
    /\ \A m \in b.nodes : m.range = r
    /\ \A e \in b.edges : e.range = r
    /\ OneRowAnId(b.nodes) /\ OneRowAnId(b.edges)
NodeThere(b, q, h, r, ns, i) ==
    None(q, h, Died, i) /\ None(q, h, Born, i) => (Has(b.nodes, i) <=> HasHere(ns, r, i))
NodeKnown(q, h, r, ns, m) == None(q, h, Died, m.id) => HasHere(ns, r, m.id)
NodeRight(q, h, ns, m) == None(q, h, Died, m.id) /\ None(q, h, Redone, m.id) => m \in ns
EdgeThere(b, q, h, r, es, k) ==
    None(q, h, Erased, k) /\ None(q, h, Drawn, k) => (Has(b.edges, k) <=> HasHere(es, r, k))
EdgeRight(q, h, es, e) == None(q, h, Erased, e.id) => e \in es
\* the edge k left the board with its node, ahead of the server
EdgeAhead(b, es, k, dying) == ~Has(b.edges, k) /\ \E e \in es : e.id = k /\ (e.from \in dying \/ e.to \in dying)

\* ... but for the nodes dying and changing and the edges going, of which it is ahead.
FitsBut(b, q, h, r, ns, es, dying, changing, going) ==
    /\ OfRange(b, r)
    /\ \A i \in 1..MaxNode : i \notin dying => NodeThere(b, q, h, r, ns, i)
    /\ \A m \in b.nodes : NodeKnown(q, h, r, ns, m)
    /\ \A m \in b.nodes : m.id \notin changing => NodeRight(q, h, ns, m)
    /\ \A k \in 1..MaxEdge : k \notin going => EdgeThere(b, q, h, r, es, k) \/ EdgeAhead(b, es, k, dying)
    /\ \A e \in b.edges : EdgeRight(q, h, es, e)

-------------------------------------------------------------------------------
(* Queues                                                                   *)

LEMMA NoneOfTail ==
    ASSUME NEW q \in Queues, q # <<>>, NEW h \in Nat, NEW says, NEW i
    PROVE  None(Tail(q), h, says, i) <=> None(q, h + 1, says, i)
<1> DEFINE t == Tail(q)
<1>1. Len(t) = Len(q) - 1 /\ Len(q) \in Nat /\ Len(q) > 0 /\ \A p \in 1..Len(t) : t[p] = q[p + 1]
  BY DEF Queues
<1> HIDE DEF t
<1>2. ASSUME None(t, h, says, i), NEW p \in 1..Len(q), p > h + 1
      PROVE  ~(q[p].type \in says /\ q[p].row.id = i)
  <2>1. p - 1 \in 1..Len(t) /\ p - 1 > h /\ (p - 1) + 1 = p
    BY <1>1, <1>2
  <2>2. ~(t[p - 1].type \in says /\ t[p - 1].row.id = i)
    BY <1>2, <2>1 DEF None
  <2>3. t[p - 1] = q[p]
    BY <1>1, <2>1
  <2>4. QED  BY <2>2, <2>3
<1>3. ASSUME None(q, h + 1, says, i), NEW p \in 1..Len(t), p > h
      PROVE  ~(t[p].type \in says /\ t[p].row.id = i)
  <2>1. p + 1 \in 1..Len(q) /\ p + 1 > h + 1
    BY <1>1, <1>3
  <2>2. QED  BY <1>1, <1>3, <2>1 DEF None
<1>4. QED  BY <1>2, <1>3 DEF None, t

LEMMA NoneOfConcat ==
    ASSUME NEW q \in Queues, NEW s \in Queues, NEW h \in 0..Len(q), NEW says, NEW i
    PROVE  None(q \o s, h, says, i) <=> None(q, h, says, i) /\ None(s, 0, says, i)
<1> DEFINE t == q \o s
<1>1. /\ Len(q) \in Nat /\ Len(s) \in Nat /\ Len(t) = Len(q) + Len(s)
      /\ \A p \in 1..Len(q) : t[p] = q[p]
      /\ \A p \in 1..Len(s) : t[Len(q) + p] = s[p]
  BY DEF Queues
<1> HIDE DEF t
<1>2. ASSUME None(t, h, says, i) PROVE None(q, h, says, i) /\ None(s, 0, says, i)
  <2>1. None(q, h, says, i)
    BY <1>1, <1>2 DEF None
  <2>2. ASSUME NEW p \in 1..Len(s) PROVE ~(s[p].type \in says /\ s[p].row.id = i)
    <3>1. Len(q) + p \in 1..Len(t) /\ Len(q) + p > h
      BY <1>1
    <3>2. QED  BY <1>1, <1>2, <3>1 DEF None
  <2>3. QED  BY <2>1, <2>2 DEF None
<1>3. ASSUME None(q, h, says, i), None(s, 0, says, i), NEW p \in 1..Len(t), p > h
      PROVE  ~(t[p].type \in says /\ t[p].row.id = i)
  <2>1. CASE p <= Len(q)
    BY <1>1, <1>3, <2>1 DEF None
  <2>2. CASE p > Len(q)
    <3>1. p - Len(q) \in 1..Len(s) /\ p - Len(q) > 0 /\ Len(q) + (p - Len(q)) = p
      BY <1>1, <2>2
    <3>2. t[p] = s[p - Len(q)]
      BY <1>1, <3>1
    <3>3. QED  BY <1>3, <3>1, <3>2 DEF None
  <2>3. QED  BY <1>1, <2>1, <2>2
<1>4. QED  BY <1>2, <1>3 DEF None, t

\* the same, for positions in the appended part
LEMMA NoneBeyond ==
    ASSUME NEW q \in Queues, NEW s \in Queues, NEW h \in 1..Len(s), NEW says, NEW i
    PROVE  None(q \o s, Len(q) + h, says, i) <=> None(s, h, says, i)
<1> DEFINE t == q \o s
<1>1. /\ Len(q) \in Nat /\ Len(s) \in Nat /\ Len(t) = Len(q) + Len(s)
      /\ \A p \in 1..Len(s) : t[Len(q) + p] = s[p]
  BY DEF Queues
<1> HIDE DEF t
<1>2. ASSUME None(t, Len(q) + h, says, i), NEW p \in 1..Len(s), p > h
      PROVE  ~(s[p].type \in says /\ s[p].row.id = i)
  <2>1. Len(q) + p \in 1..Len(t) /\ Len(q) + p > Len(q) + h
    BY <1>1, <1>2
  <2>2. QED  BY <1>1, <1>2, <2>1 DEF None
<1>3. ASSUME None(s, h, says, i), NEW p \in 1..Len(t), p > Len(q) + h
      PROVE  ~(t[p].type \in says /\ t[p].row.id = i)
  <2>1. p - Len(q) \in 1..Len(s) /\ p - Len(q) > h /\ Len(q) + (p - Len(q)) = p
    BY <1>1, <1>3
  <2>2. t[p] = s[p - Len(q)]
    BY <1>1, <2>1
  <2>3. QED  BY <1>3, <2>1, <2>2 DEF None
<1>4. QED  BY <1>2, <1>3 DEF None, t

-------------------------------------------------------------------------------
(* What a queue tells, as the server adds to it and a browser takes from it *)

NodeSays == Born \cup Redone \cup Died
EdgeSays == Drawn \cup Erased

\* at most one event of s is about row i, and says what becomes of it
Only(s, p, says, i) ==
    /\ s[p].type \in says /\ s[p].row.id = i
    /\ \A o \in 1..Len(s) : s[o].type \in says /\ s[o].row.id = i => o = p
Same(rows, next, i) == \A m : m.id = i => (m \in rows <=> m \in next)
TellsNode(s, ns, next, i) ==
    \/ None(s, 0, NodeSays, i) /\ Same(ns, next, i)
    \/ \E p \in 1..Len(s) :
         /\ Only(s, p, NodeSays, i)
         /\ s[p].type \in Born => ~Has(ns, i) /\ s[p].row \in next
         /\ s[p].type \in Redone => HasHere(ns, s[p].row.range, i) /\ s[p].row \in next
         /\ s[p].type \in Died => ~Has(next, i)
TellsEdge(s, es, next, k) ==
    \/ None(s, 0, EdgeSays, k) /\ Same(es, next, k)
    \/ \E p \in 1..Len(s) :
         /\ Only(s, p, EdgeSays, k)
         /\ s[p].type \in Drawn => ~Has(es, k) /\ s[p].row \in next
         /\ s[p].type \in Erased => ~Has(next, k)
Tells(s, ns, es, nextNs, nextEs) ==
    /\ \A i \in 1..MaxNode : TellsNode(s, ns, nextNs, i)
    /\ \A k \in 1..MaxEdge : TellsEdge(s, es, nextEs, k)
    /\ \A p \in 1..Len(s) : s[p].type \in Died => \A e \in nextEs : s[p].row.id \notin {e.from, e.to}

LEMMA NodesToldOfTail ==
    ASSUME NEW q \in Queues, q # <<>>, NEW ns, NodesTold(q, ns)
    PROVE  NodesTold(Tail(q), ns)
<1> DEFINE t == Tail(q)
<1>1. Len(t) = Len(q) - 1 /\ Len(q) \in Nat /\ \A p \in 1..Len(t) : t[p] = q[p + 1]
  BY DEF Queues
<1>2. \A p \in 1..Len(t) : \A says, i : None(t, p, says, i) <=> None(q, p + 1, says, i)
  BY NoneOfTail
<1> HIDE DEF t
<1>3. SUFFICES ASSUME NEW p \in 1..Len(t)
      PROVE  LET i == t[p].row.id IN
             /\ t[p].type \in Died /\ None(t, p, Born, i) => ~Has(ns, i)
             /\ t[p].type \in Born \cup Redone /\ None(t, p, Died, i) =>
                  /\ None(t, p, Born, i)
                  /\ HasHere(ns, t[p].row.range, i)
                  /\ None(t, p, Redone, i) => t[p].row \in ns
  BY DEF NodesTold, t
<1>4. p + 1 \in 1..Len(q) /\ t[p] = q[p + 1]
  BY <1>1
<1>5. QED  BY <1>2, <1>4 DEF NodesTold

LEMMA EdgesToldOfTail ==
    ASSUME NEW q \in Queues, q # <<>>, NEW es, EdgesTold(q, es)
    PROVE  EdgesTold(Tail(q), es)
<1> DEFINE t == Tail(q)
<1>1. Len(t) = Len(q) - 1 /\ Len(q) \in Nat /\ \A p \in 1..Len(t) : t[p] = q[p + 1]
  BY DEF Queues
<1>2. \A p \in 1..Len(t) : \A says, i : None(t, p, says, i) <=> None(q, p + 1, says, i)
  BY NoneOfTail
<1> HIDE DEF t
<1>3. SUFFICES ASSUME NEW p \in 1..Len(t)
      PROVE  LET i == t[p].row.id IN
             /\ t[p].type \in Erased /\ None(t, p, Drawn, i) => ~Has(es, i)
             /\ t[p].type \in Drawn /\ None(t, p, Erased, i) => t[p].row \in es
             /\ t[p].type \in Died => \A e \in es : e.from = i \/ e.to = i => ~None(t, p, Drawn, e.id)
  BY DEF EdgesTold, t
<1>4. p + 1 \in 1..Len(q) /\ t[p] = q[p + 1]
  BY <1>1
<1>5. QED  BY <1>2, <1>4 DEF EdgesTold

LEMMA QueueTypes ==
    ASSUME NEW q \in Queues, NEW p \in 1..Len(q)
    PROVE  \/ q[p].type \in NodeSays /\ q[p].row \in Node /\ q[p].row.id \in 1..MaxNode
           \/ q[p].type \in EdgeSays /\ q[p].row \in Edge /\ q[p].row.id \in 1..MaxEdge
<1>1. q[p] \in NodeEvents \cup EdgeEvents
  BY DEF Queues
<1>2. QED  BY <1>1 DEF NodeEvents, EdgeEvents, Node, Edge, NodeSays, EdgeSays, Born, Redone, Died, Drawn, Erased

LEMMA NodesToldOfConcat ==
    ASSUME NEW q \in Queues, NEW s \in Queues, NEW ns, NEW next, OneRowAnId(ns),
           NodesTold(q, ns), \A i \in 1..MaxNode : TellsNode(s, ns, next, i)
    PROVE  NodesTold(q \o s, next)
<1> DEFINE t == q \o s
<1>1. /\ Len(q) \in Nat /\ Len(s) \in Nat /\ Len(t) = Len(q) + Len(s)
      /\ \A p \in 1..Len(q) : t[p] = q[p]
      /\ \A p \in 1..Len(s) : t[Len(q) + p] = s[p]
  BY DEF Queues
<1>2. \A p \in 1..Len(q) : \A says, i : None(t, p, says, i) <=> None(q, p, says, i) /\ None(s, 0, says, i)
  BY <1>1, NoneOfConcat
<1>3. \A p \in 1..Len(s) : \A says, i : None(t, Len(q) + p, says, i) <=> None(s, p, says, i)
  BY NoneBeyond
<1> HIDE DEF t
<1>4. SUFFICES ASSUME NEW p \in 1..Len(t)
      PROVE  LET i == t[p].row.id IN
             /\ t[p].type \in Died /\ None(t, p, Born, i) => ~Has(next, i)
             /\ t[p].type \in Born \cup Redone /\ None(t, p, Died, i) =>
                  /\ None(t, p, Born, i)
                  /\ HasHere(next, t[p].row.range, i)
                  /\ None(t, p, Redone, i) => t[p].row \in next
  BY DEF NodesTold, t
<1>5. CASE p \in 1..Len(q)
  <2> DEFINE i == q[p].row.id
  <2>1. t[p] = q[p] /\ \A says : None(t, p, says, i) <=> None(q, p, says, i) /\ None(s, 0, says, i)
    BY <1>1, <1>2, <1>5
  <2>2. CASE q[p].type \in NodeSays
    <3>1. i \in 1..MaxNode
      BY <1>5, <2>2, QueueTypes DEF NodeSays, EdgeSays, Born, Redone, Died, Drawn, Erased
    <3>2. /\ q[p].type \in Died /\ None(q, p, Born, i) => ~Has(ns, i)
          /\ q[p].type \in Born \cup Redone /\ None(q, p, Died, i) =>
               /\ None(q, p, Born, i)
               /\ HasHere(ns, q[p].row.range, i)
               /\ None(q, p, Redone, i) => q[p].row \in ns
      BY <1>5 DEF NodesTold
    <3> HIDE DEF i
    <3>3. TellsNode(s, ns, next, i)
      BY <3>1
    <3>4. CASE None(s, 0, NodeSays, i) /\ Same(ns, next, i)
      <4>1. None(s, 0, Born, i) /\ None(s, 0, Redone, i) /\ None(s, 0, Died, i)
        BY <3>4 DEF None, NodeSays
      <4>2. (Has(ns, i) <=> Has(next, i)) /\ (HasHere(ns, q[p].row.range, i) <=> HasHere(next, q[p].row.range, i))
        BY <3>4 DEF Same, Has, HasHere
      <4>3. q[p].row.id = i
        BY DEF i
      <4>4. QED  BY <2>1, <3>2, <3>4, <4>1, <4>2, <4>3 DEF Same, i
    <3>5. ASSUME NEW o \in 1..Len(s), Only(s, o, NodeSays, i),
                 s[o].type \in Born => ~Has(ns, i) /\ s[o].row \in next,
                 s[o].type \in Redone => HasHere(ns, s[o].row.range, i) /\ s[o].row \in next,
                 s[o].type \in Died => ~Has(next, i)
          PROVE  /\ q[p].type \in Died /\ None(t, p, Born, i) => ~Has(next, i)
                 /\ q[p].type \in Born \cup Redone /\ None(t, p, Died, i) =>
                      /\ None(t, p, Born, i)
                      /\ HasHere(next, q[p].row.range, i)
                      /\ None(t, p, Redone, i) => q[p].row \in next
      <4>1. \A says : s[o].type \in says => ~None(t, p, says, i)
        <5>1. \A says : s[o].type \in says => ~None(s, 0, says, i)
          BY <3>5 DEF None, Only
        <5>2. QED  BY <2>1, <5>1
      <4>2. \A says \in {Born, Redone, Died} : s[o].type \notin says => None(s, 0, says, i)
        BY <3>5 DEF None, Only, NodeSays
      <4>3. CASE s[o].type \in Born
        BY <2>1, <3>2, <3>5, <4>1, <4>3 DEF Has, HasHere
      <4>4. CASE s[o].type \in Redone
        <5>1. s[o].type \notin Born /\ s[o].type \notin Died /\ s[o].row.id = i
          BY <3>5, <4>4 DEF Only, Born, Redone, Died
        <5>2. Has(ns, i) /\ s[o].row \in next
          BY <3>5, <4>4 DEF Has, HasHere
        <5>3. ASSUME HasHere(ns, q[p].row.range, i) PROVE HasHere(next, q[p].row.range, i)
          <6>1. q[p].row.range = s[o].row.range
            BY <3>5, <4>4, <5>3 DEF HasHere, OneRowAnId
          <6>2. QED  BY <5>1, <5>2, <6>1 DEF HasHere
        <5>4. None(s, 0, Born, i) /\ ~None(t, p, Redone, i)
          BY <4>1, <4>2, <4>4, <5>1
        <5>5. QED  BY <2>1, <3>2, <5>2, <5>3, <5>4
      <4>5. CASE s[o].type \in Died
        BY <3>5, <4>1, <4>5
      <4>6. QED  BY <3>5, <4>3, <4>4, <4>5 DEF Only, NodeSays
    <3>6. QED  BY <2>1, <3>3, <3>4, <3>5 DEF TellsNode, i
  <2>3. QED  BY <2>1, <2>2 DEF NodeSays
<1>6. CASE p \notin 1..Len(q)
  <2> DEFINE o == p - Len(q)  i == s[o].row.id
  <2>1. o \in 1..Len(s) /\ t[p] = s[o] /\ \A says : None(t, p, says, i) <=> None(s, o, says, i)
    <3>1. o \in 1..Len(s) /\ Len(q) + o = p
      BY <1>1, <1>6
    <3>2. QED  BY <1>1, <1>3, <3>1
  <2> HIDE DEF o
  <2>2. CASE s[o].type \in NodeSays
    <3>1. i \in 1..MaxNode
      BY <2>1, <2>2, QueueTypes DEF NodeSays, EdgeSays, Born, Redone, Died, Drawn, Erased
    <3>2. TellsNode(s, ns, next, i)
      BY <3>1
    <3>3. ~None(s, 0, NodeSays, i)
      BY <2>1, <2>2 DEF None
    <3>4. PICK w \in 1..Len(s) :
            /\ Only(s, w, NodeSays, i)
            /\ s[w].type \in Born => ~Has(ns, i) /\ s[w].row \in next
            /\ s[w].type \in Redone => HasHere(ns, s[w].row.range, i) /\ s[w].row \in next
            /\ s[w].type \in Died => ~Has(next, i)
      BY <3>2, <3>3 DEF TellsNode
    <3>5. w = o
      BY <2>1, <2>2, <3>4 DEF Only
    <3>6. \A says \in {Born, Redone, Died} : None(s, o, says, i)
      BY <2>1, <3>4, <3>5 DEF Only, None, NodeSays
    <3>7. s[o].row \in next => HasHere(next, s[o].row.range, i)
      BY DEF HasHere
    <3>8. /\ s[o].type \in Died => ~Has(next, i)
          /\ s[o].type \in Born \cup Redone => s[o].row \in next /\ HasHere(next, s[o].row.range, i)
      BY <3>4, <3>5, <3>7
    <3>9. None(t, p, Born, i)
      BY <2>1, <3>6
    <3>10. t[p].row.id = i
      BY <2>1
    <3> HIDE DEF i
    <3>11. QED  BY <2>1, <3>8, <3>9, <3>10
  <2>3. QED  BY <2>1, <2>2 DEF NodeSays
<1>7. QED  BY <1>5, <1>6

LEMMA EdgesToldOfConcat ==
    ASSUME NEW q \in Queues, NEW s \in Queues, NEW es, NEW next \in SUBSET Edge,
           EdgesTold(q, es), \A k \in 1..MaxEdge : TellsEdge(s, es, next, k),
           \A p \in 1..Len(s) : s[p].type \in Died => \A e \in next : s[p].row.id \notin {e.from, e.to}
    PROVE  EdgesTold(q \o s, next)
<1> DEFINE t == q \o s
<1>1. /\ Len(q) \in Nat /\ Len(s) \in Nat /\ Len(t) = Len(q) + Len(s)
      /\ \A p \in 1..Len(q) : t[p] = q[p]
      /\ \A p \in 1..Len(s) : t[Len(q) + p] = s[p]
  BY DEF Queues
<1>2. \A p \in 1..Len(q) : \A says, i : None(t, p, says, i) <=> None(q, p, says, i) /\ None(s, 0, says, i)
  BY <1>1, NoneOfConcat
<1>3. \A p \in 1..Len(s) : \A says, i : None(t, Len(q) + p, says, i) <=> None(s, p, says, i)
  BY NoneBeyond
<1>4. ASSUME NEW k \in 1..MaxEdge
      PROVE  \/ /\ None(s, 0, Drawn, k) /\ None(s, 0, Erased, k)
                /\ Same(es, next, k) /\ (Has(es, k) <=> Has(next, k))
             \/ ~None(s, 0, Drawn, k) /\ ~Has(es, k)
             \/ ~None(s, 0, Erased, k) /\ ~Has(next, k)
  <2>1. CASE None(s, 0, EdgeSays, k) /\ Same(es, next, k)
    BY <2>1 DEF None, Same, Has, EdgeSays
  <2>2. ASSUME NEW o \in 1..Len(s), Only(s, o, EdgeSays, k),
               s[o].type \in Drawn => ~Has(es, k) /\ s[o].row \in next,
               s[o].type \in Erased => ~Has(next, k)
        PROVE  \/ ~None(s, 0, Drawn, k) /\ ~Has(es, k)
               \/ ~None(s, 0, Erased, k) /\ ~Has(next, k)
    BY <2>2 DEF None, Only, EdgeSays
  <2>3. QED  BY <2>1, <2>2 DEF TellsEdge
<1> HIDE DEF t
<1>5. SUFFICES ASSUME NEW p \in 1..Len(t)
      PROVE  LET i == t[p].row.id IN
             /\ t[p].type \in Erased /\ None(t, p, Drawn, i) => ~Has(next, i)
             /\ t[p].type \in Drawn /\ None(t, p, Erased, i) => t[p].row \in next
             /\ t[p].type \in Died => \A e \in next : e.from = i \/ e.to = i => ~None(t, p, Drawn, e.id)
  BY DEF EdgesTold, t
<1>6. CASE p \in 1..Len(q)
  <2> DEFINE i == q[p].row.id
  <2>1. t[p] = q[p] /\ \A says, k : None(t, p, says, k) <=> None(q, p, says, k) /\ None(s, 0, says, k)
    BY <1>1, <1>2, <1>6
  <2>2. /\ q[p].type \in Erased /\ None(q, p, Drawn, i) => ~Has(es, i)
        /\ q[p].type \in Drawn /\ None(q, p, Erased, i) => q[p].row \in es
        /\ q[p].type \in Died => \A e \in es : e.from = i \/ e.to = i => ~None(q, p, Drawn, e.id)
    BY <1>6 DEF EdgesTold
  <2>3. q[p].row.id = i /\ t[p].row.id = i
    BY <2>1
  <2>4. q[p].type \in EdgeSays => i \in 1..MaxEdge
    BY <1>6, QueueTypes DEF NodeSays, EdgeSays, Born, Redone, Died, Drawn, Erased
  <2> HIDE DEF i
  <2>5. ASSUME q[p].type \in Erased, None(t, p, Drawn, i) PROVE ~Has(next, i)
    BY <1>4, <2>1, <2>2, <2>4, <2>5 DEF EdgeSays
  <2>6. ASSUME q[p].type \in Drawn, None(t, p, Erased, i) PROVE q[p].row \in next
    <3>1. i \in 1..MaxEdge /\ q[p].row \in es /\ None(s, 0, Erased, i)
      BY <2>1, <2>2, <2>4, <2>6 DEF EdgeSays
    <3>2. Has(es, i)
      BY <2>3, <3>1 DEF Has
    <3>3. Same(es, next, i)
      BY <1>4, <3>1, <3>2
    <3>4. QED  BY <2>3, <3>1, <3>3 DEF Same
  <2>7. ASSUME q[p].type \in Died, NEW e \in next, e.from = i \/ e.to = i PROVE ~None(t, p, Drawn, e.id)
    <3>1. e.id \in 1..MaxEdge /\ Has(next, e.id)
      BY DEF Edge, Has
    <3>2. CASE Same(es, next, e.id)
      <4>1. e \in es
        BY <3>2 DEF Same
      <4>2. QED  BY <2>1, <2>2, <2>7, <4>1
    <3>3. CASE ~None(s, 0, Drawn, e.id)
      BY <2>1, <3>3
    <3>4. QED  BY <1>4, <3>1, <3>2, <3>3
  <2>8. QED  BY <2>1, <2>3, <2>5, <2>6, <2>7
<1>7. CASE p \notin 1..Len(q)
  <2> DEFINE o == p - Len(q)  i == s[o].row.id
  <2>1. o \in 1..Len(s) /\ t[p] = s[o] /\ \A says, k : None(t, p, says, k) <=> None(s, o, says, k)
    <3>1. o \in 1..Len(s) /\ Len(q) + o = p
      BY <1>1, <1>7
    <3>2. QED  BY <1>1, <1>3, <3>1
  <2> HIDE DEF o
  <2>2. CASE s[o].type \in EdgeSays
    <3>1. i \in 1..MaxEdge
      BY <2>1, <2>2, QueueTypes DEF NodeSays, EdgeSays, Born, Redone, Died, Drawn, Erased
    <3>2. TellsEdge(s, es, next, i)
      BY <3>1
    <3>3. ~None(s, 0, EdgeSays, i)
      BY <2>1, <2>2 DEF None
    <3>4. PICK w \in 1..Len(s) :
            /\ Only(s, w, EdgeSays, i)
            /\ s[w].type \in Drawn => ~Has(es, i) /\ s[w].row \in next
            /\ s[w].type \in Erased => ~Has(next, i)
      BY <3>2, <3>3 DEF TellsEdge
    <3>5. w = o
      BY <2>1, <2>2, <3>4 DEF Only
    <3>6. s[o].type \notin Died
      BY <2>2 DEF EdgeSays, Drawn, Erased, Died
    <3>7. QED  BY <2>1, <3>4, <3>5, <3>6
  <2>3. CASE s[o].type \in Died
    <3>1. s[o].type \notin EdgeSays
      BY <2>3 DEF EdgeSays, Drawn, Erased, Died
    <3>2. QED  BY <2>1, <2>3, <3>1 DEF EdgeSays
  <2>4. QED  BY <2>1, <2>2, <2>3 DEF EdgeSays
<1>8. QED  BY <1>6, <1>7

-------------------------------------------------------------------------------
(* A board and a queue, as the server adds to the queue                     *)

LEMMA FitsAsTold ==
    ASSUME NEW q \in Queues, NEW s \in Queues, NEW h \in 0..Len(q), NEW r, NEW b \in Boards,
           NEW ns, NEW es, NEW nextNs, NEW nextEs, NEW dying, NEW changing, NEW going,
           OneRowAnId(ns), OneRowAnId(nextNs), Tells(s, ns, es, nextNs, nextEs),
           FitsBut(b, q, h, r, ns, es, dying, changing, going)
    PROVE  FitsBut(b, q \o s, h, r, nextNs, nextEs, dying, changing, going)
<1> DEFINE t == q \o s
<1>1. \A says, i : None(t, h, says, i) <=> None(q, h, says, i) /\ None(s, 0, says, i)
  BY NoneOfConcat
<1> HIDE DEF t
<1>2. ASSUME NEW i \in 1..MaxNode
      PROVE  \/ /\ None(s, 0, Born, i) /\ None(s, 0, Redone, i) /\ None(s, 0, Died, i) /\ Same(ns, nextNs, i)
                /\ HasHere(ns, r, i) <=> HasHere(nextNs, r, i)
             \/ ~None(s, 0, Born, i) /\ ~Has(ns, i)
             \/ ~None(s, 0, Redone, i) /\ (HasHere(ns, r, i) <=> HasHere(nextNs, r, i)) /\ Has(ns, i)
             \/ ~None(s, 0, Died, i)
  <2>1. CASE None(s, 0, NodeSays, i) /\ Same(ns, nextNs, i)
    BY <2>1 DEF None, Same, HasHere, NodeSays
  <2>2. ASSUME NEW o \in 1..Len(s), Only(s, o, NodeSays, i),
               s[o].type \in Born => ~Has(ns, i) /\ s[o].row \in nextNs,
               s[o].type \in Redone => HasHere(ns, s[o].row.range, i) /\ s[o].row \in nextNs,
               s[o].type \in Died => ~Has(nextNs, i)
        PROVE  \/ ~None(s, 0, Born, i) /\ ~Has(ns, i)
               \/ ~None(s, 0, Redone, i) /\ (HasHere(ns, r, i) <=> HasHere(nextNs, r, i)) /\ Has(ns, i)
               \/ ~None(s, 0, Died, i)
    <3>1. \A says : s[o].type \in says => ~None(s, 0, says, i)
      BY <2>2 DEF None, Only
    <3>2. ASSUME s[o].type \in Redone PROVE (HasHere(ns, r, i) <=> HasHere(nextNs, r, i)) /\ Has(ns, i)
      <4>1. HasHere(ns, s[o].row.range, i) /\ s[o].row \in nextNs /\ s[o].row.id = i
        BY <2>2, <3>2 DEF Only
      <4>2. QED  BY <4>1 DEF HasHere, Has, OneRowAnId
    <3>3. QED  BY <2>2, <3>1, <3>2 DEF Only, NodeSays
  <2>3. QED  BY <2>1, <2>2 DEF TellsNode, Tells
<1>3. ASSUME NEW k \in 1..MaxEdge
      PROVE  \/ /\ None(s, 0, Drawn, k) /\ None(s, 0, Erased, k) /\ Same(es, nextEs, k)
                /\ HasHere(es, r, k) <=> HasHere(nextEs, r, k)
             \/ ~None(s, 0, Drawn, k) /\ ~Has(es, k)
             \/ ~None(s, 0, Erased, k)
  <2>1. CASE None(s, 0, EdgeSays, k) /\ Same(es, nextEs, k)
    BY <2>1 DEF None, Same, HasHere, EdgeSays
  <2>2. ASSUME NEW o \in 1..Len(s), Only(s, o, EdgeSays, k),
               s[o].type \in Drawn => ~Has(es, k) /\ s[o].row \in nextEs
        PROVE  (~None(s, 0, Drawn, k) /\ ~Has(es, k)) \/ ~None(s, 0, Erased, k)
    BY <2>2 DEF None, Only, EdgeSays
  <2>3. QED  BY <2>1, <2>2 DEF TellsEdge, Tells
<1>4. ASSUME NEW i \in 1..MaxNode, i \notin dying PROVE NodeThere(b, t, h, r, nextNs, i)
  <2>1. NodeThere(b, q, h, r, ns, i)
    BY <1>4 DEF FitsBut
  <2>2. QED  BY <1>1, <1>2, <2>1 DEF NodeThere
<1>5. ASSUME NEW m \in b.nodes PROVE m.id \in 1..MaxNode /\ NodeKnown(t, h, r, nextNs, m)
  <2>1. NodeKnown(q, h, r, ns, m) /\ m.id \in 1..MaxNode
    BY <1>5 DEF FitsBut, Boards, Node
  <2>2. HasHere(ns, r, m.id) => Has(ns, m.id)
    BY DEF HasHere, Has
  <2>3. QED  BY <1>1, <1>2, <2>1, <2>2 DEF NodeKnown
<1>6. ASSUME NEW m \in b.nodes, m.id \notin changing PROVE NodeRight(t, h, nextNs, m)
  <2>1. NodeRight(q, h, ns, m) /\ m.id \in 1..MaxNode
    BY <1>6, <1>5 DEF FitsBut
  <2>2. m \in ns => Has(ns, m.id)
    BY DEF Has
  <2>3. Same(ns, nextNs, m.id) => (m \in ns <=> m \in nextNs)
    BY DEF Same
  <2>4. QED  BY <1>1, <1>2, <2>1, <2>2, <2>3 DEF NodeRight
<1>7. ASSUME NEW k \in 1..MaxEdge, k \notin going
      PROVE  EdgeThere(b, t, h, r, nextEs, k) \/ EdgeAhead(b, nextEs, k, dying)
  <2>1. EdgeThere(b, q, h, r, es, k) \/ EdgeAhead(b, es, k, dying)
    BY <1>7 DEF FitsBut
  <2>2. CASE EdgeThere(b, q, h, r, es, k)
    BY <1>1, <1>3, <2>2 DEF EdgeThere
  <2>3. CASE EdgeAhead(b, es, k, dying)
    <3>1. CASE Same(es, nextEs, k)
      BY <2>3, <3>1 DEF EdgeAhead, Same
    <3>2. CASE ~None(s, 0, Drawn, k) \/ ~None(s, 0, Erased, k)
      BY <1>1, <3>2 DEF EdgeThere
    <3>3. QED  BY <1>3, <3>1, <3>2
  <2>4. QED  BY <2>1, <2>2, <2>3
<1>8. ASSUME NEW e \in b.edges PROVE EdgeRight(t, h, nextEs, e)
  <2>1. EdgeRight(q, h, es, e) /\ e.id \in 1..MaxEdge
    BY <1>8 DEF FitsBut, Boards, Edge
  <2>2. e \in es => Has(es, e.id)
    BY DEF Has
  <2>3. Same(es, nextEs, e.id) => (e \in es <=> e \in nextEs)
    BY DEF Same
  <2>4. QED  BY <1>1, <1>3, <2>1, <2>2, <2>3 DEF EdgeRight
<1>9. OfRange(b, r)
  BY DEF FitsBut
<1>10. QED  BY <1>4, <1>5, <1>6, <1>7, <1>8, <1>9 DEF FitsBut, t

\* what the board was ahead of, and is no more, has been told
LEMMA FitsOnceTold ==
    ASSUME NEW s \in Queues, NEW q \in Queues, NEW r, NEW b, NEW ns, NEW es, NEW dying, NEW changing, NEW going,
           NEW stillDying, NEW stillChanging, NEW stillGoing,
           FitsBut(b, q \o s, 0, r, ns, es, dying, changing, going),
           \A i \in dying \ stillDying :
              ~None(s, 0, Died, i) /\ \A e \in es : e.from # i /\ e.to # i,
           \A i \in changing \ stillChanging : ~None(s, 0, Redone, i),
           \A k \in going \ stillGoing : ~None(s, 0, Erased, k)
    PROVE  FitsBut(b, q \o s, 0, r, ns, es, stillDying, stillChanging, stillGoing)
<1> DEFINE t == q \o s
<1>1. \A says, i : None(t, 0, says, i) => None(s, 0, says, i)
  BY NoneOfConcat DEF Queues
<1> HIDE DEF t
<1>2. ASSUME NEW i \in 1..MaxNode, i \notin stillDying PROVE NodeThere(b, t, 0, r, ns, i)
  BY <1>1, <1>2 DEF FitsBut, NodeThere, t
<1>3. ASSUME NEW m \in b.nodes, m.id \notin stillChanging PROVE NodeRight(t, 0, ns, m)
  BY <1>1, <1>3 DEF FitsBut, NodeRight, t
<1>4. ASSUME NEW k \in 1..MaxEdge, k \notin stillGoing
      PROVE  EdgeThere(b, t, 0, r, es, k) \/ EdgeAhead(b, es, k, stillDying)
  <2>1. EdgeAhead(b, es, k, dying) => EdgeAhead(b, es, k, stillDying)
    BY DEF EdgeAhead
  <2>2. CASE k \in going
    BY <1>1, <1>4, <2>2 DEF EdgeThere
  <2>3. CASE k \notin going
    BY <2>1, <2>3 DEF FitsBut, t
  <2>4. QED  BY <2>2, <2>3
<1>5. QED  BY <1>2, <1>3, <1>4 DEF FitsBut, t

\* a board fits all the more if it may be ahead of more
LEMMA FitsMore ==
    ASSUME NEW q, NEW h, NEW r, NEW b, NEW ns, NEW es, NEW dying, NEW changing, NEW going,
           NEW moreDying, NEW moreChanging, NEW moreGoing,
           FitsBut(b, q, h, r, ns, es, dying, changing, going),
           dying \subseteq moreDying, changing \subseteq moreChanging, going \subseteq moreGoing
    PROVE  FitsBut(b, q, h, r, ns, es, moreDying, moreChanging, moreGoing)
<1>1. \A k : EdgeAhead(b, es, k, dying) => EdgeAhead(b, es, k, moreDying)
  BY DEF EdgeAhead
<1>2. QED  BY <1>1 DEF FitsBut

-------------------------------------------------------------------------------
(* A board and a queue, as the browser hears the first event                *)

\* an event passes a board that is not drawn yet
LEMMA FitsAsPassed ==
    ASSUME NEW q \in Queues, q # <<>>, NEW h \in Nat, NEW r, NEW b, NEW ns, NEW es,
           FitsBut(b, q, h + 1, r, ns, es, {}, {}, {})
    PROVE  FitsBut(b, Tail(q), h, r, ns, es, {}, {}, {})
<1>1. \A says, i : None(Tail(q), h, says, i) <=> None(q, h + 1, says, i)
  BY NoneOfTail
<1>2. QED  BY <1>1 DEF FitsBut, NodeThere, NodeKnown, NodeRight, EdgeThere, EdgeRight

\* what the first event says, and what it leaves to be said
LEMMA HeadOfQueue ==
    ASSUME NEW q \in Queues, q # <<>>
    PROVE  /\ Head(q) = q[1] /\ 1 \in 1..Len(q)
           /\ \A says, i : None(Tail(q), 0, says, i) <=> None(q, 1, says, i)
           /\ \A says, i : None(q, 0, says, i) <=> None(q, 1, says, i) /\ ~(q[1].type \in says /\ q[1].row.id = i)
<1>1. Head(q) = q[1] /\ 1 \in 1..Len(q) /\ Len(q) \in Nat
  BY DEF Queues
<1>2. \A says, i : None(Tail(q), 0, says, i) <=> None(q, 1, says, i)
  BY NoneOfTail
<1>3. ASSUME NEW says, NEW i
      PROVE  None(q, 0, says, i) <=> None(q, 1, says, i) /\ ~(q[1].type \in says /\ q[1].row.id = i)
  <2>1. \A p \in 1..Len(q) : p > 0 <=> p > 1 \/ p = 1
    BY <1>1
  <2>2. QED  BY <1>1, <2>1 DEF None
<1>4. QED  BY <1>1, <1>2, <1>3

LEMMA FitsAsNodesHeard ==
    ASSUME NEW q \in Queues, q # <<>>, NEW r, NEW b \in Boards, NEW ns, NEW es, NEW dying, NEW changing, NEW going,
           NodesTold(q, ns), EdgesTold(q, es), OneRowAnId(ns),
           FitsBut(b, q, 0, r, ns, es, dying, changing, going),
           Head(q).type \in NodeSays,
           Head(q).row.range # r => Handle(b, Head(q)) = b
    PROVE  FitsBut(Handle(b, Head(q)), Tail(q), 0, r, ns, es, dying, changing, going)
<1> DEFINE ev == Head(q)  t == Tail(q)  a == Handle(b, ev)  i == ev.row.id
<1> SUFFICES FitsBut(a, t, 0, r, ns, es, dying, changing, going)
  OBVIOUS
<1>1. /\ ev = q[1] /\ 1 \in 1..Len(q)
      /\ \A says, j : None(q, 0, says, j) <=> None(t, 0, says, j) /\ ~(ev.type \in says /\ i = j)
      /\ \A says, j : None(q, 1, says, j) <=> None(t, 0, says, j)
  BY HeadOfQueue
<1>2. ev.row \in Node /\ i \in 1..MaxNode
  BY <1>1, QueueTypes DEF NodeSays, EdgeSays, Born, Redone, Died, Drawn, Erased
<1>3. /\ ev.type \in Died /\ None(t, 0, Born, i) => ~Has(ns, i)
      /\ ev.type \in Born \cup Redone /\ None(t, 0, Died, i) =>
           /\ None(t, 0, Born, i)
           /\ HasHere(ns, ev.row.range, i)
           /\ None(t, 0, Redone, i) => ev.row \in ns
      /\ ev.type \in Died => \A e \in es : e.from = i \/ e.to = i => ~None(t, 0, Drawn, e.id)
  BY <1>1 DEF NodesTold, EdgesTold
<1>4. /\ ev.type \in Born => a = AddNode(b, ev.row)
      /\ ev.type \in Redone => a = PutNode(b, ev.row)
      /\ ev.type \in Died => a = DropNode(b, i)
  BY DEF Handle, Born, Redone, Died
<1>5. b.nodes \in SUBSET Node /\ b.edges \in SUBSET Edge /\ b = [nodes |-> b.nodes, edges |-> b.edges, loaded |-> b.loaded]
  BY DEF Boards
<1>6. /\ \A m \in b.nodes : m.range = r
      /\ \A e \in b.edges : e.range = r
      /\ OneRowAnId(b.nodes) /\ OneRowAnId(b.edges)
      /\ \A j \in 1..MaxNode : j \notin dying => NodeThere(b, q, 0, r, ns, j)
      /\ \A m \in b.nodes : NodeKnown(q, 0, r, ns, m)
      /\ \A m \in b.nodes : m.id \notin changing => NodeRight(q, 0, ns, m)
      /\ \A k \in 1..MaxEdge : k \notin going => EdgeThere(b, q, 0, r, es, k) \/ EdgeAhead(b, es, k, dying)
      /\ \A e \in b.edges : EdgeRight(q, 0, es, e)
  BY DEF FitsBut, OfRange
<1> HIDE DEF ev, t, a, i
<1>7. ev.type \in Born \cup Redone \cup Died /\ ev.type \notin Drawn /\ ev.type \notin Erased /\ ev.row.id = i
  BY DEF NodeSays, Born, Redone, Died, Drawn, Erased, ev, i
<1>8. ev.row.range # r => a = b
  BY DEF ev, a
<1>9. ASSUME a.edges = b.edges
      PROVE  /\ \A k \in 1..MaxEdge : k \notin going => EdgeThere(a, t, 0, r, es, k) \/ EdgeAhead(a, es, k, dying)
             /\ \A e \in a.edges : EdgeRight(t, 0, es, e)
  BY <1>1, <1>6, <1>7, <1>9 DEF EdgeThere, EdgeAhead, EdgeRight
<1>10. CASE ev.type \in Born
  <2>1. ev.type \notin Redone /\ ev.type \notin Died
    BY <1>10 DEF Born, Redone, Died
  <2>2. CASE Has(b.nodes, i)
    <3>1. a = b
      BY <1>4, <1>7, <1>10, <2>2 DEF AddNode, Has
    <3>2. ASSUME NEW j \in 1..MaxNode, j \notin dying PROVE NodeThere(a, t, 0, r, ns, j)
      <4>1. CASE j = i
        <5>1. PICK m \in b.nodes : m.id = i
          BY <2>2 DEF Has
        <5>2. NodeKnown(q, 0, r, ns, m)
          BY <1>6
        <5>3. None(t, 0, Died, i) => HasHere(ns, r, i)
          BY <1>1, <2>1, <5>1, <5>2 DEF NodeKnown
        <5>4. QED  BY <2>2, <3>1, <4>1, <5>3 DEF NodeThere
      <4>2. CASE j # i
        BY <1>1, <1>6, <3>1, <3>2, <4>2 DEF NodeThere
      <4>3. QED  BY <4>1, <4>2
    <3>3. \A m \in a.nodes : NodeKnown(t, 0, r, ns, m) /\ (m.id \notin changing => NodeRight(t, 0, ns, m))
      BY <1>1, <1>6, <2>1, <3>1 DEF NodeKnown, NodeRight
    <3>4. QED  BY <1>6, <1>9, <3>1, <3>2, <3>3 DEF FitsBut, OfRange
  <2>3. CASE ~Has(b.nodes, i)
    <3>1. a.nodes = b.nodes \cup {ev.row} /\ a.edges = b.edges
      BY <1>4, <1>5, <1>7, <1>10, <2>3 DEF AddNode, Has
    <3>2. ev.row.range = r
      <4>1. a # b
        BY <1>7, <2>3, <3>1 DEF Has
      <4>2. QED  BY <1>8, <4>1
    <3>3. OneRowAnId(a.nodes) /\ \A m \in a.nodes : m.range = r
      BY <1>6, <1>7, <2>3, <3>1, <3>2 DEF OneRowAnId, Has
    <3>4. ASSUME NEW j \in 1..MaxNode, j \notin dying PROVE NodeThere(a, t, 0, r, ns, j)
      <4>1. CASE j = i
        <5>1. Has(a.nodes, i)
          BY <1>7, <3>1 DEF Has
        <5>2. QED  BY <1>3, <1>10, <3>2, <4>1, <5>1 DEF NodeThere
      <4>2. CASE j # i
        <5>1. Has(a.nodes, j) <=> Has(b.nodes, j)
          BY <1>7, <3>1, <4>2 DEF Has
        <5>2. QED  BY <1>1, <1>6, <3>4, <4>2, <5>1 DEF NodeThere
      <4>3. QED  BY <4>1, <4>2
    <3>5. ASSUME NEW m \in a.nodes PROVE NodeKnown(t, 0, r, ns, m) /\ (m.id \notin changing => NodeRight(t, 0, ns, m))
      <4>1. CASE m = ev.row
        BY <1>3, <1>7, <1>10, <3>2, <4>1 DEF NodeKnown, NodeRight
      <4>2. CASE m \in b.nodes
        BY <1>1, <1>6, <2>1, <4>2 DEF NodeKnown, NodeRight
      <4>3. QED  BY <3>1, <4>1, <4>2
    <3>6. QED  BY <1>6, <1>9, <3>1, <3>3, <3>4, <3>5 DEF FitsBut, OfRange
  <2>4. QED  BY <2>2, <2>3
<1>11. CASE ev.type \in Redone
  <2>1. ev.type \notin Born /\ ev.type \notin Died
    BY <1>11 DEF Born, Redone, Died
  <2>2. a.nodes = {IF m.id = i THEN ev.row ELSE m : m \in b.nodes} /\ a.edges = b.edges
    BY <1>4, <1>5, <1>7, <1>11 DEF PutNode
  <2>3. \A j : Has(a.nodes, j) <=> Has(b.nodes, j)
    BY <1>7, <2>2 DEF Has
  <2>4. ASSUME NEW j \in 1..MaxNode, j \notin dying PROVE NodeThere(a, t, 0, r, ns, j)
    BY <1>1, <1>6, <2>1, <2>3, <2>4 DEF NodeThere
  <2>5. ASSUME NEW m \in a.nodes
        PROVE  m.range = r /\ NodeKnown(t, 0, r, ns, m) /\ (m.id \notin changing => NodeRight(t, 0, ns, m))
    <3>1. CASE m \in b.nodes /\ m.id # i
      BY <1>1, <1>6, <2>1, <3>1 DEF NodeKnown, NodeRight
    <3>2. CASE m = ev.row /\ ev.row.range = r
      BY <1>3, <1>7, <1>11, <3>2 DEF NodeKnown, NodeRight
    <3>3. CASE m = ev.row /\ ev.row.range # r
      <4>1. m \in b.nodes
        BY <1>8, <2>5, <3>3
      <4>2. QED  BY <1>6, <3>3, <4>1
    <3>4. QED  BY <2>2, <3>1, <3>2, <3>3
  <2>6. OneRowAnId(a.nodes)
    BY <1>6, <1>7, <2>2 DEF OneRowAnId
  <2>7. QED  BY <1>6, <1>9, <2>2, <2>4, <2>5, <2>6 DEF FitsBut, OfRange
<1>12. CASE ev.type \in Died
  <2>1. ev.type \notin Born /\ ev.type \notin Redone
    BY <1>12 DEF Born, Redone, Died
  <2>2. /\ a.nodes = {m \in b.nodes : m.id # i}
        /\ a.edges = {e \in b.edges : e.from # i /\ e.to # i}
    BY <1>4, <1>5, <1>12 DEF DropNode
  <2>3. OfRange(a, r)
    BY <1>6, <2>2 DEF OfRange, OneRowAnId
  <2>4. ASSUME NEW j \in 1..MaxNode, j \notin dying PROVE NodeThere(a, t, 0, r, ns, j)
    <3>1. CASE j = i
      <4>1. ~Has(a.nodes, i)
        BY <2>2 DEF Has
      <4>2. ~Has(ns, i) => ~HasHere(ns, r, i)
        BY DEF Has, HasHere
      <4>3. QED  BY <1>3, <1>12, <3>1, <4>1, <4>2 DEF NodeThere
    <3>2. CASE j # i
      <4>1. Has(a.nodes, j) <=> Has(b.nodes, j)
        BY <2>2, <3>2 DEF Has
      <4>2. QED  BY <1>1, <1>6, <2>4, <3>2, <4>1 DEF NodeThere
    <3>3. QED  BY <3>1, <3>2
  <2>5. \A m \in a.nodes : NodeKnown(t, 0, r, ns, m) /\ (m.id \notin changing => NodeRight(t, 0, ns, m))
    BY <1>1, <1>6, <2>1, <2>2 DEF NodeKnown, NodeRight
  <2>6. ASSUME NEW k \in 1..MaxEdge, k \notin going
        PROVE  EdgeThere(a, t, 0, r, es, k) \/ EdgeAhead(a, es, k, dying)
    <3>1. CASE EdgeAhead(b, es, k, dying)
      BY <2>2, <3>1 DEF EdgeAhead, Has
    <3>2. CASE EdgeThere(b, q, 0, r, es, k) /\ (Has(a.edges, k) <=> Has(b.edges, k))
      BY <1>1, <1>7, <3>2 DEF EdgeThere
    <3>3. CASE ~(Has(a.edges, k) <=> Has(b.edges, k))
      <4>1. PICK e \in b.edges : e.id = k /\ (e.from = i \/ e.to = i)
        BY <2>2, <3>3 DEF Has
      <4>2. EdgeRight(q, 0, es, e)
        BY <1>6
      <4>3. None(t, 0, Erased, k) => e \in es
        BY <1>1, <1>7, <4>1, <4>2 DEF EdgeRight
      <4>4. QED  BY <1>3, <1>12, <4>1, <4>3 DEF EdgeThere
    <3>4. QED  BY <1>6, <2>6, <3>1, <3>2, <3>3
  <2>7. \A e \in a.edges : EdgeRight(t, 0, es, e)
    BY <1>1, <1>6, <1>7, <2>2 DEF EdgeRight
  <2>8. QED  BY <2>3, <2>4, <2>5, <2>6, <2>7 DEF FitsBut
<1>13. QED  BY <1>7, <1>10, <1>11, <1>12

LEMMA FitsAsEdgesHeard ==
    ASSUME NEW q \in Queues, q # <<>>, NEW r, NEW b \in Boards, NEW ns, NEW es, NEW dying, NEW changing, NEW going,
           EdgesTold(q, es), FitsBut(b, q, 0, r, ns, es, dying, changing, going),
           Head(q).type \in EdgeSays,
           Head(q).row.range # r => Handle(b, Head(q)) = b
    PROVE  FitsBut(Handle(b, Head(q)), Tail(q), 0, r, ns, es, dying, changing, going)
<1> DEFINE ev == Head(q)  t == Tail(q)  a == Handle(b, ev)  k == ev.row.id
<1> SUFFICES FitsBut(a, t, 0, r, ns, es, dying, changing, going)
  OBVIOUS
<1>1. /\ ev = q[1] /\ 1 \in 1..Len(q)
      /\ \A says, j : None(q, 0, says, j) <=> None(t, 0, says, j) /\ ~(ev.type \in says /\ k = j)
      /\ \A says, j : None(q, 1, says, j) <=> None(t, 0, says, j)
  BY HeadOfQueue
<1>2. ev.row \in Edge /\ k \in 1..MaxEdge
  BY <1>1, QueueTypes DEF NodeSays, EdgeSays, Born, Redone, Died, Drawn, Erased
<1>3. /\ ev.type \in Erased /\ None(t, 0, Drawn, k) => ~Has(es, k)
      /\ ev.type \in Drawn /\ None(t, 0, Erased, k) => ev.row \in es
  BY <1>1 DEF EdgesTold
<1>4. /\ ev.type \in Drawn => a = AddEdge(b, ev.row)
      /\ ev.type \in Erased => a = DropEdge(b, k)
  BY DEF Handle, Drawn, Erased
<1>5. b = [nodes |-> b.nodes, edges |-> b.edges, loaded |-> b.loaded]
  BY DEF Boards
<1>6. /\ \A m \in b.nodes : m.range = r
      /\ \A e \in b.edges : e.range = r
      /\ OneRowAnId(b.nodes) /\ OneRowAnId(b.edges)
      /\ \A j \in 1..MaxNode : j \notin dying => NodeThere(b, q, 0, r, ns, j)
      /\ \A m \in b.nodes : NodeKnown(q, 0, r, ns, m)
      /\ \A m \in b.nodes : m.id \notin changing => NodeRight(q, 0, ns, m)
      /\ \A j \in 1..MaxEdge : j \notin going => EdgeThere(b, q, 0, r, es, j) \/ EdgeAhead(b, es, j, dying)
      /\ \A e \in b.edges : EdgeRight(q, 0, es, e)
  BY DEF FitsBut, OfRange
<1> HIDE DEF ev, t, a, k
<1>7. /\ ev.type \in Drawn \cup Erased /\ ev.row.id = k
      /\ ev.type \notin Born /\ ev.type \notin Redone /\ ev.type \notin Died
  BY DEF EdgeSays, Born, Redone, Died, Drawn, Erased, ev, k
<1>8. ev.row.range # r => a = b
  BY DEF ev, a
<1>9. ASSUME a.nodes = b.nodes
      PROVE  /\ \A j \in 1..MaxNode : j \notin dying => NodeThere(a, t, 0, r, ns, j)
             /\ \A m \in a.nodes : NodeKnown(t, 0, r, ns, m)
             /\ \A m \in a.nodes : m.id \notin changing => NodeRight(t, 0, ns, m)
  BY <1>1, <1>6, <1>7, <1>9 DEF NodeThere, NodeKnown, NodeRight
<1>10. CASE ev.type \in Drawn
  <2>1. ev.type \notin Erased
    BY <1>10 DEF Drawn, Erased
  <2>2. CASE Has(b.edges, k)
    <3>1. a = b
      BY <1>4, <1>7, <1>10, <2>2 DEF AddEdge, Has
    <3>2. ASSUME NEW j \in 1..MaxEdge, j \notin going
          PROVE  EdgeThere(a, t, 0, r, es, j) \/ EdgeAhead(a, es, j, dying)
      <4>1. CASE j = k
        <5>1. PICK e \in b.edges : e.id = k
          BY <2>2 DEF Has
        <5>2. None(t, 0, Erased, k) => HasHere(es, r, k)
          <6>1. EdgeRight(q, 0, es, e) /\ e.range = r
            BY <1>6
          <6>2. QED  BY <1>1, <2>1, <5>1, <6>1 DEF EdgeRight, HasHere
        <5>3. QED  BY <2>2, <3>1, <4>1, <5>2 DEF EdgeThere
      <4>2. CASE j # k
        BY <1>1, <1>6, <3>1, <3>2, <4>2 DEF EdgeThere
      <4>3. QED  BY <4>1, <4>2
    <3>3. \A e \in a.edges : EdgeRight(t, 0, es, e)
      BY <1>1, <1>6, <2>1, <3>1 DEF EdgeRight
    <3>4. QED  BY <1>6, <1>9, <3>1, <3>2, <3>3 DEF FitsBut, OfRange
  <2>3. CASE ~Has(b.edges, k)
    <3>1. a.edges = b.edges \cup {ev.row} /\ a.nodes = b.nodes
      BY <1>4, <1>5, <1>7, <1>10, <2>3 DEF AddEdge, Has
    <3>2. ev.row.range = r
      <4>1. a # b
        BY <1>7, <2>3, <3>1 DEF Has
      <4>2. QED  BY <1>8, <4>1
    <3>3. OneRowAnId(a.edges) /\ \A e \in a.edges : e.range = r
      BY <1>6, <1>7, <2>3, <3>1, <3>2 DEF OneRowAnId, Has
    <3>4. ASSUME NEW j \in 1..MaxEdge, j \notin going
          PROVE  EdgeThere(a, t, 0, r, es, j) \/ EdgeAhead(a, es, j, dying)
      <4>1. CASE j = k
        <5>1. Has(a.edges, k)
          BY <1>7, <3>1 DEF Has
        <5>2. None(t, 0, Erased, k) => HasHere(es, r, k)
          BY <1>3, <1>7, <1>10, <3>2 DEF HasHere
        <5>3. QED  BY <4>1, <5>1, <5>2 DEF EdgeThere
      <4>2. CASE j # k
        <5>1. Has(a.edges, j) <=> Has(b.edges, j)
          BY <1>7, <3>1, <4>2 DEF Has
        <5>2. QED  BY <1>1, <1>6, <3>4, <4>2, <5>1 DEF EdgeThere, EdgeAhead
      <4>3. QED  BY <4>1, <4>2
    <3>5. ASSUME NEW e \in a.edges PROVE EdgeRight(t, 0, es, e)
      <4>1. CASE e = ev.row
        BY <1>3, <1>7, <1>10, <4>1 DEF EdgeRight
      <4>2. CASE e \in b.edges
        BY <1>1, <1>6, <2>1, <4>2 DEF EdgeRight
      <4>3. QED  BY <3>1, <4>1, <4>2
    <3>6. QED  BY <1>6, <1>9, <3>1, <3>3, <3>4, <3>5 DEF FitsBut, OfRange
  <2>4. QED  BY <2>2, <2>3
<1>11. CASE ev.type \in Erased
  <2>1. ev.type \notin Drawn
    BY <1>11 DEF Drawn, Erased
  <2>2. a.nodes = b.nodes /\ a.edges = {e \in b.edges : e.id # k}
    BY <1>4, <1>5, <1>11 DEF DropEdge
  <2>3. OfRange(a, r)
    BY <1>6, <2>2 DEF OfRange, OneRowAnId
  <2>4. ASSUME NEW j \in 1..MaxEdge, j \notin going
        PROVE  EdgeThere(a, t, 0, r, es, j) \/ EdgeAhead(a, es, j, dying)
    <3>1. CASE j = k
      <4>1. ~Has(a.edges, k)
        BY <2>2 DEF Has
      <4>2. ~Has(es, k) => ~HasHere(es, r, k)
        BY DEF Has, HasHere
      <4>3. QED  BY <1>3, <1>11, <3>1, <4>1, <4>2 DEF EdgeThere
    <3>2. CASE j # k
      <4>1. Has(a.edges, j) <=> Has(b.edges, j)
        BY <2>2, <3>2 DEF Has
      <4>2. QED  BY <1>1, <1>6, <2>4, <3>2, <4>1 DEF EdgeThere, EdgeAhead
    <3>3. QED  BY <3>1, <3>2
  <2>5. \A e \in a.edges : EdgeRight(t, 0, es, e)
    BY <1>1, <1>6, <2>1, <2>2 DEF EdgeRight
  <2>6. QED  BY <1>9, <2>2, <2>3, <2>4, <2>5 DEF FitsBut
<1>12. QED  BY <1>7, <1>10, <1>11

-------------------------------------------------------------------------------
(* A board read, changed ahead of the server, and added to by an answer     *)

LEMMA BoardFits ==
    ASSUME OneRowAnId(nodes), OneRowAnId(edges), NEW q, NEW h, NEW r
    PROVE  FitsBut(Board(r), q, h, r, nodes, edges, {}, {}, {})
<1>1. \A i : Has(Board(r).nodes, i) <=> HasHere(nodes, r, i)
  BY DEF Board, Has, HasHere
<1>2. \A k : Has(Board(r).edges, k) <=> HasHere(edges, r, k)
  BY DEF Board, Has, HasHere
<1>3. OfRange(Board(r), r)
  BY DEF Board, OfRange, OneRowAnId
<1>4. \A m \in Board(r).nodes : m \in nodes /\ HasHere(nodes, r, m.id)
  BY DEF Board, HasHere
<1>5. \A e \in Board(r).edges : e \in edges
  BY DEF Board
<1>6. QED
  BY <1>1, <1>2, <1>3, <1>4, <1>5 DEF FitsBut, NodeThere, NodeKnown, NodeRight, EdgeThere, EdgeRight

LEMMA SettledBoard ==
    ASSUME NEW r, NEW b \in Boards, b.loaded, nodes \in SUBSET Node, edges \in SUBSET Edge,
           OneRowAnId(nodes), OneRowAnId(edges), FitsBut(b, <<>>, 0, r, nodes, edges, {}, {}, {})
    PROVE  b = Board(r)
<1>1. \A says, i : None(<<>>, 0, says, i)
  BY DEF None
<1>2. \A m \in b.nodes : m \in nodes /\ m.range = r
  BY <1>1 DEF FitsBut, NodeRight, OfRange
<1>3. \A e \in b.edges : e \in edges /\ e.range = r
  BY <1>1 DEF FitsBut, EdgeRight, OfRange
<1>4. ASSUME NEW m \in nodes, m.range = r PROVE m \in b.nodes
  <2>1. m.id \in 1..MaxNode /\ HasHere(nodes, r, m.id)
    BY <1>4 DEF Node, HasHere
  <2>2. PICK n \in b.nodes : n.id = m.id
    BY <1>1, <2>1 DEF FitsBut, NodeThere, Has
  <2>3. QED  BY <1>2, <2>2 DEF OneRowAnId
<1>5. ASSUME NEW e \in edges, e.range = r PROVE e \in b.edges
  <2>1. e.id \in 1..MaxEdge /\ HasHere(edges, r, e.id)
    BY <1>5 DEF Edge, HasHere
  <2>2. ~EdgeAhead(b, edges, e.id, {})
    BY DEF EdgeAhead
  <2>3. PICK d \in b.edges : d.id = e.id
    BY <1>1, <2>1, <2>2 DEF FitsBut, EdgeThere, Has
  <2>4. QED  BY <1>3, <2>3 DEF OneRowAnId
<1>6. b.nodes = Board(r).nodes /\ b.edges = Board(r).edges
  BY <1>2, <1>3, <1>4, <1>5 DEF Board
<1>7. b = [nodes |-> b.nodes, edges |-> b.edges, loaded |-> TRUE]
  BY DEF Boards
<1>8. QED  BY <1>6, <1>7 DEF Board

LEMMA EditedNodeFits ==
    ASSUME NEW q, NEW r, NEW b \in Boards, NEW ns, NEW es, NEW n \in b.nodes, NEW l,
           NEW dying, NEW changing, NEW going, FitsBut(b, q, 0, r, ns, es, dying, changing, going)
    PROVE  FitsBut(PutNode(b, [n EXCEPT !.label = l]), q, 0, r, ns, es, dying, changing \cup {n.id}, going)
<1> DEFINE x == [n EXCEPT !.label = l]  a == PutNode(b, x)
<1> SUFFICES FitsBut(a, q, 0, r, ns, es, dying, changing \cup {n.id}, going)
  OBVIOUS
<1>1. x.id = n.id /\ x.range = n.range
  BY DEF Boards, Node
<1>2. b = [nodes |-> b.nodes, edges |-> b.edges, loaded |-> b.loaded]
  BY DEF Boards
<1> HIDE DEF x
<1>3. a.nodes = {IF m.id = n.id THEN x ELSE m : m \in b.nodes} /\ a.edges = b.edges
  BY <1>1, <1>2 DEF PutNode
<1> HIDE DEF a
<1>4. \A j : Has(a.nodes, j) <=> Has(b.nodes, j)
  BY <1>1, <1>3 DEF Has
<1>5. OfRange(a, r)
  BY <1>1, <1>3 DEF FitsBut, OfRange, OneRowAnId
<1>6. \A m \in a.nodes : NodeKnown(q, 0, r, ns, m) /\ (m.id \notin changing \cup {n.id} => NodeRight(q, 0, ns, m))
  BY <1>1, <1>3 DEF FitsBut, NodeKnown, NodeRight
<1>7. QED  BY <1>3, <1>4, <1>5, <1>6 DEF FitsBut, NodeThere, EdgeThere, EdgeAhead

LEMMA DroppedNodeFits ==
    ASSUME NEW q, NEW r, NEW b \in Boards, NEW ns, NEW es, NEW i,
           NEW dying, NEW changing, NEW going, FitsBut(b, q, 0, r, ns, es, dying, changing, going)
    PROVE  FitsBut(DropNode(b, i), q, 0, r, ns, es, dying \cup {i}, changing, going)
<1> DEFINE a == DropNode(b, i)
<1> SUFFICES FitsBut(a, q, 0, r, ns, es, dying \cup {i}, changing, going)
  OBVIOUS
<1>1. /\ a.nodes = {m \in b.nodes : m.id # i}
      /\ a.edges = {e \in b.edges : e.from # i /\ e.to # i}
  BY DEF DropNode, Boards
<1> HIDE DEF a
<1>2. OfRange(a, r)
  BY <1>1 DEF FitsBut, OfRange, OneRowAnId
<1>3. ASSUME NEW j \in 1..MaxNode, j \notin dying \cup {i} PROVE NodeThere(a, q, 0, r, ns, j)
  BY <1>1, <1>3 DEF FitsBut, NodeThere, Has
<1>4. ASSUME NEW k \in 1..MaxEdge, k \notin going
      PROVE  EdgeThere(a, q, 0, r, es, k) \/ EdgeAhead(a, es, k, dying \cup {i})
  <2>1. EdgeThere(b, q, 0, r, es, k) \/ EdgeAhead(b, es, k, dying)
    BY <1>4 DEF FitsBut
  <2>2. CASE EdgeAhead(b, es, k, dying)
    BY <1>1, <2>2 DEF EdgeAhead, Has
  <2>3. CASE EdgeThere(b, q, 0, r, es, k) /\ (Has(a.edges, k) <=> Has(b.edges, k))
    BY <2>3 DEF EdgeThere
  <2>4. CASE ~(Has(a.edges, k) <=> Has(b.edges, k))
    <3>1. ~Has(a.edges, k)
      BY <1>1, <2>4 DEF Has
    <3>2. PICK e \in b.edges : e.id = k /\ (e.from = i \/ e.to = i)
      BY <1>1, <2>4 DEF Has
    <3>3. None(q, 0, Erased, k) => e \in es
      BY <3>2 DEF FitsBut, EdgeRight
    <3>4. QED  BY <3>1, <3>2, <3>3 DEF EdgeThere, EdgeAhead
  <2>5. QED  BY <2>1, <2>2, <2>3, <2>4
<1>5. \A m \in a.nodes : NodeKnown(q, 0, r, ns, m) /\ (m.id \notin changing => NodeRight(q, 0, ns, m))
  BY <1>1 DEF FitsBut
<1>6. \A e \in a.edges : EdgeRight(q, 0, es, e)
  BY <1>1 DEF FitsBut
<1>7. QED  BY <1>2, <1>3, <1>4, <1>5, <1>6 DEF FitsBut

LEMMA DroppedEdgeFits ==
    ASSUME NEW q, NEW r, NEW b \in Boards, NEW ns, NEW es, NEW k,
           NEW dying, NEW changing, NEW going, FitsBut(b, q, 0, r, ns, es, dying, changing, going)
    PROVE  FitsBut(DropEdge(b, k), q, 0, r, ns, es, dying, changing, going \cup {k})
<1> DEFINE a == DropEdge(b, k)
<1> SUFFICES FitsBut(a, q, 0, r, ns, es, dying, changing, going \cup {k})
  OBVIOUS
<1>1. a.nodes = b.nodes /\ a.edges = {e \in b.edges : e.id # k}
  BY DEF DropEdge, Boards
<1> HIDE DEF a
<1>2. OfRange(a, r)
  BY <1>1 DEF FitsBut, OfRange, OneRowAnId
<1>3. ASSUME NEW j \in 1..MaxEdge, j \notin going \cup {k}
      PROVE  EdgeThere(a, q, 0, r, es, j) \/ EdgeAhead(a, es, j, dying)
  BY <1>1, <1>3 DEF FitsBut, EdgeThere, EdgeAhead, Has
<1>4. QED  BY <1>1, <1>2, <1>3 DEF FitsBut, NodeThere

LEMMA NodesAreNotEdges ==
    ASSUME NEW n \in Node PROVE n \notin Edge
<1>1. "label" \in DOMAIN n
  BY DEF Node
<1>2. \A e \in Edge : "label" \notin DOMAIN e
  BY DEF Edge
<1>3. QED  BY <1>1, <1>2

\* a creation is answered while an event with the row is on its way
LEMMA AnsweredNodeFits ==
    ASSUME NEW q \in Queues, NEW r, NEW b \in Boards, NEW ns, NEW es, NEW n \in Node, n.range = r,
           NEW dying, NEW changing, NEW going,
           NodesTold(q, ns), FitsBut(b, q, 0, r, ns, es, dying, changing, going),
           AddNode(b, n) = b \/ \E p \in 1..Len(q) : q[p].row = n
    PROVE  FitsBut(AddNode(b, n), q, 0, r, ns, es, dying, changing, going)
<1> DEFINE a == AddNode(b, n)
<1>1. CASE a = b
  BY <1>1
<1>2. ASSUME a # b PROVE FitsBut(a, q, 0, r, ns, es, dying, changing, going)
  <2>1. PICK p \in 1..Len(q) : q[p].row = n
    BY <1>2
  <2>2. q[p].type \in NodeSays
    BY <2>1, QueueTypes, NodesAreNotEdges
  <2>3. ~Has(b.nodes, n.id) /\ a.nodes = b.nodes \cup {n} /\ a.edges = b.edges
    BY <1>2 DEF AddNode, Has, Boards
  <2> HIDE DEF a
  <2>4. /\ q[p].type \in Born \cup Redone /\ None(q, p, Died, n.id) =>
             /\ None(q, p, Born, n.id)
             /\ HasHere(ns, r, n.id)
             /\ None(q, p, Redone, n.id) => n \in ns
    BY <2>1 DEF NodesTold
  <2>5. \A says : None(q, 0, says, n.id) => None(q, p, says, n.id) /\ q[p].type \notin says
    BY <2>1 DEF None
  <2>6. OfRange(a, r)
    BY <2>3 DEF FitsBut, OfRange, OneRowAnId, Has
  <2>7. ASSUME NEW j \in 1..MaxNode, j \notin dying PROVE NodeThere(a, q, 0, r, ns, j)
    <3>1. CASE j = n.id
      <4>1. None(q, 0, Died, j) => HasHere(ns, r, j)
        BY <2>2, <2>4, <2>5, <3>1 DEF NodeSays
      <4>2. Has(a.nodes, j)
        BY <2>3, <3>1 DEF Has
      <4>3. QED  BY <4>1, <4>2 DEF NodeThere
    <3>2. CASE j # n.id
      BY <2>3, <2>7, <3>2 DEF FitsBut, NodeThere, Has
    <3>3. QED  BY <3>1, <3>2
  <2>8. ASSUME NEW m \in a.nodes
        PROVE  NodeKnown(q, 0, r, ns, m) /\ (m.id \notin changing => NodeRight(q, 0, ns, m))
    <3>1. CASE m = n
      BY <2>2, <2>4, <2>5, <3>1 DEF NodeSays, NodeKnown, NodeRight
    <3>2. CASE m \in b.nodes
      BY <3>2 DEF FitsBut
    <3>3. QED  BY <2>3, <3>1, <3>2
  <2>9. QED  BY <2>3, <2>6, <2>7, <2>8 DEF FitsBut, EdgeThere, EdgeAhead
<1>3. QED  BY <1>1, <1>2

LEMMA AnsweredEdgeFits ==
    ASSUME NEW q \in Queues, NEW r, NEW b \in Boards, NEW ns, NEW es, NEW e \in Edge, e.range = r,
           NEW dying, NEW changing, NEW going,
           EdgesTold(q, es), FitsBut(b, q, 0, r, ns, es, dying, changing, going),
           AddEdge(b, e) = b \/ \E p \in 1..Len(q) : q[p].row = e
    PROVE  FitsBut(AddEdge(b, e), q, 0, r, ns, es, dying, changing, going)
<1> DEFINE a == AddEdge(b, e)
<1>1. CASE a = b
  BY <1>1
<1>2. ASSUME a # b PROVE FitsBut(a, q, 0, r, ns, es, dying, changing, going)
  <2>1. PICK p \in 1..Len(q) : q[p].row = e
    BY <1>2
  <2>2. q[p].type \in EdgeSays
    BY <2>1, QueueTypes, NodesAreNotEdges
  <2>3. ~Has(b.edges, e.id) /\ a.edges = b.edges \cup {e} /\ a.nodes = b.nodes
    BY <1>2 DEF AddEdge, Has, Boards
  <2> HIDE DEF a
  <2>4. q[p].type \in Drawn /\ None(q, p, Erased, e.id) => e \in es
    BY <2>1 DEF EdgesTold
  <2>5. \A says : None(q, 0, says, e.id) => None(q, p, says, e.id) /\ q[p].type \notin says
    BY <2>1 DEF None
  <2>6. OfRange(a, r)
    BY <2>3 DEF FitsBut, OfRange, OneRowAnId, Has
  <2>7. None(q, 0, Erased, e.id) => e \in es
    BY <2>2, <2>4, <2>5 DEF EdgeSays
  <2>8. ASSUME NEW k \in 1..MaxEdge, k \notin going
        PROVE  EdgeThere(a, q, 0, r, es, k) \/ EdgeAhead(a, es, k, dying)
    <3>1. CASE k = e.id
      BY <2>3, <2>7, <3>1 DEF EdgeThere, Has, HasHere
    <3>2. CASE k # e.id
      BY <2>3, <2>8, <3>2 DEF FitsBut, EdgeThere, EdgeAhead, Has
    <3>3. QED  BY <3>1, <3>2
  <2>9. ASSUME NEW d \in a.edges PROVE EdgeRight(q, 0, es, d)
    BY <2>3, <2>7 DEF FitsBut, EdgeRight
  <2>10. QED  BY <2>3, <2>6, <2>8, <2>9 DEF FitsBut, NodeThere
<1>3. QED  BY <1>1, <1>2

-------------------------------------------------------------------------------
(* The canvas' states                                                       *)

NodeOps == {"create node", "edit node", "delete node"}
EdgeOps == {"create edge", "delete edge"}
Stages == {"sent", "done", "refused"}
NodeRequests ==
    [at : Stages, op : NodeOps, range : Scenarios, row : Node, previous : Boards,
     over : SUBSET Slots, disturbed : BOOLEAN]
EdgeRequests ==
    [at : Stages, op : EdgeOps, range : Scenarios, row : Edge, previous : Boards,
     over : SUBSET Slots, disturbed : BOOLEAN]
Requests == NodeRequests \cup EdgeRequests
Reads == [at : {"read"}, board : Boards, behind : Nat]

\* the mutations one browser has under way
Sound(q, k) == k \notin q.over /\ (~Optimistic(q) => q.row.range = q.range)
Mutations == {qs \in [Slots -> Requests \cup {NoMutation}] : \A k \in Slots : qs[k] # NoMutation => Sound(qs[k], k)}

CanvasTypeOK ==
    /\ nodes \in SUBSET Node /\ edges \in SUBSET Edge
    /\ view \in [Clients -> [range : Scenarios \cup {NoRange}, editable : BOOLEAN]]
    /\ \A c \in Clients : view[c].range = NoRange => ~view[c].editable
    /\ cache \in [Clients -> [Scenarios -> Boards]]
    /\ fetch \in [Clients -> [Scenarios -> Reads \cup {NotAsked}]]
    /\ request \in [Clients -> Mutations]
    /\ online \in [Clients -> BOOLEAN]
    /\ inbox \in [Clients -> Queues]
    /\ missed \in [Clients -> [Scenarios -> Causes]]

\* A change of scenario r that the server has still to make, one that it will not make though
\* the board shows it, and neither.
AheadOps == {"delete node", "edit node", "delete edge"}
Pending(q, op, r) == q.at = "sent" /\ q.op = op /\ q.range = r
Lost(q, r) == q.at = "refused" /\ Optimistic(q) /\ q.range = r
Idle(q, r) == ~Lost(q, r) /\ \A op \in AheadOps : ~Pending(q, op, r)

\* the rows that the changes ks among qs will change once they are served
Ahead(qs, ks, op, r) == {qs[k].row.id : k \in {j \in ks : Pending(qs[j], op, r)}}
NoneLost(qs, ks, r) == \A k \in ks : ~Lost(qs[k], r)
FitsAhead(b, q, r, ns, es, qs, ks) ==
    FitsBut(b, q, 0, r, ns, es, Ahead(qs, ks, "delete node", r), Ahead(qs, ks, "edit node", r),
            Ahead(qs, ks, "delete edge", r))

Followed(c, r) == view[c].range = r /\ fetch[c][r] = NotAsked /\ missed[c][r] = Nothing
Waiting(c, k, r) == request[c][k] # NoMutation /\ request[c][k].range = r

\* A board on its way to a browser fits what it will have heard by then, ...
ReadFits(c, r) == fetch[c][r] # NotAsked /\ missed[c][r] = Nothing =>
    /\ fetch[c][r].behind <= Len(inbox[c])
    /\ \A h \in 0..fetch[c][r].behind : FitsBut(fetch[c][r].board, inbox[c], h, r, nodes, edges, {}, {}, {})
\* ... the board on the screen fits what is on its way, but for the changes under way, unless
\* one of them is refused already and has to be taken off it, ...
ShownFits(c, r) == Followed(c, r) /\ cache[c][r].loaded /\ NoneLost(request[c], Slots, r) =>
    FitsAhead(cache[c][r], inbox[c], r, nodes, edges, request[c], Slots)
\* ... and so does the board a change would put back, but for the changes that were under way
\* when it was made.
PreviousFits(c, k, r) ==
    /\ Followed(c, r) /\ Waiting(c, k, r) /\ ~request[c][k].disturbed
    /\ NoneLost(request[c], request[c][k].over, r)
    => FitsAhead(request[c][k].previous, inbox[c], r, nodes, edges, request[c], request[c][k].over)
FollowsUp(c, r) == ReadFits(c, r) /\ ShownFits(c, r) /\ \A k \in Slots : PreviousFits(c, k, r)

CanvasInv ==
    /\ CanvasTypeOK
    /\ OneRowAnId(nodes) /\ OneRowAnId(edges)
    /\ \A c \in Clients : ~online[c] => inbox[c] = <<>>
    /\ \A c \in Clients : NodesTold(inbox[c], nodes) /\ EdgesTold(inbox[c], edges)
    /\ \A c \in Clients, r \in Scenarios : FollowsUp(c, r)

LEMMA RequestTypes ==
    ASSUME NEW q \in Requests
    PROVE  /\ q # NoMutation /\ q.at \in Stages /\ q.at # "none" /\ q.range \in Scenarios /\ q.previous \in Boards
           /\ q.over \subseteq Slots /\ q.disturbed \in BOOLEAN /\ q.op \in NodeOps \cup EdgeOps
           /\ q.op \in NodeOps => q.row \in Node
           /\ q.op \in EdgeOps => q.row \in Edge
<1>1. CASE q \in NodeRequests
  <2>1. q.op \in NodeOps /\ q.op \notin EdgeOps
    BY <1>1 DEF NodeRequests, NodeOps, EdgeOps
  <2>2. /\ q.at \in Stages /\ q.range \in Scenarios /\ q.previous \in Boards /\ q.over \subseteq Slots
        /\ q.disturbed \in BOOLEAN /\ q.row \in Node
    BY <1>1 DEF NodeRequests
  <2>3. q.at # "none" /\ q # NoMutation
    BY <2>2 DEF Stages, NoMutation
  <2>4. QED  BY <2>1, <2>2, <2>3
<1>2. CASE q \in EdgeRequests
  <2>1. q.op \in EdgeOps /\ q.op \notin NodeOps
    BY <1>2 DEF EdgeRequests, NodeOps, EdgeOps
  <2>2. /\ q.at \in Stages /\ q.range \in Scenarios /\ q.previous \in Boards /\ q.over \subseteq Slots
        /\ q.disturbed \in BOOLEAN /\ q.row \in Edge
    BY <1>2 DEF EdgeRequests
  <2>3. q.at # "none" /\ q # NoMutation
    BY <2>2 DEF Stages, NoMutation
  <2>4. QED  BY <2>1, <2>2, <2>3
<1>3. QED  BY <1>1, <1>2 DEF Requests

\* a request is answered, or the board it remembers is touched
LEMMA RequestAnswered ==
    ASSUME NEW q \in Requests, NEW a \in Stages
    PROVE  LET p == [q EXCEPT !.at = a] IN
           /\ p \in Requests /\ p.op = q.op /\ p.range = q.range /\ p.row = q.row /\ p.previous = q.previous
           /\ p.at = a /\ p.over = q.over /\ p.disturbed = q.disturbed
<1> DEFINE p == [q EXCEPT !.at = a]
<1>1. CASE q \in NodeRequests
  <2>1. p \in NodeRequests
    BY <1>1 DEF NodeRequests
  <2>2. /\ p.op = q.op /\ p.range = q.range /\ p.row = q.row /\ p.previous = q.previous
        /\ p.at = a /\ p.over = q.over /\ p.disturbed = q.disturbed
    BY <1>1 DEF NodeRequests
  <2>3. QED  BY <2>1, <2>2 DEF Requests
<1>2. CASE q \in EdgeRequests
  <2>1. p \in EdgeRequests
    BY <1>2 DEF EdgeRequests
  <2>2. /\ p.op = q.op /\ p.range = q.range /\ p.row = q.row /\ p.previous = q.previous
        /\ p.at = a /\ p.over = q.over /\ p.disturbed = q.disturbed
    BY <1>2 DEF EdgeRequests
  <2>3. QED  BY <2>1, <2>2 DEF Requests
<1>3. QED  BY <1>1, <1>2 DEF Requests

LEMMA RequestDisturbed ==
    ASSUME NEW q \in Requests
    PROVE  LET p == [q EXCEPT !.disturbed = TRUE] IN
           /\ p \in Requests /\ p.op = q.op /\ p.range = q.range /\ p.row = q.row /\ p.previous = q.previous
           /\ p.at = q.at /\ p.over = q.over /\ p.disturbed
<1> DEFINE p == [q EXCEPT !.disturbed = TRUE]
<1>1. CASE q \in NodeRequests
  <2>1. p \in NodeRequests
    BY <1>1 DEF NodeRequests
  <2>2. /\ p.op = q.op /\ p.range = q.range /\ p.row = q.row /\ p.previous = q.previous
        /\ p.at = q.at /\ p.over = q.over /\ p.disturbed
    BY <1>1 DEF NodeRequests
  <2>3. QED  BY <2>1, <2>2 DEF Requests
<1>2. CASE q \in EdgeRequests
  <2>1. p \in EdgeRequests
    BY <1>2 DEF EdgeRequests
  <2>2. /\ p.op = q.op /\ p.range = q.range /\ p.row = q.row /\ p.previous = q.previous
        /\ p.at = q.at /\ p.over = q.over /\ p.disturbed
    BY <1>2 DEF EdgeRequests
  <2>3. QED  BY <2>1, <2>2 DEF Requests
<1>3. QED  BY <1>1, <1>2 DEF Requests

LEMMA RequestsHave ==
    ASSUME CanvasTypeOK, NEW c \in Clients, NEW k \in Slots
    PROVE  /\ request[c] \in Mutations /\ request[c] \in [Slots -> Requests \cup {NoMutation}]
           /\ request[c][k] # NoMutation => request[c][k] \in Requests /\ Sound(request[c][k], k)
<1>1. request[c] \in Mutations
  BY DEF CanvasTypeOK
<1>2. QED  BY <1>1 DEF Mutations

\* the mutations of one browser change, or one of them
LEMMA RequestsPut ==
    ASSUME CanvasTypeOK, NEW c \in Clients, NEW qs \in Mutations, request' = [request EXCEPT ![c] = qs]
    PROVE  /\ request' \in [Clients -> Mutations] /\ request'[c] = qs
           /\ \A d \in Clients \ {c} : request'[d] = request[d]
BY DEF CanvasTypeOK

LEMMA RequestPut ==
    ASSUME CanvasTypeOK, NEW c \in Clients, NEW k \in Slots, NEW q \in Requests, Sound(q, k),
           request' = [request EXCEPT ![c] = [request[c] EXCEPT ![k] = q]]
    PROVE  /\ request' \in [Clients -> Mutations] /\ request'[c][k] = q
           /\ \A d \in Clients \ {c} : request'[d] = request[d]
           /\ \A j \in Slots \ {k} : request'[c][j] = request[c][j]
<1> DEFINE qs == [request[c] EXCEPT ![k] = q]
<1>1. request[c] \in [Slots -> Requests \cup {NoMutation}]
  BY RequestsHave
<1>2. /\ qs \in [Slots -> Requests \cup {NoMutation}] /\ qs[k] = q
      /\ \A j \in Slots \ {k} : qs[j] = request[c][j]
  BY <1>1
<1> HIDE DEF qs
<1>3. \A j \in Slots : request[c][j] # NoMutation => Sound(request[c][j], j)
  BY RequestsHave
<1>4. qs \in Mutations
  BY <1>2, <1>3 DEF Mutations
<1>5. request' = [request EXCEPT ![c] = qs]
  BY DEF qs
<1>6. QED  BY <1>2, <1>4, <1>5, RequestsPut

LEMMA RequestsSent ==
    ASSUME CanvasTypeOK, NEW c \in Clients, NEW k \in Slots, NEW op, Sent(c, k, op)
    PROVE  /\ request[c][k] \in Requests /\ request[c][k].op = op /\ request[c][k] # NoMutation
           /\ request[c][k].at = "sent" /\ Sound(request[c][k], k)
<1>1. request[c][k].at = "sent" /\ request[c][k].op = op
  BY DEF Sent
<1>2. request[c][k] # NoMutation
  BY <1>1 DEF NoMutation
<1>3. QED  BY <1>1, <1>2, RequestsHave

LEMMA EmitTypes ==
    ASSUME CanvasTypeOK, NEW s \in Queues, Emit(s)
    PROVE  /\ inbox' \in [Clients -> Queues]
           /\ missed' \in [Clients -> [Scenarios -> Causes]]
           /\ \A c \in Clients : inbox'[c] = IF online[c] THEN inbox[c] \o s ELSE inbox[c]
           /\ \A c \in Clients, r \in Scenarios : missed'[c][r] = Because(missed[c][r], "offline", ~online[c])
<1>1. \A q \in Queues : q \o s \in Queues
  BY DEF Queues
<1>2. \A c \in Clients : inbox[c] \in Queues
  BY DEF CanvasTypeOK
<1>3. \A old \in Causes : \A when : Because(old, "offline", when) \in Causes
  BY DEF Because, Causes
<1>4. \A c \in Clients, r \in Scenarios : missed[c][r] \in Causes
  BY DEF CanvasTypeOK
<1>5. QED  BY <1>1, <1>2, <1>3, <1>4 DEF Emit

LEMMA EventTypes ==
    /\ \A n \in Node, t \in {"node_created", "node_updated", "node_deleted"} : <<Event(t, n)>> \in Queues
    /\ \A e \in Edge, t \in {"edge_created", "edge_deleted"} : <<Event(t, e)>> \in Queues
<1>1. \A n \in Node, t \in {"node_created", "node_updated", "node_deleted"} : Event(t, n) \in NodeEvents
  BY DEF Event, NodeEvents
<1>2. \A e \in Edge, t \in {"edge_created", "edge_deleted"} : Event(t, e) \in EdgeEvents
  BY DEF Event, EdgeEvents
<1>3. QED  BY <1>1, <1>2 DEF Queues

LEMMA AnswerTypes ==
    ASSUME CanvasTypeOK, NEW c \in Clients, NEW k \in Slots, request[c][k] # NoMutation,
           NEW a \in Stages, Answer(c, k, a)
    PROVE  /\ request' = [request EXCEPT ![c] = [request[c] EXCEPT ![k] = [request[c][k] EXCEPT !.at = a]]]
           /\ [request[c][k] EXCEPT !.at = a] \in Requests /\ Sound([request[c][k] EXCEPT !.at = a], k)
           /\ request' \in [Clients -> Mutations]
           /\ \A d \in Clients \ {c} : request'[d] = request[d]
           /\ \A j \in Slots \ {k} : request'[c][j] = request[c][j]
           /\ request'[c][k] = [request[c][k] EXCEPT !.at = a]
<1>1. PICK q \in Requests : q = request[c][k] /\ Sound(q, k)
  BY RequestsHave
<1>2. PICK p \in Requests :
         /\ p = [q EXCEPT !.at = a] /\ p.op = q.op /\ p.range = q.range /\ p.row = q.row /\ p.over = q.over
  BY RequestAnswered
<1>3. Sound(p, k)
  BY <1>1, <1>2 DEF Sound, Optimistic
<1>4. request' = [request EXCEPT ![c] = [request[c] EXCEPT ![k] = p]]
  BY <1>1, <1>2 DEF Answer
<1>5. /\ request' \in [Clients -> Mutations] /\ request'[c][k] = p
      /\ \A d \in Clients \ {c} : request'[d] = request[d]
      /\ \A j \in Slots \ {k} : request'[c][j] = request[c][j]
  BY <1>3, <1>4, RequestPut
<1>6. QED  BY <1>1, <1>2, <1>3, <1>4, <1>5

-------------------------------------------------------------------------------
(* What the server does, and what it says of it                             *)

Refused(c, k) ==
    Answer(c, k, "refused") /\ UNCHANGED <<nodes, edges, view, cache, fetch, online, inbox, missed>>

\* the request q has become the answer p
Done(q, p) ==
    /\ p \in Requests /\ p.at = "done" /\ p.op = q.op /\ p.range = q.range
    /\ p.previous = q.previous /\ p.over = q.over /\ p.disturbed = q.disturbed
    /\ ~Optimistic(p) => p.row.range = p.range
Finished(c, k) ==
    \E p : Done(request[c][k], p) /\ request' = [request EXCEPT ![c] = [request[c] EXCEPT ![k] = p]]
Served(c, k, s) ==
    /\ request[c][k].at = "sent" /\ Finished(c, k)
    /\ Emit(s) /\ Tells(s, nodes, edges, nodes', edges')
    /\ nodes' \in SUBSET Node /\ edges' \in SUBSET Edge
    /\ OneRowAnId(nodes') /\ OneRowAnId(edges')
    /\ request[c][k].op = "delete node" =>
         /\ ~None(s, 0, Died, request[c][k].row.id)
         /\ \A e \in edges' : request[c][k].row.id \notin {e.from, e.to}
    /\ request[c][k].op = "edit node" => ~None(s, 0, Redone, request[c][k].row.id)
    /\ request[c][k].op = "delete edge" => ~None(s, 0, Erased, request[c][k].row.id)
    /\ UNCHANGED <<view, cache, fetch, online>>

LEMMA DoneTypes ==
    ASSUME CanvasTypeOK, NEW c \in Clients, NEW k \in Slots, request[c][k] # NoMutation, Answer(c, k, "done")
    PROVE  Finished(c, k)
<1>1. PICK q \in Requests : q = request[c][k]
  BY RequestsHave
<1>2. PICK p : p = [q EXCEPT !.at = "done"]
  OBVIOUS
<1>3. /\ p \in Requests /\ p.at = "done" /\ p.op = q.op /\ p.row = q.row /\ p.range = q.range
      /\ p.previous = q.previous /\ p.over = q.over /\ p.disturbed = q.disturbed
  BY <1>2, RequestAnswered DEF Stages
<1>4. Sound(p, k) /\ request' = [request EXCEPT ![c] = [request[c] EXCEPT ![k] = p]]
  BY <1>1, <1>2, AnswerTypes DEF Stages
<1>5. Done(q, p)
  BY <1>3, <1>4 DEF Done, Sound
<1>6. QED  BY <1>1, <1>4, <1>5 DEF Finished

\* one event about one row
LEMMA OneEvent ==
    ASSUME NEW t, NEW x, NEW says
    PROVE  /\ Len(<<Event(t, x)>>) = 1 /\ <<Event(t, x)>>[1].type = t /\ <<Event(t, x)>>[1].row = x
           /\ \A i : None(<<Event(t, x)>>, 0, says, i) <=> ~(t \in says /\ x.id = i)
           /\ t \in says => Only(<<Event(t, x)>>, 1, says, x.id)
BY DEF Event, None, Only

LEMMA NodeEventTells ==
    ASSUME NEW n, NEW t \in NodeSays, NEW ns, NEW next, NEW es,
           t \in Born => ~Has(ns, n.id) /\ n \in next,
           t \in Redone => HasHere(ns, n.range, n.id) /\ n \in next,
           t \in Died => ~Has(next, n.id) /\ \A e \in es : n.id \notin {e.from, e.to},
           \A j : j # n.id => Same(ns, next, j)
    PROVE  Tells(<<Event(t, n)>>, ns, es, next, es)
<1> DEFINE s == <<Event(t, n)>>
<1> SUFFICES Tells(s, ns, es, next, es)
  OBVIOUS
<1>1. /\ Len(s) = 1 /\ s[1].type = t /\ s[1].row = n /\ 1 \in 1..Len(s)
      /\ \A says, i : None(s, 0, says, i) <=> ~(t \in says /\ n.id = i)
      /\ Only(s, 1, NodeSays, n.id)
  BY OneEvent
<1>2. t \notin EdgeSays
  BY DEF NodeSays, EdgeSays, Born, Redone, Died, Drawn, Erased
<1> HIDE DEF s
<1>3. ASSUME NEW j \in 1..MaxNode PROVE TellsNode(s, ns, next, j)
  <2>1. CASE j = n.id
    BY <1>1, <2>1 DEF TellsNode
  <2>2. CASE j # n.id
    BY <1>1, <2>2 DEF TellsNode
  <2>3. QED  BY <2>1, <2>2
<1>4. \A k \in 1..MaxEdge : TellsEdge(s, es, es, k)
  BY <1>1, <1>2 DEF TellsEdge, Same
<1>5. QED  BY <1>1, <1>3, <1>4 DEF Tells

LEMMA EdgeEventTells ==
    ASSUME NEW e, NEW t \in EdgeSays, NEW ns, NEW es, NEW next,
           t \in Drawn => ~Has(es, e.id) /\ e \in next,
           t \in Erased => ~Has(next, e.id),
           \A k : k # e.id => Same(es, next, k)
    PROVE  Tells(<<Event(t, e)>>, ns, es, ns, next)
<1> DEFINE s == <<Event(t, e)>>
<1> SUFFICES Tells(s, ns, es, ns, next)
  OBVIOUS
<1>1. /\ Len(s) = 1 /\ s[1].type = t /\ s[1].row = e /\ 1 \in 1..Len(s)
      /\ \A says, i : None(s, 0, says, i) <=> ~(t \in says /\ e.id = i)
      /\ Only(s, 1, EdgeSays, e.id)
  BY OneEvent
<1>2. t \notin NodeSays /\ t \notin Died
  BY DEF NodeSays, EdgeSays, Born, Redone, Died, Drawn, Erased
<1> HIDE DEF s
<1>3. ASSUME NEW k \in 1..MaxEdge PROVE TellsEdge(s, es, next, k)
  <2>1. CASE k = e.id
    BY <1>1, <2>1 DEF TellsEdge
  <2>2. CASE k # e.id
    BY <1>1, <2>2 DEF TellsEdge
  <2>3. QED  BY <2>1, <2>2
<1>4. \A j \in 1..MaxNode : TellsNode(s, ns, ns, j)
  BY <1>1, <1>2 DEF TellsNode, Same
<1>5. QED  BY <1>1, <1>2, <1>3, <1>4 DEF Tells

LEMMA CreateNodeTells ==
    ASSUME CanvasTypeOK, OneRowAnId(nodes), OneRowAnId(edges), NEW c \in Clients, NEW k \in Slots, ServeCreateNode(c, k)
    PROVE  Refused(c, k) \/ \E s \in Queues : Served(c, k, s)
<1> DEFINE q == request[c][k]
<1>1. q \in Requests /\ q.op = "create node" /\ q # NoMutation /\ q.at = "sent" /\ Sound(q, k)
  <2>1. Sent(c, k, "create node")
    BY DEF ServeCreateNode
  <2>2. QED  BY <2>1, RequestsSent
<1>2. CASE active # q.range
  BY <1>2 DEF ServeCreateNode, Refused, server
<1>3. ASSUME active = q.range, NEW i \in NextIds(nodes, MaxNode), NEW n, n = [q.row EXCEPT !.id = i],
             nodes' = nodes \cup {n}, Emit(<<Event("node_created", n)>>),
             request' = [request EXCEPT ![c][k].at = "done", ![c][k].row = n], UNCHANGED <<active, edges>>,
             UNCHANGED <<faults, view, cache, fetch, online>>
      PROVE  \E s \in Queues : Served(c, k, s)
  <2> DEFINE s == <<Event("node_created", n)>>
  <2>1. q.row \in Node /\ q.row.range = q.range
    BY <1>1, RequestTypes DEF NodeOps, Sound, Optimistic
  <2>2. i \in 1..MaxNode /\ \A m \in nodes : m.id # i
    BY <1>3 DEF NextIds, CanvasTypeOK, Node
  <2>3. n \in Node /\ n.id = i /\ n.range = q.range
    BY <1>3, <2>1, <2>2 DEF Node
  <2>4. s \in Queues
    BY <2>3, EventTypes
  <2>5. OneRowAnId(nodes') /\ nodes' \in SUBSET Node /\ edges' = edges
    BY <1>3, <2>2, <2>3 DEF OneRowAnId, CanvasTypeOK
  <2>6. \A j : j # n.id => Same(nodes, nodes', j)
    BY <1>3 DEF Same
  <2>7. ~Has(nodes, n.id) /\ n \in nodes' /\ "node_created" \in NodeSays
    BY <1>3, <2>2, <2>3 DEF Has, NodeSays, Born
  <2>8. Tells(s, nodes, edges, nodes', edges')
    BY <2>5, <2>6, <2>7, NodeEventTells DEF Born, Redone, Died
  <2>9. PICK p : p = [q EXCEPT !.at = "done", !.row = n] /\ request' = [request EXCEPT ![c] = [request[c] EXCEPT ![k] = p]]
    BY <1>1, <1>3, RequestsHave DEF CanvasTypeOK
  <2>10. q \in NodeRequests
    BY <1>1 DEF Requests, EdgeRequests, EdgeOps
  <2>11. Finished(c, k)
    <3>1. Done(q, p)
      BY <2>3, <2>9, <2>10 DEF Done, Requests, NodeRequests, Stages
    <3>2. QED  BY <2>9, <3>1 DEF Finished
  <2> HIDE DEF s
  <2>12. Served(c, k, s)
    BY <1>1, <1>3, <2>5, <2>8, <2>9, <2>11 DEF Served, CanvasTypeOK, s
  <2>13. QED  BY <2>4, <2>12
<1>4. QED  BY <1>2, <1>3 DEF ServeCreateNode

LEMMA EditNodeTells ==
    ASSUME CanvasTypeOK, OneRowAnId(nodes), OneRowAnId(edges), NEW c \in Clients, NEW k \in Slots, ServeEditNode(c, k)
    PROVE  Refused(c, k) \/ \E s \in Queues : Served(c, k, s)
<1> DEFINE q == request[c][k]
<1>1. q \in Requests /\ q.op = "edit node" /\ q # NoMutation /\ q.at = "sent" /\ Sound(q, k)
  <2>1. Sent(c, k, "edit node")
    BY DEF ServeEditNode
  <2>2. QED  BY <2>1, RequestsSent
<1>2. CASE Named(c, k, nodes) = {}
  BY <1>2 DEF ServeEditNode, Refused, server
<1>3. ASSUME NEW x \in Named(c, k, nodes), NEW n, n = [x EXCEPT !.label = q.row.label],
             nodes' = PutNode([nodes |-> nodes], n).nodes, Emit(<<Event("node_updated", n)>>),
             Answer(c, k, "done"), UNCHANGED <<active, edges>>, UNCHANGED <<faults, view, cache, fetch, online>>
      PROVE  \E s \in Queues : Served(c, k, s)
  <2> DEFINE s == <<Event("node_updated", n)>>
  <2>1. q.row \in Node
    BY <1>1, RequestTypes DEF NodeOps
  <2>2. x \in nodes /\ x \in Node /\ x.id = q.row.id /\ x.range = q.range
    BY <1>3 DEF Named, CanvasTypeOK
  <2>3. n \in Node /\ n.id = x.id /\ n.range = x.range
    BY <1>3, <2>1, <2>2 DEF Node
  <2>4. s \in Queues
    BY <2>3, EventTypes
  <2>5. nodes' = {IF m.id = n.id THEN n ELSE m : m \in nodes} /\ edges' = edges
    BY <1>3 DEF PutNode
  <2>6. OneRowAnId(nodes') /\ nodes' \in SUBSET Node /\ n \in nodes'
    BY <2>2, <2>3, <2>5 DEF OneRowAnId, CanvasTypeOK
  <2>7. \A j : j # n.id => Same(nodes, nodes', j)
    BY <2>5 DEF Same
  <2>8. HasHere(nodes, n.range, n.id)
    BY <2>2, <2>3 DEF HasHere
  <2>9. "node_updated" \in NodeSays
    BY DEF NodeSays, Redone
  <2>11. Tells(s, nodes, edges, nodes', edges')
    BY <2>5, <2>6, <2>7, <2>8, <2>9, NodeEventTells DEF Born, Redone, Died
  <2>12. Finished(c, k)
    BY <1>1, <1>3, DoneTypes
  <2>13. ~None(s, 0, Redone, q.row.id)
    BY <2>2, <2>3, OneEvent DEF Redone
  <2> HIDE DEF s
  <2>14. Served(c, k, s)
    BY <1>1, <1>3, <2>5, <2>6, <2>11, <2>12, <2>13 DEF Served, CanvasTypeOK, s
  <2>15. QED  BY <2>4, <2>14
<1>4. QED  BY <1>2, <1>3 DEF ServeEditNode

LEMMA CreateEdgeTells ==
    ASSUME CanvasTypeOK, OneRowAnId(nodes), OneRowAnId(edges), NEW c \in Clients, NEW k \in Slots, ServeCreateEdge(c, k)
    PROVE  Refused(c, k) \/ \E s \in Queues : Served(c, k, s)
<1> DEFINE q == request[c][k]
           Here(i) == \E n \in nodes : n.id = i /\ n.range = q.range
<1>1. q \in Requests /\ q.op = "create edge" /\ q # NoMutation /\ q.at = "sent" /\ Sound(q, k)
  <2>1. Sent(c, k, "create edge")
    BY DEF ServeCreateEdge
  <2>2. QED  BY <2>1, RequestsSent
<1>2. CASE ~Here(q.row.from) \/ ~Here(q.row.to) \/ \E d \in edges : d.from = q.row.from /\ d.to = q.row.to
  BY <1>2 DEF ServeCreateEdge, Refused, server
<1>3. ASSUME NEW i \in NextIds(edges, MaxEdge), NEW e, e = [q.row EXCEPT !.id = i],
             edges' = edges \cup {e}, Emit(<<Event("edge_created", e)>>),
             request' = [request EXCEPT ![c][k].at = "done", ![c][k].row = e], UNCHANGED <<active, nodes>>,
             UNCHANGED <<faults, view, cache, fetch, online>>
      PROVE  \E s \in Queues : Served(c, k, s)
  <2> DEFINE s == <<Event("edge_created", e)>>
  <2>1. q.row \in Edge /\ q.row.range = q.range
    BY <1>1, RequestTypes DEF EdgeOps, Sound, Optimistic
  <2>2. i \in 1..MaxEdge /\ \A d \in edges : d.id # i
    BY <1>3 DEF NextIds, CanvasTypeOK, Edge
  <2>3. e \in Edge /\ e.id = i /\ e.range = q.range
    BY <1>3, <2>1, <2>2 DEF Edge
  <2>4. s \in Queues
    BY <2>3, EventTypes
  <2>5. OneRowAnId(edges') /\ edges' \in SUBSET Edge /\ nodes' = nodes
    BY <1>3, <2>2, <2>3 DEF OneRowAnId, CanvasTypeOK
  <2>6. \A j : j # e.id => Same(edges, edges', j)
    BY <1>3 DEF Same
  <2>7. ~Has(edges, e.id) /\ e \in edges' /\ "edge_created" \in EdgeSays
    BY <1>3, <2>2, <2>3 DEF Has, EdgeSays, Drawn
  <2>8. Tells(s, nodes, edges, nodes', edges')
    BY <2>5, <2>6, <2>7, EdgeEventTells DEF Drawn, Erased
  <2>9. PICK p : p = [q EXCEPT !.at = "done", !.row = e] /\ request' = [request EXCEPT ![c] = [request[c] EXCEPT ![k] = p]]
    BY <1>1, <1>3, RequestsHave DEF CanvasTypeOK
  <2>10. q \in EdgeRequests
    BY <1>1 DEF Requests, NodeRequests, NodeOps
  <2>11. Finished(c, k)
    <3>1. Done(q, p)
      BY <2>3, <2>9, <2>10 DEF Done, Requests, EdgeRequests, Stages
    <3>2. QED  BY <2>9, <3>1 DEF Finished
  <2> HIDE DEF s
  <2>12. Served(c, k, s)
    BY <1>1, <1>3, <2>5, <2>8, <2>9, <2>11 DEF Served, CanvasTypeOK, s
  <2>13. QED  BY <2>4, <2>12
<1>4. QED  BY <1>2, <1>3 DEF ServeCreateEdge

LEMMA DeleteEdgeTells ==
    ASSUME CanvasTypeOK, OneRowAnId(nodes), OneRowAnId(edges), NEW c \in Clients, NEW k \in Slots, ServeDeleteEdge(c, k)
    PROVE  Refused(c, k) \/ \E s \in Queues : Served(c, k, s)
<1> DEFINE q == request[c][k]
<1>1. q \in Requests /\ q.op = "delete edge" /\ q # NoMutation /\ q.at = "sent" /\ Sound(q, k)
  <2>1. Sent(c, k, "delete edge")
    BY DEF ServeDeleteEdge
  <2>2. QED  BY <2>1, RequestsSent
<1>2. CASE Named(c, k, edges) = {}
  BY <1>2 DEF ServeDeleteEdge, Refused, server
<1>3. ASSUME NEW x \in Named(c, k, edges), edges' = {e \in edges : e.id # x.id}, Emit(<<Event("edge_deleted", x)>>),
             Answer(c, k, "done"), UNCHANGED <<active, nodes>>, UNCHANGED <<faults, view, cache, fetch, online>>
      PROVE  \E s \in Queues : Served(c, k, s)
  <2> DEFINE s == <<Event("edge_deleted", x)>>
  <2>1. x \in edges /\ x \in Edge /\ x.id = q.row.id
    BY <1>3 DEF Named, CanvasTypeOK
  <2>2. s \in Queues
    BY <2>1, EventTypes
  <2>3. OneRowAnId(edges') /\ edges' \in SUBSET Edge /\ nodes' = nodes
    BY <1>3 DEF OneRowAnId, CanvasTypeOK
  <2>4. \A j : j # x.id => Same(edges, edges', j)
    BY <1>3 DEF Same
  <2>5. ~Has(edges', x.id) /\ "edge_deleted" \in EdgeSays
    BY <1>3 DEF Has, EdgeSays, Erased
  <2>6. Tells(s, nodes, edges, nodes', edges')
    BY <2>3, <2>4, <2>5, EdgeEventTells DEF Drawn, Erased
  <2>7. Finished(c, k)
    BY <1>1, <1>3, DoneTypes
  <2>8. ~None(s, 0, Erased, q.row.id)
    BY <2>1, OneEvent DEF Erased
  <2> HIDE DEF s
  <2>9. Served(c, k, s)
    BY <1>1, <1>3, <2>3, <2>6, <2>7, <2>8 DEF Served, CanvasTypeOK, s
  <2>10. QED  BY <2>2, <2>9
<1>4. QED  BY <1>2, <1>3 DEF ServeDeleteEdge

LEMMA ConcatIs ==
    ASSUME NEW q \in Queues, NEW s \in Queues
    PROVE  /\ Len(q) \in Nat /\ Len(s) \in Nat /\ Len(q \o s) = Len(q) + Len(s) /\ q \o s \in Queues
           /\ \A p \in 1..Len(q) : (q \o s)[p] = q[p]
           /\ \A p \in 1..Len(s) : (q \o s)[Len(q) + p] = s[p]
BY DEF Queues

LEMMA DeleteNodeTells ==
    ASSUME CanvasTypeOK, OneRowAnId(nodes), OneRowAnId(edges), NEW c \in Clients, NEW k \in Slots, ServeDeleteNode(c, k)
    PROVE  Refused(c, k) \/ \E s \in Queues : Served(c, k, s)
<1> DEFINE q == request[c][k]
<1>1. q \in Requests /\ q.op = "delete node" /\ q # NoMutation /\ q.at = "sent" /\ Sound(q, k)
  <2>1. Sent(c, k, "delete node")
    BY DEF ServeDeleteNode
  <2>2. QED  BY <2>1, RequestsSent
<1>2. CASE Named(c, k, nodes) = {}
  BY <1>2 DEF ServeDeleteNode, Refused, server
<1>3. ASSUME NEW x \in Named(c, k, nodes), NEW gone \in Listings(Touching(x.id)),
             nodes' = {n \in nodes : n.id # x.id}, edges' = edges \ Touching(x.id),
             Emit([j \in 1..Len(gone) |-> Event("edge_deleted", gone[j])] \o <<Event("node_deleted", x)>>),
             Answer(c, k, "done"), UNCHANGED active, UNCHANGED <<faults, view, cache, fetch, online>>
      PROVE  \E s \in Queues : Served(c, k, s)
  <2> DEFINE before == [j \in 1..Len(gone) |-> Event("edge_deleted", gone[j])]
             s == before \o <<Event("node_deleted", x)>>
             z == Len(gone)
  <2>1. x \in nodes /\ x \in Node /\ x.id = q.row.id
    BY <1>3 DEF Named, CanvasTypeOK
  <2>2. /\ z \in Nat /\ \A j \in 1..z : gone[j] \in edges /\ gone[j] \in Edge /\ (gone[j].from = x.id \/ gone[j].to = x.id)
        /\ \A i, j \in 1..z : gone[i] = gone[j] => i = j
        /\ \A e \in edges : e.from = x.id \/ e.to = x.id => \E j \in 1..z : gone[j] = e
    <3>1. PICK m \in 0..MaxEdge : gone \in [1..m -> Touching(x.id)]
      BY <1>3 DEF Listings
    <3>2. m \in Nat /\ Len(gone) = m /\ DOMAIN gone = 1..m
      <4>1. m \in Nat
        BY CanvasAssumption
      <4>2. gone = [j \in 1..m |-> gone[j]]
        BY <3>1
      <4>3. QED  BY <4>1, <4>2
    <3>3. /\ \A e \in Touching(x.id) : \E j \in DOMAIN gone : gone[j] = e
          /\ \A i, j \in DOMAIN gone : gone[i] = gone[j] => i = j
      BY <1>3 DEF Listings
    <3>4. \A e : e \in Touching(x.id) <=> e \in edges /\ (e.from = x.id \/ e.to = x.id)
      BY DEF Touching
    <3>5. \A j \in 1..m : gone[j] \in Touching(x.id)
      BY <3>1
    <3>6. edges \in SUBSET Edge
      BY DEF CanvasTypeOK
    <3>7. QED  BY <3>2, <3>3, <3>4, <3>5, <3>6
  <2>3. \A i, j \in 1..z : gone[i].id = gone[j].id => i = j
    BY <2>2 DEF OneRowAnId
  <2> HIDE DEF z
  <2>4. /\ before \in Queues /\ Len(before) = z
        /\ \A j \in 1..z : before[j].type = "edge_deleted" /\ before[j].row = gone[j]
    <3>1. \A j \in 1..z : Event("edge_deleted", gone[j]) \in EdgeEvents
      BY <2>2 DEF EdgeEvents, Event
    <3>2. before = [j \in 1..z |-> Event("edge_deleted", gone[j])]
      BY DEF z
    <3>3. before \in [1..z -> EdgeEvents]
      BY <3>1, <3>2
    <3>4. before \in Queues /\ Len(before) = z
      BY <2>2, <3>3 DEF Queues
    <3>5. QED  BY <3>2, <3>4 DEF Event
  <2> HIDE DEF before
  <2>5. /\ s \in Queues /\ Len(s) = z + 1
        /\ \A j \in 1..z : s[j].type = "edge_deleted" /\ s[j].row = gone[j]
        /\ s[z + 1].type = "node_deleted" /\ s[z + 1].row = x
    <3> DEFINE w == <<Event("node_deleted", x)>>
    <3>1. w \in Queues /\ Len(w) = 1 /\ w[1].type = "node_deleted" /\ w[1].row = x
      BY <2>1, EventTypes DEF Event
    <3> HIDE DEF w
    <3>2. before \o w \in Queues
      BY <2>4, <3>1 DEF Queues
    <3>3. /\ Len(before \o w) = z + 1 /\ (before \o w)[z + 1] = w[1]
          /\ \A j \in 1..z : (before \o w)[j] = before[j]
      <4>1. /\ Len(before) \in Nat /\ Len(w) \in Nat /\ Len(before \o w) = Len(before) + Len(w)
            /\ \A p \in 1..Len(before) : (before \o w)[p] = before[p]
            /\ \A p \in 1..Len(w) : (before \o w)[Len(before) + p] = w[p]
        BY <2>4, <3>1, ConcatIs
      <4>2. 1 \in 1..Len(w)
        BY <3>1
      <4>3. QED  BY <2>4, <3>1, <4>1, <4>2
    <3>4. s = before \o w
      BY DEF w
    <3> HIDE DEF s
    <3>5. QED  BY <2>4, <3>1, <3>2, <3>3, <3>4
  <2>6. Emit(s)
    BY <1>3 DEF before
  <2> HIDE DEF s
  <2>7. \A o \in 1..Len(s) : o \in 1..z \/ o = z + 1
    BY <2>2, <2>5
  <2>8. OneRowAnId(nodes') /\ OneRowAnId(edges') /\ nodes' \in SUBSET Node /\ edges' \in SUBSET Edge
    BY <1>3 DEF OneRowAnId, CanvasTypeOK
  <2>9. \A e : e \in edges' <=> e \in edges /\ e.from # x.id /\ e.to # x.id
    BY <1>3 DEF Touching
  <2>10. ASSUME NEW j \in 1..MaxNode PROVE TellsNode(s, nodes, nodes', j)
    <3>1. \A o \in 1..Len(s) : s[o].type \in NodeSays => o = z + 1
      BY <2>5, <2>7 DEF NodeSays, Born, Redone, Died
    <3>2. CASE j = x.id
      <4>1. z + 1 \in 1..Len(s) /\ s[z + 1].type \in Died /\ s[z + 1].type \notin Born /\ s[z + 1].type \notin Redone
        BY <2>2, <2>5 DEF Born, Redone, Died
      <4>2. Only(s, z + 1, NodeSays, j)
        BY <2>5, <3>1, <3>2, <4>1 DEF Only, NodeSays
      <4>3. ~Has(nodes', j)
        BY <1>3, <3>2 DEF Has
      <4>4. QED  BY <4>1, <4>2, <4>3 DEF TellsNode
    <3>3. CASE j # x.id
      <4>1. None(s, 0, NodeSays, j)
        BY <2>5, <3>1, <3>3 DEF None
      <4>2. Same(nodes, nodes', j)
        BY <1>3, <3>3 DEF Same
      <4>3. QED  BY <4>1, <4>2 DEF TellsNode
    <3>4. QED  BY <3>2, <3>3
  <2>11. ASSUME NEW i \in 1..MaxEdge PROVE TellsEdge(s, edges, edges', i)
    <3>1. \A o \in 1..Len(s) : s[o].type \in EdgeSays => o \in 1..z
      BY <2>5, <2>7 DEF EdgeSays, Drawn, Erased
    <3>2. ASSUME NEW j \in 1..z, gone[j].id = i PROVE TellsEdge(s, edges, edges', i)
      <4>1. j \in 1..Len(s) /\ s[j].type \in Erased /\ s[j].type \notin Drawn /\ s[j].row = gone[j]
        BY <2>2, <2>5 DEF Drawn, Erased
      <4>2. Only(s, j, EdgeSays, i)
        BY <2>3, <2>5, <3>1, <3>2, <4>1 DEF Only, EdgeSays
      <4>3. ~Has(edges', i)
        BY <2>2, <2>9, <3>2 DEF Has, OneRowAnId
      <4>4. QED  BY <4>1, <4>2, <4>3 DEF TellsEdge
    <3>3. CASE \A j \in 1..z : gone[j].id # i
      <4>1. None(s, 0, EdgeSays, i)
        BY <2>5, <3>1, <3>3 DEF None
      <4>2. Same(edges, edges', i)
        BY <2>2, <2>9, <3>3 DEF Same
      <4>3. QED  BY <4>1, <4>2 DEF TellsEdge
    <3>4. QED  BY <3>2, <3>3
  <2>12. ASSUME NEW o \in 1..Len(s), s[o].type \in Died, NEW e \in edges'
         PROVE  s[o].row.id \notin {e.from, e.to}
    <3>1. o = z + 1
      BY <2>5, <2>7, <2>12 DEF Died
    <3>2. QED  BY <2>5, <2>9, <3>1
  <2>13. Tells(s, nodes, edges, nodes', edges')
    BY <2>10, <2>11, <2>12 DEF Tells
  <2>14. Finished(c, k)
    BY <1>1, <1>3, DoneTypes
  <2>15. ~None(s, 0, Died, q.row.id)
    <3>1. z + 1 \in 1..Len(s) /\ z + 1 > 0
      BY <2>2, <2>5
    <3>2. QED  BY <2>1, <2>5, <3>1 DEF None, Died
  <2>16. \A e \in edges' : q.row.id \notin {e.from, e.to}
    BY <2>1, <2>9
  <2>17. Served(c, k, s)
    BY <1>1, <1>3, <2>6, <2>8, <2>13, <2>14, <2>15, <2>16 DEF Served, CanvasTypeOK
  <2>18. QED  BY <2>5, <2>17
<1>4. QED  BY <1>2, <1>3 DEF ServeDeleteNode

LEMMA ServingTells ==
    ASSUME CanvasTypeOK, OneRowAnId(nodes), OneRowAnId(edges), NEW c \in Clients, NEW k \in Slots, Serving(c, k)
    PROVE  request[c][k] # NoMutation /\ (Refused(c, k) \/ \E s \in Queues : Served(c, k, s))
<1>1. request[c][k] # NoMutation
  <2>1. request[c][k].at = "sent"
    BY DEF Serving, ServeCreateNode, ServeEditNode, ServeDeleteNode, ServeCreateEdge, ServeDeleteEdge, Sent
  <2>2. QED  BY <2>1 DEF NoMutation
<1>2. QED
  BY <1>1, CreateNodeTells, EditNodeTells, DeleteNodeTells, CreateEdgeTells, DeleteEdgeTells DEF Serving

-------------------------------------------------------------------------------
(* The boards still fit, while mutations come and go                        *)

LEMMA NoMutationIsIdle == \A r : Idle(NoMutation, r)
BY DEF Idle, Lost, Pending, NoMutation

LEMMA AsideIsIdle ==
    ASSUME NEW q, NEW r, q.range # r
    PROVE  Idle(q, r)
BY DEF Idle, Lost, Pending

LEMMA AheadIs ==
    ASSUME NEW qs, NEW ks, NEW op, NEW r
    PROVE  \A i : i \in Ahead(qs, ks, op, r) <=> \E k \in ks : Pending(qs[k], op, r) /\ qs[k].row.id = i
BY DEF Ahead

LEMMA NothingAhead ==
    ASSUME NEW qs, NEW ks, NEW r, \A k \in ks : Idle(qs[k], r)
    PROVE  NoneLost(qs, ks, r) /\ \A op \in AheadOps : Ahead(qs, ks, op, r) = {}
<1>1. \A op \in AheadOps : \A i : i \notin Ahead(qs, ks, op, r)
  BY AheadIs DEF Idle
<1>2. QED  BY <1>1 DEF NoneLost, Idle

\* The change p has become q, as far as scenario r goes: what the board was ahead of it still is,
\* or will not be served.
Goes(p, q, r) ==
    /\ Lost(p, r) => Lost(q, r)
    /\ \A op \in AheadOps : Pending(p, op, r) => Lost(q, r) \/ (Pending(q, op, r) /\ q.row.id = p.row.id)

LEMMA FitsAheadStill ==
    ASSUME NEW b, NEW q, NEW r, NEW ns, NEW es, NEW ps, NEW ks, NEW qs, NEW js,
           \A k \in ks : Goes(ps[k], qs[k], r) /\ (k \in js \/ Idle(ps[k], r)),
           NoneLost(qs, js, r)
    PROVE  /\ NoneLost(ps, ks, r)
           /\ FitsAhead(b, q, r, ns, es, ps, ks) => FitsAhead(b, q, r, ns, es, qs, js)
<1>1. NoneLost(ps, ks, r)
  BY DEF NoneLost, Goes, Idle
<1>2. ASSUME NEW op \in AheadOps PROVE Ahead(ps, ks, op, r) \subseteq Ahead(qs, js, op, r)
  <2>1. ASSUME NEW k \in ks, Pending(ps[k], op, r)
        PROVE  k \in js /\ Pending(qs[k], op, r) /\ qs[k].row.id = ps[k].row.id
    BY <2>1 DEF NoneLost, Goes, Idle
  <2>2. \A i : i \in Ahead(ps, ks, op, r) => i \in Ahead(qs, js, op, r)
    BY <2>1, AheadIs
  <2>3. QED  BY <2>2
<1>3. /\ Ahead(ps, ks, "delete node", r) \subseteq Ahead(qs, js, "delete node", r)
      /\ Ahead(ps, ks, "edit node", r) \subseteq Ahead(qs, js, "edit node", r)
      /\ Ahead(ps, ks, "delete edge", r) \subseteq Ahead(qs, js, "delete edge", r)
  BY <1>2 DEF AheadOps
<1>4. FitsAhead(b, q, r, ns, es, ps, ks) => FitsAhead(b, q, r, ns, es, qs, js)
  BY <1>3, FitsMore DEF FitsAhead
<1>5. QED  BY <1>1, <1>4

\* the mutation k of browser d remembers the board it did, and is over the same changes, or fewer
Kept(d, k, r) ==
    /\ Waiting(d, k, r) /\ ~request[d][k].disturbed
    /\ request'[d][k].previous = request[d][k].previous
    /\ \A j \in request[d][k].over : j \in request'[d][k].over \/ Idle(request[d][j], r)

LEMMA PreviousStill ==
    ASSUME CanvasTypeOK, NEW d \in Clients, NEW r, NEW k \in Slots, PreviousFits(d, k, r), UNCHANGED <<nodes, edges>>,
           view'[d] = view[d], fetch'[d][r] = fetch[d][r], inbox'[d] = inbox[d],
           missed'[d][r] = Nothing => missed[d][r] = Nothing,
           \A j \in Slots \cap request[d][k].over : Goes(request[d][j], request'[d][j], r),
           Waiting(d, k, r)' /\ ~request'[d][k].disturbed => Kept(d, k, r)
    PROVE  PreviousFits(d, k, r)'
<1> DEFINE ps == request[d]  qs == request'[d]
<1>1. SUFFICES ASSUME Followed(d, r)', Waiting(d, k, r)', ~qs[k].disturbed, NoneLost(qs, qs[k].over, r)
      PROVE  FitsAhead(qs[k].previous, inbox[d], r, nodes, edges, qs, qs[k].over)
  BY DEF PreviousFits
<1>2. Followed(d, r)
  BY <1>1 DEF Followed
<1>3. Kept(d, k, r)
  BY <1>1
<1>4. ps[k].over \subseteq Slots
  BY <1>3, RequestsHave, RequestTypes DEF Kept, Waiting
<1> DEFINE ks == ps[k].over  js == qs[k].over
<1>5. \A j \in ks : Goes(ps[j], qs[j], r) /\ (j \in js \/ Idle(ps[j], r))
  BY <1>3, <1>4 DEF Kept
<1>6. Waiting(d, k, r) /\ ~ps[k].disturbed /\ qs[k].previous = ps[k].previous
  BY <1>3 DEF Kept
<1>7. NoneLost(qs, js, r)
  BY <1>1
<1>8. (Followed(d, r) /\ Waiting(d, k, r) /\ ~ps[k].disturbed /\ NoneLost(ps, ks, r))
        => FitsAhead(ps[k].previous, inbox[d], r, nodes, edges, ps, ks)
  BY DEF PreviousFits
<1> HIDE DEF ks, js, ps, qs
<1>9. /\ NoneLost(ps, ks, r)
      /\ FitsAhead(ps[k].previous, inbox[d], r, nodes, edges, ps, ks)
           => FitsAhead(ps[k].previous, inbox[d], r, nodes, edges, qs, js)
  BY <1>5, <1>7, FitsAheadStill
<1>10. FitsAhead(qs[k].previous, inbox[d], r, nodes, edges, qs, js)
  BY <1>2, <1>6, <1>8, <1>9
<1>11. QED  BY <1>10 DEF js

\* nothing but the mutations of d has changed for it, and none of them is forgotten before its time
LEMMA FollowsOn ==
    ASSUME CanvasTypeOK, NEW d \in Clients, NEW r, FollowsUp(d, r), UNCHANGED <<nodes, edges>>,
           view'[d] = view[d], cache'[d][r] = cache[d][r], fetch'[d][r] = fetch[d][r],
           missed'[d][r] = Nothing => missed[d][r] = Nothing, inbox'[d] = inbox[d],
           \A k \in Slots : Goes(request[d][k], request'[d][k], r),
           \A k \in Slots : Waiting(d, k, r)' /\ ~request'[d][k].disturbed => Kept(d, k, r)
    PROVE  FollowsUp(d, r)'
<1>1. Followed(d, r)' => Followed(d, r)
  BY DEF Followed
<1>2. ReadFits(d, r)'
  BY DEF FollowsUp, ReadFits
<1>3. ShownFits(d, r)'
  <2> DEFINE ps == request[d]  qs == request'[d]
  <2>1. SUFFICES ASSUME Followed(d, r)', cache[d][r].loaded, NoneLost(qs, Slots, r)
        PROVE  FitsAhead(cache[d][r], inbox[d], r, nodes, edges, qs, Slots)
    BY DEF ShownFits
  <2>2. NoneLost(ps, Slots, r) => FitsAhead(cache[d][r], inbox[d], r, nodes, edges, ps, Slots)
    BY <1>1, <2>1 DEF FollowsUp, ShownFits
  <2>3. \A k \in Slots : Goes(ps[k], qs[k], r)
    OBVIOUS
  <2>4. NoneLost(qs, Slots, r)
    BY <2>1
  <2> HIDE DEF ps, qs
  <2>5. QED  BY <2>2, <2>3, <2>4, FitsAheadStill
<1>4. ASSUME NEW k \in Slots PROVE PreviousFits(d, k, r)'
  BY PreviousStill DEF FollowsUp
<1>5. QED  BY <1>2, <1>3, <1>4 DEF FollowsUp

LEMMA FollowsStill ==
    ASSUME CanvasTypeOK, NEW d \in Clients, NEW r, FollowsUp(d, r), UNCHANGED <<nodes, edges>>,
           view'[d] = view[d], cache'[d][r] = cache[d][r], fetch'[d][r] = fetch[d][r],
           missed'[d][r] = Nothing => missed[d][r] = Nothing, inbox'[d] = inbox[d], request'[d] = request[d]
    PROVE  FollowsUp(d, r)'
<1>1. \A k \in Slots : Goes(request[d][k], request'[d][k], r)
  BY DEF Goes
<1>2. \A k \in Slots : Waiting(d, k, r)' /\ ~request'[d][k].disturbed => Kept(d, k, r)
  BY DEF Waiting, Kept
<1>3. QED  BY <1>1, <1>2, FollowsOn

-------------------------------------------------------------------------------
(* The boards still fit after a step of the server                          *)

\* a mutation is served: what it made the board be ahead of has been told
LEMMA ServedFits ==
    ASSUME CanvasTypeOK, OneRowAnId(nodes), NEW c \in Clients, NEW k \in Slots, request[c][k] # NoMutation,
           NEW s \in Queues, Served(c, k, s),
           NEW d \in Clients, NEW r, NEW ks \in SUBSET Slots, NEW b \in Boards, NoneLost(request'[d], ks, r)
    PROVE  /\ NoneLost(request[d], ks, r)
           /\ FitsAhead(b, inbox[d], r, nodes, edges, request[d], ks)
                => FitsAhead(b, inbox[d] \o s, r, nodes', edges', request'[d], ks)
<1> DEFINE ps == request[d]  qs == request'[d]  q == request[c][k]  box == inbox[d]
<1>1. Tells(s, nodes, edges, nodes', edges') /\ OneRowAnId(nodes') /\ q.at = "sent"
  BY DEF Served
<1>2. PICK p : Done(q, p) /\ request' = [request EXCEPT ![c] = [request[c] EXCEPT ![k] = p]]
  BY DEF Served, Finished
<1>3. /\ \A j \in Slots : d # c \/ j # k => qs[j] = ps[j]
      /\ d = c => qs[k] = p /\ ps[k] = q
  BY <1>2, RequestsHave DEF CanvasTypeOK
<1>4. box \in Queues /\ 0 \in 0..Len(box)
  BY DEF CanvasTypeOK, Queues
<1>5. p.at = "done" /\ q.at = "sent"
  BY <1>1, <1>2 DEF Done
<1>6. /\ q.op = "delete node" => ~None(s, 0, Died, q.row.id) /\ \A e \in edges' : q.row.id \notin {e.from, e.to}
      /\ q.op = "edit node" => ~None(s, 0, Redone, q.row.id)
      /\ q.op = "delete edge" => ~None(s, 0, Erased, q.row.id)
  BY DEF Served
<1> HIDE DEF ps, qs, q, box
<1>7. NoneLost(ps, ks, r)
  <2>1. ~Lost(q, r)
    BY <1>5 DEF Lost
  <2>2. QED  BY <1>3, <2>1 DEF NoneLost, qs
<1>8. ASSUME NEW op, NEW i \in Ahead(ps, ks, op, r), i \notin Ahead(qs, ks, op, r)
      PROVE  q.op = op /\ q.row.id = i
  <2>1. PICK j \in ks : Pending(ps[j], op, r) /\ ps[j].row.id = i
    BY <1>8, AheadIs
  <2>2. ~(qs[j] = ps[j])
    BY <1>8, <2>1, AheadIs
  <2>3. ps[j] = q
    BY <1>3, <2>2
  <2>4. QED  BY <2>1, <2>3 DEF Pending
<1>9. ASSUME FitsAhead(b, box, r, nodes, edges, ps, ks) PROVE FitsAhead(b, box \o s, r, nodes', edges', qs, ks)
  <2> DEFINE x == Ahead(ps, ks, "delete node", r)  y == Ahead(ps, ks, "edit node", r)
             z == Ahead(ps, ks, "delete edge", r)
             x1 == Ahead(qs, ks, "delete node", r)  y1 == Ahead(qs, ks, "edit node", r)
             z1 == Ahead(qs, ks, "delete edge", r)
  <2>1. FitsBut(b, box, 0, r, nodes, edges, x, y, z)
    BY <1>9 DEF FitsAhead
  <2>2. \A i \in x \ x1 : ~None(s, 0, Died, i) /\ \A e \in edges' : e.from # i /\ e.to # i
    BY <1>6, <1>8
  <2>3. \A i \in y \ y1 : ~None(s, 0, Redone, i)
    BY <1>6, <1>8
  <2>4. \A i \in z \ z1 : ~None(s, 0, Erased, i)
    BY <1>6, <1>8
  <2> HIDE DEF x, y, z, x1, y1, z1
  <2>5. FitsBut(b, box \o s, 0, r, nodes', edges', x, y, z)
    BY <1>1, <1>4, <2>1, FitsAsTold
  <2>6. FitsBut(b, box \o s, 0, r, nodes', edges', x1, y1, z1)
    BY <1>4, <2>2, <2>3, <2>4, <2>5, FitsOnceTold
  <2>7. QED  BY <2>6 DEF FitsAhead, x1, y1, z1
<1>10. QED  BY <1>7, <1>9 DEF ps, qs, box

LEMMA ServedFollows ==
    ASSUME CanvasInv, NEW c \in Clients, NEW k \in Slots, request[c][k] # NoMutation, NEW s \in Queues, Served(c, k, s),
           NEW d \in Clients, NEW r \in Scenarios
    PROVE  FollowsUp(d, r)'
<1>1. CanvasTypeOK /\ OneRowAnId(nodes) /\ OneRowAnId(edges) /\ FollowsUp(d, r)
  BY DEF CanvasInv
<1>2. /\ Emit(s) /\ Tells(s, nodes, edges, nodes', edges') /\ OneRowAnId(nodes')
      /\ view' = view /\ cache' = cache /\ fetch' = fetch
  BY DEF Served
<1>3. inbox[d] \in Queues /\ Len(inbox[d]) \in Nat /\ Len(s) \in Nat /\ Len(inbox[d] \o s) = Len(inbox[d]) + Len(s)
  BY <1>1 DEF CanvasTypeOK, Queues
<1>4. /\ inbox'[d] = IF online[d] THEN inbox[d] \o s ELSE inbox[d]
      /\ missed'[d][r] = Because(missed[d][r], "offline", ~online[d])
  BY <1>1, <1>2, EmitTypes
<1>5. CASE ~online[d]
  <2>1. missed'[d][r] # Nothing
    BY <1>4, <1>5 DEF Because, Nothing
  <2>2. QED  BY <2>1 DEF FollowsUp, ReadFits, ShownFits, PreviousFits, Followed
<1>6. CASE online[d]
  <2> DEFINE box == inbox[d]
  <2>1. inbox'[d] = box \o s /\ missed'[d][r] = missed[d][r] /\ (Followed(d, r)' <=> Followed(d, r))
    BY <1>2, <1>4, <1>6 DEF Because, Followed
  <2>2. ReadFits(d, r)'
    <3>1. ASSUME fetch[d][r] # NotAsked, missed[d][r] = Nothing
          PROVE  /\ fetch[d][r].behind <= Len(box \o s)
                 /\ \A h \in 0..fetch[d][r].behind :
                       FitsBut(fetch[d][r].board, box \o s, h, r, nodes', edges', {}, {}, {})
      <4>1. fetch[d][r].board \in Boards /\ fetch[d][r].behind \in Nat
        BY <1>1, <3>1 DEF CanvasTypeOK, Reads
      <4>2. /\ fetch[d][r].behind <= Len(box)
            /\ \A h \in 0..fetch[d][r].behind : FitsBut(fetch[d][r].board, box, h, r, nodes, edges, {}, {}, {})
        BY <1>1, <3>1 DEF FollowsUp, ReadFits
      <4>3. ASSUME NEW h \in 0..fetch[d][r].behind
            PROVE  FitsBut(fetch[d][r].board, box \o s, h, r, nodes', edges', {}, {}, {})
        <5>1. h \in 0..Len(box) /\ FitsBut(fetch[d][r].board, box, h, r, nodes, edges, {}, {}, {})
          BY <1>3, <4>1, <4>2
        <5>2. QED  BY <1>1, <1>2, <1>3, <4>1, <5>1, FitsAsTold
      <4>4. QED  BY <1>3, <4>1, <4>2, <4>3
    <3>2. QED  BY <1>2, <2>1, <3>1 DEF ReadFits
  <2>3. ShownFits(d, r)'
    <3>1. SUFFICES ASSUME Followed(d, r), cache[d][r].loaded, NoneLost(request'[d], Slots, r)
          PROVE  FitsAhead(cache[d][r], box \o s, r, nodes', edges', request'[d], Slots)
      BY <1>2, <2>1 DEF ShownFits
    <3>2. cache[d][r] \in Boards
      BY <1>1 DEF CanvasTypeOK
    <3>3. NoneLost(request[d], Slots, r) => FitsAhead(cache[d][r], box, r, nodes, edges, request[d], Slots)
      BY <1>1, <3>1 DEF FollowsUp, ShownFits
    <3>4. QED  BY <1>1, <3>1, <3>2, <3>3, ServedFits
  <2>4. ASSUME NEW j \in Slots PROVE PreviousFits(d, j, r)'
    <3>1. /\ Waiting(d, j, r)' => Waiting(d, j, r)
          /\ Waiting(d, j, r)' => /\ request'[d][j].previous = request[d][j].previous
                                  /\ request'[d][j].over = request[d][j].over
                                  /\ request'[d][j].disturbed = request[d][j].disturbed
      <4>1. PICK p : /\ Done(request[c][k], p)
                     /\ request' = [request EXCEPT ![c] = [request[c] EXCEPT ![k] = p]]
        BY DEF Served, Finished
      <4>2. CASE d = c /\ j = k
        <5>1. request'[d][j] = p
          BY <1>1, <4>1, <4>2, RequestsHave DEF CanvasTypeOK
        <5>2. QED  BY <4>1, <4>2, <5>1 DEF Done, Waiting
      <4>3. CASE d # c \/ j # k
        <5>1. request'[d][j] = request[d][j]
          BY <1>1, <4>1, <4>3, RequestsHave DEF CanvasTypeOK
        <5>2. QED  BY <5>1 DEF Waiting
      <4>4. QED  BY <4>2, <4>3
    <3> DEFINE q == request[d][j]
    <3>2. SUFFICES ASSUME Followed(d, r), Waiting(d, j, r), ~q.disturbed, NoneLost(request'[d], q.over, r)
          PROVE  FitsAhead(q.previous, box \o s, r, nodes', edges', request'[d], q.over)
      BY <2>1, <3>1 DEF PreviousFits
    <3>3. q.previous \in Boards /\ q.over \in SUBSET Slots
      BY <1>1, <3>2, RequestsHave, RequestTypes DEF Waiting
    <3>4. NoneLost(request[d], q.over, r) => FitsAhead(q.previous, box, r, nodes, edges, request[d], q.over)
      BY <1>1, <3>2 DEF FollowsUp, PreviousFits
    <3> HIDE DEF q
    <3>5. QED  BY <1>1, <3>2, <3>3, <3>4, ServedFits
  <2>5. QED  BY <2>2, <2>3, <2>4 DEF FollowsUp
<1>7. QED  BY <1>5, <1>6

-------------------------------------------------------------------------------
(* Each step keeps the invariant                                            *)

LEMMA InvStill ==
    ASSUME CanvasInv, CanvasTypeOK', UNCHANGED <<nodes, edges, online, inbox>>,
           \A d \in Clients, r \in Scenarios : FollowsUp(d, r)'
    PROVE  CanvasInv'
BY DEF CanvasInv

LEMMA ServedKeeps ==
    ASSUME CanvasInv, NEW c \in Clients, NEW k \in Slots, request[c][k] # NoMutation,
           NEW s \in Queues, Served(c, k, s)
    PROVE  CanvasInv'
<1>1. CanvasTypeOK /\ OneRowAnId(nodes) /\ OneRowAnId(edges)
  BY DEF CanvasInv
<1>2. /\ Emit(s) /\ Tells(s, nodes, edges, nodes', edges')
      /\ nodes' \in SUBSET Node /\ edges' \in SUBSET Edge /\ OneRowAnId(nodes') /\ OneRowAnId(edges')
      /\ Finished(c, k) /\ UNCHANGED <<view, cache, fetch, online>>
  BY DEF Served
<1>3. /\ inbox' \in [Clients -> Queues] /\ missed' \in [Clients -> [Scenarios -> Causes]]
      /\ \A d \in Clients : inbox'[d] = IF online[d] THEN inbox[d] \o s ELSE inbox[d]
  BY <1>1, <1>2, EmitTypes
<1>4. CanvasTypeOK'
  <2>1. PICK p : Done(request[c][k], p) /\ request' = [request EXCEPT ![c] = [request[c] EXCEPT ![k] = p]]
    BY <1>2 DEF Finished
  <2>2. Sound(request[c][k], k)
    BY <1>1, RequestsHave
  <2>3. p \in Requests /\ Sound(p, k)
    BY <2>1, <2>2 DEF Done, Sound
  <2>4. request' \in [Clients -> Mutations]
    BY <1>1, <2>1, <2>3, RequestPut
  <2>5. QED  BY <1>1, <1>2, <1>3, <2>4 DEF CanvasTypeOK
<1>5. ASSUME NEW d \in Clients PROVE NodesTold(inbox'[d], nodes') /\ EdgesTold(inbox'[d], edges')
  <2>1. inbox[d] \in Queues /\ NodesTold(inbox[d], nodes) /\ EdgesTold(inbox[d], edges)
    BY <1>1 DEF CanvasInv, CanvasTypeOK
  <2>2. CASE online[d]
    <3>1. inbox'[d] = inbox[d] \o s
      BY <1>3, <2>2
    <3>2. NodesTold(inbox[d] \o s, nodes')
      BY <1>1, <1>2, <2>1, NodesToldOfConcat DEF Tells
    <3>3. EdgesTold(inbox[d] \o s, edges')
      <4>1. /\ \A i \in 1..MaxEdge : TellsEdge(s, edges, edges', i)
            /\ \A p \in 1..Len(s) : s[p].type \in Died => \A e \in edges' : s[p].row.id \notin {e.from, e.to}
        BY <1>2 DEF Tells
      <4>2. QED  BY <1>2, <2>1, <4>1, EdgesToldOfConcat
    <3>4. QED  BY <3>1, <3>2, <3>3
  <2>3. CASE ~online[d]
    <3>1. inbox'[d] = <<>>
      BY <1>3, <2>3 DEF CanvasInv
    <3>2. QED  BY <3>1 DEF NodesTold, EdgesTold
  <2>4. QED  BY <2>2, <2>3
<1>6. \A d \in Clients : ~online'[d] => inbox'[d] = <<>>
  BY <1>2, <1>3 DEF CanvasInv
<1>7. \A d \in Clients, r \in Scenarios : FollowsUp(d, r)'
  BY ServedFollows
<1>8. QED  BY <1>2, <1>4, <1>5, <1>6, <1>7 DEF CanvasInv

LEMMA RefusedKeeps ==
    ASSUME CanvasInv, NEW c \in Clients, NEW k \in Slots, request[c][k] # NoMutation, Refused(c, k)
    PROVE  CanvasInv'
<1>1. CanvasTypeOK /\ Answer(c, k, "refused")
      /\ UNCHANGED <<nodes, edges, view, cache, fetch, online, inbox, missed>>
  BY DEF CanvasInv, Refused
<1>2. PICK q \in Requests : q = request[c][k]
  BY <1>1, RequestsHave
<1>3. PICK p : p = [q EXCEPT !.at = "refused"]
  OBVIOUS
<1>4. /\ request' \in [Clients -> Mutations] /\ request'[c][k] = p
      /\ \A d \in Clients \ {c} : request'[d] = request[d]
      /\ \A j \in Slots \ {k} : request'[c][j] = request[c][j]
  BY <1>1, <1>2, <1>3, AnswerTypes DEF Stages
<1>5. /\ p.at = "refused" /\ p.op = q.op /\ p.range = q.range /\ p.previous = q.previous /\ p.over = q.over
      /\ p.disturbed = q.disturbed
  BY <1>3, RequestAnswered DEF Stages
<1>6. CanvasTypeOK'
  BY <1>1, <1>4 DEF CanvasTypeOK
<1>7. ASSUME NEW d \in Clients, NEW r \in Scenarios PROVE FollowsUp(d, r)'
  <2>1. FollowsUp(d, r)
    BY DEF CanvasInv
  <2>2. CASE d # c
    BY <1>1, <1>4, <2>1, <2>2, FollowsStill
  <2>3. CASE d = c
    <3>1. Goes(q, p, r)
      BY <1>5 DEF Goes, Lost, Pending, Optimistic, AheadOps
    <3>2. ASSUME NEW j \in Slots PROVE Goes(request[c][j], request'[c][j], r)
      <4>1. CASE j = k
        BY <1>2, <1>4, <3>1, <4>1
      <4>2. CASE j # k
        BY <1>4, <4>2 DEF Goes
      <4>3. QED  BY <4>1, <4>2
    <3>3. ASSUME NEW j \in Slots, Waiting(c, j, r)', ~request'[c][j].disturbed PROVE Kept(c, j, r)
      <4>1. CASE j = k
        BY <1>2, <1>4, <1>5, <3>3, <4>1 DEF Kept, Waiting
      <4>2. CASE j # k
        BY <1>4, <3>3, <4>2 DEF Kept, Waiting
      <4>3. QED  BY <4>1, <4>2
    <3>4. QED  BY <1>1, <2>1, <2>3, <3>2, <3>3, FollowsOn
  <2>4. QED  BY <2>2, <2>3
<1>8. QED  BY <1>1, <1>6, <1>7, InvStill

LEMMA SwitchKeeps ==
    ASSUME CanvasInv, UNCHANGED <<nodes, edges, view, cache, fetch, request, online, inbox, missed>>
    PROVE  CanvasInv'
<1>1. CanvasTypeOK'
  BY DEF CanvasInv, CanvasTypeOK
<1>2. \A d \in Clients, r \in Scenarios : FollowsUp(d, r)'
  BY FollowsStill DEF CanvasInv
<1>3. QED  BY <1>1, <1>2, InvStill

LEMMA HideKeeps ==
    ASSUME CanvasInv, NEW c \in Clients, Hide(c)
    PROVE  CanvasInv'
<1>1. /\ CanvasTypeOK /\ view' = [view EXCEPT ![c] = Hidden]
      /\ UNCHANGED <<nodes, edges, cache, fetch, request, online, inbox, missed>>
  BY DEF CanvasInv, Hide, server
<1>2. view'[c].range = NoRange /\ \A d \in Clients \ {c} : view'[d] = view[d]
  BY <1>1 DEF CanvasTypeOK, Hidden
<1>3. CanvasTypeOK'
  BY <1>1 DEF CanvasTypeOK, Hidden
<1>4. ASSUME NEW d \in Clients, NEW r \in Scenarios PROVE FollowsUp(d, r)'
  <2>1. FollowsUp(d, r)
    BY DEF CanvasInv
  <2>2. CASE d # c
    BY <1>1, <1>2, <2>1, <2>2, FollowsStill
  <2>3. CASE d = c
    <3>1. ~Followed(d, r)'
      BY <1>2, <2>3, CanvasAssumption DEF Followed
    <3>2. ReadFits(d, r)'
      BY <1>1, <2>1 DEF FollowsUp, ReadFits
    <3>3. QED  BY <3>1, <3>2 DEF FollowsUp, ShownFits, PreviousFits
  <2>4. QED  BY <2>2, <2>3
<1>5. QED  BY <1>1, <1>3, <1>4, InvStill

LEMMA ShowKeeps ==
    ASSUME CanvasInv, NEW c \in Clients, NEW r \in Scenarios, Show(c, r)
    PROVE  CanvasInv'
<1>1. /\ CanvasTypeOK /\ view' = [view EXCEPT ![c] = [range |-> r, editable |-> c \in Authors /\ r = active]]
      /\ UNCHANGED <<nodes, edges, cache, request, online, inbox>>
  BY DEF CanvasInv, Show, server
<1>2. view'[c].range = r /\ \A d \in Clients \ {c} : view'[d] = view[d]
  BY <1>1 DEF CanvasTypeOK
<1>3. view' \in [Clients -> [range : Scenarios \cup {NoRange}, editable : BOOLEAN]]
      /\ \A d \in Clients : view'[d].range = NoRange => ~view'[d].editable
  BY <1>1, CanvasAssumption DEF CanvasTypeOK
<1>4. CASE fetch[c][r] # NotAsked
  <2>1. UNCHANGED <<fetch, missed>>
    BY <1>4 DEF Show
  <2>2. CanvasTypeOK'
    BY <1>1, <1>3, <2>1 DEF CanvasTypeOK
  <2>3. ASSUME NEW d \in Clients, NEW q \in Scenarios PROVE FollowsUp(d, q)'
    <3>1. FollowsUp(d, q)
      BY DEF CanvasInv
    <3>2. CASE d # c
      BY <1>1, <1>2, <2>1, <3>1, <3>2, FollowsStill
    <3>3. CASE d = c
      <4>1. ~Followed(d, q)'
        BY <1>2, <1>4, <2>1, <3>3 DEF Followed
      <4>2. ReadFits(d, q)'
        BY <1>1, <2>1, <3>1 DEF FollowsUp, ReadFits
      <4>3. QED  BY <4>1, <4>2 DEF FollowsUp, ShownFits, PreviousFits
    <3>4. QED  BY <3>2, <3>3
  <2>4. QED  BY <1>1, <2>2, <2>3, InvStill
<1>5. CASE fetch[c][r] = NotAsked
  <2> DEFINE read == [at |-> "read", board |-> Board(r), behind |-> Len(inbox[c])]
  <2>1. fetch' = [fetch EXCEPT ![c][r] = read] /\ missed' = [missed EXCEPT ![c][r] = Nothing]
    BY <1>5 DEF Show
  <2>2. read \in Reads /\ read # NotAsked
    <3>1. Board(r) \in Boards /\ Len(inbox[c]) \in Nat
      BY <1>1 DEF CanvasTypeOK, Board, Boards, Queues
    <3>2. QED  BY <3>1 DEF Reads, NotAsked
  <2>3. read.behind = Len(inbox[c]) /\ read.board = Board(r) /\ Len(inbox[c]) \in Nat
    BY <1>1 DEF CanvasTypeOK, Queues
  <2> HIDE DEF read
  <2>4. /\ fetch'[c][r] = read
        /\ \A d \in Clients, q \in Scenarios : d # c \/ q # r
              => fetch'[d][q] = fetch[d][q] /\ missed'[d][q] = missed[d][q]
    BY <1>1, <2>1 DEF CanvasTypeOK
  <2>5. CanvasTypeOK'
    <3>1. fetch' \in [Clients -> [Scenarios -> Reads \cup {NotAsked}]]
      BY <1>1, <2>1, <2>2 DEF CanvasTypeOK
    <3>2. missed' \in [Clients -> [Scenarios -> Causes]]
      BY <1>1, <2>1 DEF CanvasTypeOK, Causes
    <3>3. QED  BY <1>1, <1>3, <3>1, <3>2 DEF CanvasTypeOK
  <2>6. ASSUME NEW d \in Clients, NEW q \in Scenarios PROVE FollowsUp(d, q)'
    <3>1. FollowsUp(d, q)
      BY DEF CanvasInv
    <3>2. CASE d # c
      BY <1>1, <1>2, <2>4, <3>1, <3>2, FollowsStill
    <3>3. CASE d = c /\ q # r
      <4>1. ~Followed(d, q)'
        BY <1>2, <3>3 DEF Followed
      <4>2. ReadFits(d, q)'
        BY <1>1, <2>4, <3>1, <3>3 DEF FollowsUp, ReadFits
      <4>3. QED  BY <4>1, <4>2, Zenon DEF FollowsUp, ShownFits, PreviousFits
    <3>4. CASE d = c /\ q = r
      <4>1. ~Followed(d, q)'
        BY <2>2, <2>4, <3>4 DEF Followed
      <4>2. ReadFits(d, q)'
        <5>1. \A h : FitsBut(Board(r), inbox[c], h, r, nodes, edges, {}, {}, {})
          BY BoardFits DEF CanvasInv
        <5>2. QED  BY <1>1, <2>3, <2>4, <3>4, <5>1 DEF ReadFits
      <4>3. QED  BY <4>1, <4>2, Zenon DEF FollowsUp, ShownFits, PreviousFits
    <3>5. QED  BY <3>2, <3>3, <3>4
  <2>7. QED  BY <1>1, <2>5, <2>6, InvStill
<1>6. QED  BY <1>4, <1>5

\* the mutations ks have the board they remember changed under them
LEMMA DisturbedIs ==
    ASSUME NEW qs \in Mutations, NEW ks \in SUBSET Slots, \A k \in ks : qs[k] # NoMutation
    PROVE  /\ Disturbed(qs, ks) \in Mutations
           /\ \A k \in Slots \ ks : Disturbed(qs, ks)[k] = qs[k]
           /\ \A k \in ks : LET p == Disturbed(qs, ks)[k] IN
                 /\ p.disturbed /\ p.at = qs[k].at /\ p.op = qs[k].op /\ p.range = qs[k].range /\ p.row = qs[k].row
<1>1. qs \in [Slots -> Requests \cup {NoMutation}] /\ \A k \in Slots : qs[k] # NoMutation => Sound(qs[k], k)
  BY DEF Mutations
<1> DEFINE ds == Disturbed(qs, ks)
<1>2. /\ ds = [k \in Slots |-> ds[k]]
      /\ \A k \in Slots \ ks : ds[k] = qs[k]
      /\ \A k \in ks : ds[k] = [qs[k] EXCEPT !.disturbed = TRUE]
  BY DEF Disturbed
<1> HIDE DEF ds
<1>3. ASSUME NEW k \in ks
      PROVE  /\ ds[k] \in Requests /\ Sound(ds[k], k)
             /\ ds[k].disturbed /\ ds[k].at = qs[k].at /\ ds[k].op = qs[k].op /\ ds[k].range = qs[k].range
             /\ ds[k].row = qs[k].row
  <2>1. PICK q \in Requests : q = qs[k] /\ Sound(q, k)
    BY <1>1
  <2>2. PICK p : p = [q EXCEPT !.disturbed = TRUE]
    OBVIOUS
  <2>3. /\ p \in Requests /\ p.op = q.op /\ p.range = q.range /\ p.row = q.row
        /\ p.at = q.at /\ p.over = q.over /\ p.disturbed
    BY <2>2, RequestDisturbed
  <2>4. Sound(p, k)
    BY <2>1, <2>3 DEF Sound, Optimistic
  <2>5. QED  BY <1>2, <2>1, <2>2, <2>3, <2>4
<1>4. ds \in Mutations
  <2>1. \A k \in Slots : ds[k] \in Requests \cup {NoMutation} /\ (ds[k] # NoMutation => Sound(ds[k], k))
    BY <1>1, <1>2, <1>3
  <2>2. ds \in [Slots -> Requests \cup {NoMutation}]
    BY <1>2, <2>1
  <2>3. QED  BY <2>1, <2>2 DEF Mutations
<1>5. QED  BY <1>2, <1>3, <1>4 DEF ds

\* the board of scenario r changes under the mutations of c
LEMMA DisturbedRequests ==
    ASSUME CanvasTypeOK, NEW c \in Clients, NEW r, request' = [request EXCEPT ![c] = Disturbed(request[c], On(c, r))]
    PROVE  /\ request' \in [Clients -> Mutations]
           /\ \A d \in Clients \ {c} : request'[d] = request[d]
           /\ \A k \in Slots : ~Waiting(c, k, r) => request'[c][k] = request[c][k]
           /\ \A k \in Slots : Waiting(c, k, r) => request'[c][k].disturbed
           /\ \A k \in Slots : \A s : Goes(request[c][k], request'[c][k], s) /\ Goes(request'[c][k], request[c][k], s)
<1> DEFINE qs == request[c]  ks == On(c, r)  ds == Disturbed(qs, ks)
<1>1. qs \in Mutations
  BY DEF CanvasTypeOK
<1>2. ks \in SUBSET Slots /\ \A k \in Slots : k \in ks <=> qs[k] # NoMutation /\ qs[k].range = r
  BY DEF On
<1> HIDE DEF qs, ks
<1>3. /\ ds \in Mutations
      /\ \A k \in Slots \ ks : ds[k] = qs[k]
      /\ \A k \in ks : /\ ds[k].disturbed /\ ds[k].at = qs[k].at /\ ds[k].op = qs[k].op /\ ds[k].range = qs[k].range
                       /\ ds[k].row = qs[k].row
  BY <1>1, <1>2, DisturbedIs
<1>4. request' = [request EXCEPT ![c] = ds]
  BY DEF qs, ks
<1> HIDE DEF ds
<1>5. /\ request' \in [Clients -> Mutations] /\ request'[c] = ds
      /\ \A d \in Clients \ {c} : request'[d] = request[d]
  BY <1>3, <1>4, RequestsPut
<1>6. ASSUME NEW k \in Slots, NEW s PROVE Goes(qs[k], ds[k], s) /\ Goes(ds[k], qs[k], s)
  <2>1. CASE k \in ks
    BY <1>3, <2>1 DEF Goes, Lost, Pending, Optimistic
  <2>2. CASE k \notin ks
    BY <1>3, <2>2 DEF Goes
  <2>3. QED  BY <2>1, <2>2
<1>7. QED  BY <1>2, <1>3, <1>5, <1>6 DEF Waiting, qs

LEMMA TakeReadKeeps ==
    ASSUME CanvasInv, NEW c \in Clients, NEW r \in Scenarios, TakeRead(c, r)
    PROVE  CanvasInv'
<1>1. /\ CanvasTypeOK /\ fetch[c][r].at = "read"
      /\ cache' = [cache EXCEPT ![c][r] = fetch[c][r].board]
      /\ fetch' = [fetch EXCEPT ![c][r] = NotAsked]
      /\ request' = [request EXCEPT ![c] = Disturbed(request[c], On(c, r))]
      /\ UNCHANGED <<nodes, edges, view, online, inbox, missed>>
  BY DEF CanvasInv, TakeRead, server
<1>2. fetch[c][r] # NotAsked /\ fetch[c][r] \in Reads
  BY <1>1 DEF CanvasTypeOK, NotAsked
<1>3. /\ cache'[c][r] = fetch[c][r].board /\ fetch'[c][r] = NotAsked
      /\ \A d \in Clients, q \in Scenarios : d # c \/ q # r
            => cache'[d][q] = cache[d][q] /\ fetch'[d][q] = fetch[d][q]
  BY <1>1 DEF CanvasTypeOK
<1>4. /\ request' \in [Clients -> Mutations]
      /\ \A d \in Clients \ {c} : request'[d] = request[d]
      /\ \A k \in Slots : ~Waiting(c, k, r) => request'[c][k] = request[c][k]
      /\ \A k \in Slots : Waiting(c, k, r) => request'[c][k].disturbed
      /\ \A k \in Slots : \A s : Goes(request[c][k], request'[c][k], s)
  BY <1>1, DisturbedRequests
<1>5. CanvasTypeOK'
  <2>1. cache' \in [Clients -> [Scenarios -> Boards]]
    BY <1>1, <1>2 DEF CanvasTypeOK, Reads
  <2>2. fetch' \in [Clients -> [Scenarios -> Reads \cup {NotAsked}]]
    BY <1>1 DEF CanvasTypeOK
  <2>3. QED  BY <1>1, <1>4, <2>1, <2>2 DEF CanvasTypeOK
<1>6. ASSUME NEW d \in Clients, NEW q \in Scenarios PROVE FollowsUp(d, q)'
  <2>1. FollowsUp(d, q)
    BY DEF CanvasInv
  <2>2. CASE d # c
    BY <1>1, <1>3, <1>4, <2>1, <2>2, FollowsStill
  <2>3. CASE d = c /\ q # r
    <3>1. ASSUME NEW k \in Slots, Waiting(c, k, q)', ~request'[c][k].disturbed PROVE Kept(c, k, q)
      <4>1. request'[c][k] = request[c][k]
        BY <1>4, <3>1
      <4>2. QED  BY <3>1, <4>1 DEF Kept, Waiting
    <3>2. \A k \in Slots : Goes(request[c][k], request'[c][k], q)
      BY <1>4
    <3>3. /\ cache'[c][q] = cache[c][q] /\ fetch'[c][q] = fetch[c][q] /\ missed'[c][q] = missed[c][q]
          /\ view'[c] = view[c] /\ inbox'[c] = inbox[c] /\ UNCHANGED <<nodes, edges>>
      BY <1>1, <1>3, <2>3
    <3>4. QED  BY <1>1, <2>1, <2>3, <3>1, <3>2, <3>3, FollowsOn
  <2>4. CASE d = c /\ q = r
    <3>1. ReadFits(d, q)'
      BY <1>3, <2>4 DEF ReadFits
    <3>2. ASSUME NEW k \in Slots PROVE PreviousFits(d, k, q)'
      <4>1. Waiting(c, k, r)' => request'[c][k].disturbed
        BY <1>4 DEF Waiting
      <4>2. QED  BY <2>4, <4>1 DEF PreviousFits
    <3>3. ASSUME missed[c][r] = Nothing
          PROVE  FitsAhead(cache'[c][r], inbox[c], r, nodes, edges, request'[c], Slots)
      <4>1. 0 \in 0..fetch[c][r].behind
        BY <1>2 DEF Reads
      <4>2. FitsBut(fetch[c][r].board, inbox[c], 0, r, nodes, edges, {}, {}, {})
        BY <1>2, <2>1, <2>4, <3>3, <4>1 DEF FollowsUp, ReadFits
      <4> DEFINE x == Ahead(request'[c], Slots, "delete node", r)  y == Ahead(request'[c], Slots, "edit node", r)
                 z == Ahead(request'[c], Slots, "delete edge", r)
      <4>3. FitsBut(cache'[c][r], inbox[c], 0, r, nodes, edges, x, y, z)
        <5> HIDE DEF x, y, z
        <5>1. QED  BY <1>3, <4>2, FitsMore
      <4>4. QED  BY <4>3 DEF FitsAhead
    <3>4. ShownFits(d, q)'
      BY <1>1, <2>4, <3>3 DEF ShownFits, Followed
    <3>5. QED  BY <3>1, <3>2, <3>4 DEF FollowsUp
  <2>5. QED  BY <2>2, <2>3, <2>4
<1>7. QED  BY <1>1, <1>5, <1>6, InvStill

LEMMA LoseReadKeeps ==
    ASSUME CanvasInv, NEW c \in Clients, NEW r \in Scenarios, LoseRead(c, r)
    PROVE  CanvasInv'
<1>1. /\ CanvasTypeOK
      /\ fetch' = [fetch EXCEPT ![c][r] = NotAsked]
      /\ missed' = [missed EXCEPT ![c][r] = "no answer"]
      /\ UNCHANGED <<nodes, edges, view, cache, request, online, inbox>>
  BY DEF CanvasInv, LoseRead, server
<1>2. /\ missed'[c][r] # Nothing
      /\ \A d \in Clients, q \in Scenarios : d # c \/ q # r
            => missed'[d][q] = missed[d][q] /\ fetch'[d][q] = fetch[d][q]
  BY <1>1 DEF CanvasTypeOK, Nothing
<1>3. CanvasTypeOK'
  <2>1. fetch' \in [Clients -> [Scenarios -> Reads \cup {NotAsked}]]
    BY <1>1 DEF CanvasTypeOK
  <2>2. missed' \in [Clients -> [Scenarios -> Causes]]
    BY <1>1 DEF CanvasTypeOK, Causes
  <2>3. QED  BY <1>1, <2>1, <2>2 DEF CanvasTypeOK
<1>4. ASSUME NEW d \in Clients, NEW q \in Scenarios PROVE FollowsUp(d, q)'
  <2>1. FollowsUp(d, q)
    BY DEF CanvasInv
  <2>2. CASE d # c \/ q # r
    BY <1>1, <1>2, <2>1, <2>2, FollowsStill
  <2>3. CASE d = c /\ q = r
    BY <1>2, <2>3 DEF FollowsUp, ReadFits, ShownFits, PreviousFits, Followed
  <2>4. QED  BY <2>2, <2>3
<1>5. QED  BY <1>1, <1>3, <1>4, InvStill

LEMMA ReconnectKeeps ==
    ASSUME CanvasInv, NEW c \in Clients, Reconnect(c)
    PROVE  CanvasInv'
<1>1. /\ CanvasTypeOK /\ online' = [online EXCEPT ![c] = TRUE]
      /\ UNCHANGED <<nodes, edges, view, cache, fetch, request, inbox, missed>>
  BY DEF CanvasInv, Reconnect, server
<1>2. CanvasTypeOK'
  BY <1>1 DEF CanvasTypeOK
<1>3. \A d \in Clients : ~online'[d] => inbox[d] = <<>>
  BY <1>1 DEF CanvasInv, CanvasTypeOK
<1>4. \A d \in Clients, r \in Scenarios : FollowsUp(d, r)'
  BY <1>1, FollowsStill DEF CanvasInv
<1>5. QED  BY <1>1, <1>2, <1>3, <1>4 DEF CanvasInv

LEMMA DisconnectKeeps ==
    ASSUME CanvasInv, NEW c \in Clients, Disconnect(c)
    PROVE  CanvasInv'
<1>1. /\ CanvasTypeOK /\ online' = [online EXCEPT ![c] = FALSE] /\ inbox' = [inbox EXCEPT ![c] = <<>>]
      /\ missed' = [missed EXCEPT ![c] = [r \in Scenarios |-> Because(missed[c][r], "offline", inbox[c] # <<>>)]]
      /\ UNCHANGED <<nodes, edges, view, cache, fetch, request>>
  BY DEF CanvasInv, Disconnect, server
<1>2. /\ inbox'[c] = <<>> /\ \A d \in Clients \ {c} : inbox'[d] = inbox[d] /\ missed'[d] = missed[d]
      /\ \A r \in Scenarios : missed'[c][r] = Because(missed[c][r], "offline", inbox[c] # <<>>)
  BY <1>1 DEF CanvasTypeOK
<1>3. CanvasTypeOK'
  <2>1. <<>> \in Queues
    BY DEF Queues
  <2>2. \A r \in Scenarios : Because(missed[c][r], "offline", inbox[c] # <<>>) \in Causes
    BY <1>1 DEF CanvasTypeOK, Because, Causes
  <2>3. inbox' \in [Clients -> Queues] /\ missed' \in [Clients -> [Scenarios -> Causes]]
    BY <1>1, <2>1, <2>2 DEF CanvasTypeOK
  <2>4. QED  BY <1>1, <2>3 DEF CanvasTypeOK
<1>4. \A d \in Clients : ~online'[d] => inbox'[d] = <<>>
  BY <1>1, <1>2 DEF CanvasInv, CanvasTypeOK
<1>5. ASSUME NEW d \in Clients PROVE NodesTold(inbox'[d], nodes') /\ EdgesTold(inbox'[d], edges')
  <2>1. CASE d = c
    BY <1>2, <2>1 DEF NodesTold, EdgesTold
  <2>2. CASE d # c
    BY <1>1, <1>2, <2>2 DEF CanvasInv
  <2>3. QED  BY <2>1, <2>2
<1>6. ASSUME NEW d \in Clients, NEW r \in Scenarios PROVE FollowsUp(d, r)'
  <2>1. FollowsUp(d, r)
    BY DEF CanvasInv
  <2>2. CASE d # c
    BY <1>1, <1>2, <2>1, <2>2, FollowsStill
  <2>3. CASE d = c /\ inbox[c] = <<>>
    <3>1. missed'[c][r] = missed[c][r]
      BY <1>2, <2>3 DEF Because
    <3>2. QED  BY <1>1, <1>2, <2>1, <2>3, <3>1, FollowsStill
  <2>4. CASE d = c /\ inbox[c] # <<>>
    <3>1. missed'[c][r] # Nothing
      BY <1>2, <2>4 DEF Because, Nothing
    <3>2. QED  BY <2>4, <3>1 DEF FollowsUp, ReadFits, ShownFits, PreviousFits, Followed
  <2>5. QED  BY <2>2, <2>3, <2>4
<1>7. QED  BY <1>1, <1>3, <1>4, <1>5, <1>6 DEF CanvasInv

LEMMA BoardTypes ==
    ASSUME NEW b \in Boards
    PROVE  /\ \A n \in Node : AddNode(b, n) \in Boards /\ PutNode(b, n) \in Boards
           /\ \A e \in Edge : AddEdge(b, e) \in Boards
           /\ \A i : DropNode(b, i) \in Boards /\ DropEdge(b, i) \in Boards
<1>1. \A n \in Node : AddNode(b, n) \in Boards /\ PutNode(b, n) \in Boards
  BY DEF Boards, AddNode, PutNode
<1>2. \A e \in Edge : AddEdge(b, e) \in Boards
  BY DEF Boards, AddEdge
<1>3. \A i : DropNode(b, i) \in Boards /\ DropEdge(b, i) \in Boards
  BY DEF Boards, DropNode, DropEdge
<1>4. QED  BY <1>1, <1>2, <1>3

LEMMA BoardLoaded ==
    ASSUME NEW b \in Boards
    PROVE  /\ \A n : AddNode(b, n).loaded = b.loaded /\ PutNode(b, n).loaded = b.loaded
           /\ \A e : AddEdge(b, e).loaded = b.loaded
           /\ \A i : DropNode(b, i).loaded = b.loaded /\ DropEdge(b, i).loaded = b.loaded
<1>1. \A n : AddNode(b, n).loaded = b.loaded /\ PutNode(b, n).loaded = b.loaded
  BY DEF Boards, AddNode, PutNode
<1>2. \A e : AddEdge(b, e).loaded = b.loaded
  BY DEF Boards, AddEdge
<1>3. \A i : DropNode(b, i).loaded = b.loaded /\ DropEdge(b, i).loaded = b.loaded
  BY DEF Boards, DropNode, DropEdge
<1>4. QED  BY <1>1, <1>2, <1>3

LEMMA HandleTypes ==
    ASSUME NEW b \in Boards, NEW ev \in NodeEvents \cup EdgeEvents
    PROVE  Handle(b, ev) \in Boards /\ Handle(b, ev).loaded = b.loaded
<1>1. CASE ev \in NodeEvents
  <2>1. ev.type \in {"node_created", "node_updated", "node_deleted"} /\ ev.row \in Node
    BY <1>1 DEF NodeEvents
  <2>2. Handle(b, ev) \in {AddNode(b, ev.row), PutNode(b, ev.row), DropNode(b, ev.row.id)}
    BY <2>1 DEF Handle
  <2>3. QED  BY <2>1, <2>2, BoardTypes, BoardLoaded
<1>2. CASE ev \in EdgeEvents
  <2>1. ev.type \in {"edge_created", "edge_deleted"} /\ ev.row \in Edge
    BY <1>2 DEF EdgeEvents
  <2>2. Handle(b, ev) \in {AddEdge(b, ev.row), DropEdge(b, ev.row.id)}
    BY <2>1 DEF Handle
  <2>3. QED  BY <2>1, <2>2, BoardTypes, BoardLoaded
<1>3. QED  BY <1>1, <1>2

LEMMA ReceiveKeeps ==
    ASSUME CanvasInv, NEW c \in Clients, Receive(c)
    PROVE  CanvasInv'
<1> DEFINE box == inbox[c]  ev == Head(box)  r == view[c].range
<1>0. CanvasTypeOK /\ inbox' = [inbox EXCEPT ![c] = Tail(box)] /\ box # <<>>
  BY DEF CanvasInv, Receive
<1>1. UNCHANGED <<nodes, edges, view, online>>
  BY DEF Receive, server
<1>2. /\ box \in Queues /\ Len(box) \in Nat /\ Tail(box) \in Queues /\ Len(Tail(box)) = Len(box) - 1
      /\ ev = box[1] /\ 1 \in 1..Len(box) /\ ev \in NodeEvents \cup EdgeEvents
  <2>1. box \in Queues
    BY <1>0 DEF CanvasTypeOK
  <2> HIDE DEF box
  <2>2. QED  BY <1>0, <2>1 DEF Queues
<1>3. inbox'[c] = Tail(box) /\ inbox' \in [Clients -> Queues] /\ \A d \in Clients \ {c} : inbox'[d] = inbox[d]
  BY <1>0, <1>2 DEF CanvasTypeOK
<1>4. ASSUME NEW q \in Scenarios
      PROVE  /\ missed'[c][q] \in Causes
             /\ missed'[c][q] = Nothing => missed[c][q] = Nothing /\ ~Overtaken(c, q) /\ ~Foreign(c, q, ev)
  <2>1. missed[c][q] \in Causes
    BY <1>0 DEF CanvasTypeOK
  <2>2. missed'[c][q] = Because(Because(missed[c][q], "overtaken", Overtaken(c, q)), "other scenario", Foreign(c, q, ev))
    BY <1>0 DEF CanvasTypeOK, Receive
  <2>3. QED  BY <2>1, <2>2 DEF Because, Causes, Nothing
<1>5. ASSUME NEW q \in Scenarios
      PROVE  /\ fetch'[c][q] \in Reads \cup {NotAsked}
             /\ fetch'[c][q] = NotAsked <=> fetch[c][q] = NotAsked
             /\ fetch[c][q] # NotAsked /\ ~Overtaken(c, q) =>
                  /\ fetch[c][q].behind \in Nat /\ fetch[c][q].behind > 0
                  /\ fetch'[c][q].board = fetch[c][q].board
                  /\ fetch'[c][q].behind = fetch[c][q].behind - 1
  <2> DEFINE f == fetch[c][q]
  <2>1. fetch'[c][q] = Heard(f)
    BY <1>0 DEF CanvasTypeOK, Receive
  <2>2. CASE f = NotAsked
    <3>1. f.at # "read"
      BY <2>2 DEF NotAsked
    <3>2. QED  BY <2>1, <2>2, <3>1 DEF Heard
  <2>3. CASE f \in Reads
    <3>1. f.at = "read" /\ f.behind \in Nat /\ f # NotAsked
      BY <2>3 DEF Reads, NotAsked
    <3>2. CASE f.behind = 0
      <4>1. fetch'[c][q] = f /\ Overtaken(c, q)
        BY <2>1, <3>1, <3>2 DEF Overtaken, Heard
      <4>2. QED  BY <2>3, <3>1, <4>1
    <3>3. CASE f.behind > 0
      <4>1. fetch'[c][q] = [f EXCEPT !.behind = f.behind - 1]
        BY <2>1, <3>1, <3>3 DEF Heard
      <4>2. f.behind - 1 \in Nat
        BY <3>1, <3>3
      <4>3. /\ fetch'[c][q] \in Reads /\ fetch'[c][q].board = f.board /\ fetch'[c][q].behind = f.behind - 1
            /\ fetch'[c][q].at = "read"
        BY <2>3, <4>1, <4>2 DEF Reads
      <4>4. fetch'[c][q] # NotAsked
        BY <4>3 DEF NotAsked
      <4>5. QED  BY <3>1, <3>3, <4>3, <4>4
    <3>4. QED  BY <3>1, <3>2, <3>3
  <2>4. f \in Reads \cup {NotAsked}
    BY <1>0 DEF CanvasTypeOK
  <2>5. QED  BY <2>2, <2>3, <2>4
<1>6. \A d \in Clients \ {c} : fetch'[d] = fetch[d] /\ missed'[d] = missed[d]
  BY <1>0 DEF CanvasTypeOK, Receive
<1>7. fetch' \in [Clients -> [Scenarios -> Reads \cup {NotAsked}]] /\ missed' \in [Clients -> [Scenarios -> Causes]]
  <2>1. /\ fetch' = [fetch EXCEPT ![c] = fetch'[c]] /\ DOMAIN fetch'[c] = Scenarios
        /\ fetch'[c] = [q \in Scenarios |-> fetch'[c][q]]
        /\ missed' = [missed EXCEPT ![c] = missed'[c]] /\ missed'[c] = [q \in Scenarios |-> missed'[c][q]]
    BY <1>0 DEF CanvasTypeOK, Receive
  <2>2. fetch'[c] \in [Scenarios -> Reads \cup {NotAsked}] /\ missed'[c] \in [Scenarios -> Causes]
    BY <1>4, <1>5, <2>1
  <2>3. QED  BY <1>0, <2>1, <2>2 DEF CanvasTypeOK
<1>8. ASSUME NEW d \in Clients PROVE NodesTold(inbox'[d], nodes') /\ EdgesTold(inbox'[d], edges')
  <2>1. NodesTold(inbox[d], nodes) /\ EdgesTold(inbox[d], edges)
    BY DEF CanvasInv
  <2>2. CASE d # c
    BY <1>1, <1>3, <2>1, <2>2
  <2>3. CASE d = c
    <3>1. NodesTold(Tail(box), nodes) /\ EdgesTold(Tail(box), edges)
      BY <1>0, <1>2, <2>1, <2>3, NodesToldOfTail, EdgesToldOfTail
    <3>2. QED  BY <1>1, <1>3, <2>3, <3>1
  <2>4. QED  BY <2>2, <2>3
<1>9. \A d \in Clients : ~online'[d] => inbox'[d] = <<>>
  BY <1>0, <1>1, <1>3 DEF CanvasInv
<1>10. ASSUME NEW q \in Scenarios PROVE ReadFits(c, q)'
  <2>1. ASSUME fetch'[c][q] # NotAsked, missed'[c][q] = Nothing
        PROVE  /\ fetch'[c][q].behind <= Len(Tail(box))
               /\ \A h \in 0..fetch'[c][q].behind :
                     FitsBut(fetch'[c][q].board, Tail(box), h, q, nodes, edges, {}, {}, {})
    <3>1. /\ fetch[c][q] # NotAsked /\ missed[c][q] = Nothing
          /\ fetch[c][q].behind \in Nat /\ fetch'[c][q].board = fetch[c][q].board
          /\ fetch'[c][q].behind = fetch[c][q].behind - 1
      BY <1>4, <1>5, <2>1
    <3>2. /\ fetch[c][q].behind <= Len(box)
          /\ \A h \in 0..fetch[c][q].behind : FitsBut(fetch[c][q].board, box, h, q, nodes, edges, {}, {}, {})
      BY <3>1 DEF CanvasInv, FollowsUp, ReadFits
    <3>3. ASSUME NEW h \in 0..fetch'[c][q].behind
          PROVE  FitsBut(fetch'[c][q].board, Tail(box), h, q, nodes, edges, {}, {}, {})
      <4>1. h \in Nat /\ h + 1 \in 0..fetch[c][q].behind
        BY <3>1
      <4>2. FitsBut(fetch[c][q].board, box, h + 1, q, nodes, edges, {}, {}, {})
        BY <3>2, <4>1
      <4>3. QED  BY <1>0, <1>2, <3>1, <4>1, <4>2, FitsAsPassed
    <3>4. QED  BY <1>2, <3>1, <3>2, <3>3
  <2>2. QED  BY <1>1, <1>3, <2>1 DEF ReadFits
<1>11. CASE r = NoRange
  <2>1. UNCHANGED <<cache, request>>
    BY <1>11 DEF Receive
  <2>2. CanvasTypeOK'
    BY <1>0, <1>1, <1>3, <1>7, <2>1 DEF CanvasTypeOK
  <2>3. ASSUME NEW d \in Clients, NEW q \in Scenarios PROVE FollowsUp(d, q)'
    <3>1. FollowsUp(d, q)
      BY DEF CanvasInv
    <3>2. CASE d # c
      BY <1>0, <1>1, <1>3, <1>6, <2>1, <3>1, <3>2, FollowsStill
    <3>3. CASE d = c
      <4>1. ~Followed(d, q)'
        BY <1>1, <1>11, <3>3, CanvasAssumption DEF Followed
      <4>2. QED  BY <1>10, <3>3, <4>1 DEF FollowsUp, ShownFits, PreviousFits
    <3>4. QED  BY <3>2, <3>3
  <2>4. QED  BY <1>1, <1>8, <1>9, <2>2, <2>3 DEF CanvasInv
<1>12. CASE r # NoRange
  <2>1. r \in Scenarios /\ cache' = [cache EXCEPT ![c][r] = Patch(cache[c][r], ev)]
        /\ request' = [request EXCEPT ![c] = Disturbed(request[c], On(c, r))]
    BY <1>0, <1>12 DEF CanvasTypeOK, Receive
  <2>2. cache[c][r] \in Boards
    BY <1>0, <2>1 DEF CanvasTypeOK
  <2>3. Patch(cache[c][r], ev) \in Boards /\ Patch(cache[c][r], ev).loaded = cache[c][r].loaded
    BY <1>2, <2>2, HandleTypes DEF Patch
  <2>4. /\ cache'[c][r] = Patch(cache[c][r], ev) /\ cache' \in [Clients -> [Scenarios -> Boards]]
        /\ \A d \in Clients \ {c} : cache'[d] = cache[d]
    BY <1>0, <2>1, <2>3 DEF CanvasTypeOK
  <2>5. /\ request' \in [Clients -> Mutations]
        /\ \A d \in Clients \ {c} : request'[d] = request[d]
        /\ \A k \in Slots : ~Waiting(c, k, r) => request'[c][k] = request[c][k]
        /\ \A k \in Slots : Waiting(c, k, r) => request'[c][k].disturbed
        /\ \A k \in Slots : \A s : Goes(request[c][k], request'[c][k], s)
    BY <1>0, <2>1, DisturbedRequests
  <2>6. CanvasTypeOK'
    BY <1>0, <1>1, <1>3, <1>7, <2>4, <2>5 DEF CanvasTypeOK
  <2>7. \A k \in Slots : request'[c][k] # NoMutation /\ request'[c][k].range = r => request'[c][k].disturbed
    BY <2>5 DEF Waiting
  <2>8. ASSUME NEW q \in Scenarios PROVE ShownFits(c, q)' /\ \A k \in Slots : PreviousFits(c, k, q)'
    <3>1. CASE q # r
      <4>1. ~Followed(c, q)'
        BY <1>1, <3>1 DEF Followed
      <4>2. QED  BY <4>1 DEF ShownFits, PreviousFits
    <3>2. CASE q = r
      <4>1. \A k \in Slots : PreviousFits(c, k, q)'
        BY <2>7, <3>2 DEF PreviousFits, Waiting
      <4>2. ASSUME Followed(c, q)', cache'[c][q].loaded, NoneLost(request'[c], Slots, q)
            PROVE  FitsAhead(cache'[c][q], Tail(box), q, nodes, edges, request'[c], Slots)
        <5> DEFINE b == cache[c][q]  ps == request[c]  qs == request'[c]
        <5>1. Followed(c, q) /\ ~Foreign(c, q, ev) /\ b.loaded
          BY <1>1, <1>4, <1>5, <2>1, <2>3, <2>4, <3>2, <4>2 DEF Followed
        <5>2. NoneLost(ps, Slots, q) => FitsAhead(b, box, q, nodes, edges, ps, Slots)
          BY <5>1 DEF CanvasInv, FollowsUp, ShownFits
        <5>3. FitsAhead(b, box, q, nodes, edges, qs, Slots)
          <6>1. NoneLost(qs, Slots, q) /\ \A k \in Slots : Goes(ps[k], qs[k], q)
            BY <2>5, <4>2
          <6> HIDE DEF b, ps, qs, box
          <6>2. QED  BY <5>2, <6>1, FitsAheadStill
        <5> DEFINE i == Ahead(qs, Slots, "delete node", q)  j == Ahead(qs, Slots, "edit node", q)
                   k == Ahead(qs, Slots, "delete edge", q)
        <5>4. FitsBut(b, box, 0, q, nodes, edges, i, j, k)
          BY <5>3 DEF FitsAhead
        <5>5. Patch(b, ev) = Handle(b, ev)
          BY <5>1 DEF Patch
        <5>6. ev.row.range # q => Handle(b, ev) = b
          BY <3>2, <5>1, <5>5 DEF Foreign
        <5>7. NodesTold(box, nodes) /\ EdgesTold(box, edges) /\ OneRowAnId(nodes)
          BY DEF CanvasInv
        <5>8. ev.type \in NodeSays \/ ev.type \in EdgeSays
          BY <1>2, QueueTypes
        <5> HIDE DEF i, j, k
        <5>9. FitsBut(Handle(b, ev), Tail(box), 0, q, nodes, edges, i, j, k)
          <6>1. CASE ev.type \in NodeSays
            BY <1>0, <1>2, <2>2, <3>2, <5>4, <5>6, <5>7, <6>1, FitsAsNodesHeard
          <6>2. CASE ev.type \in EdgeSays
            BY <1>0, <1>2, <2>2, <3>2, <5>4, <5>6, <5>7, <6>2, FitsAsEdgesHeard
          <6>3. QED  BY <5>8, <6>1, <6>2
        <5>10. cache'[c][q] = Handle(b, ev)
          BY <2>4, <3>2, <5>5
        <5>11. QED  BY <5>9, <5>10 DEF FitsAhead, i, j, k
      <4>3. ShownFits(c, q)'
        BY <1>1, <1>3, <4>2 DEF ShownFits
      <4>4. QED  BY <4>1, <4>3
    <3>3. QED  BY <3>1, <3>2
  <2>9. ASSUME NEW d \in Clients, NEW q \in Scenarios PROVE FollowsUp(d, q)'
    <3>1. CASE d # c
      <4>1. FollowsUp(d, q)
        BY DEF CanvasInv
      <4>2. QED  BY <1>0, <1>1, <1>3, <1>6, <2>4, <2>5, <3>1, <4>1, FollowsStill
    <3>2. CASE d = c
      BY <1>10, <2>8, <3>2 DEF FollowsUp
    <3>3. QED  BY <3>1, <3>2
  <2>10. QED  BY <1>1, <1>8, <1>9, <2>6, <2>9 DEF CanvasInv
<1>13. QED  BY <1>11, <1>12

\* what a change leaves the board ahead of
Dying(op, row) == IF op = "delete node" THEN {row.id} ELSE {}
Changing(op, row) == IF op = "edit node" THEN {row.id} ELSE {}
Going(op, row) == IF op = "delete edge" THEN {row.id} ELSE {}

LEMMA MutateKeeps ==
    ASSUME CanvasInv, NEW c \in Clients, NEW op, NEW row, NEW board \in Boards, NEW r, r = view[c].range,
           Mutate(c, op, row, board),
           (op \in NodeOps /\ row \in Node) \/ (op \in EdgeOps /\ row \in Edge),
           op \in {"create node", "create edge"} => row.range = r,
           \A dying, changing, going :
             FitsBut(cache[c][r], inbox[c], 0, r, nodes, edges, dying, changing, going) =>
             FitsBut(board, inbox[c], 0, r, nodes, edges, dying \cup Dying(op, row), changing \cup Changing(op, row),
                     going \cup Going(op, row))
    PROVE  CanvasInv'
<1> DEFINE busy == {j \in Slots : request[c][j] # NoMutation}
           p == [at |-> "sent", op |-> op, range |-> r, row |-> row, previous |-> cache[c][r],
                 over |-> busy, disturbed |-> FALSE]
<1>1. /\ CanvasTypeOK /\ view[c].editable /\ cache[c][r].loaded
      /\ cache' = [cache EXCEPT ![c][r] = board]
      /\ UNCHANGED <<nodes, edges, view, fetch, online, inbox, missed>>
  BY DEF CanvasInv, Mutate, server
<1>2. PICK k \in Slots :
         /\ request[c][k] = NoMutation
         /\ p = [at |-> "sent", op |-> op, range |-> r, row |-> row, previous |-> cache[c][r],
                 over |-> busy, disturbed |-> FALSE]
         /\ request' = [request EXCEPT ![c] = [request[c] EXCEPT ![k] = p]]
  BY DEF Mutate
<1> HIDE DEF p
<1>3. r \in Scenarios
  BY <1>1 DEF CanvasTypeOK
<1>4. cache[c][r] \in Boards
  BY <1>1, <1>3 DEF CanvasTypeOK
<1>5. busy \in SUBSET Slots /\ k \notin busy /\ \A j \in Slots : j \in busy \/ request[c][j] = NoMutation
  BY <1>2
<1> HIDE DEF busy
<1>6. /\ p.at = "sent" /\ p.op = op /\ p.range = r /\ p.row = row /\ p.previous = cache[c][r] /\ p.over = busy
      /\ p.disturbed = FALSE /\ p \in Requests
  BY <1>2, <1>3, <1>4, <1>5 DEF Requests, NodeRequests, EdgeRequests, Stages
<1>7. Sound(p, k)
  <2>1. ~Optimistic(p) => op \in {"create node", "create edge"}
    BY <1>6 DEF Optimistic, NodeOps, EdgeOps
  <2>2. QED  BY <1>5, <1>6, <2>1 DEF Sound
<1>8. /\ request' \in [Clients -> Mutations] /\ request'[c][k] = p
      /\ \A d \in Clients \ {c} : request'[d] = request[d]
      /\ \A j \in Slots \ {k} : request'[c][j] = request[c][j]
  <2>1. CanvasTypeOK /\ p \in Requests /\ request' = [request EXCEPT ![c] = [request[c] EXCEPT ![k] = p]]
    BY <1>1, <1>2, <1>6
  <2>2. QED  BY <1>7, <2>1, RequestPut
<1>9. cache'[c][r] = board /\ \A d \in Clients, q \in Scenarios : d # c \/ q # r => cache'[d][q] = cache[d][q]
  BY <1>1, <1>3 DEF CanvasTypeOK
<1>10. CanvasTypeOK'
  <2>1. cache' \in [Clients -> [Scenarios -> Boards]]
    BY <1>1, <1>3 DEF CanvasTypeOK
  <2>2. QED  BY <1>1, <1>8, <2>1 DEF CanvasTypeOK
<1>11. ASSUME NEW q, NEW j \in Slots PROVE Goes(request[c][j], request'[c][j], q)
  <2>1. CASE j = k
    BY <1>2, <2>1, NoMutationIsIdle DEF Goes, Idle
  <2>2. CASE j # k
    BY <1>8, <2>2 DEF Goes
  <2>3. QED  BY <2>1, <2>2
<1>12. ASSUME NEW q, NEW j \in Slots \ {k}, Waiting(c, j, q)', ~request'[c][j].disturbed PROVE Kept(c, j, q)
  BY <1>8, <1>12 DEF Kept, Waiting
<1>13. ASSUME NEW d \in Clients, NEW q \in Scenarios PROVE FollowsUp(d, q)'
  <2>1. FollowsUp(d, q)
    BY DEF CanvasInv
  <2>2. CASE d # c
    BY <1>1, <1>8, <1>9, <2>1, <2>2, FollowsStill
  <2>3. CASE d = c /\ q # r
    <3>1. ASSUME NEW j \in Slots, Waiting(c, j, q)', ~request'[c][j].disturbed PROVE Kept(c, j, q)
      <4>1. j # k
        BY <1>6, <1>8, <2>3, <3>1 DEF Waiting
      <4>2. QED  BY <1>12, <3>1, <4>1
    <3>2. QED  BY <1>1, <1>9, <1>11, <2>1, <2>3, <3>1, FollowsOn
  <2>4. CASE d = c /\ q = r
    <3> DEFINE ps == request[c]  qs == request'[c]  b == cache[c][r]  box == inbox[c]
    <3>1. ReadFits(c, r)'
      BY <1>1, <2>1, <2>4 DEF FollowsUp, ReadFits
    <3>2. Followed(c, r)' => (NoneLost(ps, Slots, r) => FitsAhead(b, box, r, nodes, edges, ps, Slots))
      BY <1>1, <2>1, <2>4 DEF FollowsUp, ShownFits, Followed
    <3>3. /\ \A j \in Slots : Goes(ps[j], qs[j], r)
          /\ \A j \in Slots : j \in busy \/ Idle(ps[j], r)
      BY <1>5, <1>11, NoMutationIsIdle
    <3>4. Pending(qs[k], op, r) /\ qs[k].row.id = row.id
      BY <1>6, <1>8 DEF Pending
    <3> HIDE DEF ps, qs, b, box
    <3>5. ASSUME Followed(c, r)', NoneLost(qs, Slots, r) PROVE FitsAhead(board, box, r, nodes, edges, qs, Slots)
      <4>1. FitsAhead(b, box, r, nodes, edges, qs, Slots)
        BY <3>2, <3>3, <3>5, FitsAheadStill
      <4> DEFINE x == Ahead(qs, Slots, "delete node", r)  y == Ahead(qs, Slots, "edit node", r)
                 z == Ahead(qs, Slots, "delete edge", r)
      <4>2. FitsBut(b, box, 0, r, nodes, edges, x, y, z)
        BY <4>1 DEF FitsAhead
      <4>3. x \cup Dying(op, row) = x /\ y \cup Changing(op, row) = y /\ z \cup Going(op, row) = z
        <5>1. row.id \in Ahead(qs, Slots, op, r)
          BY <3>4 DEF Ahead
        <5>2. QED  BY <5>1 DEF Dying, Changing, Going
      <4> HIDE DEF x, y, z
      <4>4. FitsBut(board, box, 0, r, nodes, edges, x \cup Dying(op, row), y \cup Changing(op, row),
                    z \cup Going(op, row))
        BY <4>2 DEF b, box
      <4>5. FitsBut(board, box, 0, r, nodes, edges, x, y, z)
        BY <4>3, <4>4
      <4>6. QED  BY <4>5 DEF FitsAhead, x, y, z
    <3>6. ShownFits(c, r)'
      BY <1>1, <1>9, <3>5 DEF ShownFits, qs, box
    <3>7. ASSUME Followed(c, r)', NoneLost(qs, busy, r) PROVE FitsAhead(b, box, r, nodes, edges, qs, busy)
      <4>1. \A j \in Slots : Goes(ps[j], qs[j], r) /\ (j \in busy \/ Idle(ps[j], r))
        BY <3>3
      <4>2. /\ NoneLost(ps, Slots, r)
            /\ FitsAhead(b, box, r, nodes, edges, ps, Slots) => FitsAhead(b, box, r, nodes, edges, qs, busy)
        BY <3>7, <4>1, FitsAheadStill
      <4>3. QED  BY <3>2, <3>7, <4>2
    <3>8. PreviousFits(c, k, r)'
      <4>1. qs[k].previous = b /\ qs[k].over = busy
        BY <1>6, <1>8 DEF qs, b
      <4>2. Followed(c, r)' /\ NoneLost(qs, qs[k].over, r) => FitsAhead(qs[k].previous, box, r, nodes, edges, qs, qs[k].over)
        BY <3>7, <4>1
      <4>3. UNCHANGED <<nodes, edges, inbox>>
        BY <1>1
      <4>4. QED  BY <4>2, <4>3 DEF PreviousFits, qs, box
    <3>9. ASSUME NEW j \in Slots \ {k} PROVE PreviousFits(c, j, r)'
      <4>1. PreviousFits(c, j, r)
        BY <2>1, <2>4 DEF FollowsUp
      <4>2. Waiting(c, j, r)' /\ ~request'[c][j].disturbed => Kept(c, j, r)
        BY <1>12
      <4>3. QED  BY <1>1, <1>11, <4>1, <4>2, PreviousStill
    <3>10. QED  BY <2>4, <3>1, <3>6, <3>8, <3>9 DEF FollowsUp
  <2>5. QED  BY <2>2, <2>3, <2>4
<1>14. QED  BY <1>1, <1>10, <1>13, InvStill

LEMMA EditingKeeps ==
    ASSUME CanvasInv, NEW c \in Clients, Editing(c)
    PROVE  CanvasInv'
<1>1. CanvasTypeOK /\ view[c].editable
  BY DEF CanvasInv, Editing, CreateNode, EditNode, DeleteNode, CreateEdge, DeleteEdge
<1>2. PICK r \in Scenarios : r = view[c].range
  BY <1>1 DEF CanvasTypeOK
<1>3. PICK b \in Boards : b = cache[c][r] /\ b = Shown(c)
  BY <1>1, <1>2 DEF CanvasTypeOK, Shown
<1>4. inbox[c] \in Queues
  BY <1>1 DEF CanvasTypeOK
<1>5. b.nodes \in SUBSET Node /\ b.edges \in SUBSET Edge
  BY DEF Boards
<1>6. \A op, row : /\ op # "delete node" => Dying(op, row) = {}
                   /\ op # "edit node" => Changing(op, row) = {}
                   /\ op # "delete edge" => Going(op, row) = {}
  BY DEF Dying, Changing, Going
<1>7. CASE CreateNode(c)
  <2>1. PICK l \in Labels : Mutate(c, "create node", [id |-> 1, range |-> r, label |-> l], b)
    BY <1>2, <1>3, <1>7 DEF CreateNode
  <2> DEFINE row == [id |-> 1, range |-> r, label |-> l]
  <2>2. row \in Node /\ row.range = r
    BY CanvasAssumption DEF Node
  <2> HIDE DEF row
  <2>3. \A dying, changing, going :
          FitsBut(b, inbox[c], 0, r, nodes, edges, dying, changing, going) =>
          FitsBut(b, inbox[c], 0, r, nodes, edges, dying \cup Dying("create node", row),
                  changing \cup Changing("create node", row), going \cup Going("create node", row))
    <3>1. Dying("create node", row) = {} /\ Changing("create node", row) = {} /\ Going("create node", row) = {}
      BY <1>6
    <3>2. \A set : set \cup {} = set
      OBVIOUS
    <3>3. QED  BY <3>1, <3>2
  <2>4. Mutate(c, "create node", row, b) /\ "create node" \in NodeOps
    BY <2>1 DEF row, NodeOps
  <2>5. QED  BY <1>2, <1>3, <2>2, <2>3, <2>4, MutateKeeps
<1>8. CASE EditNode(c)
  <2>1. PICK n \in b.nodes, l \in Labels :
          Mutate(c, "edit node", [n EXCEPT !.label = l], PutNode(b, [n EXCEPT !.label = l]))
    BY <1>3, <1>8 DEF EditNode
  <2> DEFINE row == [n EXCEPT !.label = l]
  <2>2. row \in Node /\ row.id = n.id
    BY <1>5 DEF Node
  <2>3. \A dying, changing, going :
          FitsBut(b, inbox[c], 0, r, nodes, edges, dying, changing, going) =>
          FitsBut(PutNode(b, row), inbox[c], 0, r, nodes, edges, dying, changing \cup {n.id}, going)
    BY EditedNodeFits
  <2>4. Mutate(c, "edit node", row, PutNode(b, row)) /\ "edit node" \in NodeOps
    BY <2>1 DEF NodeOps
  <2> HIDE DEF row
  <2>5. PutNode(b, row) \in Boards
    BY <2>2, BoardTypes
  <2>6. /\ Dying("edit node", row) = {} /\ Changing("edit node", row) = {n.id} /\ Going("edit node", row) = {}
    BY <2>2 DEF Dying, Changing, Going
  <2>7. ASSUME NEW dying, NEW changing, NEW going,
               FitsBut(b, inbox[c], 0, r, nodes, edges, dying, changing, going)
        PROVE  FitsBut(PutNode(b, row), inbox[c], 0, r, nodes, edges, dying \cup Dying("edit node", row),
                       changing \cup Changing("edit node", row), going \cup Going("edit node", row))
    <3>1. dying \cup {} = dying /\ changing \cup {} = changing /\ going \cup {} = going
      OBVIOUS
    <3>2. QED  BY <2>3, <2>6, <2>7, <3>1
  <2>8. QED  BY <1>2, <1>3, <2>2, <2>4, <2>5, <2>7, MutateKeeps
<1>9. CASE DeleteNode(c)
  <2>1. PICK n \in b.nodes : Mutate(c, "delete node", n, DropNode(b, n.id))
    BY <1>3, <1>9 DEF DeleteNode
  <2>2. n \in Node /\ "delete node" \in NodeOps
    BY <1>5 DEF NodeOps
  <2>3. \A dying, changing, going :
          FitsBut(b, inbox[c], 0, r, nodes, edges, dying, changing, going) =>
          FitsBut(DropNode(b, n.id), inbox[c], 0, r, nodes, edges, dying \cup {n.id}, changing, going)
    BY DroppedNodeFits
  <2>4. DropNode(b, n.id) \in Boards
    BY BoardTypes
  <2>5. Dying("delete node", n) = {n.id} /\ Changing("delete node", n) = {} /\ Going("delete node", n) = {}
    BY DEF Dying, Changing, Going
  <2>6. ASSUME NEW dying, NEW changing, NEW going,
               FitsBut(b, inbox[c], 0, r, nodes, edges, dying, changing, going)
        PROVE  FitsBut(DropNode(b, n.id), inbox[c], 0, r, nodes, edges, dying \cup Dying("delete node", n),
                       changing \cup Changing("delete node", n), going \cup Going("delete node", n))
    <3>1. dying \cup {} = dying /\ changing \cup {} = changing /\ going \cup {} = going
      OBVIOUS
    <3>2. QED  BY <2>3, <2>5, <2>6, <3>1
  <2>7. QED  BY <1>2, <1>3, <2>1, <2>2, <2>4, <2>6, MutateKeeps
<1>10. CASE CreateEdge(c)
  <2>1. PICK n \in b.nodes, m \in b.nodes :
          Mutate(c, "create edge", [id |-> 1, range |-> r, from |-> n.id, to |-> m.id], b)
    BY <1>2, <1>3, <1>10 DEF CreateEdge
  <2> DEFINE row == [id |-> 1, range |-> r, from |-> n.id, to |-> m.id]
  <2>2. row \in Edge /\ row.range = r
    <3>1. n.id \in 1..MaxNode /\ m.id \in 1..MaxNode /\ 1 \in 1..MaxEdge
      BY <1>5, CanvasAssumption DEF Node
    <3>2. QED  BY <3>1 DEF Edge
  <2> HIDE DEF row
  <2>3. \A dying, changing, going :
          FitsBut(b, inbox[c], 0, r, nodes, edges, dying, changing, going) =>
          FitsBut(b, inbox[c], 0, r, nodes, edges, dying \cup Dying("create edge", row),
                  changing \cup Changing("create edge", row), going \cup Going("create edge", row))
    <3>1. Dying("create edge", row) = {} /\ Changing("create edge", row) = {} /\ Going("create edge", row) = {}
      BY <1>6
    <3>2. \A set : set \cup {} = set
      OBVIOUS
    <3>3. QED  BY <3>1, <3>2
  <2>4. Mutate(c, "create edge", row, b) /\ "create edge" \in EdgeOps
    BY <2>1 DEF row, EdgeOps
  <2>5. QED  BY <1>2, <1>3, <2>2, <2>3, <2>4, MutateKeeps
<1>11. CASE DeleteEdge(c)
  <2>1. PICK e \in b.edges : Mutate(c, "delete edge", e, DropEdge(b, e.id))
    BY <1>3, <1>11 DEF DeleteEdge
  <2>2. e \in Edge /\ "delete edge" \in EdgeOps
    BY <1>5 DEF EdgeOps
  <2>3. \A dying, changing, going :
          FitsBut(b, inbox[c], 0, r, nodes, edges, dying, changing, going) =>
          FitsBut(DropEdge(b, e.id), inbox[c], 0, r, nodes, edges, dying, changing, going \cup {e.id})
    BY DroppedEdgeFits
  <2>4. DropEdge(b, e.id) \in Boards
    BY BoardTypes
  <2>5. Dying("delete edge", e) = {} /\ Changing("delete edge", e) = {} /\ Going("delete edge", e) = {e.id}
    BY DEF Dying, Changing, Going
  <2>6. ASSUME NEW dying, NEW changing, NEW going,
               FitsBut(b, inbox[c], 0, r, nodes, edges, dying, changing, going)
        PROVE  FitsBut(DropEdge(b, e.id), inbox[c], 0, r, nodes, edges, dying \cup Dying("delete edge", e),
                       changing \cup Changing("delete edge", e), going \cup Going("delete edge", e))
    <3>1. dying \cup {} = dying /\ changing \cup {} = changing /\ going \cup {} = going
      OBVIOUS
    <3>2. QED  BY <2>3, <2>5, <2>6, <3>1
  <2>7. QED  BY <1>2, <1>3, <2>1, <2>2, <2>4, <2>6, MutateKeeps
<1>12. QED  BY <1>7, <1>8, <1>9, <1>10, <1>11 DEF Editing

LEMMA LoseMutationKeeps ==
    ASSUME CanvasInv, NEW c \in Clients, NEW k \in Slots, LoseMutation(c, k)
    PROVE  CanvasInv'
<1>1. request[c][k] # NoMutation
  BY DEF LoseMutation, NoMutation
<1>2. Refused(c, k)
  BY DEF LoseMutation, Refused, server
<1>3. QED  BY <1>1, <1>2, RefusedKeeps

-------------------------------------------------------------------------------
(* A mutation is over                                                       *)

LEMMA SettledIs ==
    ASSUME NEW qs \in Mutations, NEW k \in Slots, NEW ks
    PROVE  /\ Settled(qs, k, ks) \in Mutations /\ Settled(qs, k, ks)[k] = NoMutation
           /\ \A j \in Slots \ {k} : qs[j] = NoMutation => Settled(qs, k, ks)[j] = NoMutation
           /\ \A j \in Slots \ {k} : qs[j] # NoMutation => LET p == Settled(qs, k, ks)[j] IN
                 /\ p.at = qs[j].at /\ p.op = qs[j].op /\ p.range = qs[j].range /\ p.row = qs[j].row
                 /\ p.previous = qs[j].previous /\ p.over = qs[j].over \ {k}
                 /\ (p.disturbed <=> qs[j].disturbed \/ j \in ks)
<1>1. qs \in [Slots -> Requests \cup {NoMutation}] /\ \A j \in Slots : qs[j] # NoMutation => Sound(qs[j], j)
  BY DEF Mutations
<1> DEFINE ss == Settled(qs, k, ks)
<1>2. /\ ss = [j \in Slots |-> ss[j]]
      /\ \A j \in Slots : j = k \/ qs[j] = NoMutation => ss[j] = NoMutation
      /\ \A j \in Slots : j # k /\ qs[j] # NoMutation =>
            ss[j] = [qs[j] EXCEPT !.over = @ \ {k}, !.disturbed = @ \/ j \in ks]
  BY DEF Settled
<1> HIDE DEF ss
<1>3. ASSUME NEW j \in Slots \ {k}, qs[j] # NoMutation
      PROVE  /\ ss[j] \in Requests /\ Sound(ss[j], j)
             /\ ss[j].at = qs[j].at /\ ss[j].op = qs[j].op /\ ss[j].range = qs[j].range /\ ss[j].row = qs[j].row
             /\ ss[j].previous = qs[j].previous /\ ss[j].over = qs[j].over \ {k}
             /\ (ss[j].disturbed <=> qs[j].disturbed \/ j \in ks)
  <2>1. PICK q \in Requests : q = qs[j] /\ Sound(q, j)
    BY <1>1, <1>3
  <2>2. ss[j] = [q EXCEPT !.over = @ \ {k}, !.disturbed = @ \/ j \in ks]
    BY <1>2, <1>3, <2>1
  <2>3. /\ ss[j] \in Requests
        /\ ss[j].at = q.at /\ ss[j].op = q.op /\ ss[j].range = q.range /\ ss[j].row = q.row
        /\ ss[j].previous = q.previous /\ ss[j].over = q.over \ {k}
        /\ (ss[j].disturbed <=> q.disturbed \/ j \in ks)
    <3>1. CASE q \in NodeRequests
      <4>1. ss[j] \in NodeRequests
        BY <2>2, <3>1 DEF NodeRequests
      <4>2. QED  BY <2>2, <3>1, <4>1 DEF NodeRequests, Requests
    <3>2. CASE q \in EdgeRequests
      <4>1. ss[j] \in EdgeRequests
        BY <2>2, <3>2 DEF EdgeRequests
      <4>2. QED  BY <2>2, <3>2, <4>1 DEF EdgeRequests, Requests
    <3>3. QED  BY <3>1, <3>2 DEF Requests
  <2>4. Sound(ss[j], j)
    BY <2>1, <2>3 DEF Sound, Optimistic
  <2>5. QED  BY <2>1, <2>3, <2>4
<1>4. ss \in Mutations
  <2>1. \A j \in Slots : ss[j] \in Requests \cup {NoMutation} /\ (ss[j] # NoMutation => Sound(ss[j], j))
    BY <1>1, <1>2, <1>3
  <2>2. ss \in [Slots -> Requests \cup {NoMutation}]
    BY <1>2, <2>1
  <2>3. QED  BY <2>1, <2>2 DEF Mutations
<1>5. QED  BY <1>2, <1>3, <1>4 DEF ss

Ends(c, k, ks) == request' = [request EXCEPT ![c] = Settled(request[c], k, ks)]

\* the mutation j of browser c goes on, and is over k no more
Remains(c, j, k) ==
    /\ request[c][j] # NoMutation /\ ~request[c][j].disturbed
    /\ request'[c][j].range = request[c][j].range
    /\ request'[c][j].previous = request[c][j].previous
    /\ request'[c][j].over = request[c][j].over \ {k}

LEMMA SettledRequests ==
    ASSUME CanvasTypeOK, NEW c \in Clients, NEW k \in Slots, NEW ks, Ends(c, k, ks)
    PROVE  /\ request' \in [Clients -> Mutations] /\ request'[c][k] = NoMutation
           /\ \A d \in Clients \ {c} : request'[d] = request[d]
           /\ \A j \in Slots \ {k} : \A s : Goes(request[c][j], request'[c][j], s)
           /\ \A j \in Slots : request'[c][j] # NoMutation /\ ~request'[c][j].disturbed =>
                 j # k /\ j \notin ks /\ Remains(c, j, k)
<1> DEFINE qs == request[c]  ss == Settled(qs, k, ks)
<1>1. qs \in Mutations
  BY DEF CanvasTypeOK
<1> HIDE DEF qs
<1>2. /\ ss \in Mutations /\ ss[k] = NoMutation
      /\ \A j \in Slots \ {k} : qs[j] = NoMutation => ss[j] = NoMutation
      /\ \A j \in Slots \ {k} : qs[j] # NoMutation =>
            /\ ss[j].at = qs[j].at /\ ss[j].op = qs[j].op /\ ss[j].range = qs[j].range /\ ss[j].row = qs[j].row
            /\ ss[j].previous = qs[j].previous /\ ss[j].over = qs[j].over \ {k}
            /\ (ss[j].disturbed <=> qs[j].disturbed \/ j \in ks)
  BY <1>1, SettledIs
<1>3. request' = [request EXCEPT ![c] = ss]
  BY DEF Ends, qs
<1> HIDE DEF ss
<1>4. /\ request' \in [Clients -> Mutations] /\ request'[c] = ss
      /\ \A d \in Clients \ {c} : request'[d] = request[d]
  BY <1>2, <1>3, RequestsPut
<1>5. ASSUME NEW j \in Slots \ {k}, NEW s PROVE Goes(qs[j], ss[j], s)
  <2>1. CASE qs[j] = NoMutation
    BY <1>2, <2>1 DEF Goes
  <2>2. CASE qs[j] # NoMutation
    BY <1>2, <2>2 DEF Goes, Lost, Pending, Optimistic
  <2>3. QED  BY <2>1, <2>2
<1>6. ASSUME NEW j \in Slots, ss[j] # NoMutation, ~ss[j].disturbed
      PROVE  /\ j # k /\ j \notin ks /\ qs[j] # NoMutation /\ ~qs[j].disturbed /\ ss[j].range = qs[j].range
             /\ ss[j].previous = qs[j].previous /\ ss[j].over = qs[j].over \ {k}
  BY <1>2, <1>6
<1>7. QED  BY <1>2, <1>4, <1>5, <1>6 DEF qs, Remains

LEMMA DoneIsIdle ==
    ASSUME NEW q, q.at = "done", NEW r
    PROVE  Idle(q, r)
BY DEF Idle, Lost, Pending

LEMMA RefusedIsIdle ==
    ASSUME NEW q, q.at = "refused", ~Optimistic(q), NEW r
    PROVE  Idle(q, r)
BY DEF Idle, Lost, Pending

\* a mutation that leaves the board of scenario s as it is
LEMMA SettledFollows ==
    ASSUME CanvasTypeOK, NEW c \in Clients, NEW k \in Slots, NEW ks, NEW s,
           Ends(c, k, ks), Idle(request[c][k], s),
           FollowsUp(c, s), UNCHANGED <<nodes, edges>>,
           view'[c] = view[c], cache'[c][s] = cache[c][s], fetch'[c][s] = fetch[c][s],
           missed'[c][s] = Nothing => missed[c][s] = Nothing, inbox'[c] = inbox[c]
    PROVE  FollowsUp(c, s)'
<1>1. /\ request'[c][k] = NoMutation
      /\ \A j \in Slots \ {k} : Goes(request[c][j], request'[c][j], s)
      /\ \A j \in Slots : request'[c][j] # NoMutation /\ ~request'[c][j].disturbed =>
            j # k /\ Remains(c, j, k)
  BY SettledRequests
<1>2. ASSUME NEW j \in Slots PROVE Goes(request[c][j], request'[c][j], s)
  <2>1. CASE j = k
    BY <2>1 DEF Goes, Idle
  <2>2. QED  BY <1>1, <2>1
<1>3. ASSUME NEW j \in Slots, Waiting(c, j, s)', ~request'[c][j].disturbed PROVE Kept(c, j, s)
  BY <1>1, <1>3 DEF Kept, Waiting, Remains
<1>4. QED  BY <1>2, <1>3, FollowsOn

LEMMA TakeRefusalKeeps ==
    ASSUME CanvasInv, NEW c \in Clients, NEW k \in Slots, TakeRefusal(c, k)
    PROVE  CanvasInv'
<1>1. CanvasTypeOK /\ request[c][k].at = "refused" /\ UNCHANGED <<nodes, edges, view, fetch, online, inbox>>
  BY DEF CanvasInv, TakeRefusal, server
<1>2. PICK q \in Requests : q = request[c][k] /\ Sound(q, k)
  <2>1. request[c][k] # NoMutation
    BY <1>1 DEF NoMutation
  <2>2. QED  BY <1>1, <2>1, RequestsHave
<1>3. PICK r \in Scenarios : r = q.range
  BY RequestTypes
<1>4. q.previous \in Boards /\ q.over \in SUBSET Slots /\ k \notin q.over /\ q # NoMutation
  BY <1>2, RequestTypes DEF Sound
<1> DEFINE since == {j \in On(c, r) : k \in request[c][j].over}
           ks == IF Optimistic(q) THEN since ELSE {}
<1>5. /\ cache' = IF Optimistic(q) THEN [cache EXCEPT ![c][r] = q.previous] ELSE cache
      /\ missed' = [missed EXCEPT ![c][r] = Because(missed[c][r], "put back", Optimistic(q) /\ q.disturbed)]
      /\ request' = [request EXCEPT ![c] = Settled(request[c], k, ks)]
  BY <1>2, <1>3 DEF TakeRefusal
<1>6. Ends(c, k, ks) /\ \A j \in Slots : Waiting(c, j, r) /\ k \in request[c][j].over => j \in since
  BY <1>5 DEF Ends, Waiting, On
<1> HIDE DEF since
<1>7. /\ missed'[c][r] = Because(missed[c][r], "put back", Optimistic(q) /\ q.disturbed)
      /\ cache'[c][r] = IF Optimistic(q) THEN q.previous ELSE cache[c][r]
      /\ \A d \in Clients, s \in Scenarios : d # c \/ s # r
            => cache'[d][s] = cache[d][s] /\ missed'[d][s] = missed[d][s]
  BY <1>1, <1>5 DEF CanvasTypeOK
<1>8. missed'[c][r] = Nothing => missed[c][r] = Nothing /\ (Optimistic(q) => ~q.disturbed)
  BY <1>7 DEF Because, Nothing
<1>9. /\ request' \in [Clients -> Mutations] /\ request'[c][k] = NoMutation
      /\ \A d \in Clients \ {c} : request'[d] = request[d]
      /\ \A j \in Slots \ {k} : Goes(request[c][j], request'[c][j], r)
      /\ \A j \in Slots : request'[c][j] # NoMutation /\ ~request'[c][j].disturbed =>
            j # k /\ j \notin ks /\ Remains(c, j, k)
  <2> HIDE DEF ks
  <2>1. QED  BY <1>1, <1>6, SettledRequests
<1>10. CanvasTypeOK'
  <2>1. cache' \in [Clients -> [Scenarios -> Boards]]
    BY <1>1, <1>4, <1>5 DEF CanvasTypeOK
  <2>2. Because(missed[c][r], "put back", Optimistic(q) /\ q.disturbed) \in Causes
    BY <1>1 DEF CanvasTypeOK, Because, Causes
  <2>3. missed' \in [Clients -> [Scenarios -> Causes]]
    BY <1>1, <1>5, <2>2 DEF CanvasTypeOK
  <2>4. QED  BY <1>1, <1>9, <2>1, <2>3 DEF CanvasTypeOK
<1>11. ASSUME NEW d \in Clients, NEW s \in Scenarios PROVE FollowsUp(d, s)'
  <2>1. FollowsUp(d, s)
    BY DEF CanvasInv
  <2>2. CASE d # c
    BY <1>1, <1>7, <1>9, <2>1, <2>2, FollowsStill
  <2>3. CASE d = c /\ (s # r \/ ~Optimistic(q))
    <3>1. Idle(request[c][k], s)
      BY <1>1, <1>2, <1>3, <2>3, AsideIsIdle, RefusedIsIdle
    <3>2. /\ cache'[c][s] = cache[c][s] /\ (missed'[c][s] = Nothing => missed[c][s] = Nothing)
          /\ view'[c] = view[c] /\ fetch'[c][s] = fetch[c][s] /\ inbox'[c] = inbox[c] /\ UNCHANGED <<nodes, edges>>
      BY <1>1, <1>7, <1>8, <2>3
    <3> HIDE DEF ks
    <3>3. QED  BY <1>1, <1>6, <2>1, <2>3, <3>1, <3>2, SettledFollows
  <2>4. CASE d = c /\ s = r /\ Optimistic(q)
    <3>1. ReadFits(c, r)'
      BY <1>1, <1>8, <2>1, <2>4 DEF FollowsUp, ReadFits
    <3>2. ShownFits(c, r)'
      <4> DEFINE ps == request[c]  qs == request'[c]
      <4>1. SUFFICES ASSUME Followed(c, r)', NoneLost(qs, Slots, r)
            PROVE  FitsAhead(q.previous, inbox[c], r, nodes, edges, qs, Slots)
        BY <1>1, <1>7, <2>4 DEF ShownFits
      <4>2. Followed(c, r) /\ Waiting(c, k, r) /\ ~q.disturbed
        BY <1>1, <1>2, <1>3, <1>4, <1>8, <2>4, <4>1 DEF Followed, Waiting
      <4>3. PreviousFits(c, k, r)
        BY <2>1, <2>4 DEF FollowsUp
      <4>4. NoneLost(ps, q.over, r) => FitsAhead(q.previous, inbox[c], r, nodes, edges, ps, q.over)
        BY <1>2, <4>2, <4>3 DEF PreviousFits
      <4>5. \A j \in q.over : Goes(ps[j], qs[j], r) /\ (j \in Slots \/ Idle(ps[j], r))
        BY <1>4, <1>9
      <4>6. NoneLost(qs, Slots, r)
        BY <4>1
      <4> HIDE DEF ps, qs
      <4>7. /\ NoneLost(ps, q.over, r)
            /\ FitsAhead(q.previous, inbox[c], r, nodes, edges, ps, q.over)
                 => FitsAhead(q.previous, inbox[c], r, nodes, edges, qs, Slots)
        BY <4>5, <4>6, FitsAheadStill
      <4>8. QED  BY <4>4, <4>7
    <3>3. ASSUME NEW j \in Slots PROVE PreviousFits(c, j, r)'
      <4>1. PreviousFits(c, j, r)
        BY <2>1, <2>4 DEF FollowsUp
      <4>2. CASE ~(Waiting(c, j, r)' /\ ~request'[c][j].disturbed)
        BY <4>2 DEF PreviousFits
      <4>3. CASE Waiting(c, j, r)' /\ ~request'[c][j].disturbed
        <5>1. j # k /\ j \notin since /\ Remains(c, j, k) /\ request'[c][j].range = r
          BY <1>9, <2>4, <4>3 DEF Waiting
        <5>2. Waiting(c, j, r) /\ k \notin request[c][j].over
          BY <1>6, <5>1 DEF Remains, Waiting
        <5>3. Kept(c, j, r)
          BY <5>1, <5>2 DEF Remains, Kept
        <5>4. \A i \in Slots \cap request[c][j].over : Goes(request[c][i], request'[c][i], r)
          BY <1>9, <5>2
        <5>5. /\ view'[c] = view[c] /\ fetch'[c][r] = fetch[c][r] /\ inbox'[c] = inbox[c] /\ UNCHANGED <<nodes, edges>>
              /\ (missed'[c][r] = Nothing => missed[c][r] = Nothing)
          BY <1>1, <1>8
        <5>6. QED  BY <1>1, <4>1, <5>3, <5>4, <5>5, PreviousStill
      <4>4. QED  BY <4>2, <4>3
    <3>4. QED  BY <2>4, <3>1, <3>2, <3>3 DEF FollowsUp
  <2>5. QED  BY <2>2, <2>3, <2>4
<1>12. QED  BY <1>1, <1>10, <1>11, InvStill

LEMMA TakeSuccessKeeps ==
    ASSUME CanvasInv, NEW c \in Clients, NEW k \in Slots, TakeSuccess(c, k)
    PROVE  CanvasInv'
<1>1. CanvasTypeOK /\ request[c][k].at = "done" /\ UNCHANGED <<nodes, edges, view, fetch, online, inbox>>
  BY DEF CanvasInv, TakeSuccess, server
<1>2. PICK q \in Requests : q = request[c][k] /\ Sound(q, k)
  <2>1. request[c][k] # NoMutation
    BY <1>1 DEF NoMutation
  <2>2. QED  BY <1>1, <2>1, RequestsHave
<1>3. PICK r \in Scenarios : r = q.range
  BY RequestTypes
<1>4. /\ q.op \in NodeOps \cup EdgeOps /\ (~Optimistic(q) => q.row.range = r)
      /\ q.op \in NodeOps => q.row \in Node
      /\ q.op \in EdgeOps => q.row \in Edge
  BY <1>2, <1>3, RequestTypes DEF Sound
<1>5. PICK b \in Boards : b = cache[c][r]
  BY <1>1 DEF CanvasTypeOK
<1> DEFINE shown == IF ~b.loaded \/ Optimistic(q) THEN b
                    ELSE IF q.op = "create node" THEN AddNode(b, q.row) ELSE AddEdge(b, q.row)
           ks == IF shown # b THEN On(c, r) ELSE {}
<1>6. /\ cache' = [cache EXCEPT ![c][r] = shown]
      /\ missed' = [missed EXCEPT ![c][r] = Because(missed[c][r], "late answer", shown # b /\ ~Announced(c, q.row))]
      /\ Ends(c, k, ks)
  BY <1>2, <1>3, <1>5 DEF TakeSuccess, Ends
<1>7. \/ shown = b
      \/ q.op = "create node" /\ q.row \in Node /\ q.row.range = r /\ shown = AddNode(b, q.row)
      \/ q.op = "create edge" /\ q.row \in Edge /\ q.row.range = r /\ shown = AddEdge(b, q.row)
  BY <1>4 DEF Optimistic, NodeOps, EdgeOps
<1>8. shown \in Boards /\ shown.loaded = b.loaded
  BY <1>7, BoardTypes, BoardLoaded
<1>9. shown # b => \A j \in Slots : Waiting(c, j, r) => j \in ks
  BY DEF Waiting, On
<1> HIDE DEF shown, ks
<1>10. /\ cache'[c][r] = shown
       /\ missed'[c][r] = Because(missed[c][r], "late answer", shown # b /\ ~Announced(c, q.row))
       /\ \A d \in Clients, s \in Scenarios : d # c \/ s # r
             => cache'[d][s] = cache[d][s] /\ missed'[d][s] = missed[d][s]
  BY <1>1, <1>6 DEF CanvasTypeOK
<1>11. missed'[c][r] = Nothing => missed[c][r] = Nothing /\ (shown # b => Announced(c, q.row))
  BY <1>10 DEF Because, Nothing
<1>12. /\ request' \in [Clients -> Mutations] /\ request'[c][k] = NoMutation
       /\ \A d \in Clients \ {c} : request'[d] = request[d]
       /\ \A j \in Slots \ {k} : Goes(request[c][j], request'[c][j], r)
       /\ \A j \in Slots : request'[c][j] # NoMutation /\ ~request'[c][j].disturbed =>
             j # k /\ j \notin ks /\ Remains(c, j, k)
  BY <1>1, <1>6, SettledRequests
<1>13. \A s : Idle(request[c][k], s)
  BY <1>1, DoneIsIdle
<1>14. CanvasTypeOK'
  <2>1. cache' \in [Clients -> [Scenarios -> Boards]]
    BY <1>1, <1>6, <1>8 DEF CanvasTypeOK
  <2>2. Because(missed[c][r], "late answer", shown # b /\ ~Announced(c, q.row)) \in Causes
    BY <1>1 DEF CanvasTypeOK, Because, Causes
  <2>3. missed' \in [Clients -> [Scenarios -> Causes]]
    BY <1>1, <1>6, <2>2 DEF CanvasTypeOK
  <2>4. QED  BY <1>1, <1>12, <2>1, <2>3 DEF CanvasTypeOK
<1>15. ASSUME NEW d \in Clients, NEW s \in Scenarios PROVE FollowsUp(d, s)'
  <2>1. FollowsUp(d, s)
    BY DEF CanvasInv
  <2>2. CASE d # c
    BY <1>1, <1>10, <1>12, <2>1, <2>2, FollowsStill
  <2>3. CASE d = c /\ (s # r \/ shown = b)
    <3>1. /\ cache'[c][s] = cache[c][s] /\ (missed'[c][s] = Nothing => missed[c][s] = Nothing)
          /\ view'[c] = view[c] /\ fetch'[c][s] = fetch[c][s] /\ inbox'[c] = inbox[c] /\ UNCHANGED <<nodes, edges>>
      BY <1>1, <1>5, <1>10, <1>11, <2>3
    <3>2. QED  BY <1>1, <1>6, <1>13, <2>1, <2>3, <3>1, SettledFollows
  <2>4. CASE d = c /\ s = r /\ shown # b
    <3>1. ReadFits(c, r)'
      BY <1>1, <1>11, <2>1, <2>4 DEF FollowsUp, ReadFits
    <3>2. ASSUME NEW j \in Slots PROVE PreviousFits(c, j, r)'
      <4>1. ~(Waiting(c, j, r)' /\ ~request'[c][j].disturbed)
        BY <1>9, <1>12, <2>4 DEF Waiting, Remains
      <4>2. QED  BY <4>1 DEF PreviousFits
    <3>3. ShownFits(c, r)'
      <4> DEFINE ps == request[c]  qs == request'[c]  box == inbox[c]
      <4>1. SUFFICES ASSUME Followed(c, r)', shown.loaded, NoneLost(qs, Slots, r)
            PROVE  FitsAhead(shown, box, r, nodes, edges, qs, Slots)
        BY <1>1, <1>10, <2>4 DEF ShownFits
      <4>2. Followed(c, r) /\ b.loaded /\ Announced(c, q.row)
        BY <1>1, <1>8, <1>11, <2>4, <4>1 DEF Followed
      <4>3. NoneLost(ps, Slots, r) => FitsAhead(b, box, r, nodes, edges, ps, Slots)
        BY <1>5, <2>1, <2>4, <4>2 DEF FollowsUp, ShownFits
      <4>4. \A j \in Slots : Goes(ps[j], qs[j], r) /\ (j \in Slots \/ Idle(ps[j], r))
        BY <1>12, <1>13 DEF Goes, Idle
      <4>5. \E p \in 1..Len(box) : box[p].row = q.row
        BY <4>2 DEF Announced
      <4>6. box \in Queues /\ NodesTold(box, nodes) /\ EdgesTold(box, edges) /\ NoneLost(qs, Slots, r)
        BY <1>1, <4>1 DEF CanvasInv, CanvasTypeOK
      <4> HIDE DEF ps, qs, box
      <4>7. FitsAhead(b, box, r, nodes, edges, qs, Slots)
        BY <4>3, <4>4, <4>6, FitsAheadStill
      <4> DEFINE x == Ahead(qs, Slots, "delete node", r)  y == Ahead(qs, Slots, "edit node", r)
                 z == Ahead(qs, Slots, "delete edge", r)
      <4>8. FitsBut(b, box, 0, r, nodes, edges, x, y, z)
        BY <4>7 DEF FitsAhead
      <4> HIDE DEF x, y, z
      <4>9. FitsBut(shown, box, 0, r, nodes, edges, x, y, z)
        BY <1>7, <2>4, <4>5, <4>6, <4>8, AnsweredNodeFits, AnsweredEdgeFits
      <4>10. QED  BY <4>9 DEF FitsAhead, x, y, z
    <3>4. QED  BY <2>4, <3>1, <3>2, <3>3 DEF FollowsUp
  <2>5. QED  BY <2>2, <2>3, <2>4
<1>16. QED  BY <1>1, <1>14, <1>15, InvStill

-------------------------------------------------------------------------------
(* The canvas' theorems                                                     *)

LEMMA CanvasStep ==
    ASSUME CanvasInv, [CanvasNext]_canvasVars
    PROVE  CanvasInv'
<1>1. CASE UNCHANGED canvasVars
  BY <1>1, SwitchKeeps DEF canvasVars, server
<1>2. ASSUME NEW r \in Scenarios \cup {NoRange}, SwitchScenario(r) PROVE CanvasInv'
  BY <1>2, SwitchKeeps DEF SwitchScenario
<1>3. ASSUME NEW c \in Clients, NEW k \in Slots, Serving(c, k) PROVE CanvasInv'
  <2>1. CanvasTypeOK /\ OneRowAnId(nodes) /\ OneRowAnId(edges)
    BY DEF CanvasInv
  <2>2. request[c][k] # NoMutation /\ (Refused(c, k) \/ \E s \in Queues : Served(c, k, s))
    BY <1>3, <2>1, ServingTells
  <2>3. QED  BY <2>2, RefusedKeeps, ServedKeeps
<1>4. ASSUME NEW c \in Clients, Editing(c) PROVE CanvasInv'
  BY <1>4, EditingKeeps
<1>5. ASSUME NEW c \in Clients, Looking(c) PROVE CanvasInv'
  BY <1>5, ShowKeeps, HideKeeps, TakeReadKeeps, LoseReadKeeps DEF Looking
<1>6. ASSUME NEW c \in Clients, Listening(c) PROVE CanvasInv'
  BY <1>6, ReceiveKeeps, DisconnectKeeps, ReconnectKeeps DEF Listening
<1>7. ASSUME NEW c \in Clients, NEW k \in Slots, Settling(c, k) PROVE CanvasInv'
  BY <1>7, TakeSuccessKeeps, TakeRefusalKeeps, LoseMutationKeeps DEF Settling
<1>8. QED  BY <1>1, <1>2, <1>3, <1>4, <1>5, <1>6, <1>7 DEF CanvasNext

LEMMA CanvasStart == CanvasInit => CanvasInv
<1> SUFFICES ASSUME CanvasInit PROVE CanvasInv
  OBVIOUS
<1>1. /\ nodes = {} /\ edges = {} /\ \A c \in Clients : view[c] = Hidden /\ inbox[c] = <<>>
      /\ \A c \in Clients, r \in Scenarios :
            fetch[c][r] = NotAsked /\ cache[c][r] = NoData /\ missed[c][r] = Nothing
      /\ \A c \in Clients, k \in Slots : request[c][k] = NoMutation
  BY DEF CanvasInit
<1>2. CanvasTypeOK
  <2>1. NoData \in Boards /\ <<>> \in Queues /\ Nothing \in Causes
    BY DEF NoData, Boards, Queues, Causes
  <2>2. view \in [Clients -> [range : Scenarios \cup {NoRange}, editable : BOOLEAN]]
    BY DEF CanvasInit, Hidden
  <2>3. \A c \in Clients : ~view[c].editable
    BY <1>1 DEF Hidden
  <2>4. request \in [Clients -> Mutations]
    BY DEF CanvasInit, Mutations
  <2>5. QED  BY <1>1, <2>1, <2>2, <2>3, <2>4 DEF CanvasInit, CanvasTypeOK
<1>3. OneRowAnId(nodes) /\ OneRowAnId(edges)
  BY <1>1 DEF OneRowAnId
<1>4. \A c \in Clients : NodesTold(inbox[c], nodes) /\ EdgesTold(inbox[c], edges)
  BY <1>1 DEF NodesTold, EdgesTold
<1>5. ASSUME NEW c \in Clients, NEW r \in Scenarios PROVE FollowsUp(c, r)
  <2>1. ~cache[c][r].loaded /\ view[c].range # r
    BY <1>1, CanvasAssumption DEF NoData, Hidden
  <2>2. QED  BY <1>1, <2>1 DEF FollowsUp, ReadFits, ShownFits, PreviousFits, Followed
<1>6. QED  BY <1>1, <1>2, <1>3, <1>4, <1>5 DEF CanvasInv

\* What a queue tells is true of the rows, and every board - on the screen, in an answer, or
\* kept to be put back - fits the rows and the queue it has still to hear, but for the changes
\* under way that it shows, unless a cause is on record.
THEOREM CanvasKeepsItsInvariant == CanvasSpec => []CanvasInv
BY CanvasStart, CanvasStep, PTL DEF CanvasSpec

\* Rows, boards, events and requests are what the routes and the container make them: an answer
\* to a creation is a row of the scenario the request was sent for, and a change remembers a
\* board that it is not itself on.
THEOREM CanvasTypeCorrect == CanvasSpec => []CanvasTypeOK
<1>1. CanvasInv => CanvasTypeOK
  BY DEF CanvasInv
<1>2. QED  BY <1>1, CanvasKeepsItsInvariant, PTL

\* While the team exists, a browser that has nothing under way draws exactly the team's rows of
\* that scenario, unless one of the six causes has come up since the server last read the board
\* for it: events, optimistic changes and late answers never leave it out of step otherwise, for
\* any number of browsers, of scenarios, and of changes each browser has under way at once.
THEOREM BoardsSettle == CanvasSpec => []SettledBoardsAgree
<1>1. CanvasInv => SettledBoardsAgree
  <2>1. SUFFICES ASSUME CanvasInv, NEW c \in Clients, NEW r \in Scenarios, Quiet(c, r), missed[c][r] = Nothing
        PROVE  cache[c][r] = Board(r)
    BY DEF SettledBoardsAgree
  <2>2. CanvasTypeOK /\ OneRowAnId(nodes) /\ OneRowAnId(edges) /\ FollowsUp(c, r)
    BY <2>1 DEF CanvasInv
  <2>3. Followed(c, r) /\ cache[c][r].loaded /\ inbox[c] = <<>>
    BY <2>1 DEF Quiet, Followed
  <2>4. ASSUME NEW k \in Slots PROVE Idle(request[c][k], r)
    <3>1. request[c][k] = NoMutation \/ request[c][k].range # r
      BY <2>1 DEF Quiet, On
    <3>2. QED  BY <3>1, NoMutationIsIdle, AsideIsIdle
  <2>5. NoneLost(request[c], Slots, r) /\ \A op \in AheadOps : Ahead(request[c], Slots, op, r) = {}
    BY <2>4, NothingAhead
  <2>6. FitsBut(cache[c][r], <<>>, 0, r, nodes, edges, {}, {}, {})
    BY <2>2, <2>3, <2>5 DEF FollowsUp, ShownFits, FitsAhead, AheadOps
  <2>7. cache[c][r] \in Boards /\ nodes \in SUBSET Node /\ edges \in SUBSET Edge
    BY <2>2 DEF CanvasTypeOK
  <2>8. QED  BY <2>2, <2>3, <2>6, <2>7, SettledBoard
<1>2. QED  BY <1>1, CanvasKeepsItsInvariant, PTL

=================================================================================
