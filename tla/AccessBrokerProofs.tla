--------------------------- MODULE AccessBrokerProofs ---------------------------
(***************************************************************************)
(* Safety theorems about AccessBroker, for every number of users, teams,   *)
(* sessions, scenarios, machines and hosts.                                *)
(***************************************************************************)
EXTENDS AccessBroker, FiniteSetTheorems, WellFoundedInduction, TLAPS

USE DEF people, access, bastion, awaits, resetting

-------------------------------------------------------------------------------
(* Type correctness                                                         *)

LEMMA FinishedType ==
    ASSUME NEW S, NEW how \in Ended, sessions \in [SessionIds -> Session \cup {NoRow}],
           \A id \in S \cap SessionIds : sessions[id] # NoRow
    PROVE  Finished(S, how) \in [SessionIds -> Session \cup {NoRow}]
BY DEF Finished, Session, Ended, NoRow

LEMMA CleanupsType ==
    ASSUME NEW S, sessions \in [SessionIds -> Session \cup {NoRow}],
           S \subseteq SessionRows
    PROVE  Cleanups(S) \in SUBSET (SessionIds \X Nodes)
BY DEF Cleanups, Session, SessionRows, NoRow

LEMMA FinishType ==
    ASSUME TypeOK, NEW how \in Ended, NEW S, S \subseteq SessionRows, Finish(S, how)
    PROVE  /\ sessions' \in [SessionIds -> Session \cup {NoRow}]
           /\ cleaning' \in SUBSET (SessionIds \X Nodes)
<1>1. \A id \in S \cap SessionIds : sessions[id] # NoRow  BY DEF SessionRows
<1>2. QED  BY <1>1, FinishedType, CleanupsType DEF Finish, TypeOK

LEMMA FinishAndDeleteType ==
    ASSUME TypeOK, NEW S, S \subseteq SessionRows, NEW D, FinishAndDelete(S, D)
    PROVE  /\ sessions' \in [SessionIds -> Session \cup {NoRow}]
           /\ cleaning' \in SUBSET (SessionIds \X Nodes)
<1>1. \A id \in S \cap SessionIds : sessions[id] # NoRow  BY DEF SessionRows
<1>2. Finished(S, "force_closed") \in [SessionIds -> Session \cup {NoRow}]
  BY <1>1, FinishedType DEF TypeOK, Ended
<1>3. QED  BY <1>2, CleanupsType DEF FinishAndDelete, TypeOK

LEMMA ActiveIsRow == ASSUME NEW id \in SessionIds, Active(id) PROVE id \in SessionRows
BY DEF Active, SessionRows, NoRow

LEMMA ActiveOfAreRows == ASSUME NEW u PROVE ActiveOf(u) \subseteq SessionRows
BY ActiveIsRow DEF ActiveOf

LEMMA InitType == Init => TypeOK
<1> SUFFICES ASSUME Init PROVE TypeOK  OBVIOUS
<1>1. member \in [Users -> {"none", "in", "out", "deactivated"}] /\ team \in [Users -> Teams \cup {NoTeam}]
  BY DEF Init
<1>2. scenario \in [Teams -> Ranges \cup {NoRange}] /\ target \in [Nodes -> {"none", "off", "on"}]
  BY DEF Init
<1>3. sessions \in [SessionIds -> Session \cup {NoRow}] /\ request \in [Users -> Request \cup {Idle}]
  BY DEF Init
<1>4. restore \in [Users -> (SessionIds \X Nodes) \cup {NoRestore}]
  BY DEF Init
<1>5. revoke \in [Revokers -> [Hosts -> {"idle", "waiting", "delete", "verify", "clean", "failed"}]]
  BY DEF Init, NotRevoking
<1>6. found \in [Revokers -> SUBSET Nodes]
  BY DEF Init
<1>7. QED  BY <1>1, <1>2, <1>3, <1>4, <1>5, <1>6 DEF Init, TypeOK

LEMMA CrashType == ASSUME TypeOK, Crash PROVE TypeOK'
<1>1. request' \in [Users -> Request \cup {Idle}]
      /\ restore' \in [Users -> (SessionIds \X Nodes) \cup {NoRestore}]
      /\ found' \in [Revokers -> SUBSET Nodes]
  BY DEF Crash
<1>2. revoke' \in [Revokers -> [Hosts -> {"idle", "waiting", "delete", "verify", "clean", "failed"}]]
  BY DEF Crash, NotRevoking
<1>3. QED  BY <1>1, <1>2 DEF Crash, TypeOK

LEMMA TypeStep == TypeOK /\ [Next]_vars => TypeOK'
<1> SUFFICES ASSUME TypeOK, [Next]_vars PROVE TypeOK'  OBVIOUS
<1>1. ASSUME People PROVE TypeOK'
  <2>1. ASSUME NEW t \in Teams, CreateTeam(t) PROVE TypeOK'
    BY <2>1 DEF CreateTeam, TypeOK
  <2>2. ASSUME NEW t \in Teams, RemoveTeam(t) PROVE TypeOK'
    <3>1. {id \in SessionIds : Active(id) /\ sessions[id].team = t} \subseteq SessionRows
      BY ActiveIsRow
    <3>2. sessions' \in [SessionIds -> Session \cup {NoRow}] /\ cleaning' \in SUBSET (SessionIds \X Nodes)
      BY <2>2, <3>1, FinishAndDeleteType DEF RemoveTeam
    <3>3. QED  BY <2>2, <3>2 DEF RemoveTeam, TypeOK
  <2>3. ASSUME NEW t \in Teams, RemoveTeamRefused(t) PROVE TypeOK'
    BY <2>3, ActiveIsRow, FinishType DEF RemoveTeamRefused, TypeOK, Ended
  <2>4. ASSUME NEW u \in Users, Login(u) PROVE TypeOK'
    BY <2>4 DEF Login, TypeOK
  <2>5. ASSUME NEW u \in Users, Logout(u) PROVE TypeOK'
    BY <2>5, ActiveOfAreRows, FinishType DEF Logout, TypeOK, Ended
  <2>6. ASSUME NEW u \in Users, CutAccount(u) PROVE TypeOK'
    BY <2>6, ActiveOfAreRows, FinishType DEF CutAccount, TypeOK, Ended
  <2>7. ASSUME NEW u \in Users, RemoveUser(u) PROVE TypeOK'
    BY <2>7, ActiveOfAreRows, FinishAndDeleteType DEF RemoveUser, TypeOK
  <2>8. ASSUME NEW u \in Users, DeactivateUser(u) PROVE TypeOK'
    BY <2>8, ActiveOfAreRows, FinishType DEF DeactivateUser, TypeOK, Ended
  <2>9. ASSUME NEW u \in Users, NEW t \in Teams \cup {NoTeam}, Register(u, t) PROVE TypeOK'
    BY <2>9 DEF Register, TypeOK
  <2>10. ASSUME NEW u \in Users, NEW t \in Teams \cup {NoTeam}, MoveUser(u, t) PROVE TypeOK'
    BY <2>10, ActiveOfAreRows, FinishType DEF MoveUser, TypeOK, Ended
  <2>11. QED
    BY <1>1, <2>1, <2>2, <2>3, <2>4, <2>5, <2>6, <2>7, <2>8, <2>9, <2>10 DEF People
<1>2. ASSUME Machines PROVE TypeOK'
  <2>1. ASSUME NEW t \in Teams, NEW r \in Ranges, StartScenario(t, r) PROVE TypeOK'
    BY <2>1, ActiveIsRow, FinishType DEF StartScenario, TypeOK, Ended
  <2>2. ASSUME NEW t \in Teams, NEW r \in Ranges, CompleteScenario(t, r) PROVE TypeOK'
    BY <2>2, ActiveIsRow, FinishType DEF CompleteScenario, TypeOK, Ended
  <2>3. ASSUME NEW n \in Nodes, EnableTarget(n) PROVE TypeOK'
    BY <2>3 DEF EnableTarget, TypeOK
  <2>4. ASSUME NEW n \in Nodes, NEW to \in {"none", "off"}, WithdrawTarget(n, to) PROVE TypeOK'
    BY <2>4, ActiveIsRow, FinishType DEF WithdrawTarget, ActiveOn, TypeOK, Ended
  <2>5. QED  BY <1>2, <2>1, <2>2, <2>3, <2>4 DEF Machines
<1>3. ASSUME Publishing PROVE TypeOK'
  BY <1>3 DEF Publishing, ShowOrHide, TypeOK
<1>4. ASSUME Connect PROVE TypeOK'
  <2>1. ASSUME NEW u \in Users, NEW n \in Nodes, RequestSession(u, n) PROVE TypeOK'
    BY <2>1, NodesArePlaced DEF RequestSession, Ask, Request, TypeOK
  <2>2. ASSUME NEW u \in Users, NEW n \in Nodes, RequestInstructorSession(u, n) PROVE TypeOK'
    BY <2>2, NodesArePlaced DEF RequestInstructorSession, Ask, Request, TypeOK
  <2>3. ASSUME NEW u \in Users, LinkCreated(u) PROVE TypeOK'
    <3>1. request[u] \in Request
      BY <2>3 DEF LinkCreated, Idle, TypeOK
    <3>2. [request[u] EXCEPT !.pc = "polling"] \in Request
      BY <3>1 DEF Request
    <3>3. request' \in [Users -> Request \cup {Idle}] /\ request[u].node \in Nodes
      BY <2>3, <3>1, <3>2 DEF LinkCreated, Request, TypeOK
    <3>4. QED  BY <2>3, <3>3 DEF LinkCreated, TypeOK
  <2>4. ASSUME NEW u \in Users, ConnectFails(u) PROVE TypeOK'
    BY <2>4 DEF ConnectFails, TypeOK
  <2>5. ASSUME NEW u \in Users, NEW gone \in BOOLEAN, InsertRefused(u, gone) PROVE TypeOK'
    BY <2>5, CrashType DEF InsertRefused
  <2>6. ASSUME NEW u \in Users, NEW id \in SessionIds, InsertSession(u, id) PROVE TypeOK'
    BY <2>6 DEF InsertSession, Request, Idle, Session, StillGranted, TypeOK
  <2>7. QED
    BY <1>4, <2>1, <2>2, <2>3, <2>4, <2>5, <2>6 DEF Connect, ConnectSettles
<1>5. ASSUME Ending PROVE TypeOK'
  BY <1>5, ActiveIsRow, FinishType DEF Ending, EndSession, TypeOK, Ended
<1>6. ASSUME Expiry PROVE TypeOK'
  <2>1. ASSUME NEW id \in SessionIds, TimePasses(id) PROVE TypeOK'
    <3>1. sessions[id] \in Session
      BY <2>1 DEF TimePasses, Active, NoRow, TypeOK
    <3>2. [sessions[id] EXCEPT !.due = TRUE] \in Session
      BY <3>1 DEF Session
    <3>3. QED  BY <2>1, <3>2 DEF TimePasses, TypeOK
  <2>2. ASSUME Sweep PROVE TypeOK'
    BY <2>2, ActiveIsRow, FinishType DEF Sweep, TypeOK, Ended
  <2>3. QED  BY <1>6, <2>1, <2>2 DEF Expiry
<1>7. ASSUME Cleaning PROVE TypeOK'
  BY <1>7 DEF Cleaning, LinkDeleted, LinkDeletionFails, TypeOK
<1>8. ASSUME Restoring PROVE TypeOK'
  <2>1. ASSUME NEW u \in Users, NEW id \in SessionIds, RestoreEnds(u, id) PROVE TypeOK'
    BY <2>1, ActiveIsRow, FinishType DEF RestoreEnds, IsLatest, TypeOK, Ended
  <2>2. ASSUME NEW u \in Users, NEW id \in SessionIds, RestoreBegins(u, id) PROVE TypeOK'
    BY <2>2 DEF RestoreBegins, IsLatest, Active, Session, NoRow, TypeOK
  <2>3. ASSUME NEW u \in Users, RestoreFindsNoLink(u) PROVE TypeOK'
    BY <2>3, FinishType DEF RestoreFindsNoLink, TypeOK, Ended
  <2>4. ASSUME NEW u \in Users, RestoreReturns(u) PROVE TypeOK'
    BY <2>4 DEF RestoreReturns, TypeOK
  <2>5. QED  BY <1>8, <2>1, <2>2, <2>3, <2>4 DEF Restoring, RestoreSettles
<1>9. ASSUME Resetting PROVE TypeOK'
  <2>1. ASSUME NEW r \in Revokers, NEW h \in Hosts, ListLinks(r, h) PROVE TypeOK'
    BY <2>1 DEF ListLinks, Stage, LinksOn, TypeOK
  <2>2. ASSUME NEW r \in Revokers, NEW h \in Hosts, DeleteLinks(r, h) PROVE TypeOK'
    BY <2>2 DEF DeleteLinks, Stage, TypeOK
  <2>3. ASSUME NEW r \in Revokers, NEW h \in Hosts, VerifyLinks(r, h) PROVE TypeOK'
    BY <2>3 DEF VerifyLinks, Stage, TypeOK
  <2>4. ASSUME NEW r \in Revokers, NEW h \in Hosts, RevokeFails(r, h) PROVE TypeOK'
    BY <2>4 DEF RevokeFails, Stage, LinksOn, TypeOK
  <2>5. ASSUME NEW r \in Revokers, BeginRevoke(r)
        PROVE  /\ sessions' \in [SessionIds -> Session \cup {NoRow}]
               /\ revoke' \in [Revokers -> [Hosts -> {"idle", "waiting", "delete", "verify",
                                                      "clean", "failed"}]]
    <3>1. \A id \in AllActive \cap SessionIds : sessions[id] # NoRow
      BY ActiveIsRow DEF AllActive, SessionRows
    <3>2. sessions' \in [SessionIds -> Session \cup {NoRow}]
      BY <2>5, <3>1, FinishedType DEF BeginRevoke, TypeOK, Ended
    <3>3. QED  BY <2>5, <3>2 DEF BeginRevoke, TypeOK
  <2>6. ASSUME ManualRevokeAll PROVE TypeOK'
    BY <2>6, <2>5 DEF ManualRevokeAll, TypeOK, Revokers
  <2>7. ASSUME ManualRevokeAnswered PROVE TypeOK'
    BY <2>7 DEF ManualRevokeAnswered, NotRevoking, TypeOK
  <2>8. ASSUME NEW o \in {"strict", "override"}, StartReset(o) PROVE TypeOK'
    BY <2>8, <2>5 DEF StartReset, TypeOK, Revokers
  <2>9. ASSUME ResetAbandoned PROVE TypeOK'
    BY <2>9 DEF ResetAbandoned, JobOver, NotRevoking, TypeOK
  <2>10. ASSUME Wipe PROVE TypeOK'
    <3>1. revoke' \in [Revokers -> [Hosts -> {"idle", "waiting", "delete", "verify", "clean", "failed"}]]
      BY <2>10 DEF Wipe, JobOver, NotRevoking, TypeOK
    <3>2. member' \in [Users -> {"none", "in", "out", "deactivated"}]
          /\ scenario' \in [Teams -> Ranges \cup {NoRange}]
          /\ sessions' \in [SessionIds -> Session \cup {NoRow}]
      BY <2>10 DEF Wipe
    <3>3. QED  BY <2>10, <3>1, <3>2 DEF Wipe, JobOver, TypeOK
  <2>11. ASSUME RevokeThrows PROVE TypeOK'
    BY <2>11 DEF RevokeThrows, JobOver, NotRevoking, TypeOK
  <2>12. QED
    BY <1>9, <2>1, <2>2, <2>3, <2>4, <2>6, <2>7, <2>8, <2>9, <2>10, <2>11
    DEF Resetting, RevokeStep, ResetEnds
<1>10. CASE Crash  BY <1>10, CrashType
<1>11. ASSUME UNCHANGED vars PROVE TypeOK'
  BY <1>11 DEF vars, TypeOK
<1>12. QED
  BY <1>1, <1>2, <1>3, <1>4, <1>5, <1>6, <1>7, <1>8, <1>9, <1>10, <1>11 DEF Next

\* TypeOK holds in every reachable state.
THEOREM TypeCorrect == Spec => []TypeOK
BY InitType, TypeStep, PTL DEF Spec

-------------------------------------------------------------------------------
(* Grants and owners                                                        *)

\* What a row, and a Connect in flight, say of the scenario is what the topology says.
RangesAgree ==
    /\ \A id \in SessionRows : sessions[id].range = RangeOf[sessions[id].node]
    /\ \A u \in Users : request[u] # Idle => request[u].range = RangeOf[request[u].node]

\* The inductive invariant: StartScenario ends sessions by their range, StillGranted
\* looks at the node's, so the two must agree; a granted session's team must exist,
\* or a new team with its rowid would start without a scenario.
GrantInv == TypeOK /\ RowsHaveOwners /\ RangesAgree /\ GrantIsHonoured

\* A step that ends the rows of S and deletes those of D, and writes no new row.
EndsAndDeletes(S, D) == \A id \in SessionIds :
    /\ id \in D => sessions'[id] = NoRow
    /\ id \in S \ D => /\ sessions'[id].outcome # "active"
                       /\ sessions'[id].user = sessions[id].user
                       /\ sessions'[id].team = sessions[id].team
                       /\ sessions'[id].range = sessions[id].range
                       /\ sessions'[id].node = sessions[id].node
    /\ id \notin S \cup D => sessions'[id] = sessions[id]

OwnedAfter(id) ==
    member'[sessions[id].user] # "none" /\ sessions[id].team \in teams' \cup {NoTeam}

GrantedAfter(id) ==
    /\ member'[sessions[id].user] = "in"
    /\ team'[sessions[id].user] = sessions[id].team
    /\ sessions[id].team # NoTeam => /\ scenario'[sessions[id].team] = RangeOf[sessions[id].node]
                                    /\ target'[sessions[id].node] = "on"

LEMMA FinishedRow ==
    ASSUME TypeOK, NEW S \in SUBSET SessionRows, NEW how \in Ended, NEW id \in SessionIds
    PROVE  /\ id \notin S => Finished(S, how)[id] = sessions[id]
           /\ id \in S => /\ Finished(S, how)[id].outcome = how
                          /\ Finished(S, how)[id].user = sessions[id].user
                          /\ Finished(S, how)[id].team = sessions[id].team
                          /\ Finished(S, how)[id].range = sessions[id].range
                          /\ Finished(S, how)[id].node = sessions[id].node
<1>1. CASE id \notin S  BY <1>1 DEF Finished
<1>2. CASE id \in S
  <2>1. sessions[id] \in Session  BY <1>2 DEF TypeOK, SessionRows
  <2>2. Finished(S, how)[id] = [sessions[id] EXCEPT !.outcome = how, !.due = FALSE, !.granted = FALSE]
    BY <1>2 DEF Finished
  <2>3. QED  BY <1>2, <2>1, <2>2 DEF Session
<1>3. QED  BY <1>1, <1>2

LEMMA FinishEnds ==
    ASSUME TypeOK, NEW S \in SUBSET SessionRows, NEW how \in Ended, Finish(S, how)
    PROVE  EndsAndDeletes(S, {})
BY FinishedRow DEF Finish, EndsAndDeletes, Ended

LEMMA FinishAndDeleteEnds ==
    ASSUME TypeOK, NEW S \in SUBSET SessionRows, NEW D, FinishAndDelete(S, D)
    PROVE  EndsAndDeletes(S, D)
<1>1. "force_closed" \in Ended  BY DEF Ended
<1>2. \A id \in SessionIds : sessions'[id] = IF id \in D THEN NoRow ELSE Finished(S, "force_closed")[id]
  BY DEF FinishAndDelete
<1>3. QED  BY <1>1, <1>2, FinishedRow DEF EndsAndDeletes

\* Ending and deleting rows keeps the invariant when every row left has its owners and
\* every granted session left has its authorization after the step.
LEMMA EndingKeepsGrants ==
    ASSUME GrantInv, NEW S \in SUBSET SessionRows, NEW D, EndsAndDeletes(S, D),
           request' = request,
           \A id \in SessionRows \ D : OwnedAfter(id),
           \A id \in SessionIds \ (S \cup D) :
               Active(id) /\ sessions[id].granted => GrantedAfter(id)
    PROVE  RowsHaveOwners' /\ RangesAgree' /\ GrantIsHonoured'
<1>1. \A id \in SessionIds : id \in SessionRows' => id \in SessionRows \ D
  BY DEF SessionRows, EndsAndDeletes
<1>2. RowsHaveOwners'
  BY <1>1 DEF RowsHaveOwners, RowsExist, OwnedAfter, EndsAndDeletes, SessionRows
<1>3. RangesAgree'
  BY <1>1 DEF GrantInv, RangesAgree, EndsAndDeletes, SessionRows
<1>4. GrantIsHonoured'
  <2> SUFFICES ASSUME NEW id \in SessionIds, Active(id)', sessions'[id].granted
               PROVE  StillGranted(sessions[id].user, sessions[id].team, sessions[id].node)'
    BY DEF GrantIsHonoured
  <2>1. sessions'[id] # NoRow  BY DEF Active, NoRow
  <2>2. id \notin S \cup D  BY <2>1 DEF EndsAndDeletes, Active
  <2>3. sessions'[id] = sessions[id]  BY <2>2 DEF EndsAndDeletes
  <2>4. GrantedAfter(id)  BY <2>2, <2>3 DEF Active
  <2>5. QED  BY <2>3, <2>4 DEF GrantedAfter, StillGranted
<1>5. QED  BY <1>2, <1>3, <1>4

\* The same when the step touches nothing a grant or an owner depends on.
LEMMA EndingIsHarmless ==
    ASSUME GrantInv, NEW S \in SUBSET SessionRows, EndsAndDeletes(S, {}),
           UNCHANGED <<request, member, team, teams, scenario, target>>
    PROVE  RowsHaveOwners' /\ RangesAgree' /\ GrantIsHonoured'
<1>1. \A id \in SessionRows : OwnedAfter(id)
  BY DEF GrantInv, RowsHaveOwners, RowsExist, OwnedAfter
<1>2. \A id \in SessionIds : Active(id) /\ sessions[id].granted => GrantedAfter(id)
  BY DEF GrantInv, GrantIsHonoured, StillGranted, GrantedAfter
<1>3. QED  BY <1>1, <1>2, EndingKeepsGrants

LEMMA NothingEnds ==
    ASSUME sessions' = sessions
    PROVE  EndsAndDeletes({}, {})
BY DEF EndsAndDeletes

LEMMA CrashKeepsGrants ==
    ASSUME GrantInv, Crash PROVE RowsHaveOwners' /\ RangesAgree' /\ GrantIsHonoured'
<1>1. RangesAgree'
  BY DEF Crash, GrantInv, RangesAgree, SessionRows
<1>2. RowsHaveOwners' /\ GrantIsHonoured'
  BY DEF Crash, GrantInv, RowsHaveOwners, RowsExist, GrantIsHonoured, StillGranted,
         SessionRows, Active
<1>3. QED  BY <1>1, <1>2

LEMMA GrantStep == GrantInv /\ [Next]_vars => GrantInv'
<1> DEFINE Kept == RowsHaveOwners' /\ RangesAgree' /\ GrantIsHonoured'
<1> SUFFICES ASSUME GrantInv, [Next]_vars PROVE Kept
  BY TypeStep DEF GrantInv
<1>1. ASSUME People PROVE Kept
  <2>1. ASSUME NEW t \in Teams, CreateTeam(t) PROVE Kept
    <3>1. \A id \in SessionRows : sessions[id].team # t
      BY <2>1 DEF CreateTeam, IsNextRow, GrantInv, RowsHaveOwners, RowsExist, NoTeam, Teams
    <3>2. \A id \in SessionRows : OwnedAfter(id)
      BY <2>1 DEF CreateTeam, GrantInv, RowsHaveOwners, RowsExist, OwnedAfter
    <3>3. \A id \in SessionIds : Active(id) /\ sessions[id].granted => GrantedAfter(id)
      BY <2>1, <3>1, ActiveIsRow
      DEF CreateTeam, GrantInv, GrantIsHonoured, StillGranted, GrantedAfter, TypeOK
    <3>4. QED  BY <2>1, <3>2, <3>3, NothingEnds, EndingKeepsGrants DEF CreateTeam
  <2>2. ASSUME NEW u \in Users, NEW t \in Teams \cup {NoTeam}, Register(u, t) PROVE Kept
    <3>1. \A id \in SessionRows : sessions[id].user # u
      BY <2>2 DEF Register, IsNextRow, Users, UserRows, GrantInv, RowsHaveOwners, RowsExist
    <3>2. \A id \in SessionRows : OwnedAfter(id)
      BY <2>2, <3>1 DEF Register, GrantInv, RowsHaveOwners, RowsExist, OwnedAfter, TypeOK
    <3>3. \A id \in SessionIds : Active(id) /\ sessions[id].granted => GrantedAfter(id)
      BY <2>2, <3>1, ActiveIsRow
      DEF Register, GrantInv, GrantIsHonoured, StillGranted, GrantedAfter, TypeOK
    <3>4. QED  BY <2>2, <3>2, <3>3, NothingEnds, EndingKeepsGrants DEF Register
  <2>3. ASSUME NEW u \in Users, Login(u) PROVE Kept
    <3>1. \A id \in SessionRows : OwnedAfter(id)
      BY <2>3 DEF Login, GrantInv, RowsHaveOwners, RowsExist, OwnedAfter, TypeOK
    <3>2. \A id \in SessionIds : Active(id) /\ sessions[id].granted => GrantedAfter(id)
      BY <2>3 DEF Login, GrantInv, GrantIsHonoured, StillGranted, GrantedAfter, TypeOK
    <3>3. QED  BY <2>3, <3>1, <3>2, NothingEnds, EndingKeepsGrants DEF Login
  <2>4. ASSUME NEW u \in Users, Logout(u) PROVE Kept
    <3>1. EndsAndDeletes(ActiveOf(u), {})
      BY <2>4, ActiveOfAreRows, FinishEnds DEF Logout, GrantInv, Ended
    <3>2. \A id \in SessionRows : OwnedAfter(id)
      BY <2>4 DEF Logout, GrantInv, RowsHaveOwners, RowsExist, OwnedAfter, TypeOK
    <3>3. \A id \in SessionIds \ ActiveOf(u) :
            Active(id) /\ sessions[id].granted => GrantedAfter(id)
      BY <2>4 DEF Logout, ActiveOf, GrantInv, GrantIsHonoured, StillGranted, GrantedAfter, TypeOK
    <3>4. QED  BY <2>4, <3>1, <3>2, <3>3, ActiveOfAreRows, EndingKeepsGrants DEF Logout
  <2>5. ASSUME NEW u \in Users, CutAccount(u) PROVE Kept
    <3>1. EndsAndDeletes(ActiveOf(u), {})
      BY <2>5, ActiveOfAreRows, FinishEnds DEF CutAccount, GrantInv, Ended
    <3>2. \A id \in SessionRows : OwnedAfter(id)
      BY <2>5 DEF CutAccount, GrantInv, RowsHaveOwners, RowsExist, OwnedAfter, TypeOK
    <3>3. \A id \in SessionIds \ ActiveOf(u) :
            Active(id) /\ sessions[id].granted => GrantedAfter(id)
      BY <2>5 DEF CutAccount, ActiveOf, GrantInv, GrantIsHonoured, StillGranted, GrantedAfter, TypeOK
    <3>4. QED  BY <2>5, <3>1, <3>2, <3>3, ActiveOfAreRows, EndingKeepsGrants DEF CutAccount
  <2>6. ASSUME NEW u \in Users, DeactivateUser(u) PROVE Kept
    <3>1. EndsAndDeletes(ActiveOf(u), {})
      BY <2>6, ActiveOfAreRows, FinishEnds DEF DeactivateUser, GrantInv, Ended
    <3>2. \A id \in SessionRows : OwnedAfter(id)
      BY <2>6 DEF DeactivateUser, GrantInv, RowsHaveOwners, RowsExist, OwnedAfter, TypeOK
    <3>3. \A id \in SessionIds \ ActiveOf(u) :
            Active(id) /\ sessions[id].granted => GrantedAfter(id)
      BY <2>6 DEF DeactivateUser, ActiveOf, GrantInv, GrantIsHonoured, StillGranted, GrantedAfter, TypeOK
    <3>4. QED  BY <2>6, <3>1, <3>2, <3>3, ActiveOfAreRows, EndingKeepsGrants DEF DeactivateUser
  <2>7. ASSUME NEW u \in Users, NEW t \in Teams \cup {NoTeam}, MoveUser(u, t) PROVE Kept
    <3>1. EndsAndDeletes(ActiveOf(u), {})
      BY <2>7, ActiveOfAreRows, FinishEnds DEF MoveUser, GrantInv, Ended
    <3>2. \A id \in SessionRows : OwnedAfter(id)
      BY <2>7 DEF MoveUser, GrantInv, RowsHaveOwners, RowsExist, OwnedAfter, TypeOK
    <3>3. \A id \in SessionIds \ ActiveOf(u) :
            Active(id) /\ sessions[id].granted => GrantedAfter(id)
      BY <2>7 DEF MoveUser, ActiveOf, GrantInv, GrantIsHonoured, StillGranted, GrantedAfter, TypeOK
    <3>4. QED  BY <2>7, <3>1, <3>2, <3>3, ActiveOfAreRows, EndingKeepsGrants DEF MoveUser
  <2>8. ASSUME NEW u \in Users, RemoveUser(u) PROVE Kept
    <3> DEFINE D == {id \in SessionRows : sessions[id].user = u}
    <3>1. EndsAndDeletes(ActiveOf(u), D)
      BY <2>8, ActiveOfAreRows, FinishAndDeleteEnds DEF RemoveUser, GrantInv
    <3>2. \A id \in SessionRows \ D : OwnedAfter(id)
      BY <2>8 DEF RemoveUser, GrantInv, RowsHaveOwners, RowsExist, OwnedAfter, TypeOK
    <3>3. \A id \in SessionIds \ (ActiveOf(u) \cup D) :
            Active(id) /\ sessions[id].granted => GrantedAfter(id)
      BY <2>8 DEF RemoveUser, ActiveOf, GrantInv, GrantIsHonoured, StillGranted, GrantedAfter, TypeOK
    <3> HIDE DEF D
    <3>4. QED  BY <2>8, <3>1, <3>2, <3>3, ActiveOfAreRows, EndingKeepsGrants DEF RemoveUser
  <2>9. ASSUME NEW t \in Teams, RemoveTeam(t) PROVE Kept
    <3> DEFINE gone == {u \in UserRows : team[u] = t}
               S == {id \in SessionIds : Active(id) /\ sessions[id].team = t}
               D == {id \in SessionRows : sessions[id].team = t \/ sessions[id].user \in gone}
    <3>1. S \in SUBSET SessionRows  BY ActiveIsRow
    <3>2. EndsAndDeletes(S, D)
      BY <2>9, <3>1, FinishAndDeleteEnds DEF RemoveTeam, GrantInv
    <3>3. \A id \in SessionRows \ D : OwnedAfter(id)
      BY <2>9 DEF RemoveTeam, GrantInv, RowsHaveOwners, RowsExist, OwnedAfter, TypeOK, Session, SessionRows
    <3>4. \A id \in SessionIds \ (S \cup D) :
            Active(id) /\ sessions[id].granted => GrantedAfter(id)
      <4> SUFFICES ASSUME NEW id \in SessionIds \ (S \cup D), Active(id), sessions[id].granted
                   PROVE  GrantedAfter(id)
        OBVIOUS
      <4>1. id \in SessionRows /\ sessions[id] \in Session /\ sessions[id].team # t /\ sessions[id].user \notin gone
        BY ActiveIsRow DEF GrantInv, TypeOK, SessionRows
      <4>2. StillGranted(sessions[id].user, sessions[id].team, sessions[id].node)
        BY DEF GrantInv, GrantIsHonoured
      <4>3. QED
        BY <2>9, <4>1, <4>2 DEF RemoveTeam, StillGranted, GrantedAfter, GrantInv, TypeOK, Session
    <3> HIDE DEF S, D
    <3>5. QED  BY <2>9, <3>1, <3>2, <3>3, <3>4, EndingKeepsGrants DEF RemoveTeam
  <2>10. ASSUME NEW t \in Teams, RemoveTeamRefused(t) PROVE Kept
    <3> DEFINE S == {id \in SessionIds : Active(id) /\ sessions[id].team = t}
    <3>1. S \in SUBSET SessionRows  BY ActiveIsRow
    <3>2. EndsAndDeletes(S, {})
      BY <2>10, <3>1, FinishEnds DEF RemoveTeamRefused, GrantInv, Ended
    <3> HIDE DEF S
    <3>3. QED  BY <2>10, <3>1, <3>2, EndingIsHarmless DEF RemoveTeamRefused
  <2>11. QED
    BY <1>1, <2>1, <2>2, <2>3, <2>4, <2>5, <2>6, <2>7, <2>8, <2>9, <2>10 DEF People
<1>2. ASSUME Machines PROVE Kept
  <2>1. ASSUME NEW t \in Teams, NEW r \in Ranges, StartScenario(t, r) PROVE Kept
    <3> DEFINE S == {id \in SessionIds : Active(id) /\ sessions[id].team = t /\ sessions[id].range # r}
    <3>1. S \in SUBSET SessionRows  BY ActiveIsRow
    <3>2. EndsAndDeletes(S, {})
      BY <2>1, <3>1, FinishEnds DEF StartScenario, GrantInv, Ended
    <3>3. \A id \in SessionRows : OwnedAfter(id)
      BY <2>1 DEF StartScenario, GrantInv, RowsHaveOwners, RowsExist, OwnedAfter
    <3>4. \A id \in SessionIds \ S : Active(id) /\ sessions[id].granted => GrantedAfter(id)
      BY <2>1, ActiveIsRow
      DEF StartScenario, GrantInv, GrantIsHonoured, RangesAgree, StillGranted, GrantedAfter, TypeOK
    <3> HIDE DEF S
    <3>5. QED  BY <2>1, <3>1, <3>2, <3>3, <3>4, EndingKeepsGrants DEF StartScenario
  <2>2. ASSUME NEW t \in Teams, NEW r \in Ranges, CompleteScenario(t, r) PROVE Kept
    <3> DEFINE S == {id \in SessionIds : Active(id) /\ sessions[id].team = t /\ sessions[id].range = r}
    <3>1. S \in SUBSET SessionRows  BY ActiveIsRow
    <3>2. EndsAndDeletes(S, {})
      BY <2>2, <3>1, FinishEnds DEF CompleteScenario, GrantInv, Ended
    <3>3. \A id \in SessionRows : OwnedAfter(id)
      BY <2>2 DEF CompleteScenario, GrantInv, RowsHaveOwners, RowsExist, OwnedAfter
    <3>4. \A id \in SessionIds \ S : Active(id) /\ sessions[id].granted => GrantedAfter(id)
      BY <2>2, ActiveIsRow
      DEF CompleteScenario, GrantInv, GrantIsHonoured, RangesAgree, StillGranted, GrantedAfter, TypeOK
    <3> HIDE DEF S
    <3>5. QED  BY <2>2, <3>1, <3>2, <3>3, <3>4, EndingKeepsGrants DEF CompleteScenario
  <2>3. ASSUME NEW n \in Nodes, EnableTarget(n) PROVE Kept
    <3>1. \A id \in SessionRows : OwnedAfter(id)
      BY <2>3 DEF EnableTarget, GrantInv, RowsHaveOwners, RowsExist, OwnedAfter
    <3>2. \A id \in SessionIds : Active(id) /\ sessions[id].granted => GrantedAfter(id)
      BY <2>3 DEF EnableTarget, GrantInv, GrantIsHonoured, StillGranted, GrantedAfter, TypeOK
    <3>3. QED  BY <2>3, <3>1, <3>2, NothingEnds, EndingKeepsGrants DEF EnableTarget
  <2>4. ASSUME NEW n \in Nodes, NEW to \in {"none", "off"}, WithdrawTarget(n, to) PROVE Kept
    <3> DEFINE S == {id \in ActiveOn(n) : sessions[id].team # NoTeam}
    <3>1. S \in SUBSET SessionRows  BY ActiveIsRow DEF ActiveOn
    <3>2. EndsAndDeletes(S, {})
      BY <2>4, <3>1, FinishEnds DEF WithdrawTarget, GrantInv, Ended
    <3>3. \A id \in SessionRows : OwnedAfter(id)
      BY <2>4 DEF WithdrawTarget, GrantInv, RowsHaveOwners, RowsExist, OwnedAfter
    <3>4. \A id \in SessionIds \ S : Active(id) /\ sessions[id].granted => GrantedAfter(id)
      BY <2>4 DEF WithdrawTarget, ActiveOn, GrantInv, GrantIsHonoured, StillGranted, GrantedAfter, TypeOK
    <3> HIDE DEF S
    <3>5. QED  BY <2>4, <3>1, <3>2, <3>3, <3>4, EndingKeepsGrants DEF WithdrawTarget
  <2>5. QED  BY <1>2, <2>1, <2>2, <2>3, <2>4 DEF Machines
<1>3. ASSUME UNCHANGED <<sessions, request, member, team, teams, scenario, target>> PROVE Kept
  BY <1>3, NothingEnds, EndingIsHarmless
<1>4. CASE Publishing  BY <1>3, <1>4 DEF Publishing, ShowOrHide
<1>5. ASSUME Connect PROVE Kept
  <2>1. ASSUME NEW u \in Users, UNCHANGED <<sessions, member, team, teams, scenario, target>>,
               NEW q \in Request \cup {Idle}, request' = [request EXCEPT ![u] = q],
               q # Idle => q.range = RangeOf[q.node]
        PROVE  Kept
    <3>1. RowsHaveOwners'
      BY <2>1 DEF GrantInv, RowsHaveOwners, RowsExist, SessionRows
    <3>2. RangesAgree'
      BY <2>1 DEF GrantInv, RangesAgree, SessionRows, TypeOK
    <3>3. GrantIsHonoured'
      BY <2>1 DEF GrantInv, GrantIsHonoured, StillGranted, Active
    <3>4. QED  BY <3>1, <3>2, <3>3
  <2>2. ASSUME NEW u \in Users, NEW n \in Nodes, NEW t \in Teams \cup {NoTeam}, Ask(u, n, t),
               UNCHANGED <<sessions, member, team, teams, scenario, target>>
        PROVE  Kept
    <3>1. [pc |-> "creating", node |-> n, team |-> t, range |-> RangeOf[n]] \in Request
      BY NodesArePlaced DEF Request
    <3>2. QED  BY <2>1, <2>2, <3>1 DEF Ask
  <2>3. ASSUME NEW u \in Users, NEW n \in Nodes, RequestSession(u, n) PROVE Kept
    BY <2>2, <2>3 DEF RequestSession, GrantInv, TypeOK
  <2>4. ASSUME NEW u \in Users, NEW n \in Nodes, RequestInstructorSession(u, n) PROVE Kept
    BY <2>2, <2>4 DEF RequestInstructorSession
  <2>5. ASSUME NEW u \in Users, LinkCreated(u) PROVE Kept
    <3>1. request[u] \in Request
      BY <2>5 DEF LinkCreated, Idle, GrantInv, TypeOK
    <3>2. [request[u] EXCEPT !.pc = "polling"] \in Request
          /\ [request[u] EXCEPT !.pc = "polling"].range = request[u].range
          /\ [request[u] EXCEPT !.pc = "polling"].node = request[u].node
      BY <3>1 DEF Request
    <3>3. request[u].range = RangeOf[request[u].node]
      BY <2>5 DEF LinkCreated, Idle, GrantInv, RangesAgree
    <3>4. request' = [request EXCEPT ![u] = [request[u] EXCEPT !.pc = "polling"]]
      BY <2>5 DEF LinkCreated
    <3>5. QED  BY <2>1, <2>5, <3>2, <3>3, <3>4 DEF LinkCreated
  <2>6. ASSUME NEW u \in Users, ConnectFails(u) PROVE Kept
    BY <2>1, <2>6 DEF ConnectFails
  <2>7. ASSUME NEW u \in Users, NEW gone \in BOOLEAN, InsertRefused(u, gone) PROVE Kept
    BY <2>7, CrashKeepsGrants DEF InsertRefused
  <2>8. ASSUME NEW u \in Users, NEW id \in SessionIds, InsertSession(u, id) PROVE Kept
    <3> DEFINE new == [user |-> u, team |-> request[u].team, range |-> request[u].range,
                       node |-> request[u].node, outcome |-> "active", due |-> FALSE,
                       granted |-> StillGranted(u, request[u].team, request[u].node)]
    <3>1. sessions' = [sessions EXCEPT ![id] = new]  BY <2>8 DEF InsertSession
    <3>2. RowsExist(u, request[u].team) /\ request[u].range = RangeOf[request[u].node]
      BY <2>8 DEF InsertSession, Idle, GrantInv, RangesAgree
    <3>3. RowsHaveOwners'
      <4> SUFFICES ASSUME NEW x \in SessionIds, sessions'[x] # NoRow
                   PROVE  RowsExist(sessions[x].user, sessions[x].team)'
        BY DEF RowsHaveOwners, SessionRows
      <4>1. CASE x = id
        BY <2>8, <3>1, <3>2, <4>1 DEF InsertSession, RowsExist, GrantInv, TypeOK
      <4>2. CASE x # id
        BY <2>8, <3>1, <4>2 DEF InsertSession, RowsExist, GrantInv, RowsHaveOwners, SessionRows, TypeOK
      <4>3. QED  BY <4>1, <4>2
    <3>4. RangesAgree'
      BY <2>8, <3>1, <3>2 DEF InsertSession, GrantInv, RangesAgree, SessionRows, TypeOK
    <3>5. GrantIsHonoured'
      <4> SUFFICES ASSUME NEW x \in SessionIds, Active(x)', sessions'[x].granted
                   PROVE  StillGranted(sessions[x].user, sessions[x].team, sessions[x].node)'
        BY DEF GrantIsHonoured
      <4>1. CASE x = id
        BY <2>8, <3>1, <4>1 DEF InsertSession, StillGranted, GrantInv, TypeOK
      <4>2. CASE x # id
        BY <2>8, <3>1, <4>2 DEF InsertSession, StillGranted, GrantInv, GrantIsHonoured, Active, TypeOK
      <4>3. QED  BY <4>1, <4>2
    <3>6. QED  BY <3>3, <3>4, <3>5
  <2>9. QED
    BY <1>5, <2>3, <2>4, <2>5, <2>6, <2>7, <2>8 DEF Connect, ConnectSettles
<1>6. ASSUME NEW id \in SessionRows, NEW how \in Ended, Finish({id}, how),
             UNCHANGED <<request, member, team, teams, scenario, target>>
      PROVE  Kept
  <2>1. EndsAndDeletes({id}, {})  BY <1>6, FinishEnds DEF GrantInv
  <2>2. QED  BY <1>6, <2>1, EndingIsHarmless
<1>7. CASE Ending
  BY <1>6, <1>7, ActiveIsRow DEF Ending, EndSession, Ended
<1>8. ASSUME Expiry PROVE Kept
  <2>1. ASSUME NEW id \in SessionIds, TimePasses(id) PROVE Kept
    <3>1. sessions[id] \in Session
      BY <2>1 DEF TimePasses, Active, NoRow, GrantInv, TypeOK
    <3>2. \A x \in SessionIds :
            /\ (sessions'[x] = NoRow) <=> (sessions[x] = NoRow)
            /\ sessions[x] # NoRow => /\ sessions'[x].user = sessions[x].user
                                     /\ sessions'[x].team = sessions[x].team
                                     /\ sessions'[x].range = sessions[x].range
                                     /\ sessions'[x].node = sessions[x].node
                                     /\ sessions'[x].outcome = sessions[x].outcome
                                     /\ sessions'[x].granted = sessions[x].granted
      <4>1. sessions' = [sessions EXCEPT ![id] = [sessions[id] EXCEPT !.due = TRUE]]
        BY <2>1 DEF TimePasses
      <4>2. [sessions[id] EXCEPT !.due = TRUE] # NoRow /\ sessions[id] # NoRow
        BY <2>1, <3>1 DEF Session, NoRow, TimePasses, Active
      <4>3. QED  BY <3>1, <4>1, <4>2 DEF Session, GrantInv, TypeOK
    <3>3. RowsHaveOwners'
      BY <2>1, <3>2 DEF TimePasses, GrantInv, RowsHaveOwners, RowsExist, SessionRows
    <3>4. RangesAgree'
      BY <2>1, <3>2 DEF TimePasses, GrantInv, RangesAgree, SessionRows
    <3>5. GrantIsHonoured'
      BY <2>1, <3>2 DEF TimePasses, GrantInv, GrantIsHonoured, StillGranted, Active, NoRow
    <3>6. QED  BY <3>3, <3>4, <3>5
  <2>2. ASSUME Sweep PROVE Kept
    <3> DEFINE S == {id \in SessionIds : Active(id) /\ sessions[id].due}
    <3>1. S \in SUBSET SessionRows  BY ActiveIsRow
    <3>2. EndsAndDeletes(S, {})  BY <2>2, <3>1, FinishEnds DEF Sweep, GrantInv, Ended
    <3> HIDE DEF S
    <3>3. QED  BY <2>2, <3>1, <3>2, EndingIsHarmless DEF Sweep
  <2>3. QED  BY <1>8, <2>1, <2>2 DEF Expiry
<1>9. CASE Cleaning  BY <1>3, <1>9 DEF Cleaning, LinkDeleted, LinkDeletionFails
<1>10. ASSUME Restoring PROVE Kept
  <2>1. ASSUME NEW u \in Users, NEW id \in SessionIds, RestoreEnds(u, id) PROVE Kept
    BY <1>6, <2>1, ActiveIsRow DEF RestoreEnds, IsLatest, Ended
  <2>2. ASSUME NEW u \in Users, NEW id \in SessionIds, RestoreBegins(u, id) PROVE Kept
    BY <1>3, <2>2 DEF RestoreBegins
  <2>3. ASSUME NEW u \in Users, RestoreFindsNoLink(u) PROVE Kept
    <3> DEFINE S == {restore[u][1]} \cap SessionRows
    <3>1. EndsAndDeletes(S, {})
      BY <2>3, FinishEnds DEF RestoreFindsNoLink, GrantInv, Ended
    <3>2. QED  BY <2>3, <3>1, EndingIsHarmless DEF RestoreFindsNoLink
  <2>4. ASSUME NEW u \in Users, RestoreReturns(u) PROVE Kept
    BY <1>3, <2>4 DEF RestoreReturns
  <2>5. QED  BY <1>10, <2>1, <2>2, <2>3, <2>4 DEF Restoring, RestoreSettles
<1>11. ASSUME Resetting PROVE Kept
  <2>1. ASSUME NEW r \in Revokers, RevokeStep(r) PROVE Kept
    BY <1>3, <2>1 DEF RevokeStep, ListLinks, DeleteLinks, VerifyLinks, RevokeFails
  <2>2. ASSUME NEW r \in Revokers, BeginRevoke(r),
               UNCHANGED <<request, member, team, teams, scenario, target>>
        PROVE  Kept
    <3>1. AllActive \in SUBSET SessionRows  BY ActiveIsRow DEF AllActive
    <3>2. EndsAndDeletes(AllActive, {})
      BY <2>2, <3>1, FinishedRow DEF BeginRevoke, EndsAndDeletes, GrantInv, Ended
    <3>3. QED  BY <2>2, <3>1, <3>2, EndingIsHarmless
  <2>3. CASE ManualRevokeAll  BY <2>2, <2>3 DEF ManualRevokeAll, Revokers
  <2>4. CASE ManualRevokeAnswered  BY <1>3, <2>4 DEF ManualRevokeAnswered
  <2>5. ASSUME NEW o \in {"strict", "override"}, StartReset(o) PROVE Kept
    BY <2>2, <2>5 DEF StartReset, Revokers
  <2>6. CASE ResetAbandoned  BY <1>3, <2>6 DEF ResetAbandoned
  <2>7. ASSUME Wipe PROVE Kept
    <3>1. \A id \in SessionIds : sessions'[id] = NoRow  BY <2>7 DEF Wipe
    <3>2. RowsHaveOwners' /\ GrantIsHonoured'
      BY <3>1 DEF RowsHaveOwners, GrantIsHonoured, SessionRows, Active, NoRow
    <3>3. RangesAgree'
      BY <2>7, <3>1 DEF Wipe, GrantInv, RangesAgree, SessionRows
    <3>4. QED  BY <3>2, <3>3
  <2>8. CASE RevokeThrows  BY <1>3, <2>8 DEF RevokeThrows, JobOver
  <2>9. QED
    BY <1>11, <2>1, <2>3, <2>4, <2>5, <2>6, <2>7, <2>8 DEF Resetting, ResetEnds
<1>12. CASE Crash  BY <1>12, CrashKeepsGrants
<1>13. CASE UNCHANGED vars  BY <1>3, <1>13 DEF vars
<1>14. QED
  BY <1>1, <1>2, <1>4, <1>5, <1>7, <1>8, <1>9, <1>10, <1>11, <1>12, <1>13 DEF Next

LEMMA GrantInit == Init => GrantInv
<1> SUFFICES ASSUME Init PROVE GrantInv  OBVIOUS
<1>1. TypeOK  BY InitType
<1>2. \A id \in SessionIds : sessions[id] = NoRow  BY DEF Init
<1>3. RowsHaveOwners /\ GrantIsHonoured
  BY <1>2 DEF RowsHaveOwners, GrantIsHonoured, SessionRows, Active, NoRow
<1>4. RangesAgree  BY <1>2 DEF Init, RangesAgree, SessionRows
<1>5. QED  BY <1>1, <1>3, <1>4 DEF GrantInv

\* No session outlives an authorization that held when its row was written.
THEOREM GrantsAreHonoured == Spec => []GrantIsHonoured
<1>1. GrantInv => GrantIsHonoured  BY DEF GrantInv
<1>2. QED  BY <1>1, GrantInit, GrantStep, PTL DEF Spec

\* No session row outlives its user or its team.
THEOREM RowsAlwaysHaveOwners == Spec => []RowsHaveOwners
<1>1. GrantInv => RowsHaveOwners  BY DEF GrantInv
<1>2. QED  BY <1>1, GrantInit, GrantStep, PTL DEF Spec

-------------------------------------------------------------------------------
(* Links that are accounted for, and outcomes that are final                 *)

\* A non-empty set of rowids has a last one: among the sets of larger rowids, one is
\* minimal for strict inclusion.
LEMMA LastRowid ==
    ASSUME NEW T \in SUBSET SessionIds, T # {}
    PROVE  \E x \in T : \A y \in T : y <= x
<1> DEFINE Above(i) == {j \in SessionIds : j > i}
           A == {Above(i) : i \in T}
<1>1. IsFiniteSet(SessionIds)  BY SizesAreNatural, FS_Interval DEF SessionIds
<1>2. FiniteSubsetsOf(SessionIds) = SUBSET SessionIds  BY <1>1, FS_FiniteSubsetsOfFinite
<1>3. IsWellFoundedOn(StrictSubsetOrdering(SessionIds), SUBSET SessionIds)
  BY <1>2, FS_StrictSubsetOrderingWellFounded
<1>4. A \subseteq SUBSET SessionIds /\ A # {}  OBVIOUS
<1>5. PICK a \in A : \A b \in A : ~ (<<b, a>> \in StrictSubsetOrdering(SessionIds))
  <2> HIDE DEF A
  <2>1. QED  BY <1>3, <1>4, WFMin
<1>6. PICK x \in T : a = Above(x)  BY <1>5
<1>7. ASSUME NEW y \in T, ~(y <= x) PROVE FALSE
  <2>1. x \in Int /\ y \in Int /\ x < y /\ y \in SessionIds
    BY <1>7, SizesAreNatural DEF SessionIds
  <2>2. Above(y) \subseteq Above(x) /\ y \in Above(x) /\ y \notin Above(y)
    BY <2>1, SizesAreNatural DEF SessionIds
  <2>3. <<Above(y), Above(x)>> \in StrictSubsetOrdering(SessionIds)
    BY <2>2 DEF StrictSubsetOrdering
  <2>4. QED  BY <1>5, <1>6, <1>7, <2>3
<1>8. QED  BY <1>6, <1>7

-------------------------------------------------------------------------------
(* Links                                                                    *)

\* A revoke works on one host at a time, and the links it has listed are on the host
\* it is about to clear.
RevokeInStep == \A r \in Revokers :
    /\ \A n \in found[r] : revoke[r][HostOf[n]] = "delete"
    /\ \A g, h \in Hosts : revoke[r][g] \in {"delete", "verify"} /\ revoke[r][h] \in {"delete", "verify"}
                              => g = h

LinkInv == TypeOK /\ LinksAreAccountedFor /\ RevokeInStep

\* The last of the sessions ended on a node deletes its link when no other is active.
LEMMA CleanupCovers ==
    ASSUME NEW S \in SUBSET SessionRows, NEW n, ActiveOn(n) # {}, ActiveOn(n) \subseteq S
    PROVE  \E c \in Cleanups(S) : c[2] = n
<1> DEFINE T == {j \in S : sessions[j].node = n}
<1>1. T \in SUBSET SessionIds /\ T # {}  BY DEF ActiveOn, SessionRows
<1>2. PICK x \in T : \A y \in T : y <= x
  <2> HIDE DEF T
  <2>1. QED  BY <1>1, LastRowid
<1>3. <<x, sessions[x].node>> \in Cleanups(S)  BY <1>2 DEF Cleanups
<1>4. QED  BY <1>2, <1>3

\* Ending the rows of S, each link deleted by the last session to use it, and deleting
\* those of D, forgets no link but those of rows deleted while active, which the step
\* must record.
LEMMA EndingAccounts ==
    ASSUME LinkInv, NEW S \in SUBSET SessionRows, NEW D, EndsAndDeletes(S, D),
           cleaning' = cleaning \cup Cleanups(S),
           UNCHANGED <<links, request, revoke, found>>, stranded \subseteq stranded',
           \A n \in links : (ActiveOn(n) \cap D) \ S # {} => n \in stranded'
    PROVE  LinksAreAccountedFor' /\ RevokeInStep'
<1>1. RevokeInStep'  BY DEF LinkInv, RevokeInStep
<1>2. ASSUME NEW n \in links PROVE Accounted(n)'
  <2>1. CASE ActiveOn(n) = {}
    BY <2>1 DEF LinksAreAccountedFor, LinkInv, Accounted
  <2>2. CASE ActiveOn(n) # {} /\ ActiveOn(n) \subseteq S
    BY <2>2, CleanupCovers DEF Accounted
  <2>3. CASE (ActiveOn(n) \cap D) \ S # {}
    BY <2>3 DEF Accounted
  <2>4. CASE \E id \in ActiveOn(n) : id \notin S \cup D
    <3>1. PICK id \in ActiveOn(n) : id \notin S \cup D  BY <2>4
    <3>2. id \in ActiveOn(n)'  BY <3>1 DEF ActiveOn, Active, EndsAndDeletes
    <3>3. QED  BY <3>2 DEF Accounted
  <2>5. QED  BY <2>1, <2>2, <2>3, <2>4
<1>3. QED  BY <1>1, <1>2 DEF LinksAreAccountedFor

LEMMA FinishAccounts ==
    ASSUME LinkInv, NEW S \in SUBSET SessionRows, NEW how \in Ended, Finish(S, how),
           UNCHANGED <<links, stranded, request, revoke, found>>
    PROVE  LinksAreAccountedFor' /\ RevokeInStep'
<1>1. EndsAndDeletes(S, {})  BY FinishEnds DEF LinkInv
<1>2. QED  BY <1>1, EndingAccounts DEF Finish

\* A step that ends no session, drops no deletion and no listed link.
LEMMA NothingForgotten ==
    ASSUME LinkInv, links' \subseteq links, stranded \subseteq stranded',
           UNCHANGED <<sessions, cleaning, request, revoke, found>>
    PROVE  LinksAreAccountedFor' /\ RevokeInStep'
<1>1. RevokeInStep'  BY DEF LinkInv, RevokeInStep
<1>2. ASSUME NEW n \in links' PROVE Accounted(n)'
  BY <1>2 DEF LinksAreAccountedFor, LinkInv, Accounted, ActiveOn, Active
<1>3. QED  BY <1>1, <1>2 DEF LinksAreAccountedFor

LEMMA CrashForgetsNothing ==
    ASSUME LinkInv, Crash PROVE LinksAreAccountedFor' /\ RevokeInStep'
<1>1. RevokeInStep'
  BY DEF Crash, NotRevoking, RevokeInStep
<1>2. ASSUME NEW n \in links PROVE Accounted(n)'
  <2>1. CASE ActiveOn(n) # {}
    BY <2>1 DEF Crash, Accounted, ActiveOn, Active
  <2>2. ASSUME NEW r \in Revokers, revoke[r][HostOf[n]] = "waiting" \/ n \in found[r]
        PROVE  Revoking(r)
    BY <2>2, NodesArePlaced DEF Revoking, NotRevoking, LinkInv, RevokeInStep, TypeOK
  <2>3. CASE n \in stranded \/ (\E c \in cleaning : c[2] = n)
             \/ (\E u \in Users : request[u].pc = "polling" /\ request[u].node = n)
             \/ (\E r \in Revokers : Revoking(r))
    BY <2>3 DEF Crash, Accounted
  <2>4. QED  BY <2>1, <2>2, <2>3 DEF LinksAreAccountedFor, LinkInv, Accounted
<1>3. QED  BY <1>1, <1>2 DEF LinksAreAccountedFor, Crash

LEMMA LinkStep == LinkInv /\ [Next]_vars => LinkInv'
<1> DEFINE Kept == LinksAreAccountedFor' /\ RevokeInStep'
<1> SUFFICES ASSUME LinkInv, [Next]_vars PROVE Kept
  BY TypeStep DEF LinkInv
<1>1. ASSUME People PROVE Kept
  <2>1. ASSUME NEW t \in Teams, CreateTeam(t) PROVE Kept
    BY <2>1, NothingForgotten DEF CreateTeam
  <2>2. ASSUME NEW u \in Users, NEW t \in Teams \cup {NoTeam}, Register(u, t) PROVE Kept
    BY <2>2, NothingForgotten DEF Register
  <2>3. ASSUME NEW u \in Users, Login(u) PROVE Kept
    BY <2>3, NothingForgotten DEF Login
  <2>4. ASSUME NEW u \in Users, Logout(u) PROVE Kept
    BY <2>4, ActiveOfAreRows, FinishAccounts DEF Logout, Ended
  <2>5. ASSUME NEW u \in Users, CutAccount(u) PROVE Kept
    BY <2>5, ActiveOfAreRows, FinishAccounts DEF CutAccount, Ended
  <2>6. ASSUME NEW u \in Users, DeactivateUser(u) PROVE Kept
    BY <2>6, ActiveOfAreRows, FinishAccounts DEF DeactivateUser, Ended
  <2>7. ASSUME NEW u \in Users, NEW t \in Teams \cup {NoTeam}, MoveUser(u, t) PROVE Kept
    BY <2>7, ActiveOfAreRows, FinishAccounts DEF MoveUser, Ended
  <2>8. ASSUME NEW u \in Users, RemoveUser(u) PROVE Kept
    <3> DEFINE D == {id \in SessionRows : sessions[id].user = u}
    <3>1. EndsAndDeletes(ActiveOf(u), D)
      BY <2>8, ActiveOfAreRows, FinishAndDeleteEnds DEF RemoveUser, LinkInv
    <3>2. \A n \in links : (ActiveOn(n) \cap D) \ ActiveOf(u) = {}
      BY DEF ActiveOn, ActiveOf
    <3> HIDE DEF D
    <3>3. QED
      BY <2>8, <3>1, <3>2, ActiveOfAreRows, EndingAccounts DEF RemoveUser, FinishAndDelete
  <2>9. ASSUME NEW t \in Teams, RemoveTeam(t) PROVE Kept
    <3> DEFINE gone == {u \in UserRows : team[u] = t}
               S == {id \in SessionIds : Active(id) /\ sessions[id].team = t}
               D == {id \in SessionRows : sessions[id].team = t \/ sessions[id].user \in gone}
    <3>1. S \in SUBSET SessionRows  BY ActiveIsRow
    <3>2. EndsAndDeletes(S, D)
      BY <2>9, <3>1, FinishAndDeleteEnds DEF RemoveTeam, LinkInv
    <3>3. \A n \in links : (ActiveOn(n) \cap D) \ S # {} => n \in stranded'
      BY <2>9 DEF RemoveTeam, ActiveOn
    <3>4. cleaning' = cleaning \cup Cleanups(S) /\ stranded \subseteq stranded'
      BY <2>9 DEF RemoveTeam, FinishAndDelete
    <3> HIDE DEF S, D
    <3>5. QED  BY <2>9, <3>1, <3>2, <3>3, <3>4, EndingAccounts DEF RemoveTeam
  <2>10. ASSUME NEW t \in Teams, RemoveTeamRefused(t) PROVE Kept
    BY <2>10, ActiveIsRow, FinishAccounts DEF RemoveTeamRefused, Ended
  <2>11. QED
    BY <1>1, <2>1, <2>2, <2>3, <2>4, <2>5, <2>6, <2>7, <2>8, <2>9, <2>10 DEF People
<1>2. ASSUME Machines PROVE Kept
  <2>1. ASSUME NEW t \in Teams, NEW r \in Ranges, StartScenario(t, r) PROVE Kept
    BY <2>1, ActiveIsRow, FinishAccounts DEF StartScenario, Ended
  <2>2. ASSUME NEW t \in Teams, NEW r \in Ranges, CompleteScenario(t, r) PROVE Kept
    BY <2>2, ActiveIsRow, FinishAccounts DEF CompleteScenario, Ended
  <2>3. ASSUME NEW n \in Nodes, EnableTarget(n) PROVE Kept
    BY <2>3, NothingForgotten DEF EnableTarget
  <2>4. ASSUME NEW n \in Nodes, NEW to \in {"none", "off"}, WithdrawTarget(n, to) PROVE Kept
    BY <2>4, ActiveIsRow, FinishAccounts DEF WithdrawTarget, ActiveOn, Ended
  <2>5. QED  BY <1>2, <2>1, <2>2, <2>3, <2>4 DEF Machines
<1>3. CASE Publishing  BY <1>3, NothingForgotten DEF Publishing, ShowOrHide
<1>4. ASSUME Connect PROVE Kept
  <2>1. ASSUME NEW u \in Users, request[u] = Idle, NEW q, request' = [request EXCEPT ![u] = q],
               UNCHANGED <<sessions, cleaning, links, revoke, found, stranded>>
        PROVE  Kept
    <3>1. RevokeInStep'  BY <2>1 DEF LinkInv, RevokeInStep
    <3>2. ASSUME NEW n \in links PROVE Accounted(n)'
      BY <2>1 DEF LinksAreAccountedFor, LinkInv, TypeOK, Accounted, ActiveOn, Active, Idle
    <3>3. QED  BY <2>1, <3>1, <3>2 DEF LinksAreAccountedFor
  <2>2. ASSUME NEW u \in Users, NEW n \in Nodes, RequestSession(u, n) PROVE Kept
    BY <2>1, <2>2 DEF RequestSession, Ask
  <2>3. ASSUME NEW u \in Users, NEW n \in Nodes, RequestInstructorSession(u, n) PROVE Kept
    BY <2>1, <2>3 DEF RequestInstructorSession, Ask
  <2>4. ASSUME NEW u \in Users, LinkCreated(u) PROVE Kept
    <3>1. RevokeInStep'  BY <2>4 DEF LinkCreated, LinkInv, RevokeInStep
    <3>2. request[u] \in Request  BY <2>4 DEF LinkCreated, Idle, LinkInv, TypeOK
    <3>3. request'[u].node = request[u].node /\ request'[u].pc = "polling"
          /\ \A v \in Users \ {u} : request'[v] = request[v]
      BY <2>4, <3>2 DEF LinkCreated, Request, Idle, LinkInv, TypeOK
    <3>4. ASSUME NEW n \in links' PROVE Accounted(n)'
      <4>1. CASE n = request[u].node  BY <3>3, <4>1 DEF Accounted
      <4>2. CASE n # request[u].node
        BY <2>4, <3>3, <4>2 DEF LinksAreAccountedFor, LinkCreated, LinkInv, Accounted, ActiveOn, Active
      <4>3. QED  BY <4>1, <4>2
    <3>5. QED  BY <3>1, <3>4 DEF LinksAreAccountedFor
  <2>5. ASSUME NEW u \in Users, request' = [request EXCEPT ![u] = Idle],
               UNCHANGED <<sessions, cleaning, links, revoke, found>>,
               stranded \subseteq stranded',
               request[u].pc = "polling" => {request[u].node} \cap links \subseteq stranded'
        PROVE  Kept
    <3>1. RevokeInStep'  BY <2>5 DEF LinkInv, RevokeInStep
    <3>2. ASSUME NEW n \in links PROVE Accounted(n)'
      BY <2>5 DEF LinksAreAccountedFor, LinkInv, TypeOK, Accounted, ActiveOn, Active, Idle
    <3>3. QED  BY <2>5, <3>1, <3>2 DEF LinksAreAccountedFor
  <2>6. ASSUME NEW u \in Users, NEW gone \in BOOLEAN, InsertRefused(u, gone) PROVE Kept
    BY <2>6, CrashForgetsNothing DEF InsertRefused
  <2>7. ASSUME NEW u \in Users, ConnectFails(u) PROVE Kept
    BY <2>5, <2>7 DEF ConnectFails
  <2>8. ASSUME NEW u \in Users, NEW id \in SessionIds, InsertSession(u, id) PROVE Kept
    <3>1. RevokeInStep'  BY <2>8 DEF InsertSession, LinkInv, RevokeInStep
    <3>2. ~Active(id)
      BY <2>8, ActiveIsRow, SizesAreNatural DEF InsertSession, IsNextRow, SessionIds
    <3>3. /\ sessions'[id].outcome = "active" /\ sessions'[id].node = request[u].node
          /\ \A x \in SessionIds \ {id} : sessions'[x] = sessions[x]
          /\ \A v \in Users \ {u} : request'[v] = request[v]
      BY <2>8 DEF InsertSession, LinkInv, TypeOK
    <3>4. ASSUME NEW n \in links PROVE Accounted(n)'
      <4>1. CASE n = request[u].node  BY <3>3, <4>1 DEF Accounted, ActiveOn, Active
      <4>2. CASE n # request[u].node
        <5>1. ActiveOn(n) \subseteq ActiveOn(n)'  BY <3>2, <3>3 DEF ActiveOn, Active
        <5>2. QED
          BY <2>8, <3>3, <4>2, <5>1 DEF LinksAreAccountedFor, InsertSession, LinkInv, Accounted
      <4>3. QED  BY <4>1, <4>2
    <3>5. QED  BY <2>8, <3>1, <3>4 DEF LinksAreAccountedFor, InsertSession
  <2>9. QED
    BY <1>4, <2>2, <2>3, <2>4, <2>6, <2>7, <2>8 DEF Connect, ConnectSettles
<1>5. CASE Ending  BY <1>5, ActiveIsRow, FinishAccounts DEF Ending, EndSession, Ended
<1>6. ASSUME Expiry PROVE Kept
  <2>1. ASSUME NEW id \in SessionIds, TimePasses(id) PROVE Kept
    <3>1. sessions[id] \in Session
      BY <2>1 DEF TimePasses, Active, NoRow, LinkInv, TypeOK
    <3>2. \A n : ActiveOn(n)' = ActiveOn(n)
      <4>1. sessions' = [sessions EXCEPT ![id] = [sessions[id] EXCEPT !.due = TRUE]]
        BY <2>1 DEF TimePasses
      <4>2. \A x \in SessionIds : sessions'[x].node = sessions[x].node
                                 /\ sessions'[x].outcome = sessions[x].outcome
        BY <3>1, <4>1 DEF Session, LinkInv, TypeOK
      <4>3. QED  BY <4>2 DEF ActiveOn, Active
    <3>3. RevokeInStep'  BY <2>1 DEF TimePasses, LinkInv, RevokeInStep
    <3>4. ASSUME NEW n \in links PROVE Accounted(n)'
      BY <2>1, <3>2 DEF LinksAreAccountedFor, TimePasses, LinkInv, Accounted
    <3>5. QED  BY <2>1, <3>3, <3>4 DEF LinksAreAccountedFor, TimePasses
  <2>2. CASE Sweep  BY <2>2, ActiveIsRow, FinishAccounts DEF Sweep, Ended
  <2>3. QED  BY <1>6, <2>1, <2>2 DEF Expiry
<1>7. ASSUME Cleaning PROVE Kept
  <2>1. ASSUME NEW c \in cleaning, cleaning' = cleaning \ {c}, links' \subseteq links,
               c[2] \notin links' \/ c[2] \in stranded', stranded \ {c[2]} \subseteq stranded',
               UNCHANGED <<sessions, request, revoke, found>>
        PROVE  Kept
    <3>1. RevokeInStep'  BY <2>1 DEF LinkInv, RevokeInStep
    <3>2. ASSUME NEW n \in links' PROVE Accounted(n)'
      BY <2>1 DEF LinksAreAccountedFor, LinkInv, Accounted, ActiveOn, Active
    <3>3. QED  BY <3>1, <3>2 DEF LinksAreAccountedFor
  <2>2. ASSUME NEW c \in cleaning, LinkDeleted(c) PROVE Kept
    BY <2>1, <2>2 DEF LinkDeleted
  <2>3. ASSUME NEW c \in cleaning, LinkDeletionFails(c) PROVE Kept
    BY <2>1, <2>3 DEF LinkDeletionFails
  <2>4. QED  BY <1>7, <2>2, <2>3 DEF Cleaning
<1>8. ASSUME Restoring PROVE Kept
  <2>1. ASSUME NEW u \in Users, NEW id \in SessionIds, RestoreEnds(u, id) PROVE Kept
    BY <2>1, ActiveIsRow, FinishAccounts DEF RestoreEnds, IsLatest, Ended
  <2>2. ASSUME NEW u \in Users, NEW id \in SessionIds, RestoreBegins(u, id) PROVE Kept
    BY <2>2, NothingForgotten DEF RestoreBegins
  <2>3. ASSUME NEW u \in Users, RestoreFindsNoLink(u) PROVE Kept
    BY <2>3, FinishAccounts DEF RestoreFindsNoLink, Ended
  <2>4. ASSUME NEW u \in Users, RestoreReturns(u) PROVE Kept
    BY <2>4, NothingForgotten DEF RestoreReturns
  <2>5. QED  BY <1>8, <2>1, <2>2, <2>3, <2>4 DEF Restoring, RestoreSettles
<1>9. ASSUME Resetting PROVE Kept
  <2>1. ASSUME NEW r \in Revokers, NEW h \in Hosts, ListLinks(r, h) PROVE Kept
    <3>1. found[r] = {}
      BY <2>1, NodesArePlaced DEF ListLinks, AtRest, LinkInv, RevokeInStep, TypeOK
    <3>2. /\ found'[r] = LinksOn(h)
          /\ revoke'[r][h] = IF LinksOn(h) = {} THEN "clean" ELSE "delete"
          /\ \A g \in Hosts \ {h} : revoke'[r][g] = revoke[r][g]
          /\ \A x \in Revokers \ {r} : revoke'[x] = revoke[x] /\ found'[x] = found[x]
      BY <2>1 DEF ListLinks, Stage, LinkInv, TypeOK
    <3>3. RevokeInStep'
      BY <2>1, <3>2 DEF ListLinks, AtRest, LinksOn, LinkInv, RevokeInStep
    <3>4. ASSUME NEW n \in links PROVE Accounted(n)'
      <4>1. HostOf[n] \in Hosts  BY NodesArePlaced DEF LinkInv, TypeOK
      <4>2. CASE HostOf[n] = h  BY <3>2, <4>2 DEF Accounted, LinksOn
      <4>3. CASE HostOf[n] # h
        BY <2>1, <3>1, <3>2, <4>1, <4>3
        DEF LinksAreAccountedFor, ListLinks, LinkInv, Accounted, ActiveOn, Active
      <4>4. QED  BY <4>2, <4>3
    <3>5. QED  BY <2>1, <3>3, <3>4 DEF LinksAreAccountedFor, ListLinks
  <2>2. ASSUME NEW r \in Revokers, NEW h \in Hosts, DeleteLinks(r, h) PROVE Kept
    <3>1. /\ found'[r] = {}
          /\ revoke'[r][h] = "verify"
          /\ \A g \in Hosts \ {h} : revoke'[r][g] = revoke[r][g]
          /\ \A x \in Revokers \ {r} : revoke'[x] = revoke[x] /\ found'[x] = found[x]
      BY <2>2 DEF DeleteLinks, Stage, LinkInv, TypeOK
    <3>2. RevokeInStep'
      BY <2>2, <3>1 DEF DeleteLinks, LinkInv, RevokeInStep
    <3>3. ASSUME NEW n \in links' PROVE Accounted(n)'
      <4>1. n \in links /\ n \notin found[r] /\ HostOf[n] \in Hosts
        BY <2>2, NodesArePlaced DEF DeleteLinks, LinkInv, TypeOK
      <4>2. QED
        BY <2>2, <3>1, <4>1
        DEF LinksAreAccountedFor, DeleteLinks, LinkInv, Accounted, ActiveOn, Active
    <3>4. QED  BY <3>2, <3>3 DEF LinksAreAccountedFor
  <2>3. ASSUME NEW r \in Revokers, NEW h \in Hosts, VerifyLinks(r, h) PROVE Kept
    <3>1. /\ revoke'[r][h] = "clean"
          /\ \A g \in Hosts \ {h} : revoke'[r][g] = revoke[r][g]
          /\ \A x \in Revokers \ {r} : revoke'[x] = revoke[x]
      BY <2>3 DEF VerifyLinks, Stage, LinkInv, TypeOK
    <3>2. RevokeInStep'
      <4>1. \A n \in found[r] : HostOf[n] \in Hosts /\ HostOf[n] # h
        BY <2>3, NodesArePlaced DEF VerifyLinks, LinkInv, RevokeInStep, TypeOK
      <4>2. QED  BY <2>3, <3>1, <4>1 DEF VerifyLinks, LinkInv, RevokeInStep
    <3>3. ASSUME NEW n \in links PROVE Accounted(n)'
      <4>1. HostOf[n] \in Hosts /\ HostOf[n] # h
        BY <2>3, NodesArePlaced DEF VerifyLinks, LinksOn, LinkInv, TypeOK
      <4>2. QED
        BY <2>3, <3>1, <4>1
        DEF LinksAreAccountedFor, VerifyLinks, LinkInv, Accounted, ActiveOn, Active
    <3>4. QED  BY <2>3, <3>2, <3>3 DEF LinksAreAccountedFor, VerifyLinks
  <2>4. ASSUME NEW r \in Revokers, NEW h \in Hosts, RevokeFails(r, h) PROVE Kept
    <3>1. /\ found'[r] = {}
          /\ revoke'[r][h] = "failed"
          /\ \A g \in Hosts \ {h} : revoke'[r][g] = revoke[r][g]
          /\ \A x \in Revokers \ {r} : revoke'[x] = revoke[x] /\ found'[x] = found[x]
      BY <2>4 DEF RevokeFails, Stage, LinkInv, TypeOK
    <3>2. RevokeInStep'
      BY <2>4, <3>1 DEF RevokeFails, LinkInv, RevokeInStep
    <3>3. \A n \in found[r] : HostOf[n] = h
      BY <2>4, NodesArePlaced DEF RevokeFails, AtRest, LinkInv, RevokeInStep, TypeOK
    <3>4. ASSUME NEW n \in links PROVE Accounted(n)'
      <4>1. HostOf[n] \in Hosts  BY NodesArePlaced DEF LinkInv, TypeOK
      <4>2. CASE HostOf[n] = h  BY <2>4, <4>2 DEF RevokeFails, LinksOn, Accounted
      <4>3. CASE HostOf[n] # h
        BY <2>4, <3>1, <3>3, <4>1, <4>3
        DEF LinksAreAccountedFor, RevokeFails, LinkInv, Accounted, ActiveOn, Active
      <4>4. QED  BY <4>2, <4>3
    <3>5. QED  BY <2>4, <3>2, <3>4 DEF LinksAreAccountedFor, RevokeFails
  <2>5. ASSUME NEW r \in Revokers, BeginRevoke(r), UNCHANGED <<links, found>> PROVE Kept
    <3>1. found[r] = {}
      BY <2>5, NodesArePlaced DEF BeginRevoke, Revoking, NotRevoking, LinkInv, RevokeInStep, TypeOK
    <3>2. /\ revoke'[r] = [h \in Hosts |-> "waiting"]
          /\ \A x \in Revokers \ {r} : revoke'[x] = revoke[x]
      BY <2>5 DEF BeginRevoke, LinkInv, TypeOK
    <3>3. RevokeInStep'
      BY <2>5, <3>1, <3>2 DEF LinkInv, RevokeInStep
    <3>4. ASSUME NEW n \in links PROVE Accounted(n)'
      BY <3>2, NodesArePlaced DEF LinkInv, TypeOK, Accounted
    <3>5. QED  BY <2>5, <3>3, <3>4 DEF LinksAreAccountedFor
  <2>6. CASE ManualRevokeAll  BY <2>5, <2>6 DEF ManualRevokeAll, Revokers
  <2>7. ASSUME NEW o \in {"strict", "override"}, StartReset(o) PROVE Kept
    BY <2>5, <2>7 DEF StartReset, Revokers
  <2>8. ASSUME NEW r \in Revokers, Revoked(r), revoke' = [revoke EXCEPT ![r] = NotRevoking],
               UNCHANGED <<links, cleaning, request, found>>, stranded \subseteq stranded',
               \A n \in links : ActiveOn(n) # {} => ActiveOn(n)' # {} \/ n \in stranded'
        PROVE  Kept
    <3>1. found[r] = {}
      BY <2>8, NodesArePlaced DEF Revoked, LinkInv, RevokeInStep, TypeOK
    <3>2. revoke'[r] = NotRevoking /\ \A x \in Revokers \ {r} : revoke'[x] = revoke[x]
      BY <2>8 DEF LinkInv, TypeOK
    <3>3. RevokeInStep'
      BY <2>8, <3>1, <3>2 DEF NotRevoking, LinkInv, RevokeInStep
    <3>4. ASSUME NEW n \in links PROVE Accounted(n)'
      <4>1. revoke[r][HostOf[n]] # "waiting"
        BY <2>8, NodesArePlaced DEF Revoked, LinkInv, TypeOK
      <4>2. QED
        BY <2>8, <3>1, <3>2, <4>1 DEF LinksAreAccountedFor, LinkInv, Accounted
    <3>5. QED  BY <2>8, <3>3, <3>4 DEF LinksAreAccountedFor
  <2>9. CASE ManualRevokeAnswered
    BY <2>8, <2>9 DEF ManualRevokeAnswered, Revokers, ActiveOn, Active
  <2>10. CASE ResetAbandoned
    BY <2>8, <2>10 DEF ResetAbandoned, JobOver, Revokers, ActiveOn, Active
  <2>11. CASE Wipe
    BY <2>8, <2>11 DEF Wipe, JobOver, Revokers
  <2>12. ASSUME RevokeThrows PROVE Kept
    <3>1. found["reset"] = {}
      BY <2>12, NodesArePlaced
      DEF RevokeThrows, AtRest, LinkInv, RevokeInStep, TypeOK, Revokers
    <3>2. /\ revoke'["reset"] = NotRevoking
          /\ \A x \in Revokers \ {"reset"} : revoke'[x] = revoke[x]
      BY <2>12 DEF RevokeThrows, JobOver, LinkInv, TypeOK, Revokers
    <3>3. RevokeInStep'
      BY <2>12, <3>1, <3>2 DEF RevokeThrows, NotRevoking, LinkInv, RevokeInStep
    <3>4. ASSUME NEW n \in links PROVE Accounted(n)'
      BY <2>12, <3>1, <3>2
      DEF LinksAreAccountedFor, RevokeThrows, LinkInv, Accounted, ActiveOn, Active
    <3>5. QED  BY <2>12, <3>3, <3>4 DEF LinksAreAccountedFor, RevokeThrows
  <2>13. QED
    BY <1>9, <2>1, <2>2, <2>3, <2>4, <2>6, <2>7, <2>9, <2>10, <2>11, <2>12
    DEF Resetting, RevokeStep, ResetEnds
<1>10. CASE Crash  BY <1>10, CrashForgetsNothing
<1>11. CASE UNCHANGED vars  BY <1>11, NothingForgotten DEF vars
<1>12. QED
  BY <1>1, <1>2, <1>3, <1>4, <1>5, <1>6, <1>7, <1>8, <1>9, <1>10, <1>11 DEF Next

LEMMA LinkInit == Init => LinkInv
<1> SUFFICES ASSUME Init PROVE LinkInv  OBVIOUS
<1>1. LinksAreAccountedFor  BY DEF Init, LinksAreAccountedFor
<1>2. RevokeInStep  BY DEF Init, RevokeInStep, NotRevoking
<1>3. QED  BY <1>1, <1>2, InitType DEF LinkInv

\* No shareable link that exists in Bastion is ever simply forgotten.
THEOREM LinksAlwaysAccountedFor == Spec => []LinksAreAccountedFor
<1>1. LinkInv => LinksAreAccountedFor  BY DEF LinkInv
<1>2. QED  BY <1>1, LinkInit, LinkStep, PTL DEF Spec

-------------------------------------------------------------------------------
(* Outcomes                                                                 *)

RewritesItsOwn(id) ==
    sessions[id].outcome \in Ended /\ sessions'[id].outcome # sessions[id].outcome
      => \/ sessions'[id] = NoRow
         \/ /\ sessions'[id].outcome = "completed"
            /\ \E u \in Users : restore[u] # NoRestore /\ restore[u][1] = id

\* A step that ends active rows only.
LEMMA EndingActive ==
    ASSUME NEW S, NEW D, EndsAndDeletes(S, D), \A id \in S : Active(id)
    PROVE  \A id \in SessionIds : RewritesItsOwn(id)
BY DEF EndsAndDeletes, Active, Ended, RewritesItsOwn

LEMMA FinishActive ==
    ASSUME TypeOK, NEW S \in SUBSET SessionIds, \A id \in S : Active(id), NEW how \in Ended,
           Finish(S, how)
    PROVE  \A id \in SessionIds : RewritesItsOwn(id)
<1>1. S \in SUBSET SessionRows  BY ActiveIsRow
<1>2. QED  BY <1>1, FinishEnds, EndingActive

LEMMA FinishAndDeleteActive ==
    ASSUME TypeOK, NEW S \in SUBSET SessionIds, \A id \in S : Active(id), NEW D,
           FinishAndDelete(S, D)
    PROVE  \A id \in SessionIds : RewritesItsOwn(id)
<1>1. S \in SUBSET SessionRows  BY ActiveIsRow
<1>2. QED  BY <1>1, FinishAndDeleteEnds, EndingActive

LEMMA OutcomeStep ==
    ASSUME TypeOK, [Next]_vars PROVE \A id \in SessionIds : RewritesItsOwn(id)
<1> DEFINE Final == \A id \in SessionIds : RewritesItsOwn(id)
<1>1. ASSUME UNCHANGED sessions PROVE Final  BY <1>1 DEF RewritesItsOwn
<1>2. ASSUME People PROVE Final
  <2>1. \A u : \A id \in ActiveOf(u) : Active(id)  BY DEF ActiveOf
  <2>2. \A u : ActiveOf(u) \subseteq SessionIds  BY DEF ActiveOf
  <2>3. ASSUME NEW t \in Teams, CreateTeam(t) \/ RemoveTeam(t) \/ RemoveTeamRefused(t) PROVE Final
    BY <1>1, <2>3, FinishActive, FinishAndDeleteActive
    DEF CreateTeam, RemoveTeam, RemoveTeamRefused, Ended
  <2>4. ASSUME NEW u \in Users, Login(u) \/ Logout(u) \/ CutAccount(u) \/ DeactivateUser(u) PROVE Final
    BY <1>1, <2>1, <2>2, <2>4, FinishActive DEF Login, Logout, CutAccount, DeactivateUser, Ended
  <2>5. ASSUME NEW u \in Users, RemoveUser(u) PROVE Final
    BY <2>1, <2>2, <2>5, FinishAndDeleteActive DEF RemoveUser
  <2>6. ASSUME NEW u \in Users, NEW t \in Teams \cup {NoTeam}, Register(u, t) \/ MoveUser(u, t)
        PROVE  Final
    BY <1>1, <2>1, <2>2, <2>6, FinishActive DEF Register, MoveUser, Ended
  <2>7. QED  BY <1>2, <2>3, <2>4, <2>5, <2>6 DEF People
<1>3. ASSUME Machines PROVE Final
  BY <1>1, <1>3, FinishActive
  DEF Machines, StartScenario, CompleteScenario, EnableTarget, WithdrawTarget, ActiveOn, Ended
<1>4. CASE Publishing  BY <1>1, <1>4 DEF Publishing, ShowOrHide
<1>5. ASSUME Connect PROVE Final
  <2>1. ASSUME NEW u \in Users, NEW id \in SessionIds, InsertSession(u, id) PROVE Final
    <3>1. sessions[id] = NoRow
      BY <2>1, SizesAreNatural DEF InsertSession, IsNextRow, SessionIds, SessionRows
    <3>2. \A x \in SessionIds \ {id} : sessions'[x] = sessions[x]
      BY <2>1 DEF InsertSession, TypeOK
    <3>3. QED  BY <3>1, <3>2 DEF RewritesItsOwn, NoRow, Ended
  <2>2. QED
    BY <1>1, <1>5, <2>1 DEF Connect, ConnectSettles, RequestSession, RequestInstructorSession,
                            LinkCreated, ConnectFails, InsertRefused, Crash
<1>6. CASE Ending  BY <1>6, FinishActive DEF Ending, EndSession, Ended
<1>7. ASSUME Expiry PROVE Final
  <2>1. ASSUME NEW id \in SessionIds, TimePasses(id) PROVE Final
    <3>1. \A x \in SessionIds \ {id} : sessions'[x] = sessions[x]
      BY <2>1 DEF TimePasses, TypeOK
    <3>2. QED  BY <2>1, <3>1 DEF TimePasses, Active, RewritesItsOwn, Ended
  <2>2. CASE Sweep  BY <2>2, FinishActive DEF Sweep, Ended
  <2>3. QED  BY <1>7, <2>1, <2>2 DEF Expiry
<1>8. CASE Cleaning  BY <1>1, <1>8 DEF Cleaning, LinkDeleted, LinkDeletionFails
<1>9. ASSUME Restoring PROVE Final
  <2>1. ASSUME NEW u \in Users, RestoreFindsNoLink(u) PROVE Final
    <3> DEFINE S == {restore[u][1]} \cap SessionRows
    <3>1. "completed" \in Ended  BY DEF Ended
    <3>2. \A id \in SessionIds : sessions'[id] = Finished(S, "completed")[id]
      BY <2>1 DEF RestoreFindsNoLink, Finish
    <3>3. \A id \in SessionIds : /\ id \notin S => sessions'[id] = sessions[id]
                                 /\ id \in S => sessions'[id].outcome = "completed"
      BY <3>1, <3>2, FinishedRow
    <3>4. \A id \in S : restore[u] # NoRestore /\ restore[u][1] = id
      BY <2>1 DEF RestoreFindsNoLink
    <3> HIDE DEF S
    <3>5. ASSUME NEW id \in SessionIds PROVE RewritesItsOwn(id)
      <4>1. CASE id \in S  BY <3>3, <3>4, <4>1 DEF RewritesItsOwn
      <4>2. CASE id \notin S
        <5>1. sessions'[id] = sessions[id]  BY <3>3, <4>2
        <5>2. QED  BY <5>1 DEF RewritesItsOwn
      <4>3. QED  BY <4>1, <4>2
    <3>6. QED  BY <3>5
  <2>2. ASSUME NEW u \in Users, NEW id \in SessionIds, RestoreEnds(u, id) PROVE Final
    BY <2>2, FinishActive DEF RestoreEnds, IsLatest, Ended
  <2>3. QED
    BY <1>1, <1>9, <2>1, <2>2 DEF Restoring, RestoreSettles, RestoreBegins, RestoreReturns
<1>10. ASSUME Resetting PROVE Final
  <2>1. ASSUME NEW r \in Revokers, BeginRevoke(r) PROVE Final
    <3>1. AllActive \in SUBSET SessionRows  BY ActiveIsRow DEF AllActive
    <3>2. EndsAndDeletes(AllActive, {})
      BY <2>1, <3>1, FinishedRow DEF BeginRevoke, EndsAndDeletes, Ended
    <3>3. QED  BY <3>2, EndingActive DEF AllActive
  <2>2. CASE Wipe  BY <2>2 DEF Wipe, RewritesItsOwn
  <2>3. QED
    BY <1>1, <1>10, <2>1, <2>2
    DEF Resetting, RevokeStep, ResetEnds, ListLinks, DeleteLinks, VerifyLinks, RevokeFails,
        ManualRevokeAll, ManualRevokeAnswered, StartReset, ResetAbandoned, RevokeThrows, Revokers
<1>11. CASE Crash  BY <1>1, <1>11 DEF Crash
<1>12. CASE UNCHANGED vars  BY <1>1, <1>12 DEF vars
<1>13. QED
  BY <1>2, <1>3, <1>4, <1>5, <1>6, <1>7, <1>8, <1>9, <1>10, <1>11, <1>12 DEF Next

\* The outcome of an ended session is rewritten only by that session's own restore.
THEOREM OutcomesStayFinal == Spec => OutcomesAreFinal
<1>1. TypeOK /\ [Next]_vars => [\A id \in SessionIds :
        sessions[id].outcome \in Ended /\ sessions'[id].outcome # sessions[id].outcome
          => \/ sessions'[id] = NoRow
             \/ /\ sessions'[id].outcome = "completed"
                /\ \E u \in Users : restore[u] # NoRestore /\ restore[u][1] = id]_vars
  BY OutcomeStep DEF RewritesItsOwn
<1>2. QED  BY <1>1, InitType, TypeStep, PTL DEF Spec, OutcomesAreFinal
================================================================================
