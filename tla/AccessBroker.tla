------------------------------ MODULE AccessBroker ------------------------------
(***************************************************************************)
(* Remote access to the lab machines: access_sessions rows in SQLite, the  *)
(* Bastion shareable links they stand for, and everything that starts,     *)
(* ends or revokes them (services/accessBroker, routes/admin/event).       *)
(*                                                                         *)
(* The server is one Node process over a synchronous database, so every    *)
(* stretch of code between two awaits is one action here; what is left in  *)
(* flight at an await (a Connect, a restore, a link deletion, a revoke     *)
(* loop) is a variable, and every other handler may run before it resumes. *)
(***************************************************************************)
EXTENDS Integers, FiniteSets

CONSTANTS
    MaxUser, MaxTeam, MaxSession,   \* bounds on the rowids in use at one time
    Ranges,                         \* cyber_ranges (scenarios)
    NoRange,                        \* "no scenario is active for this team"
    Nodes,                          \* topology_nodes backed by an Azure VM
    RangeOf,                        \* topology_nodes.cyber_range_id
    Hosts,                          \* environments, each with its Bastion host
    HostOf                          \* topology_nodes.environment_id

Users      == 1..MaxUser
Teams      == 1..MaxTeam
NoTeam     == 0                     \* team_id NULL: a member of staff
SessionIds == 1..MaxSession
NoRestore  == <<>>
Revokers   == {"reset", "manual"}   \* the two callers of revokeAllShareableLinks

ASSUME SizesAreNatural == MaxUser \in Nat /\ MaxTeam \in Nat /\ MaxSession \in Nat
ASSUME NoRangeIsNoRange == NoRange \notin Ranges
ASSUME NodesArePlaced == RangeOf \in [Nodes -> Ranges] /\ HostOf \in [Nodes -> Hosts]

VARIABLES
    member,     \* users: row and sign-in state ("in" = holds an auth token)
    team,       \* users.team_id
    teams,      \* rows of teams
    scenario,   \* the team's progress row with status 'active', if any
    target,     \* access_targets: none, or is_enabled off / on
    shown,      \* nodes visible to students and in the published snapshot
    sessions,   \* access_sessions
    links,      \* nodes with a live shareable link on their Bastion host
    request,    \* per user: the Connect awaiting createShareableLink
    restore,    \* per user: the session whose restore awaits listShareableLinks
    cleaning,   \* link deletions in flight: <<session id, node>>
    revoke,     \* revokeAllShareableLinks, per caller: the stage of each host
    found,      \* ... and the links it listed on the host it is working on
    frozen,     \* remoteAccessFrozen
    job,        \* the reset job: idle, or running with its override flag
    stranded    \* history: nodes whose link a named failure has left behind

vars == <<member, team, teams, scenario, target, shown, sessions, links, request,
          restore, cleaning, revoke, found, frozen, job, stranded>>

people  == <<member, team, teams>>
access  == <<scenario, target, shown>>
bastion == <<links, stranded>>
awaits  == <<request, restore, revoke, found>>
resetting == <<frozen, job>>

NoRow   == [outcome |-> "none"]
Ended   == {"completed", "expired", "force_closed"}
Session == [user : Users, team : Teams \cup {NoTeam}, range : Ranges, node : Nodes,
            outcome : {"active"} \cup Ended,
            due : BOOLEAN,       \* expires_at has passed
            granted : BOOLEAN]   \* history: still authorized when the row was written
Request == [pc : {"creating", "polling"}, node : Nodes, team : Teams \cup {NoTeam},
            range : Ranges]
Idle    == [pc |-> "idle"]
NotRevoking == [h \in Hosts |-> "idle"]

TypeOK ==
    /\ member \in [Users -> {"none", "in", "out", "deactivated"}]
    /\ team \in [Users -> Teams \cup {NoTeam}]
    /\ teams \in SUBSET Teams
    /\ scenario \in [Teams -> Ranges \cup {NoRange}]
    /\ target \in [Nodes -> {"none", "off", "on"}]
    /\ shown \in SUBSET Nodes
    /\ sessions \in [SessionIds -> Session \cup {NoRow}]
    /\ links \in SUBSET Nodes
    /\ request \in [Users -> Request \cup {Idle}]
    /\ restore \in [Users -> (SessionIds \X Nodes) \cup {NoRestore}]
    /\ cleaning \in SUBSET (SessionIds \X Nodes)
    /\ revoke \in [Revokers -> [Hosts -> {"idle", "waiting", "delete", "verify",
                                          "clean", "failed"}]]
    /\ found \in [Revokers -> SUBSET Nodes]
    /\ frozen \in BOOLEAN
    /\ job \in {"idle", "strict", "override"}
    /\ stranded \in SUBSET Nodes

-------------------------------------------------------------------------------
(* Rows                                                                    *)

Active(id) == sessions[id].outcome = "active"
ActiveOn(n) == {id \in SessionIds : Active(id) /\ sessions[id].node = n}
ActiveOf(u) == {id \in SessionIds : Active(id) /\ sessions[id].user = u}

\* INTEGER PRIMARY KEY without AUTOINCREMENT: a new row takes the largest rowid in
\* use plus one, so the ids of deleted rows are handed out again.
IsNextRow(id, rows) == (\A x \in rows : x < id) /\ (id = 1 \/ id - 1 \in rows)

SessionRows == {id \in SessionIds : sessions[id] # NoRow}
UserRows    == {u \in Users : member[u] # "none"}

\* finishSession on every row of S, in rowid order; due and granted mean nothing once
\* a row has ended
Finished(S, how) == [id \in SessionIds |->
    IF id \in S THEN [sessions[id] EXCEPT !.outcome = how, !.due = FALSE, !.granted = FALSE]
                ELSE sessions[id]]

\* cleanupShareableLink's synchronous part: only the last session to end on a node
\* deletes the link
Cleanups(S) == {<<id, sessions[id].node>> : id \in {i \in S :
    /\ ActiveOn(sessions[i].node) \subseteq S
    /\ \A j \in S : sessions[j].node = sessions[i].node => j <= i}}

Finish(S, how) ==
    /\ sessions' = Finished(S, how)
    /\ cleaning' = cleaning \cup Cleanups(S)

\* finishSession on every row of S, then ON DELETE CASCADE removes the rows of D
FinishAndDelete(S, D) ==
    /\ sessions' = [id \in SessionIds |-> IF id \in D THEN NoRow ELSE Finished(S, "force_closed")[id]]
    /\ cleaning' = cleaning \cup Cleanups(S)

-------------------------------------------------------------------------------
(* People: registration, sign-in and the routes that cut someone off        *)

CreateTeam(t) ==
    /\ IsNextRow(t, teams)
    /\ teams' = teams \cup {t}
    /\ scenario' = [scenario EXCEPT ![t] = NoRange]
    /\ UNCHANGED <<member, team, target, shown, sessions, cleaning, bastion, awaits, resetting>>

\* a student joins a team; t = NoTeam is a staff account's membership row
Register(u, t) ==
    /\ IsNextRow(u, UserRows)
    /\ t \in teams \cup {NoTeam}
    /\ member' = [member EXCEPT ![u] = "in"]
    /\ team' = [team EXCEPT ![u] = t]
    /\ UNCHANGED <<teams, access, sessions, cleaning, bastion, awaits, resetting>>

Login(u) ==
    /\ member[u] = "out"
    /\ member' = [member EXCEPT ![u] = "in"]
    /\ UNCHANGED <<team, teams, access, sessions, cleaning, bastion, awaits, resetting>>

Logout(u) ==
    /\ member[u] = "in"
    /\ Finish(ActiveOf(u), "completed")
    /\ member' = [member EXCEPT ![u] = "out"]
    /\ UNCHANGED <<team, teams, access, bastion, awaits, resetting>>

\* cutAccount: a staff account's role, password or state was changed by an admin
CutAccount(u) ==
    /\ member[u] \in {"in", "out"} /\ team[u] = NoTeam
    /\ Finish(ActiveOf(u), "force_closed")
    /\ member' = [member EXCEPT ![u] = "out"]
    /\ UNCHANGED <<team, teams, access, bastion, awaits, resetting>>

MoveUser(u, t) ==
    /\ member[u] \in {"in", "out"} /\ team[u] # NoTeam
    /\ t \in teams \ {team[u]}
    /\ Finish(ActiveOf(u), "force_closed")
    /\ team' = [team EXCEPT ![u] = t]
    /\ member' = [member EXCEPT ![u] = "out"]
    /\ UNCHANGED <<teams, access, bastion, awaits, resetting>>

RemoveUser(u) ==
    /\ member[u] \in {"in", "out"} /\ team[u] # NoTeam
    /\ FinishAndDelete(ActiveOf(u), {id \in SessionRows : sessions[id].user = u})
    /\ member' = [member EXCEPT ![u] = "none"]
    /\ UNCHANGED <<team, teams, access, bastion, awaits, resetting>>

\* the same route when a foreign key keeps the row: the student has authored work
DeactivateUser(u) ==
    /\ member[u] \in {"in", "out"} /\ team[u] # NoTeam
    /\ Finish(ActiveOf(u), "force_closed")
    /\ member' = [member EXCEPT ![u] = "deactivated"]
    /\ UNCHANGED <<team, teams, access, bastion, awaits, resetting>>

RemoveTeam(t) ==
    LET gone == {u \in UserRows : team[u] = t}
        own  == {id \in SessionIds : Active(id) /\ sessions[id].team = t}
    IN
    /\ t \in teams
    /\ FinishAndDelete(own, {id \in SessionRows :
                               sessions[id].team = t \/ sessions[id].user \in gone})
    /\ stranded' = stranded \cup {n \in links : \E id \in ActiveOn(n) \ own :
                                    sessions[id].user \in gone}
    /\ teams' = teams \ {t}
    /\ member' = [u \in Users |-> IF u \in gone THEN "none" ELSE member[u]]
    /\ scenario' = [scenario EXCEPT ![t] = NoRange]
    /\ UNCHANGED <<team, target, shown, links, awaits, resetting>>

\* the same route when a foreign key refuses the delete: a member moved here has work
\* in another team. The team stays, its sessions have already been ended.
RemoveTeamRefused(t) ==
    /\ \E u \in UserRows : team[u] = t
    /\ Finish({id \in SessionIds : Active(id) /\ sessions[id].team = t}, "force_closed")
    /\ UNCHANGED <<people, access, bastion, awaits, resetting>>

-------------------------------------------------------------------------------
(* Scenarios and machines                                                   *)

\* Mutant: the team's sessions of the scenario it leaves are not ended.
StartScenario_KeepsSessions(t, r) ==
    /\ t \in teams
    /\ scenario' = [scenario EXCEPT ![t] = r]
    /\ UNCHANGED <<people, target, shown, sessions, cleaning, bastion, awaits, resetting>>

StartScenario(t, r) ==
    /\ t \in teams
    /\ scenario' = [scenario EXCEPT ![t] = r]
    /\ Finish({id \in SessionIds : Active(id) /\ sessions[id].team = t /\ sessions[id].range # r},
              "force_closed")
    /\ UNCHANGED <<people, target, shown, bastion, awaits, resetting>>

\* completing a scenario that is not the active one leaves the active one alone
CompleteScenario(t, r) ==
    /\ t \in teams
    /\ scenario' = [scenario EXCEPT ![t] = IF @ = r THEN NoRange ELSE @]
    /\ Finish({id \in SessionIds : Active(id) /\ sessions[id].team = t /\ sessions[id].range = r},
              "force_closed")
    /\ UNCHANGED <<people, target, shown, bastion, awaits, resetting>>

EnableTarget(n) ==
    /\ target[n] # "on"
    /\ target' = [target EXCEPT ![n] = "on"]
    /\ UNCHANGED <<people, scenario, shown, sessions, cleaning, bastion, awaits, resetting>>

\* student access switched off, or the access target removed: instructor sessions stay
WithdrawTarget(n, to) ==
    /\ target[n] # "none"
    /\ target' = [target EXCEPT ![n] = to]
    /\ Finish({id \in ActiveOn(n) : sessions[id].team # NoTeam}, "force_closed")
    /\ UNCHANGED <<people, scenario, shown, bastion, awaits, resetting>>

\* a visibility edit or a publish; open sessions are not looked at
ShowOrHide(n) ==
    /\ shown' = (shown \ {n}) \cup ({n} \ shown)
    /\ UNCHANGED <<people, scenario, target, sessions, cleaning, bastion, awaits, resetting>>

-------------------------------------------------------------------------------
(* The process dies and starts again                                        *)

Revoking(r) == revoke[r] # NotRevoking

\* the process dies: rows and links stay, everything held in memory is gone
Crash ==
    /\ request' = [u \in Users |-> Idle]
    /\ restore' = [u \in Users |-> NoRestore]
    /\ cleaning' = {}
    /\ revoke' = [r \in Revokers |-> NotRevoking]
    /\ found' = [r \in Revokers |-> {}]
    /\ frozen' = FALSE
    /\ job' = "idle"
    /\ stranded' = stranded \cup {n \in links :
         \/ \E u \in Users : request[u] # Idle /\ request[u].node = n
         \/ \E c \in cleaning : c[2] = n
         \/ \E r \in Revokers : Revoking(r)}
    /\ UNCHANGED <<people, access, sessions, links>>

-------------------------------------------------------------------------------
(* Connect: checks, an await of many seconds, then the insert               *)

Ask(u, n, t) ==
    request' = [request EXCEPT ![u] = [pc |-> "creating", node |-> n, team |-> t,
                                       range |-> RangeOf[n]]]

\* Bound: one Connect in flight per user.
RequestSession(u, n) ==
    /\ member[u] = "in" /\ team[u] # NoTeam /\ request[u] = Idle
    /\ ~frozen
    /\ scenario[team[u]] = RangeOf[n]
    /\ n \in shown
    /\ target[n] = "on"
    /\ Ask(u, n, team[u])
    /\ UNCHANGED <<people, access, sessions, cleaning, bastion, restore, revoke, found, resetting>>

RequestInstructorSession(u, n) ==
    /\ member[u] = "in" /\ team[u] = NoTeam /\ request[u] = Idle
    /\ ~frozen
    /\ Ask(u, n, NoTeam)
    /\ UNCHANGED <<people, access, sessions, cleaning, bastion, restore, revoke, found, resetting>>

\* Bastion accepts createShareableLinks; it keeps one link per VM
LinkCreated(u) ==
    /\ request[u].pc = "creating"
    /\ links' = links \cup {request[u].node}
    /\ request' = [request EXCEPT ![u].pc = "polling"]
    /\ UNCHANGED <<people, access, sessions, cleaning, restore, revoke, found, resetting, stranded>>

\* two of the four foreign keys of access_sessions: user_id and team_id
RowsExist(u, t) == member[u] # "none" /\ t \in teams \cup {NoTeam}

\* Mutant: the poll for the link has no last attempt.
ConnectFails_OnlyWhileCreating(u) ==
    /\ request[u].pc = "creating"
    /\ RowsExist(u, request[u].team)
    /\ request' = [request EXCEPT ![u] = Idle]
    /\ UNCHANGED <<people, access, sessions, cleaning, bastion, restore, revoke, found, resetting>>

\* the create call, or all eight polls for the link, failed: 'denied' / bastion_error
ConnectFails(u) ==
    /\ request[u] # Idle
    /\ RowsExist(u, request[u].team)
    /\ request' = [request EXCEPT ![u] = Idle]
    /\ stranded' = IF request[u].pc = "polling"
                   THEN stranded \cup ({request[u].node} \cap links) ELSE stranded
    /\ UNCHANGED <<people, access, sessions, cleaning, links, restore, revoke, found, resetting>>

StillGranted(u, t, n) ==
    /\ member[u] = "in"
    /\ team[u] = t
    /\ t # NoTeam => scenario[t] = RangeOf[n] /\ target[n] = "on"

\* The link is there: the row is written with what was read before the await. Rows of
\* refused Connects ('denied') are not modelled but take ids too: the new one is some id
\* above those in use.
InsertSession(u, id) ==
    LET q == request[u] IN
    /\ q.pc = "polling"
    /\ q.node \in links
    /\ RowsExist(u, q.team)
    /\ \A x \in SessionRows : x < id
    /\ sessions' = [sessions EXCEPT ![id] =
         [user |-> u, team |-> q.team, range |-> q.range, node |-> q.node,
          outcome |-> "active", due |-> FALSE, granted |-> StillGranted(u, q.team, q.node)]]
    /\ request' = [request EXCEPT ![u] = Idle]
    /\ UNCHANGED <<people, access, cleaning, bastion, restore, revoke, found, resetting>>

\* The user, the team, or (gone) the scenario or the machine was deleted meanwhile and a
\* foreign key refuses the row, active or denied: the handler is an async function,
\* Express 4 does not look at its promise, and a rejection nobody handles ends the process.
\* Rows of scenarios and machines are not kept here: any of them may be gone at this moment.
InsertRefused(u, gone) ==
    /\ request[u] # Idle
    /\ gone \/ ~RowsExist(u, request[u].team)
    /\ Crash

-------------------------------------------------------------------------------
(* Ending one session; expiry                                               *)

\* endOwnSession ("completed", by any member of the session's team) and
\* forceCloseSession ("force_closed", by staff)
EndSession(id, how) ==
    /\ Active(id)
    /\ how = "completed" => sessions[id].team # NoTeam
    /\ Finish({id}, how)
    /\ UNCHANGED <<people, access, bastion, awaits, resetting>>

TimePasses(id) ==
    /\ Active(id) /\ ~sessions[id].due
    /\ sessions' = [sessions EXCEPT ![id].due = TRUE]
    /\ UNCHANGED <<people, access, cleaning, bastion, awaits, resetting>>

Sweep ==
    LET overdue == {id \in SessionIds : Active(id) /\ sessions[id].due} IN
    /\ overdue # {}
    /\ Finish(overdue, "expired")
    /\ UNCHANGED <<people, access, bastion, awaits, resetting>>

\* the asynchronous half of cleanupShareableLink; a failure is logged and dropped
LinkDeleted(c) ==
    /\ c \in cleaning
    /\ cleaning' = cleaning \ {c}
    /\ links' = links \ {c[2]}
    /\ stranded' = stranded \ {c[2]}
    /\ UNCHANGED <<people, access, sessions, awaits, resetting>>

LinkDeletionFails(c) ==
    /\ c \in cleaning
    /\ cleaning' = cleaning \ {c}
    /\ stranded' = stranded \cup ({c[2]} \cap links)
    /\ UNCHANGED <<people, access, sessions, links, awaits, resetting>>

-------------------------------------------------------------------------------
(* Restore after a page refresh                                             *)

StillAuthorized(s) ==
    s.team # NoTeam => /\ scenario[s.team] = s.range
                       /\ s.node \in shown
                       /\ target[s.node] = "on"

\* the caller's latest active session; rowids grow with started_at
IsLatest(u, id) ==
    /\ Active(id) /\ sessions[id].user = u /\ sessions[id].team = team[u]
    /\ \A o \in ActiveOf(u) : sessions[o].team = team[u] => o <= id

RestoreEnds(u, id) ==
    /\ member[u] = "in" /\ restore[u] = NoRestore
    /\ IsLatest(u, id)
    /\ \/ sessions[id].due /\ Finish({id}, "expired")
       \/ ~sessions[id].due /\ ~StillAuthorized(sessions[id]) /\ Finish({id}, "force_closed")
    /\ UNCHANGED <<people, access, bastion, awaits, resetting>>

\* Bound: one restore in flight per user.
RestoreBegins(u, id) ==
    /\ member[u] = "in" /\ restore[u] = NoRestore
    /\ IsLatest(u, id)
    /\ ~sessions[id].due /\ StillAuthorized(sessions[id])
    /\ restore' = [restore EXCEPT ![u] = <<id, sessions[id].node>>]
    /\ UNCHANGED <<people, access, sessions, cleaning, bastion, request, revoke, found, resetting>>

\* the link is gone: the row is finished by its id, whatever has become of it meanwhile
RestoreFindsNoLink(u) ==
    /\ restore[u] # NoRestore
    /\ restore[u][2] \notin links
    /\ restore' = [restore EXCEPT ![u] = NoRestore]
    /\ Finish({restore[u][1]} \cap SessionRows, "completed")
    /\ UNCHANGED <<people, access, bastion, request, revoke, found, resetting>>

\* the link is handed back, or Bastion could not be read
RestoreReturns(u) ==
    /\ restore[u] # NoRestore
    /\ restore' = [restore EXCEPT ![u] = NoRestore]
    /\ UNCHANGED <<people, access, sessions, cleaning, bastion, request, revoke, found, resetting>>

-------------------------------------------------------------------------------
(* revokeAllShareableLinks: host after host, list, delete, poll until gone   *)

LinksOn(h) == {n \in links : HostOf[n] = h}
AtRest(r)   == \A h \in Hosts : revoke[r][h] \notin {"delete", "verify"}
Revoked(r)  == Revoking(r) /\ \A h \in Hosts : revoke[r][h] \in {"clean", "failed"}
Verified(r) == \A h \in Hosts : revoke[r][h] = "clean"

Stage(r, h, to) == revoke' = [revoke EXCEPT ![r][h] = to]
AllActive == {id \in SessionIds : Active(id)}

\* every session ends without a link deletion of its own (skipLinkCleanup)
BeginRevoke(r) ==
    /\ ~Revoking(r)
    /\ revoke' = [revoke EXCEPT ![r] = [h \in Hosts |-> "waiting"]]
    /\ sessions' = Finished(AllActive, "force_closed")

\* Mutant: a host is called clean on listing it, whatever it lists.
ListLinks_Trusting(r, h) ==
    /\ AtRest(r) /\ revoke[r][h] = "waiting"
    /\ Stage(r, h, "clean")
    /\ UNCHANGED <<people, access, sessions, cleaning, bastion, request, restore, found, resetting>>

ListLinks(r, h) ==
    /\ AtRest(r) /\ revoke[r][h] = "waiting"
    /\ Stage(r, h, IF LinksOn(h) = {} THEN "clean" ELSE "delete")
    /\ found' = [found EXCEPT ![r] = LinksOn(h)]
    /\ UNCHANGED <<people, access, sessions, cleaning, bastion, request, restore, resetting>>

DeleteLinks(r, h) ==
    /\ revoke[r][h] = "delete"
    /\ links' = links \ found[r]
    /\ stranded' = stranded \ found[r]
    /\ found' = [found EXCEPT ![r] = {}]
    /\ Stage(r, h, "verify")
    /\ UNCHANGED <<people, access, sessions, cleaning, request, restore, resetting>>

VerifyLinks(r, h) ==
    /\ revoke[r][h] = "verify"
    /\ LinksOn(h) = {}
    /\ Stage(r, h, "clean")
    /\ UNCHANGED <<people, access, sessions, cleaning, bastion, request, restore, found, resetting>>

\* an Azure call failed, or the last poll still saw a link
RevokeFails(r, h) ==
    /\ \/ AtRest(r) /\ revoke[r][h] = "waiting"
       \/ revoke[r][h] = "delete"
       \/ revoke[r][h] = "verify"
    /\ Stage(r, h, "failed")
    /\ found' = [found EXCEPT ![r] = {}]
    /\ stranded' = stranded \cup LinksOn(h)
    /\ UNCHANGED <<people, access, sessions, cleaning, links, request, restore, resetting>>

ManualRevokeAll ==
    /\ BeginRevoke("manual")
    /\ UNCHANGED <<people, access, cleaning, bastion, request, restore, found, resetting>>

ManualRevokeAnswered ==
    /\ Revoked("manual")
    /\ revoke' = [revoke EXCEPT !["manual"] = NotRevoking]
    /\ UNCHANGED <<people, access, sessions, cleaning, bastion, request, restore, found, resetting>>

-------------------------------------------------------------------------------
(* The event-reset job; o = "override" is allowUnverifiedRemoteAccess        *)

StartReset(o) ==
    /\ job = "idle"
    /\ job' = o
    /\ frozen' = TRUE
    /\ BeginRevoke("reset")
    /\ UNCHANGED <<people, access, cleaning, bastion, request, restore, found>>

\* the finally block
JobOver ==
    /\ job' = "idle"
    /\ frozen' = FALSE
    /\ revoke' = [revoke EXCEPT !["reset"] = NotRevoking]

\* the credential of the next host cannot be decrypted, which throws out of the loop; the
\* hosts not reached keep their links. (In the manual call it ends the process: Crash.)
RevokeThrows ==
    /\ AtRest("reset")
    /\ \E h \in Hosts : revoke["reset"][h] = "waiting"
    /\ stranded' = stranded \cup {n \in links : revoke["reset"][HostOf[n]] = "waiting"}
    /\ JobOver
    /\ UNCHANGED <<people, access, sessions, cleaning, links, request, restore, found>>

\* refused (strict and unverified), or failed: nothing is wiped
ResetAbandoned ==
    /\ Revoked("reset")
    /\ JobOver
    /\ UNCHANGED <<people, access, sessions, cleaning, bastion, request, restore, found>>

\* DELETE FROM event_runs: the cascade reaches every team, user and session row
Wipe ==
    /\ Revoked("reset")
    /\ job = "override" \/ Verified("reset")
    /\ teams' = {}
    /\ member' = [u \in Users |-> "none"]
    /\ scenario' = [t \in Teams |-> NoRange]
    /\ sessions' = [id \in SessionIds |-> NoRow]
    /\ stranded' = stranded \cup {n \in links : ActiveOn(n) # {}}
    /\ JobOver
    /\ UNCHANGED <<team, target, shown, cleaning, links, request, restore, found>>

-------------------------------------------------------------------------------

Init ==
    /\ member = [u \in Users |-> "none"]
    /\ team = [u \in Users |-> NoTeam]
    /\ teams = {}
    /\ scenario = [t \in Teams |-> NoRange]
    /\ target = [n \in Nodes |-> "none"]
    /\ shown = {}
    /\ sessions = [id \in SessionIds |-> NoRow]
    /\ links = {}
    /\ request = [u \in Users |-> Idle]
    /\ restore = [u \in Users |-> NoRestore]
    /\ cleaning = {}
    /\ revoke = [r \in Revokers |-> NotRevoking]
    /\ found = [r \in Revokers |-> {}]
    /\ frozen = FALSE
    /\ job = "idle"
    /\ stranded = {}

People ==
    \/ \E t \in Teams : CreateTeam(t) \/ RemoveTeam(t) \/ RemoveTeamRefused(t)
    \/ \E u \in Users : Login(u) \/ Logout(u) \/ CutAccount(u) \/ RemoveUser(u) \/ DeactivateUser(u)
    \/ \E u \in Users, t \in Teams \cup {NoTeam} : Register(u, t) \/ MoveUser(u, t)

Machines ==
    \/ \E t \in Teams, r \in Ranges : StartScenario(t, r) \/ CompleteScenario(t, r)
    \/ \E n \in Nodes : EnableTarget(n)
    \/ \E n \in Nodes, to \in {"none", "off"} : WithdrawTarget(n, to)

Publishing == \E n \in Nodes : ShowOrHide(n)

ConnectSettles(u) ==
    \/ LinkCreated(u) \/ ConnectFails(u) \/ InsertRefused(u, FALSE)
    \/ \E id \in SessionIds : InsertSession(u, id)

Connect == \E u \in Users :
    \/ \E n \in Nodes : RequestSession(u, n) \/ RequestInstructorSession(u, n)
    \/ ConnectSettles(u) \/ InsertRefused(u, TRUE)

RestoreSettles(u) == RestoreFindsNoLink(u) \/ RestoreReturns(u)

Expiry   == Sweep \/ \E id \in SessionIds : TimePasses(id)
Ending   == \E id \in SessionIds, how \in {"completed", "force_closed"} : EndSession(id, how)
Cleaning == \E c \in cleaning : LinkDeleted(c) \/ LinkDeletionFails(c)

Restoring ==
    \/ \E u \in Users, id \in SessionIds : RestoreEnds(u, id) \/ RestoreBegins(u, id)
    \/ \E u \in Users : RestoreSettles(u)

RevokeStep(r) == \E h \in Hosts :
    ListLinks(r, h) \/ DeleteLinks(r, h) \/ VerifyLinks(r, h) \/ RevokeFails(r, h)

ResetEnds == ResetAbandoned \/ Wipe

Resetting ==
    \/ \E r \in Revokers : RevokeStep(r)
    \/ ManualRevokeAll \/ ManualRevokeAnswered \/ RevokeThrows
    \/ \E o \in {"strict", "override"} : StartReset(o)
    \/ ResetEnds

Next ==
    \/ People \/ Machines \/ Publishing
    \/ Connect \/ Ending \/ Expiry \/ Cleaning \/ Restoring
    \/ Resetting \/ Crash

Spec == Init /\ [][Next]_vars

\* The expiry ticker runs every ten seconds, every awaited Azure call returns or
\* throws within its budget, and the code after an await is then run. Nothing is
\* assumed of users or staff.
Fairness ==
    /\ WF_vars(Sweep)
    /\ \A u \in Users : WF_vars(ConnectSettles(u)) /\ WF_vars(RestoreSettles(u))
    /\ \A r \in Revokers : WF_vars(RevokeStep(r))
    /\ WF_vars(ResetEnds)

FairSpec == Spec /\ Fairness

-------------------------------------------------------------------------------
(* Properties                                                               *)

\* A session whose authorization still held when its row was written never outlives
\* it: while it is active its user is signed in and on the session's team, the team is
\* live on the session's scenario and student access to the machine is on. Every route
\* that withdraws one of these must end the sessions granted under it.
GrantIsHonoured == \A id \in SessionIds :
    Active(id) /\ sessions[id].granted =>
        StillGranted(sessions[id].user, sessions[id].team, sessions[id].node)

\* No access_sessions row outlives the user or team it belongs to, whichever order
\* deletions, resets and late inserts come in.
RowsHaveOwners == \A id \in SessionRows :
    RowsExist(sessions[id].user, sessions[id].team)

\* What will still be done about a link, or the failure that left it behind.
Accounted(n) ==
    \/ ActiveOn(n) # {}
    \/ \E c \in cleaning : c[2] = n
    \/ \E u \in Users : request[u].pc = "polling" /\ request[u].node = n
    \/ \E r \in Revokers : revoke[r][HostOf[n]] = "waiting" \/ n \in found[r]
    \/ n \in stranded

\* A shareable link that exists in Bastion is never simply forgotten: it has an active
\* session, or a deletion, a revoke or a Connect in flight will deal with it, or it was
\* left behind by one of the failures that record it (a failed or lost Azure call, a
\* crash, a credential that cannot be read, rows cascaded away while active).
LinksAreAccountedFor == \A n \in links : Accounted(n)

\* The outcome of an ended session is rewritten only by that session's own restore,
\* resuming after its await to find the link gone (finishSession checks no state).
OutcomesAreFinal == [][\A id \in SessionIds :
    sessions[id].outcome \in Ended /\ sessions'[id].outcome # sessions[id].outcome
      => \/ sessions'[id] = NoRow
         \/ /\ sessions'[id].outcome = "completed"
            /\ \E u \in Users : restore[u] # NoRestore /\ restore[u][1] = id]_vars

\* What begins ends, across crashes: a session that runs past expires_at stops being active (the
\* sweep ends it if nothing else does), every reset job ends and unfreezes remote access, and every
\* Connect comes to a session, a refusal or the end of the process, also one that finds no link.
RemoteAccessSettles ==
    /\ \A id \in SessionIds : (Active(id) /\ sessions[id].due) ~> ~Active(id)
    /\ frozen ~> ~frozen
    /\ \A u \in Users : request[u] # Idle ~> request[u] = Idle
===============================================================================
