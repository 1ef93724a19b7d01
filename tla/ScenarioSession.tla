------------------------------ MODULE ScenarioSession ------------------------------
(***************************************************************************)
(* One team at work on its scenarios: which one is active                  *)
(* (cyberRangeProgress.service, routes/admin/progress), the countdown and  *)
(* its pressure stages (clock.service, routes/admin/pressureThresholds),   *)
(* the help requests (helpRequests routes and service), the timeline       *)
(* entries marked as late (documentation.routes), and the header clock of  *)
(* every open browser (MissionClock, clockStore, AppShell).                *)
(*                                                                         *)
(* Every handler of the server runs without an await, so each is one       *)
(* action. The clock runs every second and time is counted in a coarser    *)
(* unit: it runs at least once between two units. A browser gets its       *)
(* events in order while its socket is up, and nothing while it is down.   *)
(***************************************************************************)
EXTENDS Integers, FiniteSets, Sequences

CONSTANTS
    Ranges,       \* cyber_ranges
    StageRows,    \* rows pressure_stages may hold: [id, range, trigger]
    Limit,        \* [Ranges -> units of time, or NoLimit]: expected_duration_minutes
    Clients,      \* students' open browsers
    MaxRuns,      \* bound: starts of scenarios
    MaxRows,      \* bound: rows of help_requests and documentation_entries together
    MaxFaults,    \* bound: restarts of the process and sockets that drop
    MaxInbox      \* bound: events on their way to one browser

NoLimit == -1
NoStage == "none"
NoRange == "no range"

ASSUME LimitsAreTimes ==
    /\ Limit \in [Ranges -> Nat \cup {NoLimit}]
    /\ \A s \in StageRows : s.range \in Ranges /\ s.trigger \in Nat
    /\ \A s, t \in StageRows : s.id = t.id => s = t
    /\ IsFiniteSet(StageRows)
    /\ MaxRuns \in Nat /\ MaxRows \in Nat /\ MaxFaults \in Nat /\ MaxInbox \in Nat

VARIABLES
    status,     \* team_cyber_range_progress: [Ranges -> status]
    left,       \* started_at + time_limit_seconds - now, never below 0
    stage,      \* current_pressure_stage_id
    stages,     \* rows of pressure_stages
    announced,  \* timeUpEmitted, in the process
    ticked,     \* the clock ran since the last unit of time
    help,       \* rows of help_requests
    entries,    \* rows of documentation_entries, each with the run it was added in
    runs,       \* started_at: the how manyeth start of the scenario
    heard,      \* history: how often the current run was told that its time is up
    faults,     \* restarts and dropped sockets so far
    restarts,   \* history: restarts so far
    online,     \* sockets that are connected
    inbox,      \* events on their way
    clock,      \* clockStore
    missed      \* history: a change of scenario did not reach this browser

progress == <<status, left, stage, runs>>
clockwork == <<stages, announced, ticked, heard>>
browsers == <<online, inbox, clock, missed>>
vars == <<progress, clockwork, help, entries, faults, restarts, browsers>>

Empty == [stage |-> NoStage, range |-> NoRange, run |-> 0, timeUp |-> FALSE]
Statuses == {"not assigned", "active", "paused", "completed"}
StageIds == {s.id : s \in StageRows} \cup {NoStage}

Request == [id : Nat, range : Ranges, status : {"open", "resolved"}, by : {"nobody", "instructor"}]
Entry   == [id : Nat, range : Ranges, run : Nat, late : BOOLEAN]
Event   == [type : {"progress:changed"}, range : Ranges] \cup
           [type : {"clock"}, range : Ranges, run : Nat, zero : BOOLEAN, stage : StageIds, over : BOOLEAN]
Clock   == [stage : StageIds, range : Ranges \cup {NoRange}, run : Nat, timeUp : BOOLEAN]

TypeOK ==
    /\ status \in [Ranges -> Statuses] /\ left \in [Ranges -> Nat \cup {NoLimit}]
    /\ stage \in [Ranges -> StageIds] /\ runs \in [Ranges -> Nat] /\ heard \in [Ranges -> Nat]
    /\ stages \in SUBSET StageRows /\ announced \in SUBSET Ranges /\ ticked \in BOOLEAN
    /\ help \in SUBSET Request /\ IsFiniteSet(help)
    /\ entries \in SUBSET Entry /\ IsFiniteSet(entries)
    /\ faults \in Nat /\ restarts \in Nat
    /\ online \in [Clients -> BOOLEAN] /\ missed \in [Clients -> BOOLEAN]
    /\ inbox \in [Clients -> Seq(Event)] /\ clock \in [Clients -> Clock]

\* activeCyberRangeIdForTeam
Active == {r \in Ranges : status[r] = "active"}

\* the reached stage with the smallest threshold
Reached(r) == {s \in stages : s.range = r /\ s.trigger >= left[r]}
Stage(r) ==
    IF Reached(r) = {} THEN NoStage
    ELSE (CHOOSE s \in Reached(r) : \A t \in Reached(r) : s.trigger <= t.trigger).id

Change(r) == [type |-> "progress:changed", range |-> r]
\* clock:tick, with clock:pressure_stage and clock:time_up when they follow it at once
Ticked(r, new, over) ==
    [type |-> "clock", range |-> r, run |-> runs[r], zero |-> left[r] = 0,
     stage |-> IF new THEN Stage(r) ELSE NoStage, over |-> over]

\* Mutant: a change of scenario overtakes the ticks that are on their way.
Emit_Overtaking(ev) ==
    /\ \A c \in Clients : online[c] => Len(inbox[c]) < MaxInbox
    /\ inbox' = [c \in Clients |-> IF ~online[c] THEN inbox[c]
                                  ELSE IF ev.type = "clock" THEN Append(inbox[c], ev) ELSE <<ev>> \o inbox[c]]
    /\ missed' = [c \in Clients |-> missed[c] \/ (ev.type = "progress:changed" /\ ~online[c])]
    /\ UNCHANGED <<online, clock>>

\* emitScoped, to the team's room, and each browser's socket in order
Emit(ev) ==
    /\ \A c \in Clients : online[c] => Len(inbox[c]) < MaxInbox
    /\ inbox' = [c \in Clients |-> IF online[c] THEN Append(inbox[c], ev) ELSE inbox[c]]
    /\ missed' = [c \in Clients |-> missed[c] \/ (ev.type = "progress:changed" /\ ~online[c])]
    /\ UNCHANGED <<online, clock>>

-------------------------------------------------------------------------------
(* Help requests                                                            *)

\* closeOpenHelpRequests: no resolver
Closed(rs) ==
    {IF h.status = "open" /\ h.range \in rs
     THEN [h EXCEPT !.status = "resolved"] ELSE h : h \in help}

\* POST /help-requests: about the active scenario, one open request per team
RequestHelp ==
    /\ Cardinality(help) + Cardinality(entries) < MaxRows
    /\ \A h \in help : h.status # "open"
    /\ \E r \in Active :
         help' = help \cup {[id |-> Cardinality(help) + 1, range |-> r, status |-> "open", by |-> "nobody"]}
    /\ UNCHANGED <<progress, clockwork, entries, faults, restarts, browsers>>

\* POST /admin/help-requests/:id/resolve, of a row the instructor once saw open
Resolve(h) ==
    /\ help' = (help \ {h}) \cup {[h EXCEPT !.status = "resolved", !.by = "instructor"]}
    /\ UNCHANGED <<progress, clockwork, entries, faults, restarts, browsers>>

-------------------------------------------------------------------------------
(* Which scenario is active                                                 *)

Paused(r) == [q \in Ranges |-> IF q # r /\ status[q] = "active" THEN "paused" ELSE status[q]]

\* Mutant: help for the scenario that is left stays open.
HelpKept_All(r) == help
HelpKept(r) == Closed(Ranges \ {r})

\* POST .../start: startCyberRangeForTeam, then what it does to the scenario that is left.
\* current_pressure_stage_id is not among the columns it sets.
Start(r) ==
    /\ Cardinality({p \in Ranges \X (1..MaxRuns) : p[2] <= runs[p[1]]}) < MaxRuns
    /\ status' = [Paused(r) EXCEPT ![r] = "active"]
    /\ left' = [left EXCEPT ![r] = Limit[r]]
    /\ runs' = [runs EXCEPT ![r] = @ + 1]
    /\ heard' = [heard EXCEPT ![r] = 0]
    /\ help' = HelpKept(r)
    /\ Emit(Change(r))
    /\ ticked' = FALSE
    /\ UNCHANGED <<stage, stages, announced, entries, faults, restarts>>

\* POST .../complete: any scenario the team has a row for
Complete(r) ==
    /\ status[r] \notin {"not assigned", "completed"}
    /\ status' = [status EXCEPT ![r] = "completed"]
    /\ help' = Closed({r})
    /\ Emit(Change(r))
    /\ UNCHANGED <<left, stage, runs, clockwork, entries, faults, restarts>>

-------------------------------------------------------------------------------
(* The clock                                                                *)

\* a unit of time; the interval has run since the last one. What a scenario the team is
\* not on has left is not asked before its next start.
Pass ==
    /\ ticked
    /\ left' = [r \in Ranges |-> IF r \in Active /\ left[r] > 0 THEN left[r] - 1 ELSE left[r]]
    /\ ticked' = FALSE
    /\ UNCHANGED <<status, stage, runs, stages, announced, heard, help, entries, faults, restarts, browsers>>

\* Mutant: a run that is started again stays announced.
Announced_Ever(r) == IF left[r] = 0 THEN announced \cup {r} ELSE announced
Announced(r) == IF left[r] = 0 THEN announced \cup {r} ELSE announced \ {r}

\* tick, for the row the team has active, if its scenario has a time limit
Tick ==
    \/ /\ \A r \in Active : Limit[r] = NoLimit
       /\ ~ticked /\ ticked' = TRUE
       /\ UNCHANGED <<progress, stages, announced, heard, help, entries, faults, restarts, browsers>>
    \/ \E r \in Active :
         LET new == Stage(r) # NoStage /\ Stage(r) # stage[r]
             over == left[r] = 0 /\ r \notin announced IN
         /\ Limit[r] # NoLimit
         /\ ~ticked \/ new \/ over
         /\ stage' = IF new THEN [stage EXCEPT ![r] = Stage(r)] ELSE stage
         /\ announced' = Announced(r)
         /\ heard' = IF over THEN [heard EXCEPT ![r] = @ + 1] ELSE heard
         /\ Emit(Ticked(r, new, over))
         /\ ticked' = TRUE
         /\ UNCHANGED <<status, left, runs, stages, help, entries, faults, restarts>>

\* POST .../pressure-thresholds
AddStage(s) ==
    /\ s \notin stages
    /\ stages' = stages \cup {s}
    /\ UNCHANGED <<progress, announced, ticked, heard, help, entries, faults, restarts, browsers>>

\* DELETE /pressure-thresholds/:id: a foreign key refuses a stage some run has reached
DeleteStage(s) ==
    /\ s \in stages
    /\ \A r \in Ranges : stage[r] # s.id
    /\ stages' = stages \ {s}
    /\ UNCHANGED <<progress, announced, ticked, heard, help, entries, faults, restarts, browsers>>

-------------------------------------------------------------------------------
(* The timeline: an entry past the time limit is saved, and marked          *)

\* Mutant: late is what the clock has announced.
Late_ByAnnouncement(r) == r \in announced
Late(r) == Limit[r] # NoLimit /\ left[r] = 0

AddEntry(r) ==
    /\ Cardinality(help) + Cardinality(entries) < MaxRows
    /\ r \in Active
    /\ entries' = entries \cup
         {[id |-> Cardinality(entries) + 1, range |-> r, run |-> runs[r], late |-> Late(r)]}
    /\ UNCHANGED <<progress, clockwork, help, faults, restarts, browsers>>

-------------------------------------------------------------------------------
(* The process and the browsers                                             *)

Fault == faults < MaxFaults /\ faults' = faults + 1

\* The process restarts: timeUpEmitted is empty again, every socket reconnects.
Restart ==
    /\ Fault
    /\ restarts' = restarts + 1
    /\ announced' = {} /\ ticked' = FALSE
    /\ inbox' = [c \in Clients |-> <<>>]
    /\ missed' = [c \in Clients |->
         missed[c] \/ \E k \in 1..Len(inbox[c]) : inbox[c][k].type = "progress:changed"]
    /\ UNCHANGED <<progress, stages, heard, help, entries, online, clock>>

\* setTick, setStage and setTimeUp; whose clock it is, nobody looks at
Shown(k, ev) ==
    [stage |-> IF ev.stage # NoStage THEN ev.stage ELSE k.stage,
     range |-> IF ev.stage # NoStage THEN ev.range ELSE k.range,
     run |-> IF ev.stage # NoStage THEN ev.run ELSE k.run,
     timeUp |-> ev.zero \/ ev.over]

\* useMissionClockSync, and AppShell's progress:changed, which resets the clock
Handled(k, ev) == IF ev.type = "clock" THEN Shown(k, ev) ELSE Empty

Receive(c) ==
    /\ inbox[c] # <<>>
    /\ clock' = [clock EXCEPT ![c] = Handled(@, Head(inbox[c]))]
    /\ inbox' = [inbox EXCEPT ![c] = Tail(@)]
    /\ UNCHANGED <<progress, clockwork, help, entries, faults, restarts, online, missed>>

Disconnect(c) ==
    /\ online[c] /\ Fault
    /\ online' = [online EXCEPT ![c] = FALSE]
    /\ inbox' = [inbox EXCEPT ![c] = <<>>]
    /\ missed' = [missed EXCEPT ![c] = @ \/ \E k \in 1..Len(inbox[c]) : inbox[c][k].type = "progress:changed"]
    /\ UNCHANGED <<progress, clockwork, help, entries, restarts, clock>>

Reconnect(c) ==
    /\ ~online[c]
    /\ online' = [online EXCEPT ![c] = TRUE]
    /\ UNCHANGED <<progress, clockwork, help, entries, faults, restarts, inbox, clock, missed>>

\* the page is loaded again, or the student signs in
Reload(c) ==
    /\ missed[c]
    /\ online' = [online EXCEPT ![c] = TRUE]
    /\ inbox' = [inbox EXCEPT ![c] = <<>>]
    /\ clock' = [clock EXCEPT ![c] = Empty]
    /\ missed' = [missed EXCEPT ![c] = FALSE]
    /\ UNCHANGED <<progress, clockwork, help, entries, faults, restarts>>

-------------------------------------------------------------------------------
Init ==
    /\ status = [r \in Ranges |-> "not assigned"]
    /\ left = [r \in Ranges |-> Limit[r]]
    /\ stage = [r \in Ranges |-> NoStage]
    /\ runs = [r \in Ranges |-> 0]
    /\ stages = {}
    /\ announced = {} /\ ticked = FALSE
    /\ heard = [r \in Ranges |-> 0]
    /\ help = {} /\ entries = {} /\ faults = 0 /\ restarts = 0
    /\ online = [c \in Clients |-> TRUE]
    /\ inbox = [c \in Clients |-> <<>>]
    /\ clock = [c \in Clients |-> Empty]
    /\ missed = [c \in Clients |-> FALSE]

Next ==
    \/ \E r \in Ranges : Start(r) \/ Complete(r) \/ AddEntry(r)
    \/ RequestHelp
    \/ \E h \in help : Resolve(h)
    \/ Tick \/ Pass \/ Restart
    \/ \E s \in StageRows : AddStage(s) \/ DeleteStage(s)
    \/ \E c \in Clients : Receive(c) \/ Disconnect(c) \/ Reconnect(c) \/ Reload(c)

\* setInterval(tick), and time; a socket delivers what was sent
Fairness ==
    /\ WF_vars(Tick) /\ WF_vars(Pass)
    /\ \A c \in Clients : WF_vars(Receive(c))

Spec == Init /\ [][Next]_vars
FairSpec == Spec /\ Fairness

-------------------------------------------------------------------------------
(* Properties                                                               *)

\* A team waits for help with the scenario it is on, in one request at most: whatever is
\* started, restarted or completed while a request is open (closeOpenHelpRequests: "a
\* still-open request only clutters the instructor's queue").
OpenHelp == {h \in help : h.status = "open"}
HelpIsForTheActive ==
    /\ Cardinality(OpenHelp) <= 1
    /\ \A h \in OpenHelp : Active = {h.range}

\* An entry is marked late from the moment the team was told that its time is up, and no
\* entry is while the run has time left, although the announcement is remembered only in
\* the process (routes/documentation.routes, after_time_limit).
LateEntriesAreMarked ==
    [][\A e \in entries' \ entries :
         /\ heard[e.range] > 0 => e.late
         /\ e.late => left[e.range] = 0]_vars

\* The end of a run's time is announced once, and again only by a process that restarted
\* (clock.service: "so it fires once per run").
TimeUpIsToldOnce == \A r \in Ranges : heard[r] <= 1 + restarts

\* A run whose time is over is told so, a restarted run like the first, unless the team
\* is taken off it (clock.service: "a restarted range immediately has remaining > 0
\* again, which clears the flag").
TimeUpIsTold ==
    \A r \in Ranges :
        (r \in Active /\ Limit[r] # NoLimit) ~> (heard[r] > 0 \/ r \notin Active)

\* The header clock of a browser that has nothing on its way, and that every change of
\* scenario has reached, shows no stage and no "Time's up" but those of the run the team
\* is on (AppShell's progress:changed, clockStore.reset).
OfThisRun(c) ==
    /\ clock[c].stage # NoStage => Active = {clock[c].range} /\ clock[c].run = runs[clock[c].range]
    /\ clock[c].timeUp => \E r \in Active : left[r] = 0
ClocksShowThisRun ==
    \A c \in Clients : online[c] /\ inbox[c] = <<>> /\ ~missed[c] => OfThisRun(c)
====================================================================================
