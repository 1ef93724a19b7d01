----------------------------- MODULE ScenarioProofs -----------------------------
(***************************************************************************)
(* Safety theorems about ScenarioSession, for every set of scenarios,      *)
(* stages, time limits and browsers and every number of starts and faults; *)
(* and, in the second half, about ScenarioCatalog and the Libraries it     *)
(* extends, for every set of browsers, words and names and any number of   *)
(* rows.                                                                   *)
(***************************************************************************)
EXTENDS ScenarioSession, ScenarioCatalog, FiniteSetTheorems, WellFoundedInduction, TLAPS

USE DEF progress, clockwork, browsers

-------------------------------------------------------------------------------
(* Stages                                                                   *)

\* Among the stages a run has reached, one has the smallest threshold: of the sets of reached stages
\* below a stage, one is minimal.
LEMMA FirstStage ==
    ASSUME NEW T \in SUBSET StageRows, T # {}
    PROVE  \E s \in T : \A t \in T : s.trigger <= t.trigger
<1> DEFINE Below(s) == {u \in StageRows : u.trigger < s.trigger}
           A == {Below(s) : s \in T}
<1>1. IsFiniteSet(StageRows) /\ \A s \in StageRows : s.trigger \in Nat
  BY LimitsAreTimes
<1>2. FiniteSubsetsOf(StageRows) = SUBSET StageRows
  BY <1>1, FS_FiniteSubsetsOfFinite
<1>3. IsWellFoundedOn(StrictSubsetOrdering(StageRows), SUBSET StageRows)
  BY <1>2, FS_StrictSubsetOrderingWellFounded
<1>4. A \subseteq SUBSET StageRows /\ A # {}
  OBVIOUS
<1>5. PICK a \in A : \A b \in A : ~ (<<b, a>> \in StrictSubsetOrdering(StageRows))
  <2> HIDE DEF A
  <2>1. QED  BY <1>3, <1>4, WFMin
<1>6. PICK s \in T : a = Below(s)
  BY <1>5
<1>7. ASSUME NEW t \in T, ~(s.trigger <= t.trigger)  PROVE FALSE
  <2>1. t.trigger < s.trigger /\ s.trigger \in Nat /\ t.trigger \in Nat /\ t \in StageRows
    BY <1>1, <1>7
  <2>2. Below(t) \subseteq Below(s) /\ t \in Below(s) /\ t \notin Below(t)
    BY <1>1, <2>1
  <2>3. <<Below(t), Below(s)>> \in StrictSubsetOrdering(StageRows)
    BY <2>2 DEF StrictSubsetOrdering
  <2>4. QED  BY <1>5, <1>6, <2>3
<1>8. QED  BY <1>6, <1>7

LEMMA StageType ==
    ASSUME stages \in SUBSET StageRows, NEW r \in Ranges
    PROVE  Stage(r) \in StageIds
<1>1. Reached(r) \in SUBSET StageRows
  BY DEF Reached
<1>2. CASE Reached(r) = {}
  BY <1>2 DEF Stage, StageIds
<1>3. CASE Reached(r) # {}
  <2>1. \E s \in Reached(r) : \A t \in Reached(r) : s.trigger <= t.trigger
    BY <1>1, <1>3, FirstStage
  <2>2. PICK s \in StageRows : Stage(r) = s.id
    BY <1>1, <1>3, <2>1 DEF Stage
  <2>3. QED  BY <2>2 DEF StageIds
<1>4. QED  BY <1>2, <1>3

LEMMA EventsAreEvents ==
    ASSUME TypeOK, NEW r \in Ranges
    PROVE  /\ Change(r) \in Event
           /\ \A new, over \in BOOLEAN : Ticked(r, new, over) \in Event
<1>1. Stage(r) \in StageIds /\ runs[r] \in Nat /\ NoStage \in StageIds
  BY StageType DEF TypeOK, StageIds
<1>2. Change(r) \in Event
  BY DEF Change, Event
<1>3. ASSUME NEW new \in BOOLEAN, NEW over \in BOOLEAN  PROVE Ticked(r, new, over) \in Event
  <2>1. (left[r] = 0) \in BOOLEAN /\ (IF new THEN Stage(r) ELSE NoStage) \in StageIds
    BY <1>1
  <2>2. QED  BY <1>1, <2>1 DEF Ticked, Event
<1>4. QED  BY <1>2, <1>3

-------------------------------------------------------------------------------
(* What a handler does to the rows and the browsers                         *)

LEMMA EmitType ==
    ASSUME TypeOK, NEW ev \in Event, Emit(ev)
    PROVE  /\ inbox' \in [Clients -> Seq(Event)] /\ missed' \in [Clients -> BOOLEAN]
           /\ online' = online /\ clock' = clock
<1>1. \A c \in Clients : Append(inbox[c], ev) \in Seq(Event) /\ inbox[c] \in Seq(Event)
  BY DEF TypeOK
<1>2. inbox' \in [Clients -> Seq(Event)]
  BY <1>1 DEF Emit
<1>3. missed' \in [Clients -> BOOLEAN]
  BY DEF Emit, TypeOK
<1>4. QED  BY <1>2, <1>3 DEF Emit

LEMMA ClosedType ==
    ASSUME TypeOK, NEW rs
    PROVE  Closed(rs) \in SUBSET Request /\ IsFiniteSet(Closed(rs))
<1> DEFINE Shut(h) == IF h.status = "open" /\ h.range \in rs THEN [h EXCEPT !.status = "resolved"] ELSE h
<1>1. \A h \in Request : Shut(h) \in Request
  BY DEF Request
<1>2. Closed(rs) = {Shut(h) : h \in help}
  BY DEF Closed
<1>3. IsFiniteSet(Closed(rs))
  <2> DEFINE f == [h \in help |-> Shut(h)]
  <2>1. f \in Surjection(help, Closed(rs))
    BY <1>2 DEF Surjection
  <2>2. QED  BY <2>1, FS_Surjection DEF TypeOK
<1>4. QED  BY <1>1, <1>2, <1>3 DEF TypeOK

-------------------------------------------------------------------------------
(* Type correctness                                                         *)

LEMMA InitType == Init => TypeOK
<1> SUFFICES ASSUME Init  PROVE TypeOK
  OBVIOUS
<1>1. IsFiniteSet({}) /\ <<>> \in Seq(Event) /\ NoStage \in StageIds
  BY FS_EmptySet DEF StageIds
<1>2. Empty \in Clock
  BY <1>1 DEF Empty, Clock
<1>3. QED  BY <1>1, <1>2, LimitsAreTimes DEF Init, TypeOK, Statuses

LEMMA StartType ==
    ASSUME TypeOK, NEW r \in Ranges, Start(r)
    PROVE  TypeOK'
<1>1. status' \in [Ranges -> Statuses]
  <2>1. Paused(r) \in [Ranges -> Statuses]
    BY DEF Paused, TypeOK, Statuses
  <2>2. QED  BY <2>1 DEF Start, Statuses
<1>2. left' \in [Ranges -> Nat \cup {NoLimit}] /\ heard' \in [Ranges -> Nat]
  BY LimitsAreTimes DEF Start, TypeOK
<1>2a. runs' \in [Ranges -> Nat]
  BY DEF Start, TypeOK
<1>3. help' \in SUBSET Request /\ IsFiniteSet(help')
  BY ClosedType DEF Start, HelpKept
<1>4. Emit(Change(r)) /\ Change(r) \in Event
  BY EventsAreEvents DEF Start
<1>5. /\ inbox' \in [Clients -> Seq(Event)] /\ missed' \in [Clients -> BOOLEAN]
      /\ online' = online /\ clock' = clock
  BY <1>4, EmitType
<1>6. QED  BY <1>1, <1>2, <1>2a, <1>3, <1>5 DEF Start, TypeOK

LEMMA CompleteType ==
    ASSUME TypeOK, NEW r \in Ranges, Complete(r)
    PROVE  TypeOK'
<1>1. help' \in SUBSET Request /\ IsFiniteSet(help')
  BY ClosedType DEF Complete
<1>2. Emit(Change(r)) /\ Change(r) \in Event
  BY EventsAreEvents DEF Complete
<1>3. /\ inbox' \in [Clients -> Seq(Event)] /\ missed' \in [Clients -> BOOLEAN]
      /\ online' = online /\ clock' = clock
  BY <1>2, EmitType
<1>4. status' \in [Ranges -> Statuses]
  BY DEF Complete, TypeOK, Statuses
<1>5. QED  BY <1>1, <1>3, <1>4 DEF Complete, TypeOK

LEMMA AddEntryType ==
    ASSUME TypeOK, NEW r \in Ranges, AddEntry(r)
    PROVE  TypeOK'
<1> DEFINE e == [id |-> Cardinality(entries) + 1, range |-> r, run |-> runs[r], late |-> Late(r)]
<1>1. Cardinality(entries) \in Nat
  BY FS_CardinalityType DEF TypeOK
<1>2. e \in Entry
  BY <1>1 DEF Entry, TypeOK, Late
<1>3. entries' = entries \cup {e}
  BY DEF AddEntry
<1> HIDE DEF e
<1>4. entries' \in SUBSET Entry /\ IsFiniteSet(entries')
  BY <1>2, <1>3, FS_AddElement DEF TypeOK
<1>5. QED  BY <1>4 DEF AddEntry, TypeOK

LEMMA RequestHelpType ==
    ASSUME TypeOK, RequestHelp
    PROVE  TypeOK'
<1>1. PICK r \in Active : help' = help \cup
        {[id |-> Cardinality(help) + 1, range |-> r, status |-> "open", by |-> "nobody"]}
  BY DEF RequestHelp
<1>2. Cardinality(help) \in Nat
  BY FS_CardinalityType DEF TypeOK
<1>3. [id |-> Cardinality(help) + 1, range |-> r, status |-> "open", by |-> "nobody"] \in Request
  BY <1>2 DEF Request, Active
<1>4. help' \in SUBSET Request /\ IsFiniteSet(help')
  BY <1>1, <1>3, FS_AddElement DEF TypeOK
<1>5. QED  BY <1>4 DEF RequestHelp, TypeOK

LEMMA ResolveType ==
    ASSUME TypeOK, NEW h \in help, Resolve(h)
    PROVE  TypeOK'
<1> DEFINE g == [h EXCEPT !.status = "resolved", !.by = "instructor"]
<1>1. g \in Request
  BY DEF TypeOK, Request
<1>2. help' = (help \ {h}) \cup {g}
  BY DEF Resolve
<1> HIDE DEF g
<1>3. IsFiniteSet(help \ {h})
  BY FS_RemoveElement DEF TypeOK
<1>4. help' \in SUBSET Request /\ IsFiniteSet(help')
  BY <1>1, <1>2, <1>3, FS_AddElement DEF TypeOK
<1>5. QED  BY <1>4 DEF Resolve, TypeOK

\* what the clock writes when it runs for the scenario a team is on
TickOf(r, new, over) ==
    /\ stage' = IF new THEN [stage EXCEPT ![r] = Stage(r)] ELSE stage
    /\ announced' = Announced(r)
    /\ heard' = IF over THEN [heard EXCEPT ![r] = @ + 1] ELSE heard
    /\ Emit(Ticked(r, new, over))
    /\ UNCHANGED <<status, left, runs, stages, help, entries, faults, restarts>>

LEMMA TickCases ==
    ASSUME Tick
    PROVE  \/ UNCHANGED <<progress, stages, announced, heard, help, entries, faults, restarts, browsers>>
           \/ \E r \in Active, new, over \in BOOLEAN :
                /\ TickOf(r, new, over) /\ Limit[r] # NoLimit
                /\ over <=> left[r] = 0 /\ r \notin announced
<1>1. CASE \E r \in Active :
         LET new == Stage(r) # NoStage /\ Stage(r) # stage[r]
             over == left[r] = 0 /\ r \notin announced IN
         /\ Limit[r] # NoLimit
         /\ stage' = IF new THEN [stage EXCEPT ![r] = Stage(r)] ELSE stage
         /\ announced' = Announced(r)
         /\ heard' = IF over THEN [heard EXCEPT ![r] = @ + 1] ELSE heard
         /\ Emit(Ticked(r, new, over))
         /\ UNCHANGED <<status, left, runs, stages, help, entries, faults, restarts>>
  BY <1>1 DEF TickOf
<1>2. QED  BY <1>1 DEF Tick

LEMMA TickType ==
    ASSUME TypeOK, Tick
    PROVE  TypeOK'
<1>0. ticked' \in BOOLEAN
  BY DEF Tick
<1>1. CASE UNCHANGED <<progress, stages, announced, heard, help, entries, faults, restarts, browsers>>
  BY <1>0, <1>1 DEF TypeOK
<1>2. ASSUME NEW r \in Active, NEW new \in BOOLEAN, NEW over \in BOOLEAN, TickOf(r, new, over)
      PROVE TypeOK'
  <2>1. r \in Ranges
    BY DEF Active
  <2>2. Ticked(r, new, over) \in Event /\ Emit(Ticked(r, new, over))
    BY <1>2, <2>1, EventsAreEvents DEF TickOf
  <2>3. /\ inbox' \in [Clients -> Seq(Event)] /\ missed' \in [Clients -> BOOLEAN]
        /\ online' = online /\ clock' = clock
    BY <2>2, EmitType
  <2>4. stage' \in [Ranges -> StageIds]
    BY <1>2, <2>1, StageType DEF TickOf, TypeOK
  <2>5. heard' \in [Ranges -> Nat] /\ announced' \in SUBSET Ranges
    <3>1. heard \in [Ranges -> Nat] /\ announced \in SUBSET Ranges
      BY DEF TypeOK
    <3>2. heard' = IF over THEN [heard EXCEPT ![r] = heard[r] + 1] ELSE heard
      BY <1>2 DEF TickOf
    <3>3. announced' \in SUBSET Ranges
      BY <1>2, <2>1, <3>1 DEF TickOf, Announced
    <3>4. heard' \in [Ranges -> Nat]
      BY <2>1, <3>1, <3>2
    <3>5. QED  BY <3>3, <3>4
  <2>6. QED  BY <1>0, <1>2, <2>3, <2>4, <2>5 DEF TickOf, TypeOK
<1>3. QED  BY <1>1, <1>2, TickCases

LEMMA PassType ==
    ASSUME TypeOK, Pass
    PROVE  TypeOK'
<1>1. left' \in [Ranges -> Nat \cup {NoLimit}]
  BY DEF Pass, TypeOK, NoLimit
<1>2. QED  BY <1>1 DEF Pass, TypeOK

LEMMA HandledType ==
    ASSUME NEW k \in Clock, NEW ev \in Event
    PROVE  Handled(k, ev) \in Clock
<1>1. Empty \in Clock
  BY DEF Empty, Clock, StageIds
<1>2. ASSUME ev.type = "clock"  PROVE Shown(k, ev) \in Clock
  <2>1. ev \in [type : {"clock"}, range : Ranges, run : Nat, zero : BOOLEAN, stage : StageIds, over : BOOLEAN]
    BY <1>2 DEF Event
  <2>2. (ev.zero \/ ev.over) \in BOOLEAN
    BY <2>1
  <2>3. QED  BY <2>1, <2>2 DEF Shown, Clock
<1>3. QED  BY <1>1, <1>2 DEF Handled

LEMMA BrowserType ==
    ASSUME TypeOK, NEW c \in Clients, Receive(c) \/ Disconnect(c) \/ Reconnect(c) \/ Reload(c)
    PROVE  TypeOK'
<1>1. <<>> \in Seq(Event) /\ Empty \in Clock
  BY DEF Empty, Clock, StageIds
<1>2. inbox[c] \in Seq(Event) /\ clock[c] \in Clock
  BY DEF TypeOK
<1>3. CASE Receive(c)
  <2>1. Head(inbox[c]) \in Event /\ Tail(inbox[c]) \in Seq(Event)
    BY <1>2, <1>3 DEF Receive
  <2>2. Handled(clock[c], Head(inbox[c])) \in Clock
    BY <1>2, <2>1, HandledType
  <2>3. clock' \in [Clients -> Clock] /\ inbox' \in [Clients -> Seq(Event)]
    BY <1>3, <2>1, <2>2 DEF Receive, TypeOK
  <2>4. QED  BY <1>3, <2>3 DEF Receive, TypeOK
<1>4. CASE Disconnect(c)
  BY <1>1, <1>4 DEF Disconnect, Fault, TypeOK
<1>5. CASE Reconnect(c)
  BY <1>5 DEF Reconnect, TypeOK
<1>6. CASE Reload(c)
  BY <1>1, <1>6 DEF Reload, TypeOK
<1>7. QED  BY <1>3, <1>4, <1>5, <1>6

LEMMA RestartType ==
    ASSUME TypeOK, Restart
    PROVE  TypeOK'
<1>1. <<>> \in Seq(Event)
  OBVIOUS
<1>2. inbox' \in [Clients -> Seq(Event)] /\ missed' \in [Clients -> BOOLEAN]
  BY <1>1 DEF Restart, TypeOK
<1>3. /\ restarts' = restarts + 1 /\ faults' = faults + 1 /\ announced' = {} /\ ticked' = FALSE
      /\ UNCHANGED <<progress, stages, heard, help, entries, online, clock>>
  BY DEF Restart, Fault
<1>4. announced' \in SUBSET Ranges /\ ticked' \in BOOLEAN /\ restarts' \in Nat /\ faults' \in Nat
  <2>1. restarts \in Nat /\ faults \in Nat
    BY DEF TypeOK
  <2>2. restarts' \in Nat /\ faults' \in Nat
    BY <1>3, <2>1
  <2>3. announced' \in SUBSET Ranges
    BY <1>3
  <2>4. QED  BY <1>3, <2>2, <2>3
<1>5. /\ UNCHANGED <<status, left, stage, runs, heard, stages, help, entries, online, clock>>
  BY <1>3
<1>6. QED  BY <1>2, <1>4, <1>5 DEF TypeOK

LEMMA TypeStep == TypeOK /\ [Next]_vars => TypeOK'
<1> SUFFICES ASSUME TypeOK, [Next]_vars  PROVE TypeOK'
  OBVIOUS
<1>1. ASSUME NEW s \in StageRows, AddStage(s) \/ DeleteStage(s)  PROVE TypeOK'
  BY <1>1 DEF AddStage, DeleteStage, TypeOK
<1>2. CASE UNCHANGED vars
  BY <1>2 DEF vars, TypeOK
<1>3. QED
  BY <1>1, <1>2, StartType, CompleteType, AddEntryType, RequestHelpType, ResolveType, TickType, PassType,
     RestartType, BrowserType DEF Next

\* Type correctness: every row and every event is of its kind, through restarts and dropped sockets.
THEOREM TypeCorrect == Spec => []TypeOK
BY InitType, TypeStep, PTL DEF Spec

-------------------------------------------------------------------------------
(* The scenario a team is on, and its help requests                         *)

OneActive == \A q, r \in Active : q = r

\* HelpIsForTheActive without counting
HelpAgrees == \A g, h \in OpenHelp : g = h /\ Active = {h.range}

LEMMA ActiveAfter ==
    ASSUME TypeOK, NEW r \in Ranges
    PROVE  /\ Start(r) => Active' = {r}
           /\ Complete(r) => Active' = Active \ {r}
<1>1. ASSUME Start(r)  PROVE Active' = {r}
  <2>1. \A q \in Ranges : status'[q] = IF q = r THEN "active" ELSE IF status[q] = "active" THEN "paused" ELSE status[q]
    BY <1>1 DEF Start, Paused, TypeOK
  <2>2. QED  BY <2>1 DEF Active
<1>2. ASSUME Complete(r)  PROVE Active' = Active \ {r}
  BY <1>2 DEF Complete, Active, TypeOK
<1>3. QED  BY <1>1, <1>2

LEMMA StillOpen ==
    ASSUME NEW rs, NEW h \in Closed(rs), h.status = "open"
    PROVE  h \in OpenHelp /\ h.range \notin rs
<1>1. PICK g \in help : h = IF g.status = "open" /\ g.range \in rs THEN [g EXCEPT !.status = "resolved"] ELSE g
  BY DEF Closed
<1>2. CASE g.status = "open" /\ g.range \in rs
  <2>1. h = [g EXCEPT !.status = "resolved"]
    BY <1>1, <1>2
  <2>2. h.status # "open"
    BY <2>1
  <2>3. QED  BY <2>2
<1>3. CASE ~(g.status = "open" /\ g.range \in rs)
  BY <1>1, <1>3 DEF OpenHelp
<1>4. QED  BY <1>2, <1>3

LEMMA HelpStep == TypeOK /\ OneActive /\ HelpAgrees /\ [Next]_vars => OneActive' /\ HelpAgrees'
<1> SUFFICES ASSUME TypeOK, OneActive, HelpAgrees, [Next]_vars  PROVE OneActive' /\ HelpAgrees'
  OBVIOUS
<1>1. ASSUME NEW r \in Ranges, Start(r)  PROVE OneActive' /\ HelpAgrees'
  <2>1. Active' = {r} /\ help' = Closed(Ranges \ {r})
    BY <1>1, ActiveAfter DEF Start, HelpKept
  <2>2. ASSUME NEW h \in OpenHelp'  PROVE h \in OpenHelp /\ h.range = r
    <3>1. h \in Closed(Ranges \ {r}) /\ h.status = "open"
      BY <2>1 DEF OpenHelp
    <3>2. h \in OpenHelp /\ h.range \notin Ranges \ {r}
      BY <3>1, StillOpen
    <3>3. h.range \in Ranges
      BY <3>2 DEF OpenHelp, TypeOK, Request
    <3>4. QED  BY <3>2, <3>3
  <2>3. QED  BY <2>1, <2>2 DEF OneActive, HelpAgrees
<1>2. ASSUME NEW r \in Ranges, Complete(r)  PROVE OneActive' /\ HelpAgrees'
  <2>1. Active' = Active \ {r} /\ help' = Closed({r})
    BY <1>2, ActiveAfter DEF Complete
  <2>2. \A h \in OpenHelp' : h \in OpenHelp /\ h.range # r
    BY <2>1, StillOpen DEF OpenHelp
  <2>3. QED  BY <2>1, <2>2 DEF OneActive, HelpAgrees
<1>3. CASE RequestHelp
  <2>1. UNCHANGED status /\ OpenHelp = {}
    BY <1>3 DEF RequestHelp, OpenHelp
  <2>2. PICK r \in Active : \E g : g.range = r /\ help' = help \cup {g}
    BY <1>3 DEF RequestHelp
  <2>3. PICK g : g.range = r /\ help' = help \cup {g}
    BY <2>2
  <2>4. Active' = Active /\ Active = {r}
    BY <2>1, <2>2 DEF Active, OneActive
  <2>5. \A h \in OpenHelp' : h = g
    BY <2>1, <2>3 DEF OpenHelp
  <2>6. QED  BY <2>3, <2>4, <2>5 DEF OneActive, HelpAgrees
<1>4. ASSUME NEW h \in help, Resolve(h)  PROVE OneActive' /\ HelpAgrees'
  <2> DEFINE g == [h EXCEPT !.status = "resolved", !.by = "instructor"]
  <2>1. g.status = "resolved"
    BY DEF TypeOK, Request
  <2>2. UNCHANGED status /\ help' = (help \ {h}) \cup {g}
    BY <1>4 DEF Resolve
  <2> HIDE DEF g
  <2>3. OpenHelp' \subseteq OpenHelp /\ Active' = Active
    BY <2>1, <2>2 DEF OpenHelp, Active
  <2>4. QED  BY <2>3 DEF OneActive, HelpAgrees
<1>5. CASE UNCHANGED <<status, help>>
  BY <1>5 DEF OneActive, HelpAgrees, OpenHelp, Active
<1>6. ASSUME NEW r \in Ranges, AddEntry(r)  PROVE UNCHANGED <<status, help>>
  BY <1>6 DEF AddEntry
<1>7. ASSUME Tick \/ Pass \/ Restart  PROVE UNCHANGED <<status, help>>
  BY <1>7 DEF Tick, Pass, Restart
<1>8. ASSUME NEW s \in StageRows, AddStage(s) \/ DeleteStage(s)  PROVE UNCHANGED <<status, help>>
  BY <1>8 DEF AddStage, DeleteStage
<1>9. ASSUME NEW c \in Clients, Receive(c) \/ Disconnect(c) \/ Reconnect(c) \/ Reload(c)
      PROVE UNCHANGED <<status, help>>
  BY <1>9 DEF Receive, Disconnect, Reconnect, Reload
<1>10. CASE UNCHANGED vars
  BY <1>5, <1>10 DEF vars
<1>11. QED  BY <1>1, <1>2, <1>3, <1>4, <1>5, <1>6, <1>7, <1>8, <1>9, <1>10 DEF Next

LEMMA HelpStart == Init => OneActive /\ HelpAgrees
BY DEF Init, OneActive, HelpAgrees, Active, OpenHelp

\* A team waits for help with the scenario it is on, in one request at most (helpRequests): whatever is
\* started, restarted or completed while a request is open.
THEOREM HelpIsForTheScenario == Spec => []HelpIsForTheActive
<1>1. Init => TypeOK /\ OneActive /\ HelpAgrees
  BY InitType, HelpStart
<1>2. TypeOK /\ OneActive /\ HelpAgrees /\ [Next]_vars => (TypeOK /\ OneActive /\ HelpAgrees)'
  BY TypeStep, HelpStep
<1>3. HelpAgrees => HelpIsForTheActive
  <2> SUFFICES ASSUME HelpAgrees  PROVE HelpIsForTheActive
    OBVIOUS
  <2>1. CASE OpenHelp = {}
    BY <2>1, FS_EmptySet DEF HelpIsForTheActive
  <2>2. CASE OpenHelp # {}
    <3>1. PICK h \in OpenHelp : OpenHelp = {h}
      BY <2>2 DEF HelpAgrees
    <3>2. Cardinality(OpenHelp) = 1
      BY <3>1, FS_Singleton
    <3>3. QED  BY <3>2 DEF HelpIsForTheActive, HelpAgrees
  <2>3. QED  BY <2>1, <2>2
<1>4. QED  BY <1>1, <1>2, <1>3, PTL DEF Spec

-------------------------------------------------------------------------------
(* Time's up                                                                *)

\* A run that was told that its time is up has a time limit and no time left, and no more ever.
HeardIsOver == \A r \in Ranges : heard[r] > 0 => Limit[r] # NoLimit /\ left[r] = 0

\* ... and it is told again only by a process that does not remember telling it.
HeardOnce == \A r \in Ranges : heard[r] <= restarts + (IF r \in announced THEN 1 ELSE 0)

LEMMA HeardStep == TypeOK /\ HeardIsOver /\ HeardOnce /\ [Next]_vars => HeardIsOver' /\ HeardOnce'
<1> SUFFICES ASSUME TypeOK, HeardIsOver, HeardOnce, [Next]_vars  PROVE HeardIsOver' /\ HeardOnce'
  OBVIOUS
<1>0. heard \in [Ranges -> Nat] /\ left \in [Ranges -> Nat \cup {NoLimit}] /\ restarts \in Nat /\ announced \in SUBSET Ranges
  BY DEF TypeOK
<1>1. ASSUME NEW r \in Ranges, Start(r)  PROVE HeardIsOver' /\ HeardOnce'
  <2>1. /\ heard' = [heard EXCEPT ![r] = 0] /\ left' = [left EXCEPT ![r] = Limit[r]]
        /\ restarts' = restarts /\ announced' = announced
    BY <1>1 DEF Start
  <2>2. QED  BY <2>1, <1>0 DEF HeardIsOver, HeardOnce
<1>2. CASE Tick
  <2>1. CASE UNCHANGED <<progress, stages, announced, heard, help, entries, faults, restarts, browsers>>
    BY <2>1 DEF HeardIsOver, HeardOnce
  <2>2. ASSUME NEW r \in Active, NEW new \in BOOLEAN, NEW over \in BOOLEAN, TickOf(r, new, over),
               Limit[r] # NoLimit, over <=> left[r] = 0 /\ r \notin announced
        PROVE HeardIsOver' /\ HeardOnce'
    <3>1. r \in Ranges /\ left' = left /\ restarts' = restarts
      BY <2>2 DEF TickOf, Active
    <3>2. announced' = IF left[r] = 0 THEN announced \cup {r} ELSE announced \ {r}
      BY <2>2 DEF TickOf, Announced
    <3>3. CASE over
      <4>1. heard' = [heard EXCEPT ![r] = heard[r] + 1] /\ left[r] = 0 /\ r \notin announced
        BY <2>2, <3>3 DEF TickOf
      <4>2. QED  BY <1>0, <2>2, <3>1, <3>2, <4>1 DEF HeardIsOver, HeardOnce
    <3>4. CASE ~over
      <4>1. heard' = heard
        BY <2>2, <3>4 DEF TickOf
      <4>2. QED  BY <1>0, <3>1, <3>2, <4>1 DEF HeardIsOver, HeardOnce
    <3>5. QED  BY <3>3, <3>4
  <2>3. QED  BY <1>2, <2>1, <2>2, TickCases
<1>3. CASE Pass
  <2>1. heard' = heard /\ restarts' = restarts /\ announced' = announced
    BY <1>3 DEF Pass
  <2>2. \A r \in Ranges : left[r] = 0 => left'[r] = 0
    BY <1>3 DEF Pass
  <2>3. QED  BY <2>1, <2>2 DEF HeardIsOver, HeardOnce
<1>4. CASE Restart
  <2>1. heard' = heard /\ restarts' = restarts + 1 /\ announced' = {} /\ left' = left
    BY <1>4 DEF Restart
  <2>2. QED  BY <1>0, <2>1 DEF HeardIsOver, HeardOnce
<1>5. CASE UNCHANGED <<heard, left, restarts, announced>>
  BY <1>5 DEF HeardIsOver, HeardOnce
<1>6. ASSUME NEW r \in Ranges, AddEntry(r) \/ Complete(r)  PROVE UNCHANGED <<heard, left, restarts, announced>>
  BY <1>6 DEF AddEntry, Complete
<1>7. ASSUME RequestHelp \/ \E h \in help : Resolve(h)  PROVE UNCHANGED <<heard, left, restarts, announced>>
  BY <1>7 DEF RequestHelp, Resolve
<1>8. ASSUME NEW s \in StageRows, AddStage(s) \/ DeleteStage(s)  PROVE UNCHANGED <<heard, left, restarts, announced>>
  BY <1>8 DEF AddStage, DeleteStage
<1>9. ASSUME NEW c \in Clients, Receive(c) \/ Disconnect(c) \/ Reconnect(c) \/ Reload(c)
      PROVE UNCHANGED <<heard, left, restarts, announced>>
  BY <1>9 DEF Receive, Disconnect, Reconnect, Reload
<1>10. CASE UNCHANGED vars
  BY <1>5, <1>10 DEF vars
<1>11. QED  BY <1>1, <1>2, <1>3, <1>4, <1>5, <1>6, <1>7, <1>8, <1>9, <1>10 DEF Next

LEMMA HeardStart == Init => HeardIsOver /\ HeardOnce
<1> SUFFICES ASSUME Init  PROVE HeardIsOver /\ HeardOnce
  OBVIOUS
<1>1. restarts = 0 /\ \A r \in Ranges : heard[r] = 0 /\ r \notin announced
  BY DEF Init
<1>2. QED  BY <1>1 DEF HeardIsOver, HeardOnce

HeardInv == TypeOK /\ HeardIsOver /\ HeardOnce

LEMMA HeardInvariant == Spec => []HeardInv
<1>1. Init => HeardInv
  BY InitType, HeardStart DEF HeardInv
<1>2. HeardInv /\ [Next]_vars => HeardInv'
  BY TypeStep, HeardStep DEF HeardInv
<1>3. QED  BY <1>1, <1>2, PTL DEF Spec

\* The end of a run's time is announced once, and again only by a process that restarted (clock.service:
\* "so it fires once per run").
THEOREM TimeUpIsToldOnceOnly == Spec => []TimeUpIsToldOnce
<1>1. HeardInv => TimeUpIsToldOnce
  BY DEF HeardInv, HeardOnce, TimeUpIsToldOnce, TypeOK
<1>2. QED  BY HeardInvariant, <1>1, PTL

\* An entry is marked late from the moment the team was told that its time is up, and none is while the
\* run has time left (documentation.routes, after_time_limit), although the process forgets at a restart
\* whom it told.
THEOREM LateIsMarked == Spec => LateEntriesAreMarked
<1>1. ASSUME HeardInv, [Next]_vars
      PROVE  \A e \in entries' \ entries : /\ heard[e.range] > 0 => e.late
                                           /\ e.late => left[e.range] = 0
  <2>1. ASSUME NEW r \in Ranges, AddEntry(r), NEW e \in entries' \ entries
        PROVE (heard[e.range] > 0 => e.late) /\ (e.late => left[e.range] = 0)
    <3>1. e = [id |-> Cardinality(entries) + 1, range |-> r, run |-> runs[r], late |-> Late(r)]
      BY <2>1 DEF AddEntry
    <3>2. e.range = r /\ e.late = Late(r)
      BY <3>1
    <3>3. QED  BY <1>1, <3>2 DEF HeardInv, HeardIsOver, Late
  <2>2. ASSUME NEW r \in Ranges, Start(r) \/ Complete(r)  PROVE entries' = entries
    BY <2>2 DEF Start, Complete
  <2>3. ASSUME RequestHelp \/ Tick \/ Pass \/ Restart \/ \E h \in help : Resolve(h)  PROVE entries' = entries
    BY <2>3 DEF RequestHelp, Tick, Pass, Restart, Resolve
  <2>4. ASSUME NEW s \in StageRows, AddStage(s) \/ DeleteStage(s)  PROVE entries' = entries
    BY <2>4 DEF AddStage, DeleteStage
  <2>5. ASSUME NEW c \in Clients, Receive(c) \/ Disconnect(c) \/ Reconnect(c) \/ Reload(c)  PROVE entries' = entries
    BY <2>5 DEF Receive, Disconnect, Reconnect, Reload
  <2>6. CASE UNCHANGED vars
    BY <2>6 DEF vars
  <2>7. QED  BY <1>1, <2>1, <2>2, <2>3, <2>4, <2>5, <2>6 DEF Next
<1>2. QED  BY HeardInvariant, <1>1, PTL DEF Spec, LateEntriesAreMarked

-------------------------------------------------------------------------------
(* The header clocks                                                        *)

IsChange(ev) == ev.type = "progress:changed"
NoChangeFrom(evs, k) == \A j \in k..Len(evs) : ~IsChange(evs[j])

\* an event of the clock that still tells the truth
Current(ev) ==
    /\ ev.stage # NoStage => Active = {ev.range} /\ ev.run = runs[ev.range]
    /\ ev.zero \/ ev.over => \E r \in Active : left[r] = 0

\* What a browser shows is of this run, unless a change of scenario is on its way to it; and so is what it
\* will show after the last of those.
Follows(c) ==
    /\ NoChangeFrom(inbox[c], 1) => OfThisRun(c)
    /\ \A k \in 1..Len(inbox[c]) : NoChangeFrom(inbox[c], k) => Current(inbox[c][k])
BrowsersFollow == \A c \in Clients : ~missed[c] => Follows(c)

LEMMA Appended ==
    ASSUME NEW evs \in Seq(Event), NEW ev \in Event
    PROVE  /\ Len(Append(evs, ev)) = Len(evs) + 1 /\ Len(evs) \in Nat
           /\ Append(evs, ev)[Len(evs) + 1] = ev
           /\ \A k \in 1..Len(evs) : Append(evs, ev)[k] = evs[k]
OBVIOUS

\* A browser that hears of a change of scenario has nothing to show of before.
LEMMA ChangeStep ==
    ASSUME TypeOK, NEW r \in Ranges, Emit(Change(r))
    PROVE  BrowsersFollow'
<1> DEFINE ev == Change(r)
<1>1. ev \in Event /\ IsChange(ev)
  BY EventsAreEvents DEF IsChange, Change
<1> HIDE DEF ev
<1>2. SUFFICES ASSUME NEW c \in Clients, ~missed'[c]  PROVE Follows(c)'
  BY DEF BrowsersFollow
<1>3. online[c] /\ inbox'[c] = Append(inbox[c], ev) /\ inbox[c] \in Seq(Event)
  BY <1>2, <1>1 DEF Emit, TypeOK, ev, Change
<1>4. Len(inbox'[c]) = Len(inbox[c]) + 1 /\ inbox'[c][Len(inbox[c]) + 1] = ev /\ Len(inbox[c]) \in Nat
  BY <1>1, <1>3, Appended
<1>5. \A k \in 1..Len(inbox'[c]) : ~NoChangeFrom(inbox'[c], k)
  BY <1>1, <1>4 DEF NoChangeFrom
<1>6. ~NoChangeFrom(inbox'[c], 1)
  BY <1>4, <1>5
<1>7. QED  BY <1>5, <1>6 DEF Follows

\* Time that passes takes nothing back.
LEMMA TimeKeepsCurrent ==
    ASSUME UNCHANGED <<status, runs>>, \A r \in Ranges : left[r] = 0 => left'[r] = 0
    PROVE  /\ Active' = Active
           /\ \A r \in Active : left[r] = 0 => left'[r] = 0
BY DEF Active

LEMMA QuietStep ==
    ASSUME BrowsersFollow, UNCHANGED <<status, runs, inbox, clock, missed>>,
           \A r \in Ranges : left[r] = 0 => left'[r] = 0
    PROVE  BrowsersFollow'
<1>1. Active' = Active /\ \A r \in Active : left[r] = 0 => left'[r] = 0
  BY TimeKeepsCurrent
<1>2. SUFFICES ASSUME NEW c \in Clients, ~missed[c], Follows(c)  PROVE Follows(c)'
  BY DEF BrowsersFollow
<1>3. OfThisRun(c) => OfThisRun(c)'
  BY <1>1 DEF OfThisRun
<1>4. \A k \in 1..Len(inbox[c]) : Current(inbox[c][k]) => Current(inbox[c][k])'
  BY <1>1 DEF Current
<1>5. QED  BY <1>2, <1>3, <1>4 DEF Follows

LEMMA TickedStep ==
    ASSUME TypeOK, OneActive, BrowsersFollow, NEW r \in Active, NEW new \in BOOLEAN, NEW over \in BOOLEAN,
           TickOf(r, new, over), over => left[r] = 0
    PROVE  BrowsersFollow'
<1> DEFINE ev == Ticked(r, new, over)
<1>1. ev \in Event /\ ~IsChange(ev)
  BY EventsAreEvents DEF IsChange, Ticked, Active
<1>2. Active = {r} /\ UNCHANGED <<status, left, runs>> /\ Active' = Active /\ Emit(ev)
  BY DEF OneActive, TickOf, Active
<1>3. /\ ev.range = r /\ ev.run = runs[r] /\ ev.zero = (left[r] = 0) /\ ev.over = over
      /\ ev.type # "progress:changed"
  BY DEF Ticked
<1>4. Current(ev)
  BY <1>2, <1>3 DEF Current
<1> HIDE DEF ev
<1>5. SUFFICES ASSUME NEW c \in Clients, ~missed'[c]  PROVE Follows(c)'
  BY DEF BrowsersFollow
<1>6. ~missed[c] /\ Follows(c) /\ clock' = clock /\ inbox[c] \in Seq(Event)
  BY <1>2, <1>3, <1>5 DEF Emit, BrowsersFollow, TypeOK
<1>7. OfThisRun(c) => OfThisRun(c)'
  BY <1>2, <1>6 DEF OfThisRun
<1>8. CASE online[c]
  <2>1. inbox'[c] = Append(inbox[c], ev)
    BY <1>2, <1>8 DEF Emit
  <2>2. /\ Len(inbox'[c]) = Len(inbox[c]) + 1 /\ Len(inbox[c]) \in Nat /\ inbox'[c][Len(inbox[c]) + 1] = ev
        /\ \A k \in 1..Len(inbox[c]) : inbox'[c][k] = inbox[c][k]
    BY <1>1, <1>6, <2>1, Appended
  <2>3. \A k \in 1..Len(inbox'[c]) : NoChangeFrom(inbox'[c], k) /\ k # Len(inbox[c]) + 1 => NoChangeFrom(inbox[c], k)
    BY <2>2 DEF NoChangeFrom
  <2>4. NoChangeFrom(inbox'[c], 1) => NoChangeFrom(inbox[c], 1)
    BY <2>2 DEF NoChangeFrom
  <2>5. ASSUME NEW k \in 1..Len(inbox'[c]), NoChangeFrom(inbox'[c], k)  PROVE Current(inbox'[c][k])
    <3>1. CASE k = Len(inbox[c]) + 1
      BY <3>1, <2>2, <1>4
    <3>2. CASE k # Len(inbox[c]) + 1
      <4>1. k \in 1..Len(inbox[c]) /\ NoChangeFrom(inbox[c], k) /\ inbox'[c][k] = inbox[c][k]
        BY <2>2, <2>3, <2>5, <3>2
      <4>2. QED  BY <4>1, <1>6 DEF Follows
    <3>3. QED  BY <3>1, <3>2
  <2>6. \A k \in 1..Len(inbox'[c]) : NoChangeFrom(inbox'[c], k) => Current(inbox[c][k])'
    BY <2>5, <1>2 DEF Current
  <2>7. QED  BY <1>6, <1>7, <2>4, <2>6 DEF Follows
<1>9. CASE ~online[c]
  <2>1. inbox'[c] = inbox[c]
    BY <1>2, <1>9 DEF Emit
  <2>2. \A k \in 1..Len(inbox[c]) : Current(inbox[c][k]) => Current(inbox[c][k])'
    BY <1>2, <2>1 DEF Current
  <2>3. QED  BY <1>6, <1>7, <2>1, <2>2 DEF Follows
<1>10. QED  BY <1>8, <1>9

LEMMA ReceiveStep ==
    ASSUME TypeOK, BrowsersFollow, NEW c \in Clients, Receive(c)
    PROVE  BrowsersFollow'
<1> DEFINE ev == Head(inbox[c])
           rest == Tail(inbox[c])
<1>1. UNCHANGED <<status, runs, left, missed>> /\ Active' = Active
  BY DEF Receive, Active
<1>2. /\ inbox[c] \in Seq(Event) /\ inbox[c] # <<>>
      /\ inbox' = [inbox EXCEPT ![c] = rest] /\ clock' = [clock EXCEPT ![c] = Handled(clock[c], ev)]
  BY DEF Receive, TypeOK
<1>3. /\ ev \in Event /\ ev = inbox[c][1] /\ Len(inbox[c]) \in Nat \ {0}
      /\ Len(rest) = Len(inbox[c]) - 1 /\ \A k \in 1..Len(rest) : rest[k] = inbox[c][k + 1]
  BY <1>2
<1>4. inbox'[c] = rest /\ clock'[c] = Handled(clock[c], ev)
  BY <1>2 DEF TypeOK
<1>5. \A d \in Clients : d # c => inbox'[d] = inbox[d] /\ clock'[d] = clock[d]
  BY <1>2 DEF TypeOK
<1> HIDE DEF ev, rest
<1>6. SUFFICES ASSUME NEW d \in Clients, ~missed[d], Follows(d)  PROVE Follows(d)'
  BY <1>1 DEF BrowsersFollow
<1>7. CASE d # c
  <2>1. OfThisRun(d) => OfThisRun(d)'
    BY <1>1, <1>5, <1>7 DEF OfThisRun
  <2>2. \A k \in 1..Len(inbox[d]) : Current(inbox[d][k]) => Current(inbox[d][k])'
    BY <1>1, <1>5, <1>7 DEF Current
  <2>3. QED  BY <1>5, <1>6, <1>7, <2>1, <2>2 DEF Follows
<1>8. CASE d = c
  <2>1. \A k \in 1..Len(rest) : NoChangeFrom(rest, k) => NoChangeFrom(inbox[c], k + 1)
    <3>1. ASSUME NEW k \in 1..Len(rest), NoChangeFrom(rest, k), NEW j \in (k + 1)..Len(inbox[c])
          PROVE ~IsChange(inbox[c][j])
      <4>1. j - 1 \in k..Len(rest) /\ j - 1 \in 1..Len(rest) /\ (j - 1) + 1 = j
        BY <1>3
      <4>2. rest[j - 1] = inbox[c][j]
        BY <1>3, <4>1
      <4>3. QED  BY <3>1, <4>1, <4>2 DEF NoChangeFrom
    <3>2. QED  BY <3>1 DEF NoChangeFrom
  <2>2. ASSUME NEW k \in 1..Len(rest), NoChangeFrom(rest, k)  PROVE Current(rest[k])
    <3>1. k + 1 \in 1..Len(inbox[c]) /\ NoChangeFrom(inbox[c], k + 1) /\ rest[k] = inbox[c][k + 1]
      BY <1>3, <2>1, <2>2
    <3>2. QED  BY <1>6, <1>8, <3>1 DEF Follows
  <2>3. \A k \in 1..Len(inbox'[c]) : NoChangeFrom(inbox'[c], k) => Current(inbox[c][k])'
    BY <1>1, <1>4, <2>2 DEF Current
  <2>4. ASSUME NoChangeFrom(rest, 1)  PROVE OfThisRun(c)'
    <3>1. CASE ev.type # "clock"
      <4>1. clock'[c] = Empty
        BY <1>4, <3>1 DEF Handled
      <4>2. QED  BY <4>1 DEF OfThisRun, Empty
    <3>2. CASE ev.type = "clock"
      <4>1. clock'[c] = Shown(clock[c], ev)
        BY <1>4, <3>2 DEF Handled
      <4>2. NoChangeFrom(inbox[c], 1)
        <5>1. ~IsChange(inbox[c][1])
          BY <1>3, <3>2 DEF IsChange
        <5>2. ASSUME NEW j \in 2..Len(inbox[c])  PROVE ~IsChange(inbox[c][j])
          <6>1. j - 1 \in 1..Len(rest) /\ (j - 1) + 1 = j
            BY <1>3
          <6>2. rest[j - 1] = inbox[c][j]
            BY <1>3, <6>1
          <6>3. QED  BY <2>4, <6>1, <6>2 DEF NoChangeFrom
        <5>3. \A j \in 1..Len(inbox[c]) : j = 1 \/ j \in 2..Len(inbox[c])
          BY <1>3
        <5>4. QED  BY <5>1, <5>2, <5>3 DEF NoChangeFrom
      <4>3. OfThisRun(c) /\ Current(ev)
        BY <1>3, <1>6, <1>8, <4>2 DEF Follows
      <4>4. /\ clock'[c].stage = (IF ev.stage # NoStage THEN ev.stage ELSE clock[c].stage)
            /\ clock'[c].range = (IF ev.stage # NoStage THEN ev.range ELSE clock[c].range)
            /\ clock'[c].run = (IF ev.stage # NoStage THEN ev.run ELSE clock[c].run)
            /\ clock'[c].timeUp = (ev.zero \/ ev.over)
        BY <4>1 DEF Shown
      <4>5. clock'[c].stage # NoStage => Active = {clock'[c].range} /\ clock'[c].run = runs[clock'[c].range]
        BY <4>3, <4>4 DEF OfThisRun, Current
      <4>6. clock'[c].timeUp => \E r \in Active : left[r] = 0
        BY <4>3, <4>4 DEF Current
      <4>7. QED  BY <1>1, <4>5, <4>6 DEF OfThisRun
    <3>3. QED  BY <3>1, <3>2
  <2>5. QED  BY <1>4, <1>8, <2>3, <2>4 DEF Follows
<1>9. QED  BY <1>7, <1>8

\* A socket that goes takes its events along; the browser has missed a change if one was among them.
LEMMA CutOff ==
    ASSUME TypeOK, BrowsersFollow, NEW c \in Clients, UNCHANGED <<status, runs, left>>, clock'[c] = clock[c],
           inbox'[c] = <<>>, ~missed'[c],
           missed'[c] <=> (missed[c] \/ \E k \in 1..Len(inbox[c]) : inbox[c][k].type = "progress:changed")
    PROVE  Follows(c)'
<1>1. NoChangeFrom(inbox[c], 1) /\ Follows(c)
  BY DEF NoChangeFrom, IsChange, BrowsersFollow
<1>2. OfThisRun(c)' /\ Len(inbox'[c]) = 0
  BY <1>1 DEF Follows, OfThisRun, Active
<1>3. QED  BY <1>2 DEF Follows

LEMMA SocketStep ==
    ASSUME TypeOK, BrowsersFollow, NEW c \in Clients, Disconnect(c) \/ Reload(c)
    PROVE  BrowsersFollow'
<1>1. UNCHANGED <<status, runs, left>> /\ Active' = Active /\ inbox' = [inbox EXCEPT ![c] = <<>>]
  BY DEF Disconnect, Reload, Active
<1>2. \A d \in Clients : d # c => /\ inbox'[d] = inbox[d] /\ clock'[d] = clock[d]
                                  /\ missed'[d] = missed[d]
  BY DEF Disconnect, Reload, TypeOK
<1>3. inbox'[c] = <<>>
  BY <1>1 DEF TypeOK
<1>4. SUFFICES ASSUME NEW d \in Clients, ~missed'[d]  PROVE Follows(d)'
  BY DEF BrowsersFollow
<1>5. CASE d # c
  <2>1. Follows(d)
    BY <1>2, <1>4, <1>5 DEF BrowsersFollow
  <2>2. OfThisRun(d) => OfThisRun(d)'
    BY <1>1, <1>2, <1>5 DEF OfThisRun
  <2>3. \A k \in 1..Len(inbox[d]) : Current(inbox[d][k]) => Current(inbox[d][k])'
    BY <1>1, <1>2, <1>5 DEF Current
  <2>4. QED  BY <1>2, <1>5, <2>1, <2>2, <2>3 DEF Follows
<1>6. CASE d = c /\ Disconnect(c)
  <2>1. missed'[c] <=> (missed[c] \/ \E k \in 1..Len(inbox[c]) : inbox[c][k].type = "progress:changed")
    BY <1>6 DEF Disconnect, TypeOK
  <2>2. clock'[c] = clock[c]
    BY <1>6 DEF Disconnect
  <2>3. QED  BY <1>1, <1>3, <1>4, <1>6, <2>1, <2>2, CutOff
<1>7. CASE d = c /\ Reload(c)
  <2>1. clock'[c] = Empty
    BY <1>7 DEF Reload, TypeOK
  <2>2. OfThisRun(c)' /\ Len(inbox'[c]) = 0
    BY <1>3, <2>1 DEF OfThisRun, Empty
  <2>3. QED  BY <1>7, <2>2 DEF Follows
<1>8. QED  BY <1>5, <1>6, <1>7

LEMMA RestartFollows ==
    ASSUME TypeOK, BrowsersFollow, Restart
    PROVE  BrowsersFollow'
<1>1. UNCHANGED <<status, runs, left, clock>>
  BY DEF Restart
<1>2. SUFFICES ASSUME NEW c \in Clients, ~missed'[c]  PROVE Follows(c)'
  BY DEF BrowsersFollow
<1>3. inbox'[c] = <<>>
  BY DEF Restart
<1>4. missed'[c] <=> (missed[c] \/ \E k \in 1..Len(inbox[c]) : inbox[c][k].type = "progress:changed")
  BY DEF Restart
<1>5. QED  BY <1>1, <1>2, <1>3, <1>4, CutOff

LEMMA BrowsersStep == TypeOK /\ OneActive /\ BrowsersFollow /\ [Next]_vars => BrowsersFollow'
<1> SUFFICES ASSUME TypeOK, OneActive, BrowsersFollow, [Next]_vars  PROVE BrowsersFollow'
  OBVIOUS
<1>1. ASSUME NEW r \in Ranges, Start(r) \/ Complete(r)  PROVE BrowsersFollow'
  BY <1>1, ChangeStep DEF Start, Complete
<1>2. CASE Tick
  <2>1. CASE UNCHANGED <<progress, stages, announced, heard, help, entries, faults, restarts, browsers>>
    BY <2>1, QuietStep
  <2>2. QED  BY <1>2, <2>1, TickCases, TickedStep
<1>3. CASE Pass
  <2>1. UNCHANGED <<status, runs, inbox, clock, missed>>
    BY <1>3 DEF Pass
  <2>2. \A r \in Ranges : left[r] = 0 => left'[r] = 0
    BY <1>3 DEF Pass
  <2>3. QED  BY <2>1, <2>2, QuietStep
<1>4. ASSUME NEW r \in Ranges, AddEntry(r)  PROVE BrowsersFollow'
  BY <1>4, QuietStep DEF AddEntry
<1>5. ASSUME RequestHelp \/ \E h \in help : Resolve(h)  PROVE BrowsersFollow'
  BY <1>5, QuietStep DEF RequestHelp, Resolve
<1>6. ASSUME NEW s \in StageRows, AddStage(s) \/ DeleteStage(s)  PROVE BrowsersFollow'
  BY <1>6, QuietStep DEF AddStage, DeleteStage
<1>7. ASSUME NEW c \in Clients, Reconnect(c)  PROVE BrowsersFollow'
  BY <1>7, QuietStep DEF Reconnect
<1>8. CASE UNCHANGED vars
  BY <1>8, QuietStep DEF vars
<1>9. QED
  BY <1>1, <1>2, <1>3, <1>4, <1>5, <1>6, <1>7, <1>8, ReceiveStep, SocketStep, RestartFollows DEF Next

LEMMA BrowsersStart == Init => BrowsersFollow
<1> SUFFICES ASSUME Init, NEW c \in Clients  PROVE Follows(c)
  BY DEF BrowsersFollow
<1>1. inbox[c] = <<>> /\ clock[c] = Empty /\ Len(inbox[c]) = 0
  BY DEF Init
<1>2. OfThisRun(c)
  BY <1>1 DEF OfThisRun, Empty
<1>3. QED  BY <1>1, <1>2 DEF Follows

\* The header clock of a browser that every change of scenario has reached, and that has nothing on its
\* way, shows no stage and no "Time's up" but those of the run its team is on (AppShell's
\* progress:changed, clockStore): through ticks, restarts and sockets that drop and return.
THEOREM ClocksFollowTheRun == Spec => []ClocksShowThisRun
<1>1. Init => TypeOK /\ OneActive /\ HelpAgrees /\ BrowsersFollow
  BY InitType, HelpStart, BrowsersStart
<1>2. TypeOK /\ OneActive /\ HelpAgrees /\ BrowsersFollow /\ [Next]_vars
        => (TypeOK /\ OneActive /\ HelpAgrees /\ BrowsersFollow)'
  BY TypeStep, HelpStep, BrowsersStep
<1>3. BrowsersFollow => ClocksShowThisRun
  BY DEF BrowsersFollow, Follows, ClocksShowThisRun, NoChangeFrom
<1>4. QED  BY <1>1, <1>2, <1>3, PTL DEF Spec


-------------------------------------------------------------------------------
(* The catalogue and its libraries: rowids                                  *)

\* A non-empty set of ids has a last one: among the sets of larger ids, one is minimal.
LEMMA LastId ==
    ASSUME NEW N \in Nat, NEW T \in SUBSET (1..N), T # {}
    PROVE  \E x \in T : \A y \in T : x >= y
<1> DEFINE Above(i) == {k \in 1..N : k > i}
           A == {Above(i) : i \in T}
<1>1. IsFiniteSet(1..N)
  BY FS_Interval
<1>2. FiniteSubsetsOf(1..N) = SUBSET (1..N)
  BY <1>1, FS_FiniteSubsetsOfFinite
<1>3. IsWellFoundedOn(StrictSubsetOrdering(1..N), SUBSET (1..N))
  BY <1>2, FS_StrictSubsetOrderingWellFounded
<1>4. A \subseteq SUBSET (1..N) /\ A # {}
  OBVIOUS
<1>5. PICK a \in A : \A b \in A : ~ (<<b, a>> \in StrictSubsetOrdering(1..N))
  <2> HIDE DEF A
  <2>1. QED  BY <1>3, <1>4, WFMin
<1>6. PICK x \in T : a = Above(x)
  BY <1>5
<1>7. ASSUME NEW y \in T, ~(x >= y)  PROVE FALSE
  <2>1. Above(y) \subseteq Above(x) /\ y \in Above(x) /\ y \notin Above(y)
    BY <1>7
  <2>2. <<Above(y), Above(x)>> \in StrictSubsetOrdering(1..N)
    BY <2>1 DEF StrictSubsetOrdering
  <2>3. QED  BY <1>5, <1>6, <2>2
<1>8. QED  BY <1>6, <1>7

LEMMA FirstFreeIsFree ==
    ASSUME NEW N \in Nat, NEW T \in SUBSET (1..N)
    PROVE  FirstFree(T) \in Nat \ {0} /\ FirstFree(T) \notin T
<1>1. CASE T = {}
  BY <1>1 DEF FirstFree
<1>2. CASE T # {}
  <2>1. \E x \in T : \A y \in T : x >= y
    BY <1>2, LastId
  <2>2. Max(T) \in T /\ \A y \in T : Max(T) >= y
    BY <2>1 DEF Max
  <2>3. PICK m \in T : m = Max(T)
    BY <2>2
  <2>4. FirstFree(T) = m + 1 /\ \A y \in T : m >= y
    BY <1>2, <2>2, <2>3 DEF FirstFree
  <2>5. m \in Nat
    OBVIOUS
  <2>6. m + 1 \notin T
    BY <2>4, <2>5
  <2>7. QED  BY <2>4, <2>5, <2>6
<1>3. QED  BY <1>1, <1>2

-------------------------------------------------------------------------------
(* What is remembered of a row: a browser holds an id and the row it was    *)
(* when it was read.  If that row is there at all it still has that id,     *)
(* because ids are given again only once their row is gone.  All of it is   *)
(* kept by any step that is `Grown`.                                        *)

Rows == [RowIds -> Row \cup {Absent}]

\* the row a page remembers under an id has it still, if it is there at all
Fits(library, k, n) == Exists(library, n) => k \in RowsOf(library) /\ library[k].serial = n

Numbered(library, m) ==
    /\ \A k \in RowsOf(library) : library[k].serial \in 1..m
    /\ \A j, k \in RowsOf(library) : library[j].serial = library[k].serial => j = k
Written(library, m) == \A k \in RowsOf(library) :
    /\ library[k].author \in 1..m
    /\ library[k].author = library[k].serial \/ ~Exists(library, library[k].author)

\* a step of a library: at most one row is new; one that stays may have been written anew, from what fits it
Grown(old, new, m, n) ==
    /\ m \in Nat /\ n \in Nat /\ m <= n
    /\ \A k \in RowsOf(new) :
         \/ new[k].serial = m + 1 /\ new[k].author = m + 1 /\ n = m + 1
         \/ /\ k \in RowsOf(old) /\ new[k].serial = old[k].serial
            /\ new[k].author = old[k].author \/ (new[k].author \in 1..m /\ Fits(old, k, new[k].author))
    /\ \A j, k \in RowsOf(new) : new[j].serial = m + 1 /\ new[k].serial = m + 1 => j = k

LEMMA SerialsAreKept ==
    ASSUME NEW old \in Rows, NEW new \in Rows, NEW m, NEW n, Numbered(old, m), Grown(old, new, m, n),
           NEW s \in 1..m, Exists(new, s)
    PROVE  \E k \in RowIds : k \in RowsOf(old) /\ k \in RowsOf(new) /\ old[k].serial = s /\ new[k].serial = s
BY DEF Grown, Exists, RowsOf

LEMMA FitsIsKept ==
    ASSUME NEW old \in Rows, NEW new \in Rows, NEW m, NEW n, Numbered(old, m), Grown(old, new, m, n),
           NEW s \in 1..m, NEW k, Fits(old, k, s)
    PROVE  Fits(new, k, s)
<1> SUFFICES ASSUME Exists(new, s) PROVE k \in RowsOf(new) /\ new[k].serial = s
  BY DEF Fits
<1>1. PICK j \in RowIds : j \in RowsOf(old) /\ j \in RowsOf(new) /\ old[j].serial = s /\ new[j].serial = s
  BY SerialsAreKept
<1>2. k \in RowsOf(old) /\ old[k].serial = s
  BY <1>1 DEF Fits, Exists
<1>3. j = k
  BY <1>1, <1>2 DEF Numbered
<1>4. QED  BY <1>1, <1>3

LEMMA GoneIsGone ==
    ASSUME NEW old \in Rows, NEW new \in Rows, NEW m, NEW n, Numbered(old, m), Grown(old, new, m, n),
           NEW s \in 1..m, ~Exists(old, s)
    PROVE  ~Exists(new, s)
BY SerialsAreKept DEF Exists

LEMMA LibraryIsKept ==
    ASSUME NEW old \in Rows, NEW new \in Rows, NEW m, NEW n, Numbered(old, m), Written(old, m), Grown(old, new, m, n)
    PROVE  Numbered(new, n) /\ Written(new, n)
<1>1. m \in Nat /\ n \in Nat /\ m <= n
  BY DEF Grown
<1>2. Numbered(new, n)
  <2>1. \A k \in RowsOf(new) : new[k].serial \in 1..n
    BY <1>1 DEF Grown, Numbered
  <2>2. ASSUME NEW j \in RowsOf(new), NEW k \in RowsOf(new), new[j].serial = new[k].serial  PROVE j = k
    <3>1. CASE new[j].serial = m + 1
      BY <2>2, <3>1 DEF Grown
    <3>2. CASE new[j].serial # m + 1
      BY <2>2, <3>2 DEF Grown, Numbered
    <3>3. QED  BY <3>1, <3>2
  <2>3. QED  BY <2>1, <2>2 DEF Numbered
<1>3. ASSUME NEW k \in RowsOf(new)
      PROVE  /\ new[k].author \in 1..n
             /\ new[k].author = new[k].serial \/ ~Exists(new, new[k].author)
  <2>1. CASE new[k].serial = m + 1 /\ new[k].author = m + 1 /\ n = m + 1
    BY <1>1, <2>1
  <2>2. CASE k \in RowsOf(old) /\ new[k].serial = old[k].serial /\ new[k].author = old[k].author
    <3>1. old[k].author \in 1..m /\ (old[k].author = old[k].serial \/ ~Exists(old, old[k].author))
      BY <2>2 DEF Written
    <3>2. ~Exists(old, old[k].author) => ~Exists(new, old[k].author)
      BY <3>1, GoneIsGone
    <3>3. QED  BY <1>1, <2>2, <3>1, <3>2
  <2>3. CASE new[k].author \in 1..m /\ Fits(old, k, new[k].author)
    <3>1. Fits(new, k, new[k].author)
      BY <2>3, FitsIsKept
    <3>2. QED  BY <1>1, <2>3, <3>1 DEF Fits
  <2>4. QED  BY <2>1, <2>2, <2>3 DEF Grown
<1>4. QED  BY <1>2, <1>3 DEF Written

-------------------------------------------------------------------------------
(* Steps of the rows                                                        *)

RowTypeOK ==
    /\ templates \in Rows /\ scripts \in Rows
    /\ defaults \subseteq RowIds
    /\ awards \in [ScenarioIds -> RowIds \cup {Nil}]
    /\ made \in Nat

RowsAreSound ==
    /\ Numbered(templates, made) /\ Written(templates, made)
    /\ Numbered(scripts, made) /\ Written(scripts, made)

RowsMove == RowTypeOK' /\ Grown(templates, templates', made, made') /\ Grown(scripts, scripts', made, made')

LEMMA NoneIsNext ==
    ASSUME NEW library, NEW m \in Nat, Numbered(library, m)
    PROVE  \A j \in RowsOf(library) : library[j].serial # m + 1
<1>1. \A i \in 1..m : i # m + 1
  OBVIOUS
<1>2. \A j \in RowsOf(library) : library[j].serial \in 1..m
  BY DEF Numbered
<1> HIDE DEF RowsOf
<1>3. QED  BY <1>1, <1>2

LEMMA SameIsGrown ==
    ASSUME NEW library \in Rows, NEW m \in Nat, NEW n \in {m, m + 1}, Numbered(library, m)
    PROVE  Grown(library, library, m, n)
<1>1. \A k \in RowsOf(library) : library[k].serial # m + 1
  BY NoneIsNext
<1>2. QED  BY <1>1 DEF Grown

LEMMA IdsAreNumbers == RowIds \subseteq Nat \ {0} /\ ScenarioIds \subseteq Nat \ {0} /\ Nil \notin RowIds /\ New \notin RowIds
BY LibrariesAssumption DEF RowIds, ScenarioIds, Nil, New

LEMMA NextIdIsFree ==
    ASSUME NEW library
    PROVE  NextId(library) \notin RowsOf(library)
<1>1. RowsOf(library) \in SUBSET (1..MaxRow) /\ MaxRow \in Nat
  BY LibrariesAssumption DEF RowsOf, RowIds
<1>2. QED  BY <1>1, FirstFreeIsFree DEF NextId

LEMMA CreatedIsGrown ==
    ASSUME NEW library \in Rows, NEW m \in Nat, Numbered(library, m), NEW words \in Words, NEW k \in RowIds,
           k \notin RowsOf(library)
    PROVE  LET new == [library EXCEPT ![k] = [serial |-> m + 1, words |-> words, author |-> m + 1]]
           IN  new \in Rows /\ Grown(library, new, m, m + 1) /\ new[k] \in Row
<1> DEFINE row == [serial |-> m + 1, words |-> words, author |-> m + 1]
           new == [library EXCEPT ![k] = row]
<1>1. row \in Row
  BY DEF Row
<1>2. new \in Rows
  BY <1>1 DEF Rows
<1>3. new[k] = row /\ \A j \in RowIds \ {k} : new[j] = library[j]
  BY DEF Rows
<1>4. \A j \in RowsOf(library) : library[j].serial # m + 1
  BY NoneIsNext
<1>5. row.serial = m + 1 /\ row.author = m + 1
  OBVIOUS
<1>6. \A j \in RowsOf(new) : j = k \/ (j \in RowsOf(library) /\ new[j] = library[j])
  BY <1>3 DEF RowsOf
<1>7. Grown(library, new, m, m + 1)
  <2> HIDE DEF new, row
  <2>1. \A j \in RowsOf(new) : new[j].serial = m + 1 => j = k
    BY <1>4, <1>6
  <2>2. QED  BY <1>3, <1>5, <1>6, <2>1 DEF Grown
<1>8. QED  BY <1>1, <1>2, <1>3, <1>7

LEMMA UpdatedIsGrown ==
    ASSUME NEW library \in Rows, NEW m \in Nat, Numbered(library, m), NEW words \in Words,
           NEW k \in RowsOf(library), NEW author \in 1..m, Fits(library, k, author)
    PROVE  LET new == [library EXCEPT ![k] = [serial |-> library[k].serial, words |-> words, author |-> author]]
           IN  new \in Rows /\ Grown(library, new, m, m) /\ new[k] \in Row /\ RowsOf(new) = RowsOf(library)
<1> DEFINE row == [serial |-> library[k].serial, words |-> words, author |-> author]
           new == [library EXCEPT ![k] = row]
<1>1. k \in RowIds /\ library[k] \in Row
  BY DEF RowsOf, Rows
<1>2. row \in Row /\ row.serial = library[k].serial /\ row.author = author
  BY <1>1 DEF Row
<1>3. new \in Rows /\ new[k] = row /\ \A j \in RowIds \ {k} : new[j] = library[j]
  BY <1>1, <1>2 DEF Rows
<1> HIDE DEF new, row
<1>4. Absent \notin Row
  BY DEF Absent, Row
<1>5. RowsOf(new) = RowsOf(library)
  BY <1>1, <1>2, <1>3, <1>4 DEF RowsOf
<1>6. \A j \in RowsOf(library) : library[j].serial # m + 1
  BY NoneIsNext
<1>7. \A j \in RowsOf(new) : new[j].serial = library[j].serial
  BY <1>2, <1>3 DEF RowsOf
<1>8. ASSUME NEW j \in RowsOf(new)
      PROVE  new[j].author = library[j].author \/ (new[j].author \in 1..m /\ Fits(library, j, new[j].author))
  BY <1>2, <1>3 DEF RowsOf
<1>9. Grown(library, new, m, m)
  BY <1>5, <1>6, <1>7, <1>8 DEF Grown
<1>10. QED  BY <1>2, <1>3, <1>5, <1>9 DEF new, row

LEMMA DeletedIsGrown ==
    ASSUME NEW library \in Rows, NEW m \in Nat, Numbered(library, m), NEW k
    PROVE  LET new == [library EXCEPT ![k] = Absent] IN new \in Rows /\ Grown(library, new, m, m)
<1> DEFINE new == [library EXCEPT ![k] = Absent]
<1>1. new \in Rows /\ \A j \in RowsOf(new) : j \in RowsOf(library) /\ new[j] = library[j]
  BY DEF Rows, RowsOf
<1>2. \A j \in RowsOf(library) : library[j].serial # m + 1
  BY NoneIsNext
<1>3. Grown(library, new, m, m)
  <2> HIDE DEF new
  <2>1. QED  BY <1>1, <1>2 DEF Grown
<1>4. QED  BY <1>1, <1>3

\* There is one default, and a scenario awards a template that is there.
AwardsAreSound ==
    /\ \E k \in RowsOf(templates) : defaults = {k}
    /\ \A s \in ScenarioIds : awards[s] # Nil => awards[s] \in RowsOf(templates)

\* what a step of the templates does to an award: it stays, or its template is gone
AwardsMove ==
    /\ \E k \in RowsOf(templates') : defaults' = {k}
    /\ \A s \in ScenarioIds :
         \/ /\ awards'[s] = awards[s]
            /\ awards[s] # Nil => awards[s] \in RowsOf(templates') /\ templates'[awards[s]].serial = templates[awards[s]].serial
         \/ awards[s] # Nil /\ awards'[s] = Nil /\ ~Exists(templates', templates[awards[s]].serial)

LibrariesMove == RowsMove /\ AwardsMove

RowsInv == RowTypeOK /\ RowsAreSound /\ AwardsAreSound

LEMMA AwardsOfKeptRows ==
    ASSUME AwardsAreSound, awards' = awards, \E k \in RowsOf(templates') : defaults' = {k},
           \A k \in RowsOf(templates) : k \in RowsOf(templates') /\ templates'[k].serial = templates[k].serial
    PROVE  AwardsMove
BY DEF AwardsMove, AwardsAreSound

LEMMA NothingMoves ==
    ASSUME RowsInv, UNCHANGED <<templates, defaults, awards, scripts, made>>
    PROVE  LibrariesMove
<1>1. RowsMove
  BY SameIsGrown DEF RowsInv, RowTypeOK, RowsAreSound, RowsMove
<1>2. AwardsMove
  BY AwardsOfKeptRows DEF RowsInv, AwardsAreSound
<1>3. QED  BY <1>1, <1>2 DEF LibrariesMove

LEMMA CreateTemplateMoves ==
    ASSUME RowsInv, NEW words \in Words, CreateTemplate(words)
    PROVE  LibrariesMove /\ templates'[NextId(templates)] \in Row /\ NextId(templates) \in RowIds
<1> DEFINE k == NextId(templates)
<1>1. k \in RowIds /\ k \notin RowsOf(templates) /\ templates \in Rows /\ made \in Nat /\ Numbered(templates, made)
  BY NextIdIsFree DEF CreateTemplate, RowsInv, RowTypeOK, RowsAreSound
<1>2. /\ templates' = [templates EXCEPT ![k] = [serial |-> made + 1, words |-> words, author |-> made + 1]]
      /\ made' = made + 1 /\ UNCHANGED <<defaults, awards, scripts>>
  BY DEF CreateTemplate, Fresh
<1> HIDE DEF k
<1>3. templates' \in Rows /\ Grown(templates, templates', made, made + 1) /\ templates'[k] \in Row
  BY <1>1, <1>2, CreatedIsGrown
<1>4. Grown(scripts, scripts', made, made + 1)
  BY <1>1, <1>2, SameIsGrown DEF RowsInv, RowTypeOK, RowsAreSound
<1>5. RowsMove
  BY <1>1, <1>2, <1>3, <1>4 DEF RowsMove, RowsInv, RowTypeOK
<1>6. \A j \in RowsOf(templates) : j \in RowsOf(templates') /\ templates'[j] = templates[j]
  BY <1>1, <1>2 DEF RowsOf, Rows
<1>7. AwardsMove
  BY <1>2, <1>6, AwardsOfKeptRows DEF RowsInv, AwardsAreSound
<1>8. QED  BY <1>1, <1>3, <1>5, <1>7 DEF LibrariesMove, k

LEMMA UpdateTemplateMoves ==
    ASSUME RowsInv, NEW words \in Words, NEW k, NEW author \in 1..made, Fits(templates, k, author),
           UpdateTemplate(k, words, author)
    PROVE  LibrariesMove /\ templates'[k] \in Row /\ k \in RowIds
<1>1. k \in RowsOf(templates) /\ k \in RowIds /\ templates \in Rows /\ made \in Nat /\ Numbered(templates, made)
  BY DEF UpdateTemplate, RowsInv, RowTypeOK, RowsAreSound, RowsOf
<1>2. /\ templates' = [templates EXCEPT ![k] = [serial |-> templates[k].serial, words |-> words, author |-> author]]
      /\ UNCHANGED <<defaults, awards, scripts, made>>
  BY DEF UpdateTemplate
<1>3. /\ templates' \in Rows /\ Grown(templates, templates', made, made) /\ templates'[k] \in Row
      /\ RowsOf(templates') = RowsOf(templates)
  <2> DEFINE new == [templates EXCEPT ![k] = [serial |-> templates[k].serial, words |-> words, author |-> author]]
  <2>1. new \in Rows /\ Grown(templates, new, made, made) /\ new[k] \in Row /\ RowsOf(new) = RowsOf(templates)
    BY <1>1, UpdatedIsGrown
  <2>2. templates' = new
    BY <1>2
  <2> HIDE DEF new
  <2>3. QED  BY <2>1, <2>2
<1>4. Grown(scripts, scripts', made, made)
  BY <1>1, <1>2, SameIsGrown DEF RowsInv, RowTypeOK, RowsAreSound
<1>5. RowsMove
  BY <1>1, <1>2, <1>3, <1>4 DEF RowsMove, RowsInv, RowTypeOK
<1>6. \A j \in RowsOf(templates) : templates'[j].serial = templates[j].serial
  BY <1>1, <1>2 DEF RowsOf, Rows
<1>7. AwardsMove
  BY <1>2, <1>3, <1>6, AwardsOfKeptRows DEF RowsInv, AwardsAreSound
<1>8. QED  BY <1>1, <1>3, <1>5, <1>7 DEF LibrariesMove

LEMMA MakeDefaultMoves ==
    ASSUME RowsInv, NEW k, MakeDefaultTemplate(k)
    PROVE  LibrariesMove
<1>1. k \in RowsOf(templates) /\ defaults' = {k} /\ UNCHANGED <<templates, awards, scripts, made>>
  BY DEF MakeDefaultTemplate, NewDefaults
<1>2. RowsMove
  <2>1. k \in RowIds
    BY <1>1 DEF RowsOf
  <2>2. QED  BY <1>1, <2>1, SameIsGrown DEF RowsInv, RowTypeOK, RowsAreSound, RowsMove
<1>3. AwardsMove
  BY <1>1, AwardsOfKeptRows DEF RowsInv
<1>4. QED  BY <1>2, <1>3 DEF LibrariesMove

LEMMA DeleteTemplateMoves ==
    ASSUME RowsInv, NEW k, DeleteTemplate(k)
    PROVE  LibrariesMove
<1>1. k \in RowsOf(templates) /\ k \notin defaults /\ templates \in Rows /\ made \in Nat /\ Numbered(templates, made)
  BY DEF DeleteTemplate, RowsInv, RowTypeOK, RowsAreSound
<1>2. /\ templates' = [templates EXCEPT ![k] = Absent]
      /\ awards' = [s \in ScenarioIds |-> IF awards[s] = k THEN Nil ELSE awards[s]]
      /\ UNCHANGED <<defaults, scripts, made>>
  BY DEF DeleteTemplate, AwardsWithout
<1>3. templates' \in Rows /\ Grown(templates, templates', made, made)
  BY <1>1, <1>2, DeletedIsGrown
<1>4. Grown(scripts, scripts', made, made)
  BY <1>1, <1>2, SameIsGrown DEF RowsInv, RowTypeOK, RowsAreSound
<1>5. awards' \in [ScenarioIds -> RowIds \cup {Nil}]
  BY <1>2 DEF RowsInv, RowTypeOK
<1>6. RowsMove
  BY <1>1, <1>2, <1>3, <1>4, <1>5 DEF RowsMove, RowsInv, RowTypeOK
<1>7. \A j \in RowsOf(templates) \ {k} : j \in RowsOf(templates') /\ templates'[j] = templates[j]
  BY <1>1, <1>2 DEF RowsOf, Rows
<1>8. \A j \in RowsOf(templates') : j # k /\ j \in RowsOf(templates) /\ templates'[j] = templates[j]
  BY <1>1, <1>2 DEF RowsOf, Rows
<1>9. ~Exists(templates', templates[k].serial)
  BY <1>1, <1>8 DEF Exists, Numbered
<1>10. \E j \in RowsOf(templates') : defaults' = {j}
  BY <1>1, <1>2, <1>7 DEF RowsInv, AwardsAreSound
<1>11. ASSUME NEW s \in ScenarioIds
       PROVE  \/ /\ awards'[s] = awards[s]
                 /\ awards[s] # Nil => awards[s] \in RowsOf(templates') /\ templates'[awards[s]].serial = templates[awards[s]].serial
              \/ awards[s] # Nil /\ awards'[s] = Nil /\ ~Exists(templates', templates[awards[s]].serial)
  <2>1. CASE awards[s] = k
    <3>1. k # Nil
      BY <1>1, IdsAreNumbers DEF RowsOf
    <3>2. awards'[s] = Nil
      BY <1>2, <2>1
    <3>3. QED  BY <1>9, <2>1, <3>1, <3>2
  <2>2. CASE awards[s] # k
    <3>1. awards'[s] = awards[s]
      BY <1>2, <2>2
    <3>2. awards[s] # Nil => awards[s] \in RowsOf(templates)
      BY DEF RowsInv, AwardsAreSound
    <3>3. QED  BY <1>7, <2>2, <3>1, <3>2
  <2>3. QED  BY <2>1, <2>2
<1>12. AwardsMove
  BY <1>10, <1>11 DEF AwardsMove
<1>13. QED  BY <1>6, <1>12 DEF LibrariesMove

LEMMA ScriptsMove ==
    ASSUME RowsInv, scripts' \in Rows, made' \in Nat, Grown(scripts, scripts', made, made'), made' \in {made, made + 1},
           UNCHANGED <<templates, defaults, awards>>
    PROVE  LibrariesMove
<1>1. Grown(templates, templates', made, made')
  BY SameIsGrown DEF RowsInv, RowTypeOK, RowsAreSound
<1>2. RowsMove
  BY <1>1 DEF RowsMove, RowsInv, RowTypeOK
<1>3. AwardsMove
  BY AwardsOfKeptRows DEF RowsInv, AwardsAreSound
<1>4. QED  BY <1>2, <1>3 DEF LibrariesMove

LEMMA CreateScriptMoves ==
    ASSUME RowsInv, NEW words \in Words, CreateScript(words)
    PROVE  LibrariesMove
<1> DEFINE k == NextId(scripts)
<1>1. k \in RowIds /\ k \notin RowsOf(scripts) /\ scripts \in Rows /\ made \in Nat /\ Numbered(scripts, made)
  BY NextIdIsFree DEF CreateScript, RowsInv, RowTypeOK, RowsAreSound
<1>2. /\ scripts' = [scripts EXCEPT ![k] = [serial |-> made + 1, words |-> words, author |-> made + 1]]
      /\ made' = made + 1 /\ UNCHANGED <<templates, defaults, awards>>
  BY DEF CreateScript, Fresh
<1> HIDE DEF k
<1>3. scripts' \in Rows /\ Grown(scripts, scripts', made, made + 1)
  BY <1>1, <1>2, CreatedIsGrown
<1>4. QED  BY <1>1, <1>2, <1>3, ScriptsMove

LEMMA UpdateScriptMoves ==
    ASSUME RowsInv, NEW words \in Words, NEW k, NEW author \in 1..made, Fits(scripts, k, author),
           UpdateScript(k, words, author)
    PROVE  LibrariesMove
<1>1. k \in RowsOf(scripts) /\ scripts \in Rows /\ made \in Nat /\ Numbered(scripts, made)
  BY DEF UpdateScript, RowsInv, RowTypeOK, RowsAreSound
<1>2. /\ scripts' = [scripts EXCEPT ![k] = [serial |-> scripts[k].serial, words |-> words, author |-> author]]
      /\ UNCHANGED <<templates, defaults, awards, made>>
  BY DEF UpdateScript
<1>3. scripts' \in Rows /\ Grown(scripts, scripts', made, made)
  BY <1>1, <1>2, UpdatedIsGrown
<1>4. QED  BY <1>1, <1>2, <1>3, ScriptsMove

LEMMA DeleteScriptMoves ==
    ASSUME RowsInv, NEW k, DeleteScript(k)
    PROVE  LibrariesMove
<1>1. k \in RowsOf(scripts) /\ scripts \in Rows /\ made \in Nat /\ Numbered(scripts, made)
  BY DEF DeleteScript, RowsInv, RowTypeOK, RowsAreSound
<1>2. scripts' = [scripts EXCEPT ![k] = Absent] /\ UNCHANGED <<templates, defaults, awards, made>>
  BY DEF DeleteScript
<1>3. scripts' \in Rows /\ Grown(scripts, scripts', made, made)
  BY <1>1, <1>2, DeletedIsGrown
<1>4. QED  BY <1>1, <1>2, <1>3, ScriptsMove

LEMMA RowsAreKept ==
    ASSUME RowsInv, LibrariesMove
    PROVE  RowsInv'
<1>1. RowTypeOK' /\ Grown(templates, templates', made, made') /\ Grown(scripts, scripts', made, made') /\ AwardsMove
  BY DEF LibrariesMove, RowsMove
<1>2. RowsAreSound'
  BY <1>1, LibraryIsKept DEF RowsInv, RowTypeOK, RowsAreSound
<1>3. AwardsAreSound'
  BY <1>1, IdsAreNumbers DEF AwardsMove, AwardsAreSound, RowsInv
<1>4. QED  BY <1>1, <1>2, <1>3 DEF RowsInv

LEMMA StoredFits ==
    ASSUME NEW library, NEW m, Numbered(library, m), NEW k \in RowsOf(library)
    PROVE  library[k].serial \in 1..m /\ Fits(library, k, library[k].serial)
BY DEF Numbered, Fits

-------------------------------------------------------------------------------
(* What the pages remember                                                  *)

ListFits(list, library, m) == \A k \in RowsOf(list.rows) :
    list.rows[k].serial \in 1..m /\ Fits(library, k, list.rows[k].serial)
DraftFits(p, library, m) == Chosen(p) # Nil => p.source \in 1..m /\ Fits(library, p.selected, p.source)
AnswerFits(a, library, m) == a.to = "save" =>
    a.id \in RowIds /\ a.row \in Row /\ a.row.serial \in 1..m /\ Fits(library, a.id, a.row.serial)
PageFits(p, library, m) ==
    p \in Page /\ ListFits(p.list, library, m) /\ DraftFits(p, library, m) /\ AnswerFits(p.answer, library, m)

EditorFits(e, library, m) ==
    e \in Editor /\ (e.open /\ e.id # Nil => e.source \in 1..m /\ Fits(library, e.id, e.source))

PagesFit == pages \in [Browsers -> Page] /\ \A b \in Browsers : PageFits(pages[b], templates, made)
EditorsFit == editors \in [Browsers -> Editor] /\ \A b \in Browsers : EditorFits(editors[b], scripts, made)

LEMMA PageFitsIsKept ==
    ASSUME NEW old \in Rows, NEW new \in Rows, NEW m, NEW n, Numbered(old, m), Grown(old, new, m, n),
           NEW p, PageFits(p, old, m)
    PROVE  PageFits(p, new, n)
<1>1. \A s \in 1..m : \A k : Fits(old, k, s) => Fits(new, k, s)
  BY FitsIsKept
<1>2. \A s \in 1..m : s \in 1..n
  BY DEF Grown
<1>3. QED  BY <1>1, <1>2 DEF PageFits, ListFits, DraftFits, AnswerFits

LEMMA EditorFitsIsKept ==
    ASSUME NEW old \in Rows, NEW new \in Rows, NEW m, NEW n, Numbered(old, m), Grown(old, new, m, n),
           NEW e, EditorFits(e, old, m)
    PROVE  EditorFits(e, new, n)
<1>1. \A s \in 1..m : \A k : Fits(old, k, s) => Fits(new, k, s)
  BY FitsIsKept
<1>2. \A s \in 1..m : s \in 1..n
  BY DEF Grown
<1>3. QED  BY <1>1, <1>2 DEF EditorFits

LEMMA ChosenIsListed ==
    ASSUME NEW p \in Page, Chosen(p) # Nil
    PROVE  /\ Chosen(p) = p.selected /\ p.selected \in RowsOf(p.list.rows)
           /\ p.list.rows[p.selected] \in Row
BY DEF Chosen, RowsOf, Page, List

LEMMA ReloadedFits ==
    ASSUME NEW p \in Page, NEW library, NEW m, ListFits(p.list, library, m), Chosen(p) # Nil
    PROVE  LET q == Reloaded(p)
           IN  /\ q \in Page /\ q.list = p.list /\ q.answer = p.answer /\ q.asked = p.asked
               /\ DraftFits(q, library, m)
<1> DEFINE q == Reloaded(p)
           row == p.list.rows[p.selected]
<1>1. row \in Row /\ p.selected \in RowsOf(p.list.rows)
  BY ChosenIsListed
<1>2. row.words \in Words /\ row.serial \in Nat
  BY <1>1 DEF Row
<1>3. q = [p EXCEPT !.draft = row.words, !.source = row.serial]
  BY DEF Reloaded
<1> HIDE DEF row
<1>4. /\ q \in Page /\ q.list = p.list /\ q.answer = p.answer /\ q.asked = p.asked
      /\ q.selected = p.selected /\ q.source = row.serial
  BY <1>2, <1>3 DEF Page
<1>5. row.serial \in 1..m /\ Fits(library, p.selected, row.serial)
  BY <1>1 DEF ListFits, row
<1>6. DraftFits(q, library, m)
  BY <1>4, <1>5 DEF DraftFits
<1>7. QED  BY <1>4, <1>6

LEMMA AfterRenderFits ==
    ASSUME NEW old, NEW new \in Page, NEW library, NEW m, ListFits(new.list, library, m),
           new.selected = old.selected /\ Chosen(new) = Chosen(old) => DraftFits(new, library, m)
    PROVE  LET q == AfterRender(old, new)
           IN  /\ q \in Page /\ q.list = new.list /\ q.answer = new.answer /\ q.asked = new.asked
               /\ DraftFits(q, library, m)
<1> DEFINE p == IF new.selected # Nil \/ new.list.defaults = {} THEN new
                ELSE [new EXCEPT !.selected = CHOOSE k \in new.list.defaults : TRUE]
           q == AfterRender(old, new)
<1> SUFFICES /\ q \in Page /\ q.list = new.list /\ q.answer = new.answer /\ q.asked = new.asked
             /\ DraftFits(q, library, m)
  OBVIOUS
<1>1. p \in Page /\ p.list = new.list /\ p.answer = new.answer /\ p.asked = new.asked
  <2>1. CASE new.selected # Nil \/ new.list.defaults = {}
    BY <2>1
  <2>2. CASE ~(new.selected # Nil \/ new.list.defaults = {})
    <3>1. PICK k \in new.list.defaults : k = CHOOSE j \in new.list.defaults : TRUE
      BY <2>2
    <3>2. k \in RowIds
      BY DEF Page, List
    <3>3. p = [new EXCEPT !.selected = k]
      BY <2>2, <3>1
    <3> HIDE DEF p
    <3>4. QED  BY <3>2, <3>3 DEF Page
  <2>3. QED  BY <2>1, <2>2
<1>2. CASE p.selected = new.selected /\ new.selected = old.selected /\ Chosen(p) = Chosen(old)
  <2>1. q = p
    BY <1>2 DEF AfterRender
  <2>2. p.selected = new.selected => p = new
    <3>1. CASE new.selected # Nil \/ new.list.defaults = {}
      BY <3>1
    <3>2. CASE ~(new.selected # Nil \/ new.list.defaults = {})
      <4>1. PICK k \in new.list.defaults : k = CHOOSE j \in new.list.defaults : TRUE
        BY <3>2
      <4>2. k \in RowIds /\ Nil \notin RowIds
        BY IdsAreNumbers DEF Page, List
      <4>3. p.selected = k
        BY <3>2, <4>1 DEF Page
      <4>4. QED  BY <3>2, <4>2, <4>3
    <3>3. QED  BY <3>1, <3>2
  <2> HIDE DEF p, q
  <2>3. QED  BY <1>1, <1>2, <2>1, <2>2
<1>3. CASE /\ ~(p.selected = new.selected /\ new.selected = old.selected /\ Chosen(p) = Chosen(old))
           /\ p.selected = New /\ p.list.defaults # {}
  <2>1. q = [p EXCEPT !.draft = Unnamed, !.source = 0]
    BY <1>3 DEF AfterRender
  <2> HIDE DEF p, q
  <2>2. q \in Page /\ q.list = p.list /\ q.answer = p.answer /\ q.asked = p.asked /\ q.selected = New
    BY <1>1, <1>3, <2>1 DEF Page
  <2>3. Chosen(q) = Nil
    BY <2>2, IdsAreNumbers DEF Chosen
  <2>4. QED  BY <1>1, <2>2, <2>3 DEF DraftFits
<1>4. CASE /\ ~(p.selected = new.selected /\ new.selected = old.selected /\ Chosen(p) = Chosen(old))
           /\ ~(p.selected = New /\ p.list.defaults # {})
           /\ Chosen(p) # Nil
  <2>1. q = Reloaded(p)
    BY <1>4 DEF AfterRender
  <2> HIDE DEF p, q
  <2>2. QED  BY <1>1, <1>4, <2>1, ReloadedFits
<1>5. CASE /\ ~(p.selected = new.selected /\ new.selected = old.selected /\ Chosen(p) = Chosen(old))
           /\ ~(p.selected = New /\ p.list.defaults # {})
           /\ Chosen(p) = Nil
  <2>1. q = p
    BY <1>5 DEF AfterRender
  <2> HIDE DEF p, q
  <2>2. QED  BY <1>1, <1>5, <2>1 DEF DraftFits
<1> HIDE DEF p, q
<1>6. QED  BY <1>2, <1>3, <1>4, <1>5

LibrariesInv == RowsInv /\ PagesFit /\ EditorsFit

LEMMA PagesAreKept ==
    ASSUME LibrariesInv, LibrariesMove
    PROVE  /\ \A b \in Browsers : PageFits(pages[b], templates', made')
           /\ \A b \in Browsers : EditorFits(editors[b], scripts', made')
<1>1. /\ templates \in Rows /\ templates' \in Rows /\ Numbered(templates, made) /\ Grown(templates, templates', made, made')
      /\ scripts \in Rows /\ scripts' \in Rows /\ Numbered(scripts, made) /\ Grown(scripts, scripts', made, made')
  BY DEF LibrariesInv, RowsInv, RowTypeOK, RowsAreSound, LibrariesMove, RowsMove
<1>2. /\ \A b \in Browsers : PageFits(pages[b], templates, made)
      /\ \A b \in Browsers : EditorFits(editors[b], scripts, made)
  BY DEF LibrariesInv, PagesFit, EditorsFit
<1>3. \A b \in Browsers : PageFits(pages[b], templates', made')
  BY <1>1, <1>2, PageFitsIsKept
<1>4. \A b \in Browsers : EditorFits(editors[b], scripts', made')
  BY <1>1, <1>2, EditorFitsIsKept
<1>5. QED  BY <1>3, <1>4

LEMMA PagesStay ==
    ASSUME LibrariesInv, LibrariesMove, UNCHANGED <<pages, editors>>
    PROVE  LibrariesInv'
<1>1. PagesFit' /\ EditorsFit'
  BY PagesAreKept DEF LibrariesInv, PagesFit, EditorsFit
<1>2. QED  BY <1>1, RowsAreKept DEF LibrariesInv

LEMMA OnePageMoves ==
    ASSUME LibrariesInv, LibrariesMove, NEW b \in Browsers, NEW p, PageFits(p, templates', made'),
           pages' = [pages EXCEPT ![b] = p], UNCHANGED editors
    PROVE  LibrariesInv'
<1>1. p \in Page /\ pages \in [Browsers -> Page]
  BY DEF PageFits, LibrariesInv, PagesFit
<1>2. pages' \in [Browsers -> Page] /\ pages'[b] = p /\ \A c \in Browsers \ {b} : pages'[c] = pages[c]
  BY <1>1
<1>3. \A c \in Browsers : PageFits(pages'[c], templates', made')
  BY <1>2, PagesAreKept
<1>4. PagesFit'
  BY <1>2, <1>3 DEF PagesFit
<1>5. EditorsFit'
  BY PagesAreKept DEF EditorsFit, LibrariesInv
<1>6. QED  BY <1>4, <1>5, RowsAreKept DEF LibrariesInv

LEMMA OneEditorMoves ==
    ASSUME LibrariesInv, LibrariesMove, NEW b \in Browsers, NEW e, EditorFits(e, scripts', made'),
           editors' = [editors EXCEPT ![b] = e], UNCHANGED pages
    PROVE  LibrariesInv'
<1>1. e \in Editor /\ editors \in [Browsers -> Editor]
  BY DEF EditorFits, LibrariesInv, EditorsFit
<1>2. editors' \in [Browsers -> Editor] /\ editors'[b] = e /\ \A c \in Browsers \ {b} : editors'[c] = editors[c]
  BY <1>1
<1>3. \A c \in Browsers : EditorFits(editors'[c], scripts', made')
  BY <1>2, PagesAreKept
<1>4. EditorsFit'
  BY <1>2, <1>3 DEF EditorsFit
<1>5. PagesFit'
  BY PagesAreKept DEF PagesFit, LibrariesInv
<1>6. QED  BY <1>4, <1>5, RowsAreKept DEF LibrariesInv

LEMMA RenderedFits ==
    ASSUME LibrariesInv, UNCHANGED <<templates, defaults, awards, scripts, made, editors>>,
           NEW b \in Browsers, NEW new \in Page,
           ListFits(new.list, templates, made), AnswerFits(new.answer, templates, made),
           new.selected = pages[b].selected /\ Chosen(new) = Chosen(pages[b]) => DraftFits(new, templates, made),
           Rendered(b, new)
    PROVE  LibrariesMove /\ LibrariesInv'
<1> DEFINE q == AfterRender(pages[b], new)
<1>1. LibrariesMove
  BY NothingMoves DEF LibrariesInv
<1>2. q \in Page /\ q.list = new.list /\ q.answer = new.answer /\ DraftFits(q, templates, made)
  BY AfterRenderFits
<1>3. pages' = [pages EXCEPT ![b] = q]
  BY DEF Rendered
<1> HIDE DEF q
<1>4. PageFits(q, templates', made')
  BY <1>2 DEF PageFits
<1>5. QED  BY <1>1, <1>3, <1>4, OnePageMoves

LEMMA PageIsSound ==
    ASSUME LibrariesInv, NEW b \in Browsers
    PROVE  /\ pages[b] \in Page /\ ListFits(pages[b].list, templates, made)
           /\ DraftFits(pages[b], templates, made) /\ AnswerFits(pages[b].answer, templates, made)
BY DEF LibrariesInv, PagesFit, PageFits

LEMMA FetchKeeps ==
    ASSUME LibrariesInv, NEW b \in Browsers, FetchTemplates(b)
    PROVE  LibrariesMove /\ LibrariesInv'
<1> DEFINE list == [rows |-> templates, defaults |-> defaults]
           new == [pages[b] EXCEPT !.list = list]
<1>1. templates \in Rows /\ defaults \subseteq RowIds /\ Numbered(templates, made)
  BY DEF LibrariesInv, RowsInv, RowTypeOK, RowsAreSound
<1>2. list \in List /\ list.rows = templates
  BY <1>1 DEF List, Rows
<1>3. ListFits(list, templates, made)
  BY <1>1, <1>2, StoredFits DEF ListFits
<1>4. Rendered(b, new) /\ UNCHANGED <<templates, defaults, awards, scripts, made, editors>>
  BY DEF FetchTemplates
<1> HIDE DEF list
<1>5. /\ new \in Page /\ new.list = list /\ new.answer = pages[b].answer
      /\ new.selected = pages[b].selected /\ new.source = pages[b].source
  BY <1>2, PageIsSound DEF Page
<1> HIDE DEF new
<1>6. Chosen(new) = Chosen(pages[b]) => DraftFits(new, templates, made)
  BY <1>5, PageIsSound DEF DraftFits
<1>7. QED  BY <1>3, <1>4, <1>5, <1>6, PageIsSound, RenderedFits

LEMMA SelectKeeps ==
    ASSUME LibrariesInv, NEW b \in Browsers, NEW k \in RowIds \cup {Nil, New}, Select(b, k)
    PROVE  LibrariesMove /\ LibrariesInv'
<1> DEFINE new == [pages[b] EXCEPT !.selected = k]
<1>1. Rendered(b, new) /\ UNCHANGED <<templates, defaults, awards, scripts, made, editors>>
  BY DEF Select
<1>2. /\ new \in Page /\ new.list = pages[b].list /\ new.answer = pages[b].answer
      /\ new.selected = pages[b].selected => new = pages[b]
  BY PageIsSound DEF Page
<1> HIDE DEF new
<1>3. QED  BY <1>1, <1>2, PageIsSound, RenderedFits

LEMMA AnsweredKeeps ==
    ASSUME LibrariesInv, NEW b \in Browsers, RequestAnswered(b)
    PROVE  LibrariesMove /\ LibrariesInv'
<1> DEFINE p == [pages[b] EXCEPT !.answer = NoAnswer]
           a == pages[b].answer
<1>1. UNCHANGED <<templates, defaults, awards, scripts, made, editors>>
  BY DEF RequestAnswered
<1>2. NoAnswer \in Answer /\ AnswerFits(NoAnswer, templates, made)
  BY DEF NoAnswer, Answer, AnswerFits
<1>3. CASE a.to = "save" /\ Rendered(b, [p EXCEPT !.selected = a.id, !.draft = a.row.words, !.source = a.row.serial])
  <2> DEFINE new == [p EXCEPT !.selected = a.id, !.draft = a.row.words, !.source = a.row.serial]
  <2>1. a.id \in RowIds /\ a.row \in Row /\ a.row.serial \in 1..made /\ Fits(templates, a.id, a.row.serial)
    BY <1>3, PageIsSound DEF AnswerFits
  <2>2. a.row.words \in Words /\ a.row.serial \in Nat
    BY <2>1 DEF Row
  <2>3. p \in Page /\ p.list = pages[b].list /\ p.answer = NoAnswer
    BY <1>2, PageIsSound DEF Page
  <2> HIDE DEF p, a
  <2>4. /\ new \in Page /\ new.list = pages[b].list /\ new.answer = NoAnswer
        /\ new.selected = a.id /\ new.source = a.row.serial
    BY <2>1, <2>2, <2>3 DEF Page
  <2> HIDE DEF new
  <2>5. DraftFits(new, templates, made)
    BY <2>1, <2>4 DEF DraftFits
  <2>6. Rendered(b, new)
    BY <1>3 DEF new
  <2>7. QED  BY <1>1, <1>2, <2>4, <2>5, <2>6, PageIsSound, RenderedFits
<1>4. CASE a.to = "delete" /\ Rendered(b, [p EXCEPT !.selected = Nil])
  <2> DEFINE new == [p EXCEPT !.selected = Nil]
  <2>1. p \in Page /\ p.list = pages[b].list /\ p.answer = NoAnswer
    BY <1>2, PageIsSound DEF Page
  <2> HIDE DEF p
  <2>2. new \in Page /\ new.list = pages[b].list /\ new.answer = NoAnswer /\ new.selected = Nil
    BY <2>1 DEF Page
  <2>3. Rendered(b, new)
    BY <1>4
  <2> HIDE DEF new
  <2>4. DraftFits(new, templates, made)
    BY <2>2, IdsAreNumbers DEF DraftFits, Chosen
  <2>5. QED  BY <1>1, <1>2, <2>2, <2>3, <2>4, PageIsSound, RenderedFits
<1>5. QED  BY <1>3, <1>4 DEF RequestAnswered

LEMMA SaveKeeps ==
    ASSUME LibrariesInv, NEW b \in Browsers, SaveTemplate(b)
    PROVE  LibrariesMove /\ LibrariesInv'
<1> DEFINE p == pages[b]
           k == IF p.selected = New THEN NextId(templates) ELSE p.selected
           a == [to |-> "save", id |-> k, row |-> templates'[k]]
           q == [p EXCEPT !.answer = a]
<1>1. p.draft \in Words /\ (p.selected = New \/ Chosen(p) # Nil)
  BY DEF SaveTemplate, Dirty
<1>2. pages' = [pages EXCEPT ![b] = q] /\ UNCHANGED editors
  BY DEF SaveTemplate
<1>3. LibrariesMove /\ k \in RowIds /\ templates'[k] \in Row
  <2>1. CASE p.selected = New
    BY <1>1, <2>1, CreateTemplateMoves DEF SaveTemplate, LibrariesInv
  <2>2. CASE p.selected # New
    <3>1. p.source \in 1..made /\ Fits(templates, p.selected, p.source)
      BY <1>1, <2>2, PageIsSound DEF DraftFits
    <3>2. UpdateTemplate(p.selected, p.draft, p.source)
      BY <2>2 DEF SaveTemplate
    <3>3. QED  BY <1>1, <2>2, <3>1, <3>2, UpdateTemplateMoves DEF LibrariesInv
  <2>3. QED  BY <2>1, <2>2
<1> HIDE DEF k
<1>4. templates' \in Rows /\ Numbered(templates', made') /\ Absent \notin Row
  BY <1>3, RowsAreKept DEF LibrariesInv, RowsInv, RowTypeOK, RowsAreSound, Absent, Row
<1>5. k \in RowsOf(templates')
  BY <1>3, <1>4 DEF RowsOf
<1>6. a \in Answer /\ AnswerFits(a, templates', made')
  BY <1>3, <1>4, <1>5, StoredFits DEF Answer, AnswerFits
<1>7. PageFits(p, templates', made')
  BY <1>3, PagesAreKept
<1> HIDE DEF p, a
<1>8. /\ q \in Page /\ q.list = p.list /\ q.answer = a
      /\ q.selected = p.selected /\ q.source = p.source
  BY <1>6, <1>7 DEF PageFits, Page
<1> HIDE DEF q
<1>9. PageFits(q, templates', made')
  BY <1>6, <1>7, <1>8 DEF PageFits, DraftFits, Chosen
<1>10. QED  BY <1>2, <1>3, <1>9, OnePageMoves

LEMMA SameSourceFits ==
    ASSUME NEW p, NEW q \in Page, NEW library, NEW m, PageFits(p, library, m),
           q.list = p.list, q.selected = p.selected, q.source = p.source, AnswerFits(q.answer, library, m)
    PROVE  PageFits(q, library, m)
BY DEF PageFits, DraftFits, Chosen

LEMMA PageButtonsKeep ==
    ASSUME LibrariesInv, NEW b \in Browsers,
           \/ \E words \in Words : EditDraft(b, words)
           \/ DiscardChanges(b) \/ MakeDefault(b) \/ AskToDelete(b) \/ DeclineDelete(b)
    PROVE  LibrariesMove /\ LibrariesInv'
<1> DEFINE p == pages[b]
<1>1. p \in Page /\ PageFits(p, templates, made) /\ AnswerFits(p.answer, templates, made)
  BY DEF LibrariesInv, PagesFit, PageFits
<1>2. ASSUME NEW words \in Words, EditDraft(b, words)  PROVE LibrariesMove /\ LibrariesInv'
  <2> DEFINE q == [p EXCEPT !.draft = words]
  <2>1. pages' = [pages EXCEPT ![b] = q] /\ UNCHANGED <<templates, defaults, awards, scripts, made, editors>>
    BY <1>2 DEF EditDraft
  <2> HIDE DEF p
  <2>2. q \in Page /\ q.list = p.list /\ q.selected = p.selected /\ q.source = p.source /\ q.answer = p.answer
    BY <1>1 DEF Page
  <2> HIDE DEF q
  <2>3. PageFits(q, templates', made')
    BY <1>1, <2>1, <2>2, SameSourceFits
  <2>4. QED  BY <2>1, <2>3, NothingMoves, OnePageMoves DEF LibrariesInv
<1>3. CASE DiscardChanges(b)
  <2> DEFINE q == Reloaded(p)
  <2>1. pages' = [pages EXCEPT ![b] = q] /\ UNCHANGED <<templates, defaults, awards, scripts, made, editors>> /\ Chosen(p) # Nil
    BY <1>3 DEF DiscardChanges
  <2>2. q \in Page /\ q.list = p.list /\ q.answer = p.answer /\ DraftFits(q, templates, made)
    BY <1>1, <2>1, ReloadedFits DEF PageFits
  <2> HIDE DEF q, p
  <2>3. PageFits(q, templates', made')
    BY <1>1, <2>1, <2>2 DEF PageFits
  <2>4. QED  BY <2>1, <2>3, NothingMoves, OnePageMoves DEF LibrariesInv
<1>4. CASE MakeDefault(b)
  <2>1. MakeDefaultTemplate(pages[b].selected) /\ UNCHANGED <<pages, editors>>
    BY <1>4 DEF MakeDefault
  <2>2. QED  BY <2>1, MakeDefaultMoves, PagesStay DEF LibrariesInv
<1>5. CASE AskToDelete(b) \/ DeclineDelete(b)
  <2>1. PICK k \in RowIds \cup {Nil} : pages' = [pages EXCEPT ![b] = [p EXCEPT !.asked = k]]
    <3>1. CASE AskToDelete(b)
      <4>1. Chosen(p) # Nil
        BY <3>1 DEF AskToDelete
      <4>2. p.selected \in RowIds
        BY <4>1 DEF Chosen
      <4>3. QED  BY <3>1, <4>2 DEF AskToDelete
    <3>2. CASE DeclineDelete(b)
      BY <3>2 DEF DeclineDelete
    <3>3. QED  BY <1>5, <3>1, <3>2
  <2>2. UNCHANGED <<templates, defaults, awards, scripts, made, editors>>
    BY <1>5 DEF AskToDelete, DeclineDelete
  <2> DEFINE q == [p EXCEPT !.asked = k]
  <2> HIDE DEF p
  <2>3. q \in Page /\ q.list = p.list /\ q.selected = p.selected /\ q.source = p.source /\ q.answer = p.answer
    BY <1>1 DEF Page
  <2>4. pages' = [pages EXCEPT ![b] = q]
    BY <2>1
  <2> HIDE DEF q
  <2>5. PageFits(q, templates', made')
    BY <1>1, <2>2, <2>3, SameSourceFits
  <2>6. QED  BY <2>2, <2>4, <2>5, NothingMoves, OnePageMoves DEF LibrariesInv
<1>6. QED  BY <1>2, <1>3, <1>4, <1>5

LEMMA ConfirmKeeps ==
    ASSUME LibrariesInv, NEW b \in Browsers, ConfirmDelete(b)
    PROVE  LibrariesMove /\ LibrariesInv'
<1> DEFINE p == pages[b]
           one == [pages EXCEPT ![b] = [p EXCEPT !.asked = Nil]]
           a == [NoAnswer EXCEPT !.to = "delete"]
           q == [[p EXCEPT !.asked = Nil] EXCEPT !.answer = a]
<1>1. LibrariesMove
  BY DeleteTemplateMoves DEF ConfirmDelete, LibrariesInv
<1>2. p \in Page /\ PageFits(p, templates', made') /\ pages \in [Browsers -> Page]
  BY <1>1, PagesAreKept DEF PageFits, LibrariesInv, PagesFit
<1>3. pages' = [pages EXCEPT ![b] = q] /\ UNCHANGED editors
  <2>1. pages' = [one EXCEPT ![b] = [one[b] EXCEPT !.answer = a]] /\ UNCHANGED editors
    BY DEF ConfirmDelete
  <2>2. DOMAIN one = Browsers /\ one[b] = [p EXCEPT !.asked = Nil] /\ \A c \in Browsers \ {b} : one[c] = pages[c]
    BY <1>2
  <2> HIDE DEF one, a, p
  <2>3. QED  BY <1>2, <2>1, <2>2
<1>4. a \in Answer /\ AnswerFits(a, templates', made')
  BY DEF NoAnswer, Answer, AnswerFits
<1> HIDE DEF p, a
<1>5. q \in Page /\ q.list = p.list /\ q.selected = p.selected /\ q.source = p.source /\ q.answer = a
  <2> DEFINE r == [p EXCEPT !.asked = Nil]
  <2>1. r \in Page /\ r.list = p.list /\ r.selected = p.selected /\ r.source = p.source
    BY <1>2 DEF Page
  <2>2. q = [r EXCEPT !.answer = a]
    OBVIOUS
  <2> HIDE DEF r, q
  <2>3. QED  BY <1>4, <2>1, <2>2 DEF Page
<1> HIDE DEF q
<1>6. PageFits(q, templates', made')
  BY <1>2, <1>4, <1>5, SameSourceFits
<1>7. QED  BY <1>1, <1>3, <1>6, OnePageMoves

LEMMA CertificatesPageKeeps ==
    ASSUME LibrariesInv, NEW b \in Browsers, CertificatesPage(b)
    PROVE  LibrariesMove /\ LibrariesInv'
BY FetchKeeps, AnsweredKeeps, SelectKeeps, SaveKeeps, PageButtonsKeep, ConfirmKeeps DEF CertificatesPage

LEMMA ElsewhereKeeps ==
    ASSUME LibrariesInv, CertificatesElsewhere \/ ScriptsElsewhere
    PROVE  LibrariesMove /\ LibrariesInv'
<1>1. RowsInv /\ Numbered(templates, made) /\ Numbered(scripts, made)
  BY DEF LibrariesInv, RowsInv, RowsAreSound
<1>2. UNCHANGED <<pages, editors>>
  BY DEF CertificatesElsewhere, ScriptsElsewhere
<1>3. LibrariesMove
  <2>1. CASE CertificatesElsewhere
    <3>1. ASSUME NEW k \in RowsOf(templates), NEW words \in Words, UpdateTemplate(k, words, templates[k].serial)
          PROVE  LibrariesMove
      BY <1>1, <3>1, StoredFits, UpdateTemplateMoves
    <3>2. QED  BY <1>1, <2>1, <3>1, CreateTemplateMoves, MakeDefaultMoves, DeleteTemplateMoves DEF CertificatesElsewhere
  <2>2. CASE ScriptsElsewhere
    <3>1. ASSUME NEW k \in RowsOf(scripts), NEW words \in Words, UpdateScript(k, words, scripts[k].serial)
          PROVE  LibrariesMove
      BY <1>1, <3>1, StoredFits, UpdateScriptMoves
    <3>2. QED  BY <1>1, <2>2, <3>1, CreateScriptMoves, DeleteScriptMoves DEF ScriptsElsewhere
  <2>3. QED  BY <2>1, <2>2
<1>4. QED  BY <1>2, <1>3, PagesStay

LEMMA ScriptPageKeeps ==
    ASSUME LibrariesInv, NEW b \in Browsers, ScriptLibraryPage(b)
    PROVE  LibrariesMove /\ LibrariesInv'
<1> DEFINE e == editors[b]
<1>1. /\ e \in Editor /\ EditorFits(e, scripts, made) /\ scripts \in Rows /\ Numbered(scripts, made)
      /\ NoEditor \in Editor
  BY DEF LibrariesInv, EditorsFit, RowsInv, RowTypeOK, RowsAreSound, NoEditor, Editor
<1>2. CASE SaveScript(b)
  <2>1. /\ e.open /\ e.words \in Words
        /\ IF e.id = Nil THEN CreateScript(e.words) ELSE UpdateScript(e.id, e.words, e.source)
        /\ editors' = [editors EXCEPT ![b] = [e EXCEPT !.saving = TRUE]] /\ UNCHANGED pages
    BY <1>2 DEF SaveScript
  <2>2. LibrariesMove
    BY <1>1, <2>1, CreateScriptMoves, UpdateScriptMoves DEF LibrariesInv, EditorFits
  <2>3. EditorFits(e, scripts', made')
    BY <2>2, PagesAreKept
  <2> HIDE DEF e
  <2>4. EditorFits([e EXCEPT !.saving = TRUE], scripts', made')
    BY <1>1, <2>3 DEF EditorFits, Editor
  <2>5. QED  BY <2>1, <2>2, <2>4, OneEditorMoves
<1>3. CASE ~SaveScript(b)
  <2>1. UNCHANGED <<templates, defaults, awards, scripts, made, pages>>
    BY <1>3 DEF ScriptLibraryPage, NewScript, OpenForEdit, EditScript, CancelScript, ScriptSaved
  <2>2. PICK f : EditorFits(f, scripts, made) /\ editors' = [editors EXCEPT ![b] = f]
    <3>1. CASE NewScript(b)
      <4> DEFINE f == [[NoEditor EXCEPT !.open = TRUE] EXCEPT !.saving = e.saving]
      <4>1. EditorFits(f, scripts, made)
        BY <1>1 DEF EditorFits, Editor, NoEditor
      <4>2. QED  BY <3>1, <4>1 DEF NewScript
    <3>2. ASSUME NEW k \in RowIds, OpenForEdit(b, k)  PROVE \E f : EditorFits(f, scripts, made) /\ editors' = [editors EXCEPT ![b] = f]
      <4> DEFINE f == [open |-> TRUE, id |-> k, words |-> scripts[k].words, source |-> scripts[k].serial, saving |-> e.saving]
      <4>1. k \in RowsOf(scripts) /\ scripts[k] \in Row
        BY <1>1, <3>2 DEF OpenForEdit, RowsOf, Rows
      <4>2. f \in Editor
        BY <1>1, <4>1 DEF Editor, Row
      <4>3. EditorFits(f, scripts, made)
        BY <1>1, <4>1, <4>2, StoredFits DEF EditorFits
      <4>4. QED  BY <3>2, <4>3 DEF OpenForEdit
    <3>3. ASSUME NEW words \in Words, EditScript(b, words)  PROVE \E f : EditorFits(f, scripts, made) /\ editors' = [editors EXCEPT ![b] = f]
      <4> DEFINE f == [e EXCEPT !.words = words]
      <4>1. EditorFits(f, scripts, made)
        BY <1>1 DEF EditorFits, Editor
      <4>2. QED  BY <3>3, <4>1 DEF EditScript
    <3>4. CASE CancelScript(b)
      <4> DEFINE f == [NoEditor EXCEPT !.saving = e.saving]
      <4>1. EditorFits(f, scripts, made)
        BY <1>1 DEF EditorFits, Editor, NoEditor
      <4>2. QED  BY <3>4, <4>1 DEF CancelScript
    <3>5. CASE ScriptSaved(b)
      <4>1. EditorFits(NoEditor, scripts, made)
        BY <1>1 DEF EditorFits, NoEditor
      <4>2. QED  BY <3>5, <4>1 DEF ScriptSaved
    <3>6. QED  BY <1>3, <3>1, <3>2, <3>3, <3>4, <3>5 DEF ScriptLibraryPage
  <2>3. LibrariesMove
    BY <2>1, NothingMoves DEF LibrariesInv
  <2>4. QED  BY <2>1, <2>2, <2>3, OneEditorMoves
<1>4. QED  BY <1>2, <1>3

LEMMA LibrariesAreKept ==
    ASSUME LibrariesInv, Certifying \/ Scripting
    PROVE  LibrariesMove /\ LibrariesInv'
BY ElsewhereKeeps, CertificatesPageKeeps, ScriptPageKeeps DEF Certifying, Scripting

LEMMA LibrariesBeginSound ==
    ASSUME LibrariesInit
    PROVE  LibrariesInv
<1> USE DEF LibrariesInit
<1> DEFINE first == [serial |-> 1, words |-> Original, author |-> 1]
<1>1. first \in Row /\ Absent \notin Row /\ 1 \in RowIds
  BY LibrariesAssumption DEF Row, Absent, RowIds
<1>2. /\ templates \in Rows /\ scripts \in Rows /\ made = 1
      /\ templates[1] = first /\ \A k \in RowIds \ {1} : templates[k] = Absent
      /\ \A k \in RowIds : scripts[k] = Absent
  BY <1>1 DEF Rows
<1>3. RowsOf(templates) = {1} /\ RowsOf(scripts) = {}
  BY <1>1, <1>2 DEF RowsOf
<1>4. RowTypeOK
  BY <1>1, <1>2 DEF RowTypeOK
<1>5. RowsAreSound
  BY <1>2, <1>3 DEF RowsAreSound, Numbered, Written
<1>6. AwardsAreSound
  BY <1>3 DEF AwardsAreSound
<1>7. Opened \in Page
  BY DEF Opened, Page, NoList, List, NoAnswer, Answer
<1>8. PageFits(Opened, templates, made)
  BY <1>7, IdsAreNumbers DEF PageFits, ListFits, DraftFits, AnswerFits, Opened, NoList, NoAnswer, RowsOf, Chosen
<1>9. EditorFits(NoEditor, scripts, made)
  BY DEF EditorFits, NoEditor, Editor
<1>10. PagesFit /\ EditorsFit
  BY <1>7, <1>8, <1>9 DEF PagesFit, EditorsFit, EditorFits
<1>11. QED  BY <1>4, <1>5, <1>6, <1>10 DEF LibrariesInv, RowsInv

LEMMA WordsAreSound ==
    ASSUME RowsAreSound
    PROVE  WordsAreTheirOwn
BY DEF RowsAreSound, Written, WordsAreTheirOwn

-------------------------------------------------------------------------------
(* The catalogue.  Of an award: the template that was picked is the one     *)
(* whose id it is, or is gone.  Of a name: as ScenarioNamesStand says, and  *)
(* no other environment of the scenario has it; for a rename carries over   *)
(* to whichever scenario bears the environment's old name.                  *)

DetailsFit(d, library, m) ==
    IF d.award = Nil THEN d.picked = 0 ELSE d.picked \in 1..m /\ Fits(library, d.award, d.picked)

PickFits(told, award, library, m) ==
    /\ told.picked \in 0..m
    /\ IF told.stale \/ award = Nil THEN ~Exists(library, told.picked) ELSE library[award].serial = told.picked

HomeIsLinked(s) == story[s].home # Nil => <<s, story[s].home>> \in links
NameStands(s) ==
    \/ story[s].mixed
    \/ /\ scenarios[s].name = IF story[s].home = Nil THEN story[s].chosen ELSE environments[story[s].home]
       /\ \A e \in EnvironmentIds \ {story[s].home} : <<s, e>> \in links => environments[e] # scenarios[s].name

CatalogTyped == CatalogTypeOK /\ \A s \in ScenarioRows : scenarios[s].name \in Names
PicksAreSound ==
    /\ \A b \in Browsers : DetailsFit(forms[b].typed, templates, made)
    /\ \A s \in ScenarioIds : PickFits(story[s], awards[s], templates, made)
NamesAreSound == \A s \in ScenarioRows : HomeIsLinked(s) /\ NameStands(s)

CatalogInv == LibrariesInv /\ CatalogTyped /\ PicksAreSound /\ NamesAreSound

LEMMA RowsAreNamed ==
    ASSUME CatalogTyped
    PROVE  /\ ScenarioRows = {s \in ScenarioIds : scenarios[s].name \in Names}
           /\ EnvironmentRows = {e \in EnvironmentIds : environments[e] \in Names}
<1>1. NoName \notin Names
  BY CatalogAssumption
<1>2. \A s \in ScenarioIds : scenarios[s] = NoScenario => scenarios[s].name \notin Names
  BY <1>1 DEF NoScenario
<1>3. \A e \in EnvironmentIds : environments[e] # NoName <=> environments[e] \in Names
  BY <1>1 DEF CatalogTyped, CatalogTypeOK
<1>4. QED  BY <1>2, <1>3 DEF CatalogTyped, ScenarioRows, EnvironmentRows

LEMMA TypedAfter ==
    ASSUME scenarios' \in [ScenarioIds -> [name : Names \cup {NoName}, shown : BOOLEAN]],
           environments' \in [EnvironmentIds -> Names \cup {NoName}],
           forms' \in [Browsers -> Form], story' \in [ScenarioIds -> Story],
           links' \subseteq ScenarioIds \X EnvironmentIds,
           \A s \in ScenarioIds : scenarios'[s] = NoScenario \/ scenarios'[s].name \in Names,
           \A s \in ScenarioIds, e \in EnvironmentIds :
               <<s, e>> \in links' => scenarios'[s].name \in Names /\ environments'[e] \in Names
    PROVE  CatalogTyped'
<1>1. NoName \notin Names
  BY CatalogAssumption
<1>2. \A s \in ScenarioIds : scenarios'[s].name \in Names => scenarios'[s] # NoScenario
  BY <1>1 DEF NoScenario
<1>3. links' \subseteq ScenarioRows' \X EnvironmentRows'
  BY <1>1, <1>2 DEF ScenarioRows, EnvironmentRows
<1>4. QED  BY <1>3 DEF CatalogTyped, CatalogTypeOK, ScenarioRows

LEMMA NewIdsAreFree ==
    /\ FirstFree(ScenarioRows) \notin ScenarioRows
    /\ FirstFree(EnvironmentRows) \notin EnvironmentRows
<1>1. ScenarioRows \in SUBSET (1..MaxScenario) /\ MaxScenario \in Nat
  BY LibrariesAssumption DEF ScenarioRows, ScenarioIds
<1>2. EnvironmentRows \in SUBSET (1..MaxEnvironment) /\ MaxEnvironment \in Nat
  BY CatalogAssumption DEF EnvironmentRows, EnvironmentIds
<1>3. QED  BY <1>1, <1>2, FirstFreeIsFree

LEMMA EnvironmentIdsAreNumbers == EnvironmentIds \subseteq Nat \ {0} /\ Nil \notin EnvironmentIds
BY CatalogAssumption DEF EnvironmentIds, Nil

\* the names of a scenario that a step leaves alone
LEMMA NameIsLeft ==
    ASSUME NEW s \in ScenarioIds, HomeIsLinked(s), NameStands(s),
           scenarios'[s].name = scenarios[s].name, story'[s] = story[s],
           story[s].home \in EnvironmentIds \cup {Nil},
           \A e \in EnvironmentIds : <<s, e>> \in links' <=> <<s, e>> \in links,
           \A e \in EnvironmentIds : <<s, e>> \in links => environments'[e] = environments[e]
    PROVE  HomeIsLinked(s)' /\ NameStands(s)'
<1>1. HomeIsLinked(s)'
  BY EnvironmentIdsAreNumbers DEF HomeIsLinked
<1>2. story[s].home # Nil => environments'[story[s].home] = environments[story[s].home]
  BY DEF HomeIsLinked
<1>3. NameStands(s)'
  BY <1>2 DEF NameStands
<1>4. QED  BY <1>1, <1>3

LEMMA StoryIsTyped ==
    ASSUME CatalogTyped, NEW s \in ScenarioIds
    PROVE  /\ story[s] \in Story /\ story[s].home \in EnvironmentIds \cup {Nil}
           /\ scenarios[s].name \in Names \cup {NoName} /\ scenarios[s].shown \in BOOLEAN
BY DEF CatalogTyped, CatalogTypeOK, Story

\* the picks, when the templates and the awards stay
LEMMA PicksStay ==
    ASSUME CatalogInv, UNCHANGED <<libraryVars, forms>>,
           \A s \in ScenarioIds : story'[s].picked = story[s].picked /\ story'[s].stale = story[s].stale
    PROVE  LibrariesInv' /\ PicksAreSound'
<1>1. LibrariesMove
  BY NothingMoves DEF CatalogInv, LibrariesInv, libraryVars
<1>2. LibrariesInv'
  BY <1>1, PagesStay DEF CatalogInv, libraryVars
<1>3. PicksAreSound'
  BY DEF CatalogInv, PicksAreSound, PickFits, libraryVars
<1>4. QED  BY <1>2, <1>3

LEMMA AwardGiven ==
    ASSUME LibrariesInv, UNCHANGED <<templates, defaults, scripts, made, pages, editors>>,
           NEW s \in ScenarioIds, NEW k \in RowsOf(templates) \cup {Nil}, awards' = [awards EXCEPT ![s] = k]
    PROVE  LibrariesInv'
<1>1. k \in RowIds \cup {Nil} /\ awards \in [ScenarioIds -> RowIds \cup {Nil}]
  BY DEF RowsOf, LibrariesInv, RowsInv, RowTypeOK
<1>2. RowTypeOK' /\ RowsAreSound'
  BY <1>1 DEF LibrariesInv, RowsInv, RowTypeOK, RowsAreSound
<1>3. AwardsAreSound'
  BY <1>1 DEF LibrariesInv, RowsInv, AwardsAreSound
<1>4. PagesFit' /\ EditorsFit'
  BY DEF LibrariesInv, PagesFit, EditorsFit
<1>5. QED  BY <1>2, <1>3, <1>4 DEF LibrariesInv, RowsInv

LEMMA LibrariesStepKeepsCatalog ==
    ASSUME CatalogInv, Certifying \/ Scripting, UNCHANGED catalogVars
    PROVE  CatalogInv'
<1>1. LibrariesMove /\ LibrariesInv'
  BY LibrariesAreKept DEF CatalogInv
<1>2. CatalogTyped'
  BY DEF CatalogInv, CatalogTyped, CatalogTypeOK, catalogVars, ScenarioRows, EnvironmentRows
<1>3. NamesAreSound'
  BY DEF CatalogInv, NamesAreSound, HomeIsLinked, NameStands, catalogVars, ScenarioRows
<1>4. /\ templates \in Rows /\ templates' \in Rows /\ Numbered(templates, made)
      /\ Grown(templates, templates', made, made') /\ AwardsMove /\ made \in Nat /\ made' \in Nat /\ made <= made'
  BY <1>1 DEF CatalogInv, LibrariesInv, RowsInv, RowTypeOK, RowsAreSound, LibrariesMove, RowsMove, Grown
<1>5. ASSUME NEW b \in Browsers  PROVE DetailsFit(forms'[b].typed, templates', made')
  <2> DEFINE d == forms[b].typed
  <2>1. DetailsFit(d, templates, made) /\ forms'[b].typed = d
    BY DEF CatalogInv, PicksAreSound, catalogVars
  <2>2. \A i \in 1..made : i \in 1..made'
    BY <1>4
  <2> HIDE DEF d
  <2>3. DetailsFit(d, templates', made')
    BY <1>4, <2>1, <2>2, FitsIsKept DEF DetailsFit
  <2>4. QED  BY <2>1, <2>3
<1>6. ASSUME NEW s \in ScenarioIds  PROVE PickFits(story'[s], awards'[s], templates', made')
  <2> DEFINE told == story[s]
             n == told.picked
  <2>1. /\ PickFits(told, awards[s], templates, made) /\ story'[s] = told
        /\ awards[s] # Nil => awards[s] \in RowsOf(templates)
    BY DEF CatalogInv, PicksAreSound, catalogVars, LibrariesInv, RowsInv, AwardsAreSound
  <2>2. n \in 0..made /\ n \in 0..made'
    BY <1>4, <2>1 DEF PickFits
  <2>3. ~Exists(templates, n) => ~Exists(templates', n)
    <3>1. CASE n = 0
      <4>1. \A k \in RowsOf(templates') : templates'[k].serial \in 1..made'
        BY <1>1 DEF LibrariesInv, RowsInv, RowsAreSound, Numbered
      <4>2. QED  BY <3>1, <4>1 DEF Exists
    <3>2. CASE n # 0
      BY <1>4, <2>2, <3>2, GoneIsGone
    <3>3. QED  BY <3>1, <3>2
  <2>4. awards'[s] = awards[s] \/ (awards[s] # Nil /\ awards'[s] = Nil /\ ~Exists(templates', templates[awards[s]].serial))
    BY <1>4 DEF AwardsMove
  <2>5. awards'[s] = awards[s] /\ awards[s] # Nil => templates'[awards[s]].serial = templates[awards[s]].serial
    BY <1>4 DEF AwardsMove
  <2>6. awards'[s] # awards[s] => awards[s] # Nil /\ awards'[s] = Nil /\ ~Exists(templates', templates[awards[s]].serial)
    BY <2>4
  <2>7. CASE told.stale \/ awards[s] = Nil
    <3>1. ~Exists(templates', n) /\ (told.stale \/ awards'[s] = Nil)
      BY <2>1, <2>3, <2>6, <2>7 DEF PickFits
    <3>2. QED  BY <2>1, <2>2, <3>1 DEF PickFits
  <2>8. CASE ~told.stale /\ awards[s] # Nil
    <3>1. templates[awards[s]].serial = n
      BY <2>1, <2>8 DEF PickFits
    <3>2. QED  BY <2>1, <2>2, <2>5, <2>6, <2>8, <3>1 DEF PickFits
  <2>9. QED  BY <2>7, <2>8
<1>7. PicksAreSound'
  BY <1>5, <1>6 DEF PicksAreSound
<1>8. QED  BY <1>1, <1>2, <1>3, <1>7 DEF CatalogInv

LEMMA TypedNow ==
    ASSUME CatalogTyped
    PROVE  /\ scenarios \in [ScenarioIds -> [name : Names \cup {NoName}, shown : BOOLEAN]]
           /\ environments \in [EnvironmentIds -> Names \cup {NoName}]
           /\ forms \in [Browsers -> Form] /\ story \in [ScenarioIds -> Story]
           /\ links \subseteq ScenarioIds \X EnvironmentIds
           /\ \A s \in ScenarioIds : scenarios[s] = NoScenario \/ scenarios[s].name \in Names
           /\ \A s \in ScenarioIds, e \in EnvironmentIds :
                  <<s, e>> \in links => s \in ScenarioRows /\ scenarios[s].name \in Names
                                        /\ e \in EnvironmentRows /\ environments[e] \in Names
<1>1. links \subseteq ScenarioRows \X EnvironmentRows
  BY DEF CatalogTyped, CatalogTypeOK
<1>2. links \subseteq ScenarioIds \X EnvironmentIds
  BY <1>1 DEF ScenarioRows, EnvironmentRows
<1>3. \A s \in ScenarioIds : scenarios[s] = NoScenario \/ scenarios[s].name \in Names
  BY DEF CatalogTyped, ScenarioRows
<1>4. \A s \in ScenarioIds, e \in EnvironmentIds : <<s, e>> \in links => s \in ScenarioRows /\ e \in EnvironmentRows
  BY <1>1
<1>5. QED  BY <1>2, <1>3, <1>4, RowsAreNamed DEF CatalogTyped, CatalogTypeOK

LEMMA FormChanges ==
    ASSUME CatalogInv, UNCHANGED <<libraryVars, scenarios, environments, links, story>>, NEW b \in Browsers, NEW f \in Form,
           DetailsFit(f.typed, templates, made), forms' = [forms EXCEPT ![b] = f]
    PROVE  CatalogInv'
<1>1. LibrariesInv'
  BY NothingMoves, PagesStay DEF CatalogInv, LibrariesInv, libraryVars
<1>2. forms \in [Browsers -> Form]
  BY TypedNow DEF CatalogInv
<1>3. CatalogTyped'
  BY <1>2 DEF CatalogInv, CatalogTyped, CatalogTypeOK, ScenarioRows, EnvironmentRows
<1>4. PicksAreSound'
  BY <1>2 DEF CatalogInv, PicksAreSound, libraryVars
<1>5. NamesAreSound'
  BY DEF CatalogInv, NamesAreSound, HomeIsLinked, NameStands, ScenarioRows
<1>6. QED  BY <1>1, <1>3, <1>4, <1>5 DEF CatalogInv

LEMMA StoredIsSound ==
    ASSUME CatalogInv, NEW s \in ScenarioIds
    PROVE  Stored(s) \in Details /\ DetailsFit(Stored(s), templates, made)
<1>1. /\ awards[s] \in RowIds \cup {Nil}
      /\ awards[s] # Nil => awards[s] \in RowsOf(templates)
      /\ templates \in Rows /\ Numbered(templates, made)
  BY DEF CatalogInv, LibrariesInv, RowsInv, RowTypeOK, RowsAreSound, AwardsAreSound
<1>2. scenarios[s].name \in Names \cup {NoName}
  BY StoryIsTyped DEF CatalogInv
<1>3. CASE awards[s] = Nil
  BY <1>2, <1>3 DEF Stored, Details, SerialOf, DetailsFit
<1>4. CASE awards[s] # Nil
  <2>1. /\ templates[awards[s]].serial \in 1..made /\ Fits(templates, awards[s], templates[awards[s]].serial)
        /\ templates[awards[s]] \in Row
    BY <1>1, <1>4, StoredFits DEF RowsOf, Rows
  <2>2. Stored(s) = [name |-> scenarios[s].name, award |-> awards[s], picked |-> templates[awards[s]].serial]
    BY <1>4 DEF Stored, SerialOf
  <2>3. templates[awards[s]].serial \in Nat
    BY <2>1 DEF Row
  <2>4. QED  BY <1>1, <1>2, <1>4, <2>1, <2>2, <2>3 DEF Details, DetailsFit
<1>5. QED  BY <1>3, <1>4

LEMMA FormActionsKeep ==
    ASSUME CatalogInv, NEW b \in Browsers,
           \/ OpenNew(b) \/ \E s \in ScenarioIds : OpenForm(b, s)
           \/ RefetchDetails(b) \/ CancelForm(b)
           \/ \E n \in Names : TypeName(b, n)
           \/ \E k \in RowIds \cup {Nil} : ChooseCertificate(b, k)
    PROVE  CatalogInv'
<1> DEFINE Taken(f) == f \in Form /\ DetailsFit(f.typed, templates, made) /\ forms' = [forms EXCEPT ![b] = f]
<1>1. UNCHANGED <<libraryVars, scenarios, environments, links, story>>
  BY DEF OpenNew, OpenForm, RefetchDetails, CancelForm, TypeName, ChooseCertificate
<1>2. NoForm \in Form /\ DetailsFit(NoForm.typed, templates, made)
  BY DEF NoForm, Form, NoDetails, Details, DetailsFit
<1>3. forms[b] \in Form /\ DetailsFit(forms[b].typed, templates, made)
  BY TypedNow DEF CatalogInv, PicksAreSound
<1>4. CASE OpenNew(b)
  <2> DEFINE f == [NoForm EXCEPT !.for = New]
  <2>1. Taken(f)
    BY <1>2, <1>4 DEF OpenNew, Form
  <2>2. QED  BY <1>1, <2>1, FormChanges
<1>5. ASSUME NEW s \in ScenarioIds, forms' = [forms EXCEPT ![b] = [for |-> s, read |-> Stored(s), typed |-> Stored(s)]]
      PROVE  CatalogInv'
  <2> DEFINE f == [for |-> s, read |-> Stored(s), typed |-> Stored(s)]
  <2>1. Taken(f)
    BY <1>5, StoredIsSound DEF Form
  <2>2. QED  BY <1>1, <2>1, FormChanges
<1>6. CASE \E s \in ScenarioIds : OpenForm(b, s)
  BY <1>5, <1>6 DEF OpenForm
<1>7. CASE RefetchDetails(b)
  BY <1>5, <1>7 DEF RefetchDetails, ScenarioRows
<1>8. CASE CancelForm(b)
  BY <1>1, <1>2, <1>8, FormChanges DEF CancelForm
<1>9. ASSUME NEW n \in Names, TypeName(b, n)  PROVE CatalogInv'
  <2> DEFINE f == [forms[b] EXCEPT !.typed = [forms[b].typed EXCEPT !.name = n]]
  <2>1. Taken(f)
    BY <1>3, <1>9 DEF TypeName, Form, Details, DetailsFit
  <2>2. QED  BY <1>1, <2>1, FormChanges
<1>10. ASSUME NEW k \in RowIds \cup {Nil}, ChooseCertificate(b, k)  PROVE CatalogInv'
  <2> DEFINE n == IF k = Nil THEN 0 ELSE pages[b].list.rows[k].serial
             typed == [name |-> forms[b].typed.name, award |-> k, picked |-> n]
             f == [forms[b] EXCEPT !.typed = typed]
  <2>1. k \in RowsOf(pages[b].list.rows) \cup {Nil}
    BY <1>10 DEF ChooseCertificate
  <2>2. IF k = Nil THEN n = 0 ELSE n \in 1..made /\ Fits(templates, k, n)
    <3>1. ListFits(pages[b].list, templates, made)
      BY PageIsSound DEF CatalogInv
    <3>2. QED  BY <2>1, <3>1 DEF ListFits
  <2>3. n \in Nat
    BY <2>2 DEF Nil
  <2>4. forms' = [forms EXCEPT ![b] = f]
    BY <1>10 DEF ChooseCertificate
  <2> HIDE DEF n
  <2>5. f \in Form /\ f.typed = typed /\ typed.award = k /\ typed.picked = n
    BY <1>3, <2>3 DEF Form, Details
  <2> HIDE DEF f, typed
  <2>6. DetailsFit(f.typed, templates, made)
    BY <2>2, <2>5 DEF DetailsFit
  <2>7. QED  BY <1>1, <2>4, <2>5, <2>6, FormChanges
<1>11. QED  BY <1>4, <1>6, <1>7, <1>8, <1>9, <1>10

LEMMA TrimmedNames == \A n \in Names : Trimmed(n) \in Names /\ n # NoName
BY CatalogAssumption, Zenon

\* saving the details of a scenario, of one that was or of a new one
LEMMA SavedKeeps ==
    ASSUME CatalogInv, NEW b \in Browsers, NEW s \in ScenarioIds, Acceptable(forms[b].typed),
           NEW r \in [name : Names, shown : BOOLEAN], r.name = Trimmed(forms[b].typed.name),
           scenarios' = [scenarios EXCEPT ![s] = r],
           awards' = [awards EXCEPT ![s] = forms[b].typed.award],
           forms' = [forms EXCEPT ![b] = NoForm],
           story' = [story EXCEPT ![s] = ToldBy(s, forms[b].typed)],
           UNCHANGED <<templates, defaults, scripts, made, pages, editors, environments, links>>
    PROVE  CatalogInv'
<1> DEFINE d == forms[b].typed
           n == Trimmed(d.name)
           told == ToldBy(s, d)
<1>1. /\ d \in Details /\ d.award \in RowsOf(templates) \cup {Nil} /\ n \in Names /\ DetailsFit(d, templates, made)
      /\ forms \in [Browsers -> Form]
  BY TypedNow, TrimmedNames DEF CatalogInv, PicksAreSound, Acceptable, Form
<1>2. LibrariesInv'
  BY <1>1, AwardGiven DEF CatalogInv
<1>3. NoForm \in Form /\ DetailsFit(NoForm.typed, templates, made)
  BY DEF NoForm, Form, NoDetails, Details, DetailsFit
<1>4. made \in Nat /\ Numbered(templates, made) /\ \A k \in RowsOf(templates) : templates[k].serial \in 1..made
  BY DEF CatalogInv, LibrariesInv, RowsInv, RowTypeOK, RowsAreSound, Numbered
<1>5. d.picked \in 0..made /\ (d.award # Nil => d.award \in RowsOf(templates) /\ d.picked \in 1..made /\ Fits(templates, d.award, d.picked))
      /\ (d.award = Nil => d.picked = 0)
  BY <1>1, <1>4 DEF DetailsFit
<1>6. /\ told.picked = d.picked /\ told.stale = (SerialOf(d.award) # d.picked)
      /\ IF n = scenarios[s].name THEN told.home = story[s].home /\ told.chosen = story[s].chosen /\ told.mixed = story[s].mixed
         ELSE /\ told.home = Nil /\ told.chosen = n
              /\ told.mixed = (\E e \in EnvironmentRows : <<s, e>> \in links /\ environments[e] = n)
      /\ told \in Story
  <2>1. d.picked \in Nat
    BY <1>1 DEF Details
  <2>2. story[s] \in Story
    BY StoryIsTyped DEF CatalogInv
  <2>3. CASE n = scenarios[s].name
    <3>1. told = [story[s] EXCEPT !.picked = d.picked, !.stale = SerialOf(d.award) # d.picked]
      BY <2>3 DEF ToldBy, Picked
    <3> HIDE DEF told, n, d
    <3>2. QED  BY <2>1, <2>2, <2>3, <3>1 DEF Story
  <2>4. CASE n # scenarios[s].name
    <3>1. told = [home |-> Nil, chosen |-> n, mixed |-> \E e \in EnvironmentRows : <<s, e>> \in links /\ environments[e] = n,
                  picked |-> d.picked, stale |-> SerialOf(d.award) # d.picked]
      BY <2>4 DEF ToldBy, Picked
    <3> HIDE DEF told, n, d
    <3>2. QED  BY <1>1, <2>1, <2>4, <3>1 DEF Story
  <2>5. QED  BY <2>3, <2>4
<1>7. /\ story'[s] = told /\ scenarios'[s] = r /\ r.name = n /\ awards'[s] = d.award
      /\ \A t \in ScenarioIds \ {s} : story'[t] = story[t] /\ scenarios'[t] = scenarios[t] /\ awards'[t] = awards[t]
  BY TypedNow DEF CatalogInv, LibrariesInv, RowsInv, RowTypeOK
<1> HIDE DEF told, n
<1>8. CatalogTyped'
  <2>1. /\ scenarios' \in [ScenarioIds -> [name : Names \cup {NoName}, shown : BOOLEAN]]
        /\ forms' \in [Browsers -> Form] /\ story' \in [ScenarioIds -> Story]
    BY <1>3, <1>6, TypedNow DEF CatalogInv, told
  <2>2. \A t \in ScenarioIds : scenarios'[t] = NoScenario \/ scenarios'[t].name \in Names
    BY <1>7, TypedNow DEF CatalogInv
  <2>3. QED  BY <1>1, <1>7, <2>1, <2>2, TypedNow, TypedAfter DEF CatalogInv
<1>9. PicksAreSound'
  <2>1. \A c \in Browsers : DetailsFit(forms'[c].typed, templates', made')
    BY <1>1, <1>3 DEF CatalogInv, PicksAreSound
  <2>2. PickFits(told, d.award, templates, made)
    <3>1. CASE d.award = Nil
      <4>1. told.picked = 0 /\ ~Exists(templates, 0)
        BY <1>4, <1>5, <1>6, <3>1 DEF Exists
      <4>2. QED  BY <1>4, <3>1, <4>1 DEF PickFits
    <3>2. CASE d.award # Nil
      <4>1. SerialOf(d.award) = templates[d.award].serial
        BY <3>2 DEF SerialOf
      <4>2. told.stale => ~Exists(templates, told.picked)
        BY <1>5, <1>6, <3>2, <4>1 DEF Fits
      <4>3. QED  BY <1>5, <1>6, <3>2, <4>1, <4>2 DEF PickFits
    <3>3. QED  BY <3>1, <3>2
  <2>3. \A t \in ScenarioIds : PickFits(story'[t], awards'[t], templates', made')
    BY <1>7, <2>2 DEF CatalogInv, PicksAreSound
  <2>4. QED  BY <2>1, <2>3 DEF PicksAreSound
<1>10. ASSUME NEW t \in ScenarioRows'  PROVE HomeIsLinked(t)' /\ NameStands(t)'
  <2>1. CASE t # s
    <3>1. t \in ScenarioRows /\ t \in ScenarioIds
      BY <1>7, <2>1 DEF ScenarioRows
    <3>2. HomeIsLinked(t) /\ NameStands(t)
      BY <3>1 DEF CatalogInv, NamesAreSound
    <3>3. QED  BY <1>7, <2>1, <3>1, <3>2, StoryIsTyped, NameIsLeft DEF CatalogInv
  <2>2. CASE t = s /\ n = scenarios[s].name
    <3>1. s \in ScenarioRows
      BY <1>1, <2>2, RowsAreNamed DEF CatalogInv
    <3>2. HomeIsLinked(s) /\ NameStands(s)
      BY <3>1 DEF CatalogInv, NamesAreSound
    <3>3. QED  BY <1>6, <1>7, <2>2, <3>2 DEF HomeIsLinked, NameStands
  <2>3. CASE t = s /\ n # scenarios[s].name
    <3>1. HomeIsLinked(s)'
      BY <1>6, <1>7, <2>3 DEF HomeIsLinked
    <3>2. \A e \in EnvironmentIds : <<s, e>> \in links => e \in EnvironmentRows
      BY TypedNow DEF CatalogInv
    <3>3. NameStands(s)'
      BY <1>6, <1>7, <2>3, <3>2 DEF NameStands
    <3>4. QED  BY <2>3, <3>1, <3>3
  <2>4. QED  BY <2>1, <2>2, <2>3
<1>11. NamesAreSound'
  BY <1>10 DEF NamesAreSound
<1>12. QED  BY <1>2, <1>8, <1>9, <1>11 DEF CatalogInv

LEMMA SavesKeep ==
    ASSUME CatalogInv, NEW b \in Browsers, SaveForm(b) \/ CreateScenario(b)
    PROVE  CatalogInv'
<1> DEFINE d == forms[b].typed
           n == Trimmed(d.name)
<1>1. Acceptable(d) => n \in Names
  BY TrimmedNames DEF Acceptable
<1>2. CASE SaveForm(b)
  <2> DEFINE s == forms[b].for
             r == [name |-> n, shown |-> scenarios[s].shown]
  <2>1. /\ s \in ScenarioRows /\ Acceptable(d) /\ scenarios' = [scenarios EXCEPT ![s].name = n]
        /\ awards' = [awards EXCEPT ![s] = d.award] /\ forms' = [forms EXCEPT ![b] = NoForm]
        /\ story' = [story EXCEPT ![s] = ToldBy(s, d)]
        /\ UNCHANGED <<templates, defaults, scripts, made, pages, editors, environments, links>>
    BY <1>2 DEF SaveForm
  <2>2. s \in ScenarioIds
    BY <2>1 DEF ScenarioRows
  <2>3. scenarios[s] \in [name : Names \cup {NoName}, shown : BOOLEAN]
    BY <2>2, TypedNow DEF CatalogInv
  <2>4. [scenarios[s] EXCEPT !.name = n] = r
    BY <2>3
  <2>5. r \in [name : Names, shown : BOOLEAN] /\ r.name = n
    BY <1>1, <2>1, <2>3
  <2>6. scenarios' = [scenarios EXCEPT ![s] = r]
    BY <2>1, <2>4
  <2>7. QED  BY <2>1, <2>2, <2>5, <2>6, SavedKeeps
<1>3. CASE CreateScenario(b)
  <2> DEFINE s == FirstFree(ScenarioRows)
             r == [name |-> n, shown |-> TRUE]
  <2>1. /\ s \in ScenarioIds /\ Acceptable(d) /\ scenarios' = [scenarios EXCEPT ![s] = r]
        /\ awards' = [awards EXCEPT ![s] = d.award] /\ forms' = [forms EXCEPT ![b] = NoForm]
        /\ story' = [story EXCEPT ![s] = ToldBy(s, d)]
        /\ UNCHANGED <<templates, defaults, scripts, made, pages, editors, environments, links>>
    BY <1>3 DEF CreateScenario
  <2>2. r \in [name : Names, shown : BOOLEAN] /\ r.name = n
    BY <1>1, <2>1
  <2> HIDE DEF s
  <2>3. QED  BY <2>1, <2>2, SavedKeeps
<1>4. QED  BY <1>2, <1>3

LEMMA NoStoryIsOne ==
    NoStory \in Story /\ NoStory.home = Nil /\ NoStory.picked = 0 /\ ~NoStory.stale
BY DEF NoStory, Story

LEMMA NothingHasNoSerial ==
    ASSUME RowsAreSound, made \in Nat
    PROVE  ~Exists(templates, 0)
<1>1. \A k \in RowsOf(templates) : templates[k].serial \in 1..made
  BY DEF RowsAreSound, Numbered
<1>2. QED  BY <1>1 DEF Exists

LEMMA RegisterKeeps ==
    ASSUME CatalogInv, NEW n \in Names, RegisterWithScenario(n)
    PROVE  CatalogInv'
<1> DEFINE e == FirstFree(EnvironmentRows)
           s == FirstFree(ScenarioRows)
           told == IF Trimmed(n) = n THEN [NoStory EXCEPT !.home = e] ELSE [NoStory EXCEPT !.chosen = Trimmed(n)]
           r == [name |-> Trimmed(n), shown |-> TRUE]
<1>1. /\ e \in EnvironmentIds /\ s \in ScenarioIds /\ e \notin EnvironmentRows /\ s \notin ScenarioRows
      /\ environments' = [environments EXCEPT ![e] = n]
      /\ scenarios' = [scenarios EXCEPT ![s] = r]
      /\ awards' = [awards EXCEPT ![s] = Nil]
      /\ links' = links \cup {<<s, e>>}
      /\ story' = [story EXCEPT ![s] = told]
      /\ UNCHANGED <<templates, defaults, scripts, made, pages, editors, forms>>
  BY NewIdsAreFree DEF RegisterWithScenario
<1>2. Trimmed(n) \in Names
  BY TrimmedNames
<1> HIDE DEF e, s
<1>3. told \in Story /\ told.picked = 0 /\ ~told.stale
  BY <1>1, <1>2 DEF NoStory, Story
<1>4. IF Trimmed(n) = n THEN told.home = e ELSE told.home = Nil /\ told.chosen = Trimmed(n)
  BY DEF NoStory
<1> HIDE DEF told
<1>5. LibrariesInv'
  BY <1>1, AwardGiven DEF CatalogInv
<1>6. /\ story'[s] = told /\ scenarios'[s] = r /\ awards'[s] = Nil /\ environments'[e] = n
      /\ \A t \in ScenarioIds \ {s} : story'[t] = story[t] /\ scenarios'[t] = scenarios[t] /\ awards'[t] = awards[t]
      /\ \A f \in EnvironmentIds \ {e} : environments'[f] = environments[f]
  BY <1>1, TypedNow DEF CatalogInv, LibrariesInv, RowsInv, RowTypeOK
<1>7. \A t \in ScenarioIds, f \in EnvironmentIds : <<t, f>> \in links => t # s /\ f # e
  BY <1>1, TypedNow DEF CatalogInv
<1>8. CatalogTyped'
  <2>1. /\ scenarios' \in [ScenarioIds -> [name : Names \cup {NoName}, shown : BOOLEAN]]
        /\ environments' \in [EnvironmentIds -> Names \cup {NoName}]
        /\ forms' \in [Browsers -> Form] /\ story' \in [ScenarioIds -> Story]
    BY <1>1, <1>2, <1>3, TypedNow DEF CatalogInv
  <2>2. links' \subseteq ScenarioIds \X EnvironmentIds
    BY <1>1, TypedNow DEF CatalogInv
  <2>3. \A t \in ScenarioIds : scenarios'[t] = NoScenario \/ scenarios'[t].name \in Names
    BY <1>2, <1>6, TypedNow DEF CatalogInv
  <2>4. ASSUME NEW t \in ScenarioIds, NEW f \in EnvironmentIds, <<t, f>> \in links'
        PROVE  scenarios'[t].name \in Names /\ environments'[f] \in Names
    <3>1. CASE <<t, f>> \in links
      <4>1. t # s /\ f # e
        BY <1>7, <3>1
      <4>2. scenarios[t].name \in Names /\ environments[f] \in Names
        BY <3>1, TypedNow DEF CatalogInv
      <4>3. QED  BY <1>6, <4>1, <4>2
    <3>2. CASE <<t, f>> \notin links
      <4>1. t = s /\ f = e
        BY <1>1, <2>4, <3>2
      <4>2. QED  BY <1>2, <1>6, <4>1
    <3>3. QED  BY <3>1, <3>2
  <2>5. QED  BY <2>1, <2>2, <2>3, <2>4, TypedAfter
<1>9. PicksAreSound'
  <2>1. ~Exists(templates, 0) /\ made \in Nat
    BY NothingHasNoSerial DEF CatalogInv, LibrariesInv, RowsInv, RowTypeOK
  <2>2. PickFits(told, Nil, templates, made)
    BY <1>3, <2>1 DEF PickFits
  <2>3. QED  BY <1>1, <1>6, <2>2 DEF CatalogInv, PicksAreSound
<1>10. ASSUME NEW t \in ScenarioRows'  PROVE HomeIsLinked(t)' /\ NameStands(t)'
  <2>1. CASE t # s
    <3>1. t \in ScenarioRows /\ t \in ScenarioIds
      BY <1>6, <2>1 DEF ScenarioRows
    <3>2. HomeIsLinked(t) /\ NameStands(t)
      BY <3>1 DEF CatalogInv, NamesAreSound
    <3>3. \A f \in EnvironmentIds : <<t, f>> \in links' <=> <<t, f>> \in links
      BY <1>1, <2>1
    <3>4. \A f \in EnvironmentIds : <<t, f>> \in links => environments'[f] = environments[f]
      BY <1>6, <1>7, <3>1
    <3>5. QED  BY <1>6, <2>1, <3>1, <3>2, <3>3, <3>4, StoryIsTyped, NameIsLeft DEF CatalogInv
  <2>2. CASE t = s
    <3>1. \A f \in EnvironmentIds : <<t, f>> \in links' => f = e
      BY <1>1, <1>7, <2>2
    <3>2. HomeIsLinked(t)'
      BY <1>1, <1>4, <1>6, <2>2 DEF HomeIsLinked
    <3>3. e # Nil
      BY <1>1, EnvironmentIdsAreNumbers
    <3>4. NameStands(t)'
      BY <1>4, <1>6, <2>2, <3>1, <3>3 DEF NameStands
    <3>5. QED  BY <3>2, <3>4
  <2>3. QED  BY <2>1, <2>2
<1>11. NamesAreSound'
  BY <1>10 DEF NamesAreSound
<1>12. QED  BY <1>5, <1>8, <1>9, <1>11 DEF CatalogInv

LEMMA RegisterAloneKeeps ==
    ASSUME CatalogInv, NEW n \in Names, RegisterAlone(n)
    PROVE  CatalogInv'
<1> DEFINE e == FirstFree(EnvironmentRows)
<1>1. /\ e \in EnvironmentIds /\ e \notin EnvironmentRows /\ environments' = [environments EXCEPT ![e] = n]
      /\ UNCHANGED <<libraryVars, scenarios, links, forms, story>>
  BY NewIdsAreFree DEF RegisterAlone
<1> HIDE DEF e
<1>2. environments'[e] = n /\ \A f \in EnvironmentIds \ {e} : environments'[f] = environments[f]
  BY <1>1, TypedNow DEF CatalogInv
<1>3. \A t \in ScenarioIds, f \in EnvironmentIds : <<t, f>> \in links => environments'[f] = environments[f]
  BY <1>1, <1>2, TypedNow DEF CatalogInv
<1>4. LibrariesInv' /\ PicksAreSound'
  BY <1>1, PicksStay
<1>5. CatalogTyped'
  <2>1. environments' \in [EnvironmentIds -> Names \cup {NoName}]
    BY <1>1, TypedNow DEF CatalogInv
  <2>2. QED  BY <1>1, <1>3, <2>1, TypedNow, TypedAfter DEF CatalogInv
<1>6. ASSUME NEW t \in ScenarioRows'  PROVE HomeIsLinked(t)' /\ NameStands(t)'
  <2>1. t \in ScenarioRows /\ t \in ScenarioIds
    BY <1>1 DEF ScenarioRows
  <2>2. HomeIsLinked(t) /\ NameStands(t)
    BY <2>1 DEF CatalogInv, NamesAreSound
  <2>3. QED  BY <1>1, <1>3, <2>1, <2>2, StoryIsTyped, NameIsLeft DEF CatalogInv
<1>7. QED  BY <1>4, <1>5, <1>6 DEF CatalogInv, NamesAreSound

\* what a rename of an environment does to the names of the scenarios
LEMMA ScenariosRenamed ==
    ASSUME CatalogTyped, NEW e \in EnvironmentRows, NEW n \in Names, scenarios' = RenamedScenarios(e, n)
    PROVE  /\ scenarios' \in [ScenarioIds -> [name : Names \cup {NoName}, shown : BOOLEAN]]
           /\ \A s \in ScenarioIds : scenarios'[s] = NoScenario \/ scenarios'[s].name \in Names
           /\ \A s \in ScenarioIds : scenarios[s].name \in Names => scenarios'[s].name \in Names
           /\ \A s \in ScenarioIds : s \in ScenarioRows' <=> s \in ScenarioRows
           /\ \A s \in ScenarioIds :
                  scenarios'[s].name = IF <<s, e>> \in links /\ scenarios[s].name = environments[e] THEN n ELSE scenarios[s].name
<1>1. /\ scenarios \in [ScenarioIds -> [name : Names \cup {NoName}, shown : BOOLEAN]]
      /\ \A s \in ScenarioIds : scenarios[s] = NoScenario \/ scenarios[s].name \in Names
      /\ n # NoName
  BY TypedNow, TrimmedNames
<1>2. \A s \in ScenarioIds : s \in Followers(e) <=> <<s, e>> \in links /\ scenarios[s].name = environments[e]
  BY DEF Followers, Linked
<1>3. e \in EnvironmentIds /\ environments[e] \in Names
  BY RowsAreNamed
<1>4. \A s \in Followers(e) : scenarios[s].name \in Names
  BY <1>3 DEF Followers
<1>5. ASSUME NEW s \in ScenarioIds
      PROVE  /\ s \in Followers(e) => scenarios'[s] = [scenarios[s] EXCEPT !.name = n] /\ scenarios'[s].name = n
             /\ s \notin Followers(e) => scenarios'[s] = scenarios[s]
  BY <1>1 DEF RenamedScenarios
<1>6. scenarios' \in [ScenarioIds -> [name : Names \cup {NoName}, shown : BOOLEAN]]
  BY <1>1 DEF RenamedScenarios
<1>7. NoScenario.name = NoName /\ NoName \notin Names
  BY TrimmedNames DEF NoScenario
<1>8. \A s \in ScenarioIds : s \in ScenarioRows' <=> s \in ScenarioRows
  BY <1>1, <1>4, <1>5, <1>7 DEF ScenarioRows
<1>9. QED  BY <1>1, <1>2, <1>5, <1>6, <1>8

LEMMA StoryMixed ==
    ASSUME CatalogTyped, NEW mixed, story' = Mixed(mixed)
    PROVE  /\ story' \in [ScenarioIds -> Story]
           /\ \A s \in ScenarioIds :
                /\ story'[s].home = story[s].home /\ story'[s].chosen = story[s].chosen
                /\ story'[s].picked = story[s].picked /\ story'[s].stale = story[s].stale
                /\ story'[s].mixed = (s \in mixed \/ story[s].mixed)
                /\ s \notin mixed => story'[s] = story[s]
<1>1. story \in [ScenarioIds -> Story]
  BY TypedNow
<1>2. QED  BY <1>1 DEF Mixed, Story

LEMMA RenameKeeps ==
    ASSUME CatalogInv, NEW e \in EnvironmentIds, NEW n \in Names, RenameEnvironment(e, n) \/ RenameInterrupted(e, n)
    PROVE  CatalogInv'
<1> DEFINE given == {s \in Linked(e) : IF story[s].home = e THEN Namesakes(s, n) # {} ELSE scenarios[s].name = n}
           named == {s \in Linked(e) : story[s].home = e}
<1>1. /\ e \in EnvironmentRows /\ scenarios' = RenamedScenarios(e, n) /\ UNCHANGED <<libraryVars, links, forms>>
      /\ \/ environments' = [environments EXCEPT ![e] = n] /\ story' = Mixed(given)
         \/ environments' = environments /\ story' = Mixed(named)
  BY DEF RenameEnvironment, RenameInterrupted
<1>2. /\ story' \in [ScenarioIds -> Story]
      /\ \A s \in ScenarioIds :
           /\ story'[s].home = story[s].home /\ story'[s].chosen = story[s].chosen
           /\ story'[s].picked = story[s].picked /\ story'[s].stale = story[s].stale
           /\ story[s].mixed => story'[s].mixed
  <2> HIDE DEF given, named
  <2>1. QED  BY <1>1, StoryMixed DEF CatalogInv
<1>3. LibrariesInv' /\ PicksAreSound'
  BY <1>1, <1>2, PicksStay
<1>4. /\ scenarios' \in [ScenarioIds -> [name : Names \cup {NoName}, shown : BOOLEAN]]
      /\ \A s \in ScenarioIds : scenarios'[s] = NoScenario \/ scenarios'[s].name \in Names
      /\ \A s \in ScenarioIds : scenarios[s].name \in Names => scenarios'[s].name \in Names
      /\ \A s \in ScenarioIds : s \in ScenarioRows' <=> s \in ScenarioRows
      /\ \A s \in ScenarioIds :
             scenarios'[s].name = IF <<s, e>> \in links /\ scenarios[s].name = environments[e] THEN n ELSE scenarios[s].name
  BY <1>1, ScenariosRenamed DEF CatalogInv
<1>5. /\ \A f \in EnvironmentIds \ {e} : environments'[f] = environments[f]
      /\ environments'[e] \in {environments[e], n} /\ environments[e] \in Names
      /\ environments' \in [EnvironmentIds -> Names \cup {NoName}]
  BY <1>1, TypedNow, RowsAreNamed DEF CatalogInv
<1>6. CatalogTyped'
  <2>1. links \subseteq ScenarioIds \X EnvironmentIds
    BY TypedNow DEF CatalogInv
  <2>2. \A s \in ScenarioIds, f \in EnvironmentIds : <<s, f>> \in links => scenarios'[s].name \in Names /\ environments'[f] \in Names
    BY <1>4, <1>5, TypedNow DEF CatalogInv
  <2>3. QED  BY <1>1, <1>2, <1>4, <1>5, <2>1, <2>2, TypedNow, TypedAfter DEF CatalogInv
<1>7. ASSUME NEW s \in ScenarioRows'  PROVE HomeIsLinked(s)' /\ NameStands(s)'
  <2>1. s \in ScenarioIds /\ s \in ScenarioRows
    BY <1>4 DEF ScenarioRows
  <2>2. HomeIsLinked(s) /\ NameStands(s) /\ story[s].home \in EnvironmentIds \cup {Nil}
    BY <2>1, StoryIsTyped DEF CatalogInv, NamesAreSound
  <2>3. HomeIsLinked(s)'
    BY <1>1, <1>2, <2>1, <2>2 DEF HomeIsLinked
  <2>4. CASE story'[s].mixed
    BY <2>3, <2>4 DEF NameStands
  <2>5. CASE ~story'[s].mixed /\ <<s, e>> \notin links
    <3>1. scenarios'[s].name = scenarios[s].name /\ ~story[s].mixed
      BY <1>2, <1>4, <2>1, <2>5
    <3>2. \A f \in EnvironmentIds : <<s, f>> \in links => environments'[f] = environments[f]
      BY <1>5, <2>5
    <3>3. story[s].home # Nil => environments'[story[s].home] = environments[story[s].home]
      BY <2>2, <3>2 DEF HomeIsLinked
    <3>4. NameStands(s)'
      BY <1>1, <1>2, <2>1, <2>2, <3>1, <3>2, <3>3 DEF NameStands
    <3>5. QED  BY <2>3, <3>4
  <2>6. CASE ~story'[s].mixed /\ <<s, e>> \in links /\ story[s].home # e
    <3>1. ~story[s].mixed /\ environments[e] # scenarios[s].name
      BY <1>2, <2>1, <2>2, <2>6 DEF NameStands
    <3>2. scenarios'[s].name = scenarios[s].name
      BY <1>4, <2>1, <3>1
    <3>3. environments'[e] # scenarios[s].name
      <4>1. CASE environments' = environments
        BY <3>1, <4>1
      <4>2. CASE environments' = [environments EXCEPT ![e] = n] /\ story' = Mixed(given)
        <5>1. s \notin given
          <6> HIDE DEF given
          <6>1. QED  BY <2>1, <2>6, <4>2, StoryMixed DEF CatalogInv
        <5>2. scenarios[s].name # n
          BY <2>1, <2>6, <5>1 DEF Linked
        <5>3. environments'[e] = n
          BY <4>2, TypedNow DEF CatalogInv
        <5>4. QED  BY <5>2, <5>3
      <4>3. QED  BY <1>1, <4>1, <4>2
    <3>4. story[s].home # Nil => environments'[story[s].home] = environments[story[s].home]
      BY <1>5, <2>2, <2>6
    <3>5. NameStands(s)'
      BY <1>1, <1>2, <1>5, <2>1, <2>2, <3>1, <3>2, <3>3, <3>4 DEF NameStands
    <3>6. QED  BY <2>3, <3>5
  <2>7. CASE ~story'[s].mixed /\ <<s, e>> \in links /\ story[s].home = e
    <3>1. environments' = [environments EXCEPT ![e] = n] /\ story' = Mixed(given)
      <4>1. s \in named
        BY <2>1, <2>7 DEF Linked
      <4>2. story' # Mixed(named)
        <5> HIDE DEF named
        <5>1. QED  BY <2>1, <2>7, <4>1, StoryMixed DEF CatalogInv
      <4>3. QED  BY <1>1, <4>2
    <3>2. s \notin given
      <4> HIDE DEF given
      <4>1. QED  BY <2>1, <2>7, <3>1, StoryMixed DEF CatalogInv
    <3>3. Namesakes(s, n) = {}
      BY <2>1, <2>7, <3>2 DEF Linked
    <3>4. ~story[s].mixed /\ e # Nil
      BY <1>2, <2>1, <2>7, EnvironmentIdsAreNumbers
    <3>5. scenarios[s].name = environments[e]
      BY <2>2, <2>7, <3>4 DEF NameStands
    <3>6. scenarios'[s].name = n /\ environments'[e] = n
      BY <1>4, <2>1, <2>7, <3>1, <3>5, TypedNow DEF CatalogInv
    <3>7. ASSUME NEW f \in EnvironmentIds \ {e}, <<s, f>> \in links  PROVE environments'[f] # n
      <4>1. f \in EnvironmentRows
        BY <2>1, <3>7, TypedNow DEF CatalogInv
      <4>2. environments[f] # n
        BY <2>7, <3>3, <3>7, <4>1 DEF Namesakes
      <4>3. QED  BY <1>5, <4>2
    <3>8. NameStands(s)'
      BY <1>1, <1>2, <2>1, <2>7, <3>4, <3>6, <3>7 DEF NameStands
    <3>9. QED  BY <2>3, <3>8
  <2>8. QED  BY <2>4, <2>5, <2>6, <2>7
<1>8. QED  BY <1>3, <1>6, <1>7 DEF CatalogInv, NamesAreSound

LEMMA LinkKeeps ==
    ASSUME CatalogInv, NEW s \in ScenarioIds, NEW e \in EnvironmentIds, LinkEnvironment(s, e)
    PROVE  CatalogInv'
<1> DEFINE given == {t \in {s} : scenarios[s].name = environments[e]}
<1>1. /\ s \in ScenarioRows /\ e \in EnvironmentRows /\ <<s, e>> \notin links /\ links' = links \cup {<<s, e>>}
      /\ story' = Mixed(given) /\ UNCHANGED <<libraryVars, scenarios, environments, forms>>
  BY DEF LinkEnvironment
<1>2. /\ story' \in [ScenarioIds -> Story]
      /\ \A t \in ScenarioIds :
           /\ story'[t].home = story[t].home /\ story'[t].chosen = story[t].chosen
           /\ story'[t].picked = story[t].picked /\ story'[t].stale = story[t].stale
           /\ story'[t].mixed = (t \in given \/ story[t].mixed)
           /\ t \notin given => story'[t] = story[t]
  <2> HIDE DEF given
  <2>1. QED  BY <1>1, StoryMixed DEF CatalogInv
<1>3. LibrariesInv' /\ PicksAreSound'
  BY <1>1, <1>2, PicksStay
<1>4. CatalogTyped'
  <2>1. links' \subseteq ScenarioIds \X EnvironmentIds
    BY <1>1, TypedNow DEF CatalogInv
  <2>2. scenarios[s].name \in Names /\ environments[e] \in Names
    BY <1>1, RowsAreNamed DEF CatalogInv
  <2>3. \A t \in ScenarioIds, f \in EnvironmentIds : <<t, f>> \in links' => <<t, f>> \in links \/ (t = s /\ f = e)
    BY <1>1
  <2>4. \A t \in ScenarioIds, f \in EnvironmentIds : <<t, f>> \in links' => scenarios[t].name \in Names /\ environments[f] \in Names
    BY <2>2, <2>3, TypedNow DEF CatalogInv
  <2>5. QED  BY <1>1, <1>2, <2>1, <2>4, TypedNow, TypedAfter DEF CatalogInv
<1>5. ASSUME NEW t \in ScenarioRows'  PROVE HomeIsLinked(t)' /\ NameStands(t)'
  <2>1. t \in ScenarioRows /\ t \in ScenarioIds
    BY <1>1 DEF ScenarioRows
  <2>2. HomeIsLinked(t) /\ NameStands(t)
    BY <2>1 DEF CatalogInv, NamesAreSound
  <2>3. HomeIsLinked(t)'
    BY <1>1, <1>2, <2>1, <2>2 DEF HomeIsLinked
  <2>4. CASE story'[t].mixed
    BY <2>3, <2>4 DEF NameStands
  <2>5. CASE ~story'[t].mixed
    <3>1. ~story[t].mixed /\ (t = s => environments[e] # scenarios[t].name)
      BY <1>2, <2>1, <2>5
    <3>2. \A f \in EnvironmentIds : <<t, f>> \in links' => <<t, f>> \in links \/ (t = s /\ f = e)
      BY <1>1
    <3>3. NameStands(t)'
      BY <1>1, <1>2, <2>1, <2>2, <3>1, <3>2 DEF NameStands
    <3>4. QED  BY <2>3, <3>3
  <2>6. QED  BY <2>4, <2>5
<1>6. QED  BY <1>3, <1>4, <1>5 DEF CatalogInv, NamesAreSound

LEMMA StoryOrphaned ==
    ASSUME CatalogTyped, NEW e
    PROVE  /\ Orphaned(e) \in [ScenarioIds -> Story]
           /\ \A s \in ScenarioIds :
                /\ Orphaned(e)[s].picked = story[s].picked /\ Orphaned(e)[s].stale = story[s].stale
                /\ Orphaned(e)[s].mixed = story[s].mixed
                /\ IF story[s].home = e THEN Orphaned(e)[s].home = Nil /\ Orphaned(e)[s].chosen = scenarios[s].name
                   ELSE Orphaned(e)[s] = story[s]
<1>1. story \in [ScenarioIds -> Story] /\ \A s \in ScenarioIds : scenarios[s].name \in Names \cup {NoName}
  BY TypedNow
<1>2. QED  BY <1>1 DEF Orphaned, Story

\* a scenario without a link to e any more
LEMMA NameOutlivesLink ==
    ASSUME CatalogInv, NEW e \in EnvironmentIds, NEW s \in ScenarioRows,
           scenarios'[s].name = scenarios[s].name, story'[s] = Orphaned(e)[s],
           \A f \in EnvironmentIds \ {e} : <<s, f>> \in links' <=> <<s, f>> \in links,
           <<s, e>> \notin links',
           \A f \in EnvironmentIds \ {e} : environments'[f] = environments[f]
    PROVE  HomeIsLinked(s)' /\ NameStands(s)'
<1>1. s \in ScenarioIds
  BY DEF ScenarioRows
<1>2. HomeIsLinked(s) /\ NameStands(s) /\ story[s].home \in EnvironmentIds \cup {Nil}
  BY <1>1, StoryIsTyped DEF CatalogInv, NamesAreSound
<1>3. Nil \notin EnvironmentIds
  BY EnvironmentIdsAreNumbers
<1>4. /\ story'[s].mixed = story[s].mixed
      /\ IF story[s].home = e THEN story'[s].home = Nil /\ story'[s].chosen = scenarios[s].name ELSE story'[s] = story[s]
  BY <1>1, StoryOrphaned DEF CatalogInv
<1>5. \A f \in EnvironmentIds : <<s, f>> \in links' => <<s, f>> \in links /\ environments'[f] = environments[f]
  OBVIOUS
<1>6. CASE story[s].home = e
  <2>1. HomeIsLinked(s)'
    BY <1>4, <1>6 DEF HomeIsLinked
  <2>2. CASE story[s].mixed
    BY <1>4, <2>1, <2>2 DEF NameStands
  <2>3. CASE ~story[s].mixed
    <3>1. scenarios[s].name = environments[e] /\ \A f \in EnvironmentIds \ {e} : <<s, f>> \in links => environments[f] # scenarios[s].name
      BY <1>2, <1>3, <1>6, <2>3 DEF NameStands
    <3>2. QED  BY <1>3, <1>4, <1>5, <1>6, <2>1, <3>1 DEF NameStands
  <2>4. QED  BY <2>2, <2>3
<1>7. CASE story[s].home # e
  <2>1. story'[s] = story[s] /\ (story[s].home # Nil => environments'[story[s].home] = environments[story[s].home])
    BY <1>2, <1>4, <1>7
  <2>2. HomeIsLinked(s)'
    BY <1>2, <1>7, <2>1 DEF HomeIsLinked
  <2>3. NameStands(s)'
    BY <1>2, <1>5, <2>1 DEF NameStands
  <2>4. QED  BY <2>2, <2>3
<1>8. QED  BY <1>6, <1>7

LEMMA UnlinkKeeps ==
    ASSUME CatalogInv, NEW s \in ScenarioIds, NEW e \in EnvironmentIds, UnlinkEnvironment(s, e)
    PROVE  CatalogInv'
<1>1. /\ <<s, e>> \in links /\ links' = links \ {<<s, e>>} /\ story' = [story EXCEPT ![s] = Orphaned(e)[s]]
      /\ UNCHANGED <<libraryVars, scenarios, environments, forms>>
  BY DEF UnlinkEnvironment
<1> DEFINE told == Orphaned(e)[s]
<1>2. told \in Story /\ told.picked = story[s].picked /\ told.stale = story[s].stale
  BY StoryOrphaned DEF CatalogInv
<1>3. story'[s] = told /\ \A t \in ScenarioIds \ {s} : story'[t] = story[t]
  BY <1>1, TypedNow DEF CatalogInv
<1>4. story' \in [ScenarioIds -> Story]
  <2> HIDE DEF told
  <2>1. story' = [story EXCEPT ![s] = told]
    BY <1>1 DEF told
  <2>2. QED  BY <1>2, <2>1, TypedNow DEF CatalogInv
<1>5. LibrariesInv' /\ PicksAreSound'
  BY <1>1, <1>2, <1>3, PicksStay
<1>6. CatalogTyped'
  BY <1>1, <1>4, TypedNow, TypedAfter DEF CatalogInv
<1>7. ASSUME NEW t \in ScenarioRows'  PROVE HomeIsLinked(t)' /\ NameStands(t)'
  <2>1. t \in ScenarioRows /\ t \in ScenarioIds
    BY <1>1 DEF ScenarioRows
  <2>2. CASE t = s
    <3>1. \A f \in EnvironmentIds \ {e} : <<t, f>> \in links' <=> <<t, f>> \in links
      BY <1>1
    <3>2. <<t, e>> \notin links'
      BY <1>1, <2>2
    <3>3. story'[t] = Orphaned(e)[t]
      BY <1>3, <2>2
    <3>4. QED  BY <1>1, <2>1, <3>1, <3>2, <3>3, NameOutlivesLink
  <2>3. CASE t # s
    <3>1. \A f \in EnvironmentIds : <<t, f>> \in links' <=> <<t, f>> \in links
      BY <1>1, <2>3
    <3>2. HomeIsLinked(t) /\ NameStands(t)
      BY <2>1 DEF CatalogInv, NamesAreSound
    <3>3. QED  BY <1>1, <1>3, <2>1, <2>3, <3>1, <3>2, StoryIsTyped, NameIsLeft DEF CatalogInv
  <2>4. QED  BY <2>2, <2>3
<1>8. QED  BY <1>5, <1>6, <1>7 DEF CatalogInv, NamesAreSound

LEMMA DeleteWithLinksKeeps ==
    ASSUME CatalogInv, NEW e \in EnvironmentIds, DeleteWithLinks(e)
    PROVE  CatalogInv'
<1> DEFINE Orphan(s) == s \in Linked(e) /\ \A f \in EnvironmentIds : <<s, f>> \notin links'
<1>1. /\ environments' = [environments EXCEPT ![e] = NoName] /\ links' = links \ (ScenarioIds \X {e})
      /\ scenarios' = [s \in ScenarioIds |-> IF Orphan(s) THEN [scenarios[s] EXCEPT !.shown = FALSE] ELSE scenarios[s]]
      /\ story' = Orphaned(e) /\ UNCHANGED <<libraryVars, forms>>
  BY DEF DeleteWithLinks
<1>2. /\ environments' \in [EnvironmentIds -> Names \cup {NoName}]
      /\ \A f \in EnvironmentIds \ {e} : environments'[f] = environments[f]
  BY <1>1, TypedNow DEF CatalogInv
<1>3. /\ story' \in [ScenarioIds -> Story]
      /\ \A s \in ScenarioIds : story'[s] = Orphaned(e)[s]
      /\ \A s \in ScenarioIds : story'[s].picked = story[s].picked /\ story'[s].stale = story[s].stale
  BY <1>1, StoryOrphaned DEF CatalogInv
<1>4. LibrariesInv' /\ PicksAreSound'
  BY <1>1, <1>3, PicksStay
<1>5. /\ scenarios' \in [ScenarioIds -> [name : Names \cup {NoName}, shown : BOOLEAN]]
      /\ \A s \in ScenarioIds : scenarios'[s].name = scenarios[s].name
      /\ \A s \in ScenarioIds : s \notin Linked(e) => scenarios'[s] = scenarios[s]
  <2>1. scenarios \in [ScenarioIds -> [name : Names \cup {NoName}, shown : BOOLEAN]]
    BY TypedNow DEF CatalogInv
  <2> HIDE DEF Orphan
  <2>2. /\ scenarios' \in [ScenarioIds -> [name : Names \cup {NoName}, shown : BOOLEAN]]
        /\ \A s \in ScenarioIds : scenarios'[s].name = scenarios[s].name
        /\ \A s \in ScenarioIds : ~Orphan(s) => scenarios'[s] = scenarios[s]
    BY <1>1, <2>1
  <2>3. QED  BY <2>2 DEF Orphan
<1>6. \A s \in Linked(e) : scenarios[s].name \in Names /\ s \in ScenarioRows
  BY TypedNow DEF CatalogInv, Linked
<1>7. \A s \in ScenarioIds, f \in EnvironmentIds : <<s, f>> \in links' <=> <<s, f>> \in links /\ f # e
  BY <1>1
<1>8. CatalogTyped'
  <2>1. links' \subseteq ScenarioIds \X EnvironmentIds
    BY <1>1, TypedNow DEF CatalogInv
  <2>2. \A s \in ScenarioIds : scenarios'[s] = NoScenario \/ scenarios'[s].name \in Names
    BY <1>5, <1>6, TypedNow DEF CatalogInv
  <2>3. \A s \in ScenarioIds, f \in EnvironmentIds : <<s, f>> \in links' => scenarios'[s].name \in Names /\ environments'[f] \in Names
    BY <1>2, <1>5, <1>7, TypedNow DEF CatalogInv
  <2>4. QED  BY <1>1, <1>2, <1>3, <1>5, <2>1, <2>2, <2>3, TypedNow, TypedAfter DEF CatalogInv
<1>9. ASSUME NEW s \in ScenarioRows'  PROVE HomeIsLinked(s)' /\ NameStands(s)'
  <2>1. s \in ScenarioRows /\ s \in ScenarioIds
    <3>1. s \in ScenarioIds /\ scenarios'[s] # NoScenario
      BY DEF ScenarioRows
    <3>2. QED  BY <1>5, <1>6, <3>1 DEF ScenarioRows
  <2>2. QED  BY <1>2, <1>3, <1>5, <1>7, <2>1, NameOutlivesLink
<1>10. QED  BY <1>4, <1>8, <1>9 DEF CatalogInv, NamesAreSound

LEMMA DeleteScenarioKeeps ==
    ASSUME CatalogInv, NEW s \in ScenarioIds, DeleteScenario(s)
    PROVE  CatalogInv'
<1>1. /\ scenarios' = [scenarios EXCEPT ![s] = NoScenario] /\ awards' = [awards EXCEPT ![s] = Nil]
      /\ story' = [story EXCEPT ![s] = NoStory] /\ \A e \in EnvironmentIds : <<s, e>> \notin links
      /\ UNCHANGED <<templates, defaults, scripts, made, pages, editors, environments, links, forms>>
  BY DEF DeleteScenario
<1>2. LibrariesInv'
  BY <1>1, AwardGiven DEF CatalogInv
<1>3. /\ story'[s] = NoStory /\ scenarios'[s] = NoScenario /\ awards'[s] = Nil
      /\ \A t \in ScenarioIds \ {s} : story'[t] = story[t] /\ scenarios'[t] = scenarios[t] /\ awards'[t] = awards[t]
  BY <1>1, TypedNow DEF CatalogInv, LibrariesInv, RowsInv, RowTypeOK
<1>4. CatalogTyped'
  <2>1. NoScenario \in [name : Names \cup {NoName}, shown : BOOLEAN] /\ NoStory \in Story
    BY NoStoryIsOne DEF NoScenario
  <2>2. /\ scenarios' \in [ScenarioIds -> [name : Names \cup {NoName}, shown : BOOLEAN]]
        /\ story' \in [ScenarioIds -> Story]
    BY <1>1, <2>1, TypedNow DEF CatalogInv
  <2>3. \A t \in ScenarioIds : scenarios'[t] = NoScenario \/ scenarios'[t].name \in Names
    BY <1>3, TypedNow DEF CatalogInv
  <2>4. \A t \in ScenarioIds, e \in EnvironmentIds : <<t, e>> \in links' => scenarios'[t].name \in Names /\ environments'[e] \in Names
    BY <1>1, <1>3, TypedNow DEF CatalogInv
  <2>5. QED  BY <1>1, <2>2, <2>3, <2>4, TypedNow, TypedAfter DEF CatalogInv
<1>5. PicksAreSound'
  <2>1. ~Exists(templates, 0) /\ made \in Nat
    BY NothingHasNoSerial DEF CatalogInv, LibrariesInv, RowsInv, RowTypeOK
  <2>2. PickFits(NoStory, Nil, templates, made)
    BY <2>1, NoStoryIsOne DEF PickFits
  <2>3. QED  BY <1>1, <1>3, <2>2 DEF CatalogInv, PicksAreSound
<1>6. ASSUME NEW t \in ScenarioRows'  PROVE HomeIsLinked(t)' /\ NameStands(t)'
  <2>1. t # s /\ t \in ScenarioIds /\ t \in ScenarioRows
    BY <1>3 DEF ScenarioRows
  <2>2. HomeIsLinked(t) /\ NameStands(t)
    BY <2>1 DEF CatalogInv, NamesAreSound
  <2>3. QED  BY <1>1, <1>3, <2>1, <2>2, StoryIsTyped, NameIsLeft DEF CatalogInv
<1>7. QED  BY <1>2, <1>4, <1>5, <1>6 DEF CatalogInv, NamesAreSound

LEMMA CatalogBeginsSound == CatalogInit => CatalogInv
<1> SUFFICES ASSUME CatalogInit PROVE CatalogInv
  OBVIOUS
<1> USE DEF CatalogInit
<1>1. LibrariesInv
  BY LibrariesBeginSound
<1>2. CatalogTyped
  <2>1. NoScenario \in [name : Names \cup {NoName}, shown : BOOLEAN] /\ NoForm \in Form /\ NoStory \in Story
    BY NoStoryIsOne DEF NoScenario, NoForm, Form, NoDetails, Details
  <2>2. ScenarioRows = {}
    BY DEF ScenarioRows
  <2>3. QED  BY <2>1, <2>2 DEF CatalogTyped, CatalogTypeOK
<1>3. PicksAreSound
  <2>1. ~Exists(templates, 0) /\ made \in Nat
    BY <1>1, NothingHasNoSerial DEF LibrariesInv, RowsInv, RowTypeOK
  <2>2. PickFits(NoStory, Nil, templates, made)
    BY <2>1, NoStoryIsOne DEF PickFits
  <2>3. \A s \in ScenarioIds : awards[s] = Nil
    BY DEF LibrariesInit
  <2>4. DetailsFit(NoForm.typed, templates, made)
    BY DEF NoForm, NoDetails, DetailsFit
  <2>5. QED  BY <2>2, <2>3, <2>4 DEF PicksAreSound
<1>4. NamesAreSound
  BY DEF NamesAreSound, ScenarioRows
<1>5. QED  BY <1>1, <1>2, <1>3, <1>4 DEF CatalogInv

LEMMA CatalogStepsKeep == CatalogInv /\ [CatalogNext]_<<libraryVars, catalogVars>> => CatalogInv'
<1> SUFFICES ASSUME CatalogInv, [CatalogNext]_<<libraryVars, catalogVars>> PROVE CatalogInv'
  OBVIOUS
<1>1. CASE Detailing
  BY <1>1, FormActionsKeep, SavesKeep DEF Detailing, DetailsForm
<1>2. CASE Naming
  BY <1>2, RegisterKeeps, RegisterAloneKeeps, RenameKeeps, LinkKeeps, UnlinkKeeps, DeleteWithLinksKeeps, DeleteScenarioKeeps
  DEF Naming
<1>3. CASE (Certifying \/ Scripting) /\ UNCHANGED catalogVars
  BY <1>3, LibrariesStepKeepsCatalog
<1>4. CASE UNCHANGED <<libraryVars, catalogVars>>
  <2>1. LibrariesInv' /\ PicksAreSound'
    BY <1>4, PicksStay DEF catalogVars
  <2>2. CatalogTyped' /\ NamesAreSound'
    BY <1>4 DEF CatalogInv, CatalogTyped, CatalogTypeOK, NamesAreSound, HomeIsLinked, NameStands, catalogVars, ScenarioRows,
                EnvironmentRows
  <2>3. QED  BY <2>1, <2>2 DEF CatalogInv
<1>5. QED  BY <1>1, <1>2, <1>3, <1>4 DEF CatalogNext

LEMMA CatalogStaysSound == CatalogSpec => []CatalogInv
BY CatalogBeginsSound, CatalogStepsKeep, PTL DEF CatalogSpec

\* Whatever staff create, save, rename, link and delete, the rows, pages, editors and forms have their types;
\* in particular only scenarios and environments that are there are linked, as the foreign keys require.
THEOREM CatalogTypeCorrect == CatalogSpec => [](LibrariesTypeOK /\ CatalogTypeOK)
<1>1. CatalogInv => LibrariesTypeOK /\ CatalogTypeOK
  BY DEF CatalogInv, LibrariesInv, RowsInv, RowTypeOK, Rows, PagesFit, EditorsFit, CatalogTyped, LibrariesTypeOK
<1>2. QED  BY <1>1, CatalogStaysSound, PTL

\* The two library pages never save to one certificate or script what was in the editor for another that is
\* still there: by LibrariesInv, the row an editor was filled from has the selected id, or is gone.
THEOREM WordsStayTheirOwn == CatalogSpec => []WordsAreTheirOwn
<1>1. CatalogInv => WordsAreTheirOwn
  BY WordsAreSound DEF CatalogInv, LibrariesInv, RowsInv
<1>2. QED  BY <1>1, CatalogStaysSound, PTL

\* A scenario awards the template picked in its details form, and, once that is deleted, the default, of which
\* there is always one: ON DELETE SET NULL, the refusal to delete the default and the checked id keep it so.
THEOREM CertificatesStayAsPicked == CatalogSpec => []CertificatesPrintAsPicked
<1>1. ASSUME CatalogInv  PROVE CertificatesPrintAsPicked
  <2>1. \E k \in RowsOf(templates) : defaults = {k}
    BY <1>1 DEF CatalogInv, LibrariesInv, RowsInv, AwardsAreSound
  <2>2. ASSUME NEW s \in ScenarioRows
        PROVE  IF Exists(templates, story[s].picked) THEN \E k \in TemplateFor(s) : templates[k].serial = story[s].picked
               ELSE story[s].stale \/ TemplateFor(s) = defaults
    <3>1. s \in ScenarioIds
      BY DEF ScenarioRows
    <3>2. PickFits(story[s], awards[s], templates, made) /\ (awards[s] # Nil => awards[s] \in RowsOf(templates))
      BY <1>1, <3>1 DEF CatalogInv, PicksAreSound, LibrariesInv, RowsInv, AwardsAreSound
    <3>3. Nil \notin RowsOf(templates)
      BY IdsAreNumbers DEF RowsOf
    <3>4. CASE Exists(templates, story[s].picked)
      BY <3>2, <3>4 DEF PickFits, TemplateFor
    <3>5. CASE ~Exists(templates, story[s].picked)
      <4>1. CASE awards[s] = Nil
        BY <3>3, <3>5, <4>1 DEF TemplateFor
      <4>2. CASE awards[s] # Nil /\ ~story[s].stale
        BY <3>2, <3>5, <4>2 DEF PickFits, Exists
      <4>3. QED  BY <3>5, <4>1, <4>2
    <3>6. QED  BY <3>4, <3>5
  <2>3. QED  BY <2>1, <2>2 DEF CertificatesPrintAsPicked
<1>2. QED  BY <1>1, CatalogStaysSound, PTL

\* A rename of an environment carries over to the scenario its registration made, and to no scenario that
\* staff have named otherwise, unless one of its other environments has had its name.
THEOREM NamesStand == CatalogSpec => []ScenarioNamesStand
<1>1. CatalogInv => ScenarioNamesStand
  BY DEF CatalogInv, NamesAreSound, NameStands, ScenarioNamesStand
<1>2. QED  BY <1>1, CatalogStaysSound, PTL
=================================================================================
