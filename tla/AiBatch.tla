---------------------------------- MODULE AiBatch ----------------------------------
(***************************************************************************)
(* The event summary's dialog that generates the final assessments of many *)
(* sessions (features/aiAssessment/AiBatchDialog): up to MAX_IN_FLIGHT     *)
(* workers in the browser take sessions from one queue, ask the server for *)
(* an assessment and watch it until it has ended. The server's side is     *)
(* AiAssessments, where other instructors ask for assessments as well.     *)
(*                                                                         *)
(* A worker runs to its next await in one step. An item is told its state  *)
(* only by the worker that holds it, or all of those still in the queue    *)
(* are when every worker has returned.                                     *)
(***************************************************************************)
EXTENDS AiAssessments, SequencesExt

CONSTANT Workers    \* MAX_IN_FLIGHT of them

VARIABLES
    items,      \* [Teams -> state of the item], Absent for a session that was not picked
    queue,      \* items no worker holds
    at,         \* [Workers -> where it awaits, what it holds, the row it watches]
    stop,       \* stopRef
    limit,      \* limitReached
    begun       \* runBatch has not returned

batch == <<items, queue, at, stop, limit, begun>>
allVars == <<askVars, batch>>

Absent == "absent"
Told == {"done", "reused", "failed", "not_started", "detached"}
NoItem == "no item"
Off == [pc |-> "off", team |-> NoItem, row |-> 0]

BatchActive == \E t \in Teams : items[t] \in {"waiting", "running"}

-------------------------------------------------------------------------------
(* The rows of the dialog                                                   *)

Finals(t) == {i \in InRows : Of(i).team = t /\ Of(i).mode = "final"}
Latest(t) == CHOOSE i \in Finals(t) : \A k \in Finals(t) : rows[k].for <= rows[i].for

\* finalAssessmentOverview with selectable: a request could produce something new
Selectable(t) ==
    /\ t \in Sessions
    /\ Finals(t) # {} => rows[Latest(t)].status \notin Active
    /\ Reusable(t, "final") = {}

\* start: the rows picked were read a moment before
StartBatch(picked) ==
    /\ ~BatchActive /\ ~begun
    /\ picked # {} /\ \A t \in picked : Selectable(t)
    /\ items' = [t \in Teams |-> IF t \in picked THEN "waiting" ELSE Absent]
    /\ queue' = SetToSeq(picked)
    /\ \E crew \in SUBSET Workers :
         /\ Cardinality(crew) = IF Cardinality(picked) < Cardinality(Workers)
                                THEN Cardinality(picked) ELSE Cardinality(Workers)
         /\ at' = [w \in Workers |-> IF w \in crew THEN [Off EXCEPT !.pc = "ready"] ELSE Off]
    /\ stop' = FALSE /\ limit' = FALSE /\ begun' = TRUE
    /\ UNCHANGED askVars

\* the stop button, or leaving the page
Stop ==
    /\ begun /\ ~stop
    /\ stop' = TRUE
    /\ UNCHANGED <<askVars, items, queue, at, limit, begun>>

-------------------------------------------------------------------------------
(* A worker                                                                 *)

Tell(w, state) ==
    /\ items' = [items EXCEPT ![at[w].team] = state]
    /\ at' = [at EXCEPT ![w] = [Off EXCEPT !.pc = "ready"]]
    /\ UNCHANGED <<queue, limit>>

Watch(w, row) ==
    /\ at' = [at EXCEPT ![w].pc = "watching", ![w].row = row]
    /\ UNCHANGED <<items, queue, limit>>

\* the item goes back to the front
PutBack(w, pc, state) ==
    /\ queue' = <<at[w].team>> \o queue
    /\ items' = [items EXCEPT ![at[w].team] = state]
    /\ at' = [at EXCEPT ![w] = [Off EXCEPT !.pc = pc]]

Take(w) ==
    /\ at[w].pc = "ready"
    /\ IF stop \/ limit \/ queue = <<>>
       THEN at' = [at EXCEPT ![w] = Off] /\ UNCHANGED <<items, queue>>
       ELSE /\ at' = [at EXCEPT ![w] = [pc |-> "asking", team |-> Head(queue), row |-> 0]]
            /\ items' = [items EXCEPT ![Head(queue)] = "running"]
            /\ queue' = Tail(queue)
    /\ UNCHANGED <<askVars, stop, limit, begun>>

\* POST /admin/ai-assessments and its answer, in the order of requestAssessment's checks
Ask(w) == LET t == at[w].team IN
    /\ at[w].pc = "asking"
    /\ \/ t \notin Sessions /\ Tell(w, "failed") /\ UNCHANGED askVars
       \/ t \in Sessions /\ InProgress(t, "final") /\ Watch(w, 0) /\ UNCHANGED askVars
       \/ MayAsk(t, "final") /\ Repeats(t, "final", FALSE) /\ Tell(w, "reused") /\ UNCHANGED askVars
       \/ /\ MayAsk(t, "final") /\ ~Repeats(t, "final", FALSE)
          /\ \/ InFlight >= MaxConcurrent /\ PutBack(w, "resting", "waiting") /\ UNCHANGED <<askVars, limit>>
             \* the account's hourly limit
             \/ InFlight < MaxConcurrent /\ PutBack(w, "ready", "running") /\ limit' = TRUE /\ UNCHANGED askVars
             \/ RequestAssessment(t, "final", FALSE) /\ Watch(w, NextRow)
    /\ UNCHANGED <<stop, begun>>

\* the answer is lost, the request may have arrived
AskLost(w) ==
    /\ at[w].pc = "asking" /\ Tell(w, "failed")
    /\ UNCHANGED askVars \/ RequestAssessment(at[w].team, "final", FALSE)
    /\ UNCHANGED <<stop, begun>>

\* BUSY_RETRY_MS are over
Wake(w) ==
    /\ at[w].pc = "resting"
    /\ at' = [at EXCEPT ![w].pc = "ready"]
    /\ UNCHANGED <<askVars, items, queue, stop, limit, begun>>

\* what waitForFinal looks for: the row it was given, or the newest
Sought(w) == IF at[w].row # 0 THEN {at[w].row} \cap Finals(at[w].team)
             ELSE IF Finals(at[w].team) = {} THEN {} ELSE {Latest(at[w].team)}

\* waitForFinal: a look at the stop button, then one at the session's assessments
Poll(w) ==
    /\ at[w].pc = "watching"
    /\ \/ stop /\ Tell(w, "detached")
       \/ /\ ~stop /\ at[w].team \in Sessions
          /\ \/ Sought(w) = {} /\ Tell(w, "detached")
             \/ \E i \in Sought(w) : rows[i].status \notin Active
                     /\ Tell(w, IF rows[i].status = "succeeded" THEN "done" ELSE "failed")
    /\ UNCHANGED <<askVars, stop, begun>>

\* Mutant: a look that fails is never answered, whatever was watched.
PollFails_Thrown(w) ==
    /\ at[w].pc = "watching" /\ ~stop
    /\ at' = [at EXCEPT ![w].pc = "dead"]
    /\ UNCHANGED <<askVars, items, queue, stop, limit, begun>>

\* the look fails: no connection, or the team is gone. The worker survives it only when it
\* watches an assessment of its own; within the handler of assessment_in_progress nothing
\* catches it, and runBatch gives up its ending.
PollFails(w) ==
    /\ at[w].pc = "watching" /\ ~stop
    /\ IF at[w].row # 0 THEN Tell(w, "failed")
       ELSE at' = [at EXCEPT ![w].pc = "thrown"] /\ UNCHANGED <<items, queue, limit>>
    /\ UNCHANGED <<askVars, stop, begun>>

\* every worker has returned: what is left in the queue was not started
Finish ==
    /\ begun /\ \A w \in Workers : at[w].pc = "off"
    /\ items' = [t \in Teams |-> IF t \in ToSet(queue) THEN "not_started" ELSE items[t]]
    /\ begun' = FALSE /\ queue' = <<>>
    /\ UNCHANGED <<askVars, at, stop, limit>>

-------------------------------------------------------------------------------
BatchInit ==
    /\ items = [t \in Teams |-> Absent] /\ queue = <<>>
    /\ at = [w \in Workers |-> Off]
    /\ stop = FALSE /\ limit = FALSE /\ begun = FALSE

BatchNext ==
    \/ \E picked \in SUBSET Teams : StartBatch(picked)
    \/ Stop \/ Finish
    \/ \E w \in Workers : Take(w) \/ Ask(w) \/ Wake(w) \/ Poll(w) \/ AskLost(w) \/ PollFails(w)

\* some timer that is set fires, some request is answered or fails: no order among them is assumed
Goes(w) == Take(w) \/ Ask(w) \/ Wake(w) \/ Poll(w) \/ (at[w].team \notin Sessions /\ PollFails(w))
BatchFairness == WF_allVars(Finish \/ \E w \in Workers : Goes(w))

-------------------------------------------------------------------------------
(* Properties                                                               *)

\* Every assessment ends, through failed calls, second attempts and restarts, so that a session is never
\* refused a new one for good ("assessment_in_progress"). Every batch ends with each of its sessions told
\* what became of it, through a busy server, the hourly limit, lost answers, a stop, restarts and deleted
\* teams, so that the dialog can be closed again ("Stop the batch first"); unless a look failed while a
\* worker watched an assessment that somebody else had started, the one failure AiBatchDialog does not catch.
AssessmentsEnd ==
    /\ \A i \in RowIds : rows[i].status \in Active ~> rows[i].status \notin Active
    /\ BatchActive ~> \/ \A t \in Teams : items[t] \in Told \cup {Absent}
                      \/ \E w \in Workers : at[w].pc = "thrown"
=====================================================================================
