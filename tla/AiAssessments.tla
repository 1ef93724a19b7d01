------------------------------- MODULE AiAssessments -------------------------------
(***************************************************************************)
(* AI assessments of one scenario's sessions: requests, the background     *)
(* jobs that call the agent, decisions on final scores, feedback posted    *)
(* from a result, and the recovery after a restart                         *)
(* (services/ai/assessmentRunner, assessmentSnapshot).                     *)
(*                                                                         *)
(* A job reads its row once, awaits the agent once or twice and then       *)
(* writes the outcome by the row's id. Deleting a team takes its rows      *)
(* along, not its jobs, and ids are given out again (INTEGER PRIMARY KEY   *)
(* without AUTOINCREMENT). Between a request and the job's start nothing   *)
(* else runs, so that a row is "running" from the start. A session's       *)
(* pinned version never changes (see AiDocuments). A request that is       *)
(* refused because the version's store is gone, the snapshot is too large  *)
(* or the hourly limit of the account is reached changes nothing: requests *)
(* may be made at any time here, and need not.                             *)
(*                                                                         *)
(* What a session's times are compared for is whether they are the same:   *)
(* a moment is the number of starts, completions and comments up to it.    *)
(* first_started_at follows from started_at: it moves only with the row.   *)
(***************************************************************************)
EXTENDS AssessmentReply, AiSessions

CONSTANTS
    Works,                    \* what a team may have documented, starting with Blank
    Blank, Content(_),        \* its records, entries, tagged techniques, words, suspicious records
    Expected,                 \* the scenario's active expected techniques
    Replies,                  \* what the agent may answer
    MaxConcurrent,            \* AI_MAX_CONCURRENT
    MaxRow, MaxRequest,       \* bounds: row ids, requests accepted in a behaviour,
    MaxMoment                 \* and moments in it

RowIds == 1..MaxRow
Modes  == {"live", "final"}
Active == {"running"}
Statuses == {"active", "paused", "completed"}
Score  == {100}               \* the scores an instructor may type in

ASSUME RowsAreBounded == MaxRow \in Nat
ASSUME WorkStartsBlank == Blank \in Works
ASSUME RepliesScoreInPoints == \A r \in Replies : \A k \in DOMAIN r.score : r.score[k] \in Int

VARIABLES
    standing,   \* team_cyber_range_progress: status, started_at, completed_at
    work,       \* the team's documentation: entries, canvas, tags
    rows,       \* ai_assessments
    calls,      \* executeAssessment promises, with the row id and what they read
    posted,     \* documentation_feedback rows with a source assessment: team, source, created_at
    asked,      \* history: the requests accepted so far, in order
    moment      \* the latest moment

askVars == <<standing, work, rows, calls, posted, asked, moment>>

NoSession == [status |-> "none"]
Never     == 0
Session   == [status : Statuses, started : Nat, completed : Nat]
NoRow     == [status |-> "absent"]
NoResult  == [mode |-> "none"]

Sessions == {t \in Teams : standing[t] # NoSession}
InRows   == {i \in RowIds : rows[i] # NoRow}

\* the columns a row got from the request it was inserted for
Of(i)    == asked[rows[i].for]

Columns == {"status", "result", "for", "decision", "score"}

Snapshots == [team : Teams, session : Session, work : Works, feedback : SUBSET Nat]
Request   == [row : RowIds, team : Teams, mode : Modes, forced : BOOLEAN, snapshot : Snapshots]

AskTypeOK ==
    /\ standing \in [Teams -> Session \cup {NoSession}]
    /\ moment \in Nat
    /\ work \in [Teams -> Works]
    /\ asked \in Seq(Request)
    /\ rows = [i \in RowIds |-> rows[i]]
    /\ \A i \in InRows :
           /\ DOMAIN rows[i] = Columns
           /\ rows[i].status \in {"running", "succeeded", "failed"}
           /\ rows[i].for \in DOMAIN asked
           /\ rows[i].decision \in {"none", "approved", "edited", "rejected"}
    /\ calls \subseteq [row : RowIds, for : DOMAIN asked, attempt : 1..2]
    /\ posted \subseteq Teams \X RowIds \X Nat

-------------------------------------------------------------------------------
(* The snapshot                                                             *)

\* buildSnapshot: the hash covers the session's state with its times, the documentation and the
\* feedback given on it, each with its own time
Snapshot(t) ==
    [team |-> t, session |-> standing[t], work |-> work[t],
     feedback |-> {p[3] : p \in {q \in posted : q[1] = t}}]

\* evidenceIndexFromSnapshot and leakScanContext, read when the job starts
Context(m, snapshot) ==
    LET sent == Content(snapshot.work)
    IN [mode |-> m, records |-> sent.records, entries |-> sent.entries, tagged |-> sent.tagged,
        expected |-> Expected, words |-> sent.words, suspicious |-> sent.suspicious]

-------------------------------------------------------------------------------
(* Sessions and documentation, as far as assessments depend on them         *)

Later == moment < MaxMoment /\ moment' = moment + 1

\* startCyberRangeForTeam on this scenario: the first start, a resumption, a restart of what was completed
BeginSession(t) ==
    /\ Later
    /\ standing' = [standing EXCEPT ![t] = [status |-> "active", started |-> moment', completed |-> Never]]
    /\ UNCHANGED <<work, rows, calls, posted, asked>>

\* startCyberRangeForTeam on another one
PauseSession(t) ==
    /\ standing[t].status = "active"
    /\ standing' = [standing EXCEPT ![t].status = "paused"]
    /\ UNCHANGED <<work, rows, calls, posted, asked, moment>>

\* again and again, each time anew
CompleteSession(t) ==
    /\ t \in Sessions
    /\ Later
    /\ standing' = [standing EXCEPT ![t].status = "completed", ![t].completed = moment']
    /\ UNCHANGED <<work, rows, calls, posted, asked>>

\* entries are never taken away again; tags, cards and their texts are
Document(t, w) ==
    /\ t \in Sessions
    /\ Content(work[t]).entries \subseteq Content(w).entries
    /\ work' = [work EXCEPT ![t] = w]
    /\ UNCHANGED <<standing, rows, calls, posted, asked, moment>>

\* the team's session, entries, assessments and feedback cascade; its jobs are not told
DeleteTeam(t) ==
    /\ t \in Sessions
    /\ standing' = [standing EXCEPT ![t] = NoSession]
    /\ work' = [work EXCEPT ![t] = Blank]
    /\ rows' = [i \in RowIds |-> IF i \in InRows /\ Of(i).team = t THEN NoRow ELSE rows[i]]
    /\ posted' = {p \in posted : p[1] # t}
    /\ UNCHANGED <<calls, asked, moment>>

-------------------------------------------------------------------------------
(* requestAssessment                                                        *)

InProgress(t, m) == \E i \in InRows : Of(i).team = t /\ Of(i).mode = m /\ rows[i].status \in Active

\* the checks made before anything is compared or counted
MayAsk(t, m) ==
    /\ t \in Sessions
    /\ m = "live" => standing[t].status \in {"active", "paused"}
    /\ ~InProgress(t, m)

SameAsked(i, t, m) ==
    Of(i).team = t /\ Of(i).mode = m /\ Of(i).snapshot = Snapshot(t)

\* findReusableAssessment
Reusable(t, m) == {i \in InRows : rows[i].status = "succeeded" /\ SameAsked(i, t, m)}

InFlight == Cardinality({i \in InRows : rows[i].status \in Active})

\* Mutant: the earlier result is looked for only when asked to force a new one.
Repeats_Swapped(t, m, force) == force /\ Reusable(t, m) # {}

\* unchanged work, same version: the earlier result is the answer, and nothing is changed
Repeats(t, m, force) == ~force /\ Reusable(t, m) # {}

\* the id of the next row: the largest in use plus one
NextRow == LET ids == InRows IN IF ids = {} THEN 1 ELSE 1 + CHOOSE i \in ids : \A j \in ids : j <= i

\* the row, and executeAssessment up to its first await
RequestAssessment(t, m, force) ==
    LET i   == NextRow
        req == [row |-> i, team |-> t, mode |-> m, forced |-> force, snapshot |-> Snapshot(t)]
    IN /\ MayAsk(t, m)
       /\ ~Repeats(t, m, force)
       /\ InFlight < MaxConcurrent
       /\ i \in RowIds /\ Len(asked) < MaxRequest
       /\ asked' = Append(asked, req)
       /\ rows' = [rows EXCEPT ![i] = [status |-> "running", result |-> NoResult, for |-> Len(asked'),
                                       decision |-> "none", score |-> 0]]
       /\ calls' = calls \cup {[row |-> i, for |-> Len(asked'), attempt |-> 1]}
       /\ UNCHANGED <<standing, work, posted, moment>>

-------------------------------------------------------------------------------
(* executeAssessment after an await                                         *)

Asked(j) == Context(asked[j.for].mode, asked[j.for].snapshot)

\* UPDATE ai_assessments ... WHERE id = ?: whatever row has the id now, in whatever state; none is no error
Ended(i, status, result) ==
    IF i \in InRows THEN [rows EXCEPT ![i].status = status, ![i].result = result] ELSE rows

\* one retry with the same input
TriesAgain(j, reply) == Faulty(reply, Asked(j)) /\ Retryable(reply, Asked(j)) /\ j.attempt = 1

Reply(j, reply) ==
    /\ j \in calls
    /\ UNCHANGED <<standing, work, posted, asked, moment>>
    /\ \/ /\ calls' = calls \ {j}
          /\ rows' = IF Faulty(reply, Asked(j)) THEN Ended(j.row, "failed", NoResult)
                     ELSE Ended(j.row, "succeeded", Validated(reply, Asked(j)))
          /\ ~TriesAgain(j, reply)
       \/ /\ calls' = (calls \ {j}) \cup {[j EXCEPT !.attempt = 2]}
          /\ UNCHANGED rows
          /\ TriesAgain(j, reply)

\* a FoundryError: the time is up, the content filter, no connection after the client's retries
CallFails(j) ==
    /\ j \in calls
    /\ rows' = Ended(j.row, "failed", NoResult)
    /\ calls' = calls \ {j}
    /\ UNCHANGED <<standing, work, posted, asked, moment>>

-------------------------------------------------------------------------------
(* What instructors do with a result                                        *)

Decidable(i, override) ==
    /\ Of(i).mode = "final"
    /\ rows[i].status = "succeeded" /\ rows[i].result # NoResult
    /\ rows[i].decision = "none" \/ override

DecidedScore(i, decision, typed) ==
    IF decision = "approved" THEN rows[i].result.total ELSE IF decision = "edited" THEN typed ELSE 0

DecideAssessment(i, decision, typed, override) ==
    /\ i \in InRows /\ Decidable(i, override)
    /\ rows' = [rows EXCEPT ![i].decision = decision, ![i].score = DecidedScore(i, decision, typed)]
    /\ UNCHANGED <<standing, work, calls, posted, asked, moment>>

\* Mutant: the source may be any assessment of the team.
PostableFrom_Any(t, i) == Of(i).team = t

PostableFrom(t, i) == Of(i).team = t /\ rows[i].status = "succeeded"

\* addFeedback with a sourceAiAssessmentId, once per result here
AddFeedback(t, i) ==
    /\ t \in Sessions /\ i \in InRows /\ PostableFrom(t, i)
    /\ Content(work[t]).entries # {}
    /\ \A p \in posted : p[2] # i
    /\ Later
    /\ posted' = posted \cup {<<t, i, moment'>>}
    /\ UNCHANGED <<standing, work, rows, calls, asked>>

DeleteFeedback(p) ==
    /\ posted' = posted \ {p}
    /\ UNCHANGED <<standing, work, rows, calls, asked, moment>>

\* addAiAssessmentSheet: the results of a session the export chooses from, the newest of them
Approved(t) == {i \in InRows : /\ Of(i).team = t /\ Of(i).mode = "final" /\ rows[i].status = "succeeded"
                               /\ rows[i].decision \in {"approved", "edited"} /\ rows[i].result # NoResult}

-------------------------------------------------------------------------------
(* Restart                                                                  *)

\* recoverInterruptedAiWork
Interrupted == [i \in RowIds |-> IF i \in InRows /\ rows[i].status \in Active
                                 THEN [rows[i] EXCEPT !.status = "failed"] ELSE rows[i]]

RestartServer ==
    /\ calls' = {}
    /\ rows' = Interrupted
    /\ UNCHANGED <<standing, work, posted, asked, moment>>

AskInit ==
    /\ standing = [t \in Teams |-> NoSession]
    /\ work = [t \in Teams |-> Blank]
    /\ rows = [i \in RowIds |-> NoRow]
    /\ calls = {} /\ posted = {} /\ asked = <<>> /\ moment = Never

AskNext ==
    \/ \E t \in Teams : \/ BeginSession(t) \/ PauseSession(t) \/ CompleteSession(t)
                        \/ \E w \in Works : Document(t, w)
                        \/ DeleteTeam(t)
                        \/ \E m \in Modes, force \in BOOLEAN : RequestAssessment(t, m, force)
                        \/ \E i \in RowIds : AddFeedback(t, i)
    \/ \E j \in calls : CallFails(j) \/ \E reply \in Replies : Reply(j, reply)
    \/ \E i \in RowIds, d \in {"approved", "edited", "rejected"}, n \in Score, o \in BOOLEAN :
           DecideAssessment(i, d, n, o)
    \/ \E p \in posted : DeleteFeedback(p)
    \/ RestartServer

AnswerTo(n) == \E j \in calls : j.for = n /\ (CallFails(j) \/ \E reply \in Replies : Reply(j, reply))

\* every call to the agent returns: invokeAssessment gives up after requestTimeoutMs
AskSpec == AskInit /\ [][AskNext]_askVars /\ \A n \in 1..MaxRequest : WF_askVars(AnswerTo(n))

-------------------------------------------------------------------------------
(* Properties                                                               *)

\* Whatever the agent says, at the first or the second attempt, a stored result is sound for a request
\* that was made under its id: references only to records that were sent, unsupported claims marked,
\* points within the rubric and adding up, leaks flagged (validateAssessment, executeAssessment).
ResultsAnswerARequest ==
    \A i \in InRows : rows[i].result # NoResult =>
        \E n \in DOMAIN asked : asked[n].row = i /\ Sound(rows[i].result, Context(asked[n].mode, asked[n].snapshot))

\* the id was never another row's
Fresh(i) == Cardinality({n \in DOMAIN asked : asked[n].row = i}) = 1

\* What a team has done is measured against the same version only once, unless an instructor insisted:
\* not after its work was changed and changed back, or a comment on it was made and taken away, whatever
\* failed, was refused or ran at the same time (findReusableAssessment). What counts as the same includes
\* the session's times: one that was resumed, restarted or completed anew is measured, and paid for, again
\* although nobody documented anything (exerciseState is part of the hash).
UnchangedWorkIsPaidOnce ==
    \A i, k \in InRows :
        /\ rows[i].for < rows[k].for /\ Fresh(i)
        /\ rows[i].status = "succeeded" /\ rows[k].status = "succeeded"
        /\ <<Of(i).team, Of(i).mode, Of(i).snapshot>> = <<Of(k).team, Of(k).mode, Of(k).snapshot>>
        => Of(k).forced

\* what the export shows for a session, and what its feedback was posted from, is a completed result
RestsOnItsResult(i) ==
    /\ rows[i].decision # "none" => rows[i].status = "succeeded" /\ rows[i].result # NoResult
    /\ rows[i].decision = "approved" => rows[i].score = rows[i].result.total
    /\ Of(i).mode = "final" /\ rows[i].decision \in {"approved", "edited"} => i \in Approved(Of(i).team)
    /\ \A p \in posted : p[2] = i => rows[i].status = "succeeded" /\ Of(i).team = p[1]

\* A decision and posted feedback rest on the result the row still holds: no retry, restart, repeated
\* request or later decision takes it away from under them.
DecisionsRestOnResults == \A i \in InRows : Fresh(i) => RestsOnItsResult(i)
=====================================================================================
