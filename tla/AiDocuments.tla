-------------------------------- MODULE AiDocuments --------------------------------
(***************************************************************************)
(* The ground-truth documents of the AI assessment: versions uploaded for  *)
(* a scenario, indexed in the background into a file and a vector store of *)
(* their own in Microsoft Foundry, pinned by the sessions that start while *)
(* they are current, rebuilt when their copy is gone, and the clean-up an  *)
(* administrator approves (services/ai/scenarioAiDocuments).               *)
(*                                                                         *)
(* An indexing job awaits Foundry (to create, then to index) and           *)
(* remembers the row id and the bytes it read at its start. The clean-up   *)
(* checks its whole list once and then awaits one removal after another.   *)
(* Versions of one scenario are only ever removed together with it, so     *)
(* that a larger row id is a later version. The file and the vector store  *)
(* of an attempt are made, recorded and removed alike, one after the       *)
(* other: here they are one resource, the attempt's copy.                  *)
(***************************************************************************)
EXTENDS Integers, FiniteSets, AiSessions

CONSTANTS
    Ranges,                         \* cyber_ranges ids a scenario may have
    Contents,                       \* sha256 of an uploaded document
    MaxDoc, MaxResource, MaxJob     \* bounds: rows, Foundry ids, jobs at a time

DocIds    == 1..MaxDoc
Resources == 1..MaxResource
JobIds    == 1..MaxJob
None      == 0                      \* NULL

ASSUME BoundsAreNatural == MaxDoc \in Nat /\ MaxResource \in Nat /\ MaxJob \in Nat

VARIABLES
    ranges,     \* rows of cyber_ranges
    docs,       \* rows of scenario_ai_documents
    registry,   \* rows of ai_foundry_resources, by Foundry id
    foundry,    \* what Foundry has been asked to make: the bytes, and whether it is there
    jobs,       \* indexDocument and rebuildDocument promises
    rebuilding, \* the set of that name
    cleaning,   \* executeCleanup: the resources still to be removed, in memory
    sessions,   \* team_cyber_range_progress with the version it pins
    assessing,  \* pending and running ai_assessments, with the store they were sent to
    lost        \* history: Foundry ids the server never heard of, each with the reason

vars == <<ranges, docs, registry, foundry, jobs, rebuilding, cleaning, sessions, assessing, lost>>

NoDoc   == [range |-> "none"]
NoEntry == [doc |-> "none"]
NoThing == [content |-> "none"]
NoJob   == [at |-> "done"]

Doc ==
    [range : Ranges, content : Contents, status : {"processing", "ready", "failed", "superseded"},
     current : BOOLEAN, store : Resources \cup {None}, gone : BOOLEAN]
Entry == [doc : DocIds \cup {None}, deleted : BOOLEAN]
Thing == [content : Contents, live : BOOLEAN]
Job   ==
    [at : {"create", "index"}, for : {"index", "rebuild"}, doc : DocIds, range : Ranges,
     content : Contents, made : Resources \cup {None}]

TypeOK ==
    /\ ranges \in SUBSET Ranges
    /\ docs \in [DocIds -> Doc \cup {NoDoc}]
    /\ registry \in [Resources -> Entry \cup {NoEntry}]
    /\ foundry \in [Resources -> Thing \cup {NoThing}]
    /\ jobs \in [JobIds -> Job \cup {NoJob}]
    /\ rebuilding \in SUBSET DocIds
    /\ cleaning \in [on : BOOLEAN, todo : SUBSET Resources]
    /\ sessions \in SUBSET [team : Teams, range : Ranges, doc : DocIds \cup {None}]
    /\ assessing \in SUBSET [team : Teams, range : Ranges, doc : DocIds, store : Resources]
    /\ lost \in SUBSET (Resources \X {"restart", "no answer", "row deleted"})

-------------------------------------------------------------------------------
(* Reading the tables                                                       *)

DocRows   == {d \in DocIds : docs[d] # NoDoc}
VersionsOf(r) == {d \in DocRows : docs[d].range = r}
Tracked   == {x \in Resources : registry[x] # NoEntry}
Made      == {x \in Resources : foundry[x] # NoThing}
Live      == {x \in Made : foundry[x].live}
Running   == {j \in JobIds : jobs[j] # NoJob}

Current(r) == {d \in VersionsOf(r) : docs[d].current}
ProcessingFor(r) == \E d \in VersionsOf(r) : docs[d].status = "processing"

\* INTEGER PRIMARY KEY without AUTOINCREMENT: the largest rowid in use plus one
IsNextRow(id, rows) == (\A x \in rows : x < id) /\ (id = 1 \/ id - 1 \in rows)

\* Mutant: a superseded version a session still pins does not count as used.
InUse_ByStatus(x) ==
    \E d \in DocRows :
        /\ registry[x].doc = d
        /\ x = docs[d].store
        /\ docs[d].status \in {"ready", "processing"}

\* IN_USE_SQL: the current id of a version that is ready or on its way, pinned, or being assessed
InUse(x) ==
    \E d \in DocRows :
        /\ registry[x].doc = d
        /\ x = docs[d].store
        /\ \/ docs[d].status \in {"ready", "processing"}
           \/ \E s \in sessions : s.doc = d
           \/ \E a \in assessing : a.doc = d

\* listFoundryResources('candidates')
Candidates == {x \in Tracked : ~registry[x].deleted /\ ~InUse(x)}

\* resolveSessionVersion and the checks of requestAssessment: the store a session may be assessed with
Usable(d) == docs[d].status \in {"ready", "superseded"} /\ docs[d].store # None /\ ~docs[d].gone

-------------------------------------------------------------------------------
(* Scenarios, sessions and assessments, as far as documents depend on them  *)

CreateRange(r) ==
    /\ r \notin ranges
    /\ ranges' = ranges \cup {r}
    /\ UNCHANGED <<docs, registry, foundry, jobs, rebuilding, cleaning, sessions, assessing, lost>>

\* deleteCyberRange: refused while a team has it; its versions cascade, their resources stay on record
DeleteRange(r) ==
    /\ r \in ranges
    /\ \A s \in sessions : s.range # r
    /\ ranges' = ranges \ {r}
    /\ docs' = [d \in DocIds |-> IF d \in VersionsOf(r) THEN NoDoc ELSE docs[d]]
    /\ registry' = [x \in Resources |-> IF x \in Tracked /\ registry[x].doc \in VersionsOf(r)
                                        THEN [registry[x] EXCEPT !.doc = None] ELSE registry[x]]
    /\ sessions' = {IF s.doc \in VersionsOf(r) THEN [s EXCEPT !.doc = None] ELSE s : s \in sessions}
    /\ assessing' = {a \in assessing : a.range # r}
    /\ UNCHANGED <<foundry, jobs, rebuilding, cleaning, lost>>

\* the version a session starting now pins: the current one, when it is ready
PinFor(r) == IF \E d \in Current(r) : docs[d].status = "ready"
             THEN CHOOSE d \in Current(r) : docs[d].status = "ready" ELSE None

\* Mutant: a restarted session takes the version that is current now.
Repin_Newest(s) == PinFor(s.range)

\* COALESCE(ai_document_id, excluded.ai_document_id)
Repin(s) == IF s.doc = None THEN PinFor(s.range) ELSE s.doc

\* startCyberRangeForTeam, for a first start and for every later one
StartSession(t, r) ==
    LET mine == {s \in sessions : s.team = t /\ s.range = r}
    IN /\ r \in ranges
       /\ sessions' = IF mine = {} THEN sessions \cup {[team |-> t, range |-> r, doc |-> PinFor(r)]}
                      ELSE {IF s \in mine THEN [s EXCEPT !.doc = Repin(s)] ELSE s : s \in sessions}
       /\ UNCHANGED <<ranges, docs, registry, foundry, jobs, rebuilding, cleaning, assessing, lost>>

\* a deleted team or an event reset takes the sessions and the assessments along
ForgetTeam(t) ==
    /\ \E s \in sessions : s.team = t
    /\ sessions' = {s \in sessions : s.team # t}
    /\ assessing' = {a \in assessing : a.team # t}
    /\ UNCHANGED <<ranges, docs, registry, foundry, jobs, rebuilding, cleaning, lost>>

\* requestAssessment, as far as it holds a store (one per session here)
BeginAssessment(s) ==
    /\ s.doc \in VersionsOf(s.range) /\ Usable(s.doc)
    /\ \A a \in assessing : a.team # s.team \/ a.range # s.range
    /\ assessing' = assessing \cup {[team |-> s.team, range |-> s.range, doc |-> s.doc,
                                     store |-> docs[s.doc].store]}
    /\ UNCHANGED <<ranges, docs, registry, foundry, jobs, rebuilding, cleaning, sessions, lost>>

EndAssessment(a) ==
    /\ assessing' = assessing \ {a}
    /\ UNCHANGED <<ranges, docs, registry, foundry, jobs, rebuilding, cleaning, sessions, lost>>

-------------------------------------------------------------------------------
(* Uploads, retries and rebuilds: what a request does before the first await *)

\* loadDocument: the job keeps what it read
Start(j, d, row, why) ==
    /\ jobs[j] = NoJob
    /\ jobs' = [jobs EXCEPT ![j] = [at |-> "create", for |-> why, doc |-> d, range |-> row.range,
                                    content |-> row.content, made |-> None]]

UploadVersion(r, c, d, j) ==
    LET row == [range |-> r, content |-> c, status |-> "processing", current |-> FALSE,
                store |-> None, gone |-> FALSE]
    IN /\ r \in ranges
       /\ ~ProcessingFor(r)
       /\ \A v \in Current(r) : docs[v].content # c
       /\ d \in DocIds /\ IsNextRow(d, DocRows)
       /\ docs' = [docs EXCEPT ![d] = row]
       /\ Start(j, d, row, "index")
       /\ UNCHANGED <<ranges, registry, foundry, rebuilding, cleaning, sessions, assessing, lost>>

\* what the UPDATE of retryVersion sets: `gone` is not among it
Retried(row) == [row EXCEPT !.status = "processing", !.store = None]

RetryVersion(d, j) ==
    /\ d \in DocRows /\ docs[d].status = "failed"
    /\ ~ProcessingFor(docs[d].range)
    /\ \A v \in Current(docs[d].range) : v < d
    /\ docs' = [docs EXCEPT ![d] = Retried(docs[d])]
    /\ Start(j, d, docs[d], "index")
    /\ UNCHANGED <<ranges, registry, foundry, rebuilding, cleaning, sessions, assessing, lost>>

RebuildVersion(d, j) ==
    /\ d \in DocRows /\ docs[d].status \in {"ready", "superseded"}
    /\ docs[d].gone \/ docs[d].store = None
    /\ d \notin rebuilding
    /\ rebuilding' = rebuilding \cup {d}
    /\ Start(j, d, docs[d], "rebuild")
    /\ UNCHANGED <<ranges, docs, registry, foundry, cleaning, sessions, assessing, lost>>

-------------------------------------------------------------------------------
(* The jobs                                                                 *)

\* Foundry makes what it was asked for; the answer is still on its way
FoundryMakes(j, x) ==
    /\ j \in Running /\ jobs[j].at = "create" /\ jobs[j].made = None
    /\ IsNextRow(x, Made)
    /\ foundry' = [foundry EXCEPT ![x] = [content |-> jobs[j].content, live |-> TRUE]]
    /\ jobs' = [jobs EXCEPT ![j].made = x]
    /\ UNCHANGED <<ranges, docs, registry, rebuilding, cleaning, sessions, assessing, lost>>

Leaves(j) ==
    /\ jobs' = [jobs EXCEPT ![j] = NoJob]
    /\ rebuilding' = IF jobs[j].for = "rebuild" THEN rebuilding \ {jobs[j].doc} ELSE rebuilding

Loses(j, why) == lost' = IF jobs[j].made = None THEN lost ELSE lost \cup {<<jobs[j].made, why>>}

\* the second statement of recordResource
WithId(row, x) == [row EXCEPT !.store = x]

\* recordResource: the resource and the version's id, in one transaction, by the id the job remembers
RecordResource(j) ==
    LET x == jobs[j].made
        d == jobs[j].doc
    IN /\ j \in Running /\ x # None
       /\ d \in DocRows
       /\ registry' = [registry EXCEPT ![x] = [doc |-> d, deleted |-> FALSE]]
       /\ docs' = [docs EXCEPT ![d] = WithId(docs[d], x)]
       /\ jobs' = [jobs EXCEPT ![j].at = "index", ![j].made = None]
       /\ UNCHANGED <<ranges, foundry, rebuilding, cleaning, sessions, assessing, lost>>

\* the version was deleted meanwhile: the foreign key refuses the row and the job ends
RecordRefused(j) ==
    /\ j \in Running /\ jobs[j].made # None
    /\ jobs[j].doc \notin DocRows
    /\ Leaves(j) /\ Loses(j, "row deleted")
    /\ UNCHANGED <<ranges, docs, registry, foundry, cleaning, sessions, assessing>>

MarkFailed(d) ==
    IF d \in DocRows /\ docs[d].status = "processing" THEN [docs EXCEPT ![d].status = "failed"] ELSE docs

\* markFailed, or for a rebuild only an audit row
Failed(j) == IF jobs[j].for = "index" THEN MarkFailed(jobs[j].doc) ELSE docs

\* a call fails, or its answer never comes: a 5xx of a create is not tried again
JobFails(j) ==
    /\ j \in Running
    /\ docs' = Failed(j)
    /\ Leaves(j) /\ Loses(j, "no answer")
    /\ UNCHANGED <<ranges, registry, foundry, cleaning, sessions, assessing>>

\* sessions that started before any version existed
Backfilled(r, d) == {IF s.range = r /\ s.doc = None THEN [s EXCEPT !.doc = d] ELSE s : s \in sessions}

Superseded(r) == [d \in DocIds |-> IF d \in Current(r) THEN [docs[d] EXCEPT !.current = FALSE, !.status = "superseded"]
                                   ELSE docs[d]]

\* The transaction at the end of indexDocument, by the ids the job remembers. The unique index on
\* is_current refuses a second current version of one scenario.
Promote(j) ==
    LET d   == jobs[j].doc
        r   == jobs[j].range
        new == [Superseded(r) EXCEPT ![d].status = "ready", ![d].current = TRUE]
    IN /\ j \in Running /\ jobs[j].at = "index" /\ jobs[j].for = "index"
       /\ IF d \notin DocRows \/ docs[d].status # "processing"
          THEN UNCHANGED <<docs, sessions>>
          ELSE IF \E v \in DocRows : v # d /\ new[v].range = docs[d].range /\ new[v].current
          THEN docs' = MarkFailed(d) /\ UNCHANGED sessions
          ELSE docs' = new /\ sessions' = Backfilled(r, d)
       /\ Leaves(j)
       /\ UNCHANGED <<ranges, registry, foundry, cleaning, assessing, lost>>

Rebuilt(j) ==
    /\ j \in Running /\ jobs[j].at = "index" /\ jobs[j].for = "rebuild"
    /\ docs' = IF jobs[j].doc \in DocRows THEN [docs EXCEPT ![jobs[j].doc].gone = FALSE] ELSE docs
    /\ Leaves(j)
    /\ UNCHANGED <<ranges, registry, foundry, cleaning, sessions, assessing, lost>>

-------------------------------------------------------------------------------
(* The clean-up an administrator approves                                   *)

\* the checks of executeCleanup, for the list as a whole
StartCleanup(S) ==
    /\ ~cleaning.on
    /\ S # {} /\ S \subseteq Candidates
    /\ cleaning' = [on |-> TRUE, todo |-> S]
    /\ UNCHANGED <<ranges, docs, registry, foundry, jobs, rebuilding, sessions, assessing, lost>>

\* one after the other, in the order of their rows
IsFirst(x) == \A y \in cleaning.todo : x <= y

FoundryRemoves(x) ==
    /\ x \in cleaning.todo \cap Live /\ IsFirst(x)
    /\ foundry' = [foundry EXCEPT ![x].live = FALSE]
    /\ UNCHANGED <<ranges, docs, registry, jobs, rebuilding, cleaning, sessions, assessing, lost>>

\* a version all of whose resources are deleted is marked as gone
Marked(reg) ==
    [d \in DocIds |-> IF /\ d \in DocRows
                         /\ \E x \in Tracked : reg[x].doc = d
                         /\ \A x \in Tracked : reg[x].doc = d => reg[x].deleted
                      THEN [docs[d] EXCEPT !.gone = TRUE] ELSE docs[d]]

\* One turn of the loop ends: the deletion is written down, or its error. After the last one the
\* versions are marked and the lock is released in the same stretch.
CleanupTurn(x, done) ==
    LET reg == IF done THEN [registry EXCEPT ![x].deleted = TRUE] ELSE registry
    IN /\ x \in cleaning.todo /\ IsFirst(x)
       /\ done => x \notin Live           \* a 404 is an answer too
       /\ registry' = reg
       /\ docs' = IF cleaning.todo = {x} THEN Marked(reg) ELSE docs
       /\ cleaning' = [on |-> cleaning.todo # {x}, todo |-> cleaning.todo \ {x}]
       /\ UNCHANGED <<ranges, foundry, jobs, rebuilding, sessions, assessing, lost>>

-------------------------------------------------------------------------------
(* Restart                                                                  *)

\* Mutant: versions a restart interrupted keep their status.
Recovered_Nothing == docs

\* recoverInterruptedAiWork
Recovered == [d \in DocIds |-> IF d \in DocRows THEN MarkFailed(d)[d] ELSE docs[d]]

\* Memory is lost: every job, the set of rebuilds, the clean-up; then the start-up recovery.
Restart ==
    /\ jobs' = [j \in JobIds |-> NoJob]
    /\ rebuilding' = {}
    /\ cleaning' = [on |-> FALSE, todo |-> {}]
    /\ docs' = Recovered
    /\ assessing' = {}
    /\ lost' = lost \cup {<<jobs[j].made, "restart">> : j \in {k \in Running : jobs[k].made # None}}
    /\ UNCHANGED <<ranges, registry, foundry, sessions>>

Init ==
    /\ ranges = {}
    /\ docs = [d \in DocIds |-> NoDoc]
    /\ registry = [x \in Resources |-> NoEntry]
    /\ foundry = [x \in Resources |-> NoThing]
    /\ jobs = [j \in JobIds |-> NoJob]
    /\ rebuilding = {}
    /\ cleaning = [on |-> FALSE, todo |-> {}]
    /\ sessions = {} /\ assessing = {} /\ lost = {}

Next ==
    \/ \E r \in Ranges : CreateRange(r) \/ DeleteRange(r)
    \/ \E t \in Teams : ForgetTeam(t) \/ \E r \in Ranges : StartSession(t, r)
    \/ \E s \in sessions : BeginAssessment(s)
    \/ \E a \in assessing : EndAssessment(a)
    \/ \E r \in Ranges, c \in Contents, d \in DocIds, j \in JobIds : UploadVersion(r, c, d, j)
    \/ \E d \in DocIds, j \in JobIds : RetryVersion(d, j) \/ RebuildVersion(d, j)
    \/ \E j \in JobIds : \/ \E x \in Resources : FoundryMakes(j, x)
                         \/ RecordResource(j) \/ RecordRefused(j) \/ JobFails(j)
                         \/ Promote(j) \/ Rebuilt(j)
    \/ \E S \in SUBSET Resources : StartCleanup(S)
    \/ \E x \in Resources : FoundryRemoves(x) \/ \E done \in BOOLEAN : CleanupTurn(x, done)
    \/ Restart

Spec == Init /\ [][Next]_vars

-------------------------------------------------------------------------------
(* Properties                                                               *)

\* the copies a version on its way, a ready one or a session's own is served by
Needed == {docs[d].store : d \in {e \in DocRows : \/ docs[e].status \in {"processing", "ready"}
                                                  \/ \E s \in sessions : s.doc = e}} \ {None}

\* The documents as tracked resources: see TrackedResources.
Promise == INSTANCE TrackedResources WITH
    made <- Made, live <- Live, tracked <- Tracked,
    lost <- {p[1] : p \in lost}, needed <- Needed

\* Every file and store the server creates is recorded unless its creation was still in flight; a
\* clean-up, however long after its approval, never removes what a version on its way, a current or
\* pinned version or an assessment needs, and nothing removed is needed again (executeCleanup,
\* recordResource, retryVersion).
ResourcesAreTracked == Promise!Spec

\* A version is never left processing with nobody at work on it, which would block every later
\* upload, retry and rebuild of its scenario (markFailed, recoverInterruptedAiWork).
ProcessingIsWorkedOn ==
    \A d \in DocRows : docs[d].status = "processing" =>
        \E j \in Running : jobs[j].doc = d /\ jobs[j].for = "index"

\* A session keeps the version it pinned until the session itself is gone, through restarts of the
\* scenario, later uploads, promotions, failures and rebuilds, so that all its assessments are made
\* against one text (Repin, Backfilled); only a version of another scenario, which a job that
\* outlived its own may have left it with, can go from under it, with that scenario.
PinsStand ==
    [][\A s \in sessions, u \in sessions' :
         /\ s.team = u.team /\ s.range = u.range /\ s.doc # None
         /\ s.doc \in VersionsOf(s.range) \/ s.doc \in DocRows'
         => u.doc = s.doc]_vars
=====================================================================================
