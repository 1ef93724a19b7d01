---------------------------------- MODULE AiProofs ---------------------------------
(***************************************************************************)
(* Safety theorems about the two halves of the AI assessment: AiDocuments, *)
(* for every set of scenarios, teams and contents and any number of        *)
(* versions, resources and jobs, with its refinement of TrackedResources;  *)
(* and AiAssessments, for every set of teams, works and replies and any    *)
(* number of rows and requests.                                            *)
(***************************************************************************)
EXTENDS AiDocuments, AiAssessments, FiniteSetTheorems, WellFoundedInduction, TLAPS

-------------------------------------------------------------------------------
(* Rows                                                                     *)

LEMMA Ids == None \notin DocIds /\ None \notin Resources
BY DEF None, DocIds, Resources

LEMMA DocsAreRows == \A x \in Doc : x # NoDoc
BY DEF Doc, NoDoc

LEMMA EntriesAreRows == \A x \in Entry : x # NoEntry
BY DEF Entry, NoEntry

LEMMA ThingsAreThere == \A x \in Thing : x # NoThing
BY DEF Thing, NoThing

LEMMA JobsAreRunning == \A x \in Job : x # NoJob
BY DEF Job, NoJob

LEMMA RowTypes ==
    ASSUME TypeOK
    PROVE  /\ \A d \in DocIds : d \in DocRows <=> docs[d] \in Doc
           /\ \A x \in Resources : x \in Tracked <=> registry[x] \in Entry
           /\ \A x \in Resources : x \in Made <=> foundry[x] \in Thing
           /\ \A j \in JobIds : j \in Running <=> jobs[j] \in Job
BY DocsAreRows, EntriesAreRows, ThingsAreThere, JobsAreRunning DEF TypeOK, DocRows, Tracked, Made, Running

LEMMA PinsAreReady ==
    ASSUME NEW r
    PROVE  PinFor(r) = None \/ (PinFor(r) \in Current(r) /\ docs[PinFor(r)].status = "ready")
BY DEF PinFor

LEMMA PinType == ASSUME NEW r PROVE PinFor(r) \in DocIds \cup {None}
BY PinsAreReady DEF Current, VersionsOf, DocRows

\* What an update of one column makes of a version.
LEMMA DocUpdates ==
    ASSUME NEW v \in Doc
    PROVE  /\ \A s \in {"processing", "ready", "failed", "superseded"} : [v EXCEPT !.status = s] \in Doc
           /\ \A x \in Resources \cup {None} : WithId(v, x) \in Doc
           /\ \A b \in BOOLEAN : [v EXCEPT !.gone = b] \in Doc
           /\ [v EXCEPT !.current = FALSE, !.status = "superseded"] \in Doc
           /\ [v EXCEPT !.status = "ready", !.current = TRUE] \in Doc
           /\ Retried(v) \in Doc
BY DEF Doc, WithId, Retried

\* The same updates under names of their own, for the lemmas that only ask what they leave alone.
AsFailed(v) == [v EXCEPT !.status = "failed"]
AsSuperseded(v) == [v EXCEPT !.current = FALSE, !.status = "superseded"]
AsCurrent(v) == [v EXCEPT !.status = "ready", !.current = TRUE]
AsGone(v, b) == [v EXCEPT !.gone = b]

LEMMA DocFields ==
    ASSUME NEW v \in Doc
    PROVE  /\ AsFailed(v).store = v.store /\ AsFailed(v).status = "failed"
           /\ AsSuperseded(v).store = v.store /\ AsSuperseded(v).status = "superseded"
           /\ AsCurrent(v).store = v.store /\ AsCurrent(v).status = "ready"
           /\ \A b \in BOOLEAN : AsGone(v, b).store = v.store /\ AsGone(v, b).status = v.status
           /\ \A x \in Resources \cup {None} : WithId(v, x).status = v.status /\ WithId(v, x).store = x
           /\ Retried(v).store = None /\ Retried(v).status = "processing"
BY DEF Doc, WithId, Retried, AsFailed, AsSuperseded, AsCurrent, AsGone

LEMMA DocsStayRows ==
    ASSUME NEW v \in Doc
    PROVE  /\ AsFailed(v) # NoDoc /\ AsSuperseded(v) # NoDoc /\ AsCurrent(v) # NoDoc
           /\ \A b \in BOOLEAN : AsGone(v, b) # NoDoc
           /\ \A x \in Resources \cup {None} : WithId(v, x) # NoDoc
           /\ Retried(v) # NoDoc
BY DocUpdates, DocsAreRows DEF AsFailed, AsSuperseded, AsCurrent, AsGone

-------------------------------------------------------------------------------
(* Type correctness                                                         *)

Docs == [DocIds -> Doc \cup {NoDoc}]

LEMMA MarkFailedType == ASSUME TypeOK, NEW d PROVE MarkFailed(d) \in Docs
BY RowTypes, DocUpdates DEF TypeOK, MarkFailed, Docs, DocRows

LEMMA SupersededType == ASSUME TypeOK, NEW r PROVE Superseded(r) \in Docs
BY RowTypes, DocUpdates DEF TypeOK, Superseded, Current, VersionsOf, Docs

LEMMA MarkedType == ASSUME TypeOK, NEW reg PROVE Marked(reg) \in Docs
BY RowTypes, DocUpdates DEF TypeOK, Marked, Docs

LEMMA RecoveredType == TypeOK => Recovered \in Docs
BY MarkFailedType DEF TypeOK, Recovered, Docs

\* The promoted rows: a new current version, the earlier one superseded.
Promoted(d, r) == [Superseded(r) EXCEPT ![d].status = "ready", ![d].current = TRUE]

LEMMA PromotedType ==
    ASSUME TypeOK, NEW d \in DocRows, NEW r
    PROVE  /\ Promoted(d, r) \in Docs
           /\ \A v \in DocIds \ {d} : Promoted(d, r)[v] = Superseded(r)[v]
           /\ Promoted(d, r)[d] = [Superseded(r)[d] EXCEPT !.status = "ready", !.current = TRUE]
<1>1. Superseded(r) \in Docs
  BY SupersededType
<1>2. docs[d] \in Doc
  BY RowTypes DEF DocRows
<1>3. Superseded(r)[d] \in Doc
  BY <1>2, DocUpdates DEF Superseded, DocRows
<1>4. Promoted(d, r) = [Superseded(r) EXCEPT ![d] = [Superseded(r)[d] EXCEPT !.status = "ready", !.current = TRUE]]
  BY <1>1 DEF Promoted, Docs, DocRows
<1>5. QED  BY <1>1, <1>3, <1>4, DocUpdates DEF Docs, DocRows

LEMMA StartType ==
    ASSUME TypeOK, NEW j \in JobIds, NEW d \in DocIds, NEW row \in Doc, NEW why \in {"index", "rebuild"},
           Start(j, d, row, why)
    PROVE  jobs' \in [JobIds -> Job \cup {NoJob}]
<1>1. [at |-> "create", for |-> why, doc |-> d, range |-> row.range, content |-> row.content, made |-> None] \in Job
  BY DEF Doc, Job
<1>2. QED  BY <1>1 DEF Start, TypeOK

LEMMA LeavesType ==
    ASSUME TypeOK, NEW j \in JobIds, Leaves(j)
    PROVE  jobs' \in [JobIds -> Job \cup {NoJob}] /\ rebuilding' \in SUBSET DocIds
BY DEF Leaves, TypeOK

LEMMA LosesType ==
    ASSUME TypeOK, NEW j \in Running, NEW why \in {"restart", "no answer", "row deleted"}, Loses(j, why)
    PROVE  lost' \in SUBSET (Resources \X {"restart", "no answer", "row deleted"})
<1>1. jobs[j].made \in Resources \cup {None}
  BY RowTypes DEF Running, Job
<1>2. jobs[j].made # None => <<jobs[j].made, why>> \in Resources \X {"restart", "no answer", "row deleted"}
  BY <1>1
<1>3. QED  BY <1>2 DEF Loses, TypeOK

LEMMA InitType == Init => TypeOK
BY DEF Init, TypeOK

LEMMA SessionsType ==
    ASSUME TypeOK, [Next]_vars
    PROVE  sessions' \in SUBSET [team : Teams, range : Ranges, doc : DocIds \cup {None}]
<1> DEFINE SessionRows == [team : Teams, range : Ranges, doc : DocIds \cup {None}]
<1>0. \A s \in sessions, d \in DocIds \cup {None} : s \in SessionRows /\ [s EXCEPT !.doc = d] \in SessionRows
  BY DEF TypeOK
<1> HIDE DEF SessionRows
<1>1. ASSUME NEW r \in Ranges, DeleteRange(r)  PROVE sessions' \in SUBSET SessionRows
  BY <1>0, <1>1 DEF DeleteRange
<1>2. ASSUME NEW t \in Teams, NEW r \in Ranges, StartSession(t, r)  PROVE sessions' \in SUBSET SessionRows
  <2>1. \A s \in sessions : Repin(s) \in DocIds \cup {None}
    BY PinType DEF Repin, TypeOK
  <2>2. [team |-> t, range |-> r, doc |-> PinFor(r)] \in SessionRows
    BY PinType DEF SessionRows
  <2>3. \/ sessions' = sessions \cup {[team |-> t, range |-> r, doc |-> PinFor(r)]}
        \/ \A u \in sessions' : \E s \in sessions : u = s \/ u = [s EXCEPT !.doc = Repin(s)]
    BY <1>2 DEF StartSession
  <2>4. QED  BY <1>0, <2>1, <2>2, <2>3
<1>3. ASSUME NEW t \in Teams, ForgetTeam(t)  PROVE sessions' \in SUBSET SessionRows
  BY <1>0, <1>3 DEF ForgetTeam
<1>4. ASSUME NEW j \in JobIds, Promote(j)  PROVE sessions' \in SUBSET SessionRows
  <2>1. jobs[j].doc \in DocIds
    BY <1>4, RowTypes DEF Promote, Job
  <2>2. sessions' = sessions \/ sessions' = Backfilled(jobs[j].range, jobs[j].doc)
    BY <1>4 DEF Promote
  <2>3. \A u \in sessions' : \E s \in sessions : u = s \/ u = [s EXCEPT !.doc = jobs[j].doc]
    BY <2>2 DEF Backfilled
  <2>4. \A s \in sessions : s \in SessionRows /\ [s EXCEPT !.doc = jobs[j].doc] \in SessionRows
    BY <1>0, <2>1
  <2>5. QED  BY <2>3, <2>4
<1>5. UNCHANGED sessions => sessions' \in SUBSET SessionRows
  BY <1>0
<1>6. sessions' \in SUBSET SessionRows
  BY <1>1, <1>2, <1>3, <1>4, <1>5
  DEF Next, vars, CreateRange, BeginAssessment, EndAssessment, UploadVersion, RetryVersion, RebuildVersion,
      FoundryMakes, RecordResource, RecordRefused, JobFails, Rebuilt, StartCleanup, FoundryRemoves, CleanupTurn,
      Restart
<1>7. QED  BY <1>6 DEF SessionRows

\* The clean-up only works on resources it has on record.
TodoIsTracked == cleaning.todo \subseteq Tracked

LEMMA TypeStep == TypeOK /\ TodoIsTracked /\ [Next]_vars => TypeOK'
<1> SUFFICES ASSUME TypeOK, TodoIsTracked, [Next]_vars  PROVE TypeOK'
  OBVIOUS
<1>0. sessions' \in SUBSET [team : Teams, range : Ranges, doc : DocIds \cup {None}]
  BY SessionsType
<1>1. ASSUME NEW r \in Ranges, CreateRange(r)  PROVE TypeOK'
  BY <1>0, <1>1 DEF CreateRange, TypeOK
<1>2. ASSUME NEW r \in Ranges, DeleteRange(r)  PROVE TypeOK'
  <2>1. docs' \in Docs
    BY <1>2 DEF DeleteRange, TypeOK, Docs
  <2>2. \A e \in Entry : [e EXCEPT !.doc = None] \in Entry
    BY DEF Entry
  <2>3. registry' \in [Resources -> Entry \cup {NoEntry}]
    BY <1>2, <2>2, RowTypes DEF DeleteRange, TypeOK
  <2>4. ranges' \in SUBSET Ranges /\ assessing' \subseteq assessing
    BY <1>2 DEF DeleteRange, TypeOK
  <2>5. UNCHANGED <<foundry, jobs, rebuilding, cleaning, lost>>
    BY <1>2 DEF DeleteRange
  <2>6. QED  BY <1>0, <2>1, <2>3, <2>4, <2>5 DEF TypeOK, Docs
<1>3. ASSUME NEW t \in Teams, ForgetTeam(t)  PROVE TypeOK'
  <2>1. assessing' \subseteq assessing
    BY <1>3 DEF ForgetTeam
  <2>2. UNCHANGED <<ranges, docs, registry, foundry, jobs, rebuilding, cleaning, lost>>
    BY <1>3 DEF ForgetTeam
  <2>3. QED  BY <1>0, <2>1, <2>2 DEF TypeOK
<1>4. ASSUME NEW t \in Teams, NEW r \in Ranges, StartSession(t, r)  PROVE TypeOK'
  BY <1>0, <1>4 DEF StartSession, TypeOK
<1>5. ASSUME NEW s \in sessions, BeginAssessment(s)  PROVE TypeOK'
  <2>1. s.doc \in DocRows /\ docs[s.doc].store # None
    BY <1>5 DEF BeginAssessment, Usable, VersionsOf
  <2>2. docs[s.doc].store \in Resources
    BY <2>1, RowTypes DEF DocRows, Doc
  <2>3. [team |-> s.team, range |-> s.range, doc |-> s.doc, store |-> docs[s.doc].store]
          \in [team : Teams, range : Ranges, doc : DocIds, store : Resources]
    BY <2>1, <2>2 DEF TypeOK, DocRows
  <2>4. QED  BY <1>0, <1>5, <2>3 DEF BeginAssessment, TypeOK
<1>6. ASSUME NEW a \in assessing, EndAssessment(a)  PROVE TypeOK'
  BY <1>0, <1>6 DEF EndAssessment, TypeOK
<1>7. ASSUME NEW r \in Ranges, NEW c \in Contents, NEW d \in DocIds, NEW j \in JobIds, UploadVersion(r, c, d, j)
      PROVE  TypeOK'
  <2> DEFINE row == [range |-> r, content |-> c, status |-> "processing", current |-> FALSE,
                     store |-> None, gone |-> FALSE]
  <2>1. row \in Doc
    BY DEF Doc
  <2>2. docs' = [docs EXCEPT ![d] = row] /\ Start(j, d, row, "index")
        /\ UNCHANGED <<ranges, registry, foundry, rebuilding, cleaning, assessing, lost>>
    BY <1>7 DEF UploadVersion
  <2>3. jobs' \in [JobIds -> Job \cup {NoJob}]
    BY <2>1, <2>2, StartType
  <2> HIDE DEF row
  <2>4. QED  BY <1>0, <2>1, <2>2, <2>3 DEF TypeOK
<1>8. ASSUME NEW d \in DocIds, NEW j \in JobIds, RetryVersion(d, j)  PROVE TypeOK'
  <2>1. docs[d] \in Doc
    BY <1>8, RowTypes DEF RetryVersion
  <2>2. jobs' \in [JobIds -> Job \cup {NoJob}]
    BY <1>8, <2>1, StartType, Zenon DEF RetryVersion
  <2>3. docs' \in Docs
    BY <1>8, <2>1, DocUpdates DEF RetryVersion, TypeOK, Docs
  <2>4. QED  BY <1>0, <1>8, <2>2, <2>3 DEF RetryVersion, TypeOK, Docs
<1>9. ASSUME NEW d \in DocIds, NEW j \in JobIds, RebuildVersion(d, j)  PROVE TypeOK'
  <2>1. docs[d] \in Doc
    BY <1>9, RowTypes DEF RebuildVersion
  <2>2. jobs' \in [JobIds -> Job \cup {NoJob}]
    BY <1>9, <2>1, StartType DEF RebuildVersion
  <2>3. QED  BY <1>0, <1>9, <2>2 DEF RebuildVersion, TypeOK
<1>10. ASSUME NEW j \in JobIds, NEW x \in Resources, FoundryMakes(j, x)  PROVE TypeOK'
  <2>1. jobs[j] \in Job
    BY <1>10, RowTypes DEF FoundryMakes
  <2>2. [content |-> jobs[j].content, live |-> TRUE] \in Thing /\ [jobs[j] EXCEPT !.made = x] \in Job
    BY <2>1 DEF Job, Thing
  <2>3. QED  BY <1>0, <1>10, <2>2 DEF FoundryMakes, TypeOK
<1>11. ASSUME NEW j \in JobIds, RecordResource(j)  PROVE TypeOK'
  <2>1. jobs[j] \in Job
    BY <1>11, RowTypes DEF RecordResource
  <2>2. jobs[j].made \in Resources /\ docs[jobs[j].doc] \in Doc /\ jobs[j].doc \in DocIds
    BY <1>11, <2>1, RowTypes DEF RecordResource, Job
  <2>3. [doc |-> jobs[j].doc, deleted |-> FALSE] \in Entry /\ [jobs[j] EXCEPT !.at = "index", !.made = None] \in Job
    BY <2>1, <2>2 DEF Entry, Job
  <2>4. WithId(docs[jobs[j].doc], jobs[j].made) \in Doc
    BY <2>2, DocUpdates
  <2>5. jobs' \in [JobIds -> Job \cup {NoJob}]
    BY <1>11, <2>3 DEF RecordResource, TypeOK
  <2>6. docs' \in Docs
    BY <1>11, <2>4 DEF RecordResource, TypeOK, Docs
  <2>7. registry' \in [Resources -> Entry \cup {NoEntry}]
    BY <1>11, <2>3 DEF RecordResource, TypeOK
  <2>8. UNCHANGED <<ranges, foundry, rebuilding, cleaning, assessing, lost>>
    BY <1>11 DEF RecordResource
  <2>9. QED  BY <1>0, <2>5, <2>6, <2>7, <2>8 DEF TypeOK, Docs
<1>12. ASSUME NEW j \in JobIds, RecordRefused(j)  PROVE TypeOK'
  <2>1. lost' \in SUBSET (Resources \X {"restart", "no answer", "row deleted"})
    BY <1>12, LosesType DEF RecordRefused
  <2>2. QED  BY <1>0, <1>12, <2>1, LeavesType DEF RecordRefused, TypeOK
<1>13. ASSUME NEW j \in JobIds, JobFails(j)  PROVE TypeOK'
  <2>1. lost' \in SUBSET (Resources \X {"restart", "no answer", "row deleted"})
    BY <1>13, LosesType DEF JobFails
  <2>2. docs' \in Docs
    BY <1>13, MarkFailedType DEF JobFails, Failed, TypeOK, Docs
  <2>3. QED  BY <1>0, <1>13, <2>1, <2>2, LeavesType DEF JobFails, TypeOK, Docs
<1>14. ASSUME NEW j \in JobIds, Promote(j)  PROVE TypeOK'
  <2>1. \/ docs' = docs \/ docs' = MarkFailed(jobs[j].doc)
        \/ jobs[j].doc \in DocRows /\ docs' = Promoted(jobs[j].doc, jobs[j].range)
    BY <1>14 DEF Promote, Promoted
  <2>2. docs' \in Docs
    <3>1. docs \in Docs /\ MarkFailed(jobs[j].doc) \in Docs
      BY MarkFailedType DEF TypeOK, Docs
    <3>2. jobs[j].doc \in DocRows => Promoted(jobs[j].doc, jobs[j].range) \in Docs
      BY PromotedType
    <3>3. QED  BY <2>1, <3>1, <3>2
  <2>3. Leaves(j) /\ UNCHANGED <<ranges, registry, foundry, cleaning, assessing, lost>>
    BY <1>14 DEF Promote
  <2>4. QED  BY <1>0, <2>2, <2>3, LeavesType DEF TypeOK, Docs
<1>15. ASSUME NEW j \in JobIds, Rebuilt(j)  PROVE TypeOK'
  <2>1. docs' \in Docs
    BY <1>15, RowTypes, DocUpdates DEF Rebuilt, TypeOK, Docs, DocRows
  <2>2. QED  BY <1>0, <1>15, <2>1, LeavesType DEF Rebuilt, TypeOK, Docs
<1>16. ASSUME NEW S \in SUBSET Resources, StartCleanup(S)  PROVE TypeOK'
  BY <1>0, <1>16 DEF StartCleanup, TypeOK
<1>17. ASSUME NEW x \in Resources, FoundryRemoves(x)  PROVE TypeOK'
  <2>1. \A th \in Thing : [th EXCEPT !.live = FALSE] \in Thing
    BY DEF Thing
  <2>2. foundry[x] # NoThing
    BY <1>17 DEF FoundryRemoves, Live, Made
  <2>3. foundry' \in [Resources -> Thing \cup {NoThing}]
    BY <1>17, <2>1, <2>2 DEF FoundryRemoves, TypeOK
  <2>4. QED  BY <1>0, <1>17, <2>3 DEF FoundryRemoves, TypeOK
<1>18. ASSUME NEW x \in Resources, NEW done \in BOOLEAN, CleanupTurn(x, done)  PROVE TypeOK'
  <2> DEFINE reg == IF done THEN [registry EXCEPT ![x].deleted = TRUE] ELSE registry
  <2>0. registry' = reg /\ (docs' = docs \/ docs' = Marked(reg)) /\ UNCHANGED <<ranges, foundry, jobs, rebuilding, assessing, lost>>
        /\ cleaning' = [on |-> cleaning.todo # {x}, todo |-> cleaning.todo \ {x}]
    BY <1>18 DEF CleanupTurn
  <2>1. x \in cleaning.todo
    BY <1>18 DEF CleanupTurn
  <2>2. \A e \in Entry : [e EXCEPT !.deleted = TRUE] \in Entry
    BY DEF Entry
  <2>3. registry[x] \in Entry => reg \in [Resources -> Entry \cup {NoEntry}]
    <3>1. registry[x] \in Entry => [registry EXCEPT ![x].deleted = TRUE] \in [Resources -> Entry \cup {NoEntry}]
      BY <2>2 DEF TypeOK
    <3>2. QED  BY <3>1 DEF TypeOK
  <2>4. docs' \in Docs
    <3>1. docs \in Docs
      BY DEF TypeOK, Docs
    <3>2. Marked(reg) \in Docs
      BY MarkedType
    <3>3. QED  BY <2>0, <3>1, <3>2
  <2>5. cleaning' \in [on : BOOLEAN, todo : SUBSET Resources]
    BY <2>0 DEF TypeOK
  <2> HIDE DEF reg
  <2>6. registry[x] \in Entry
    BY <2>1, RowTypes DEF TodoIsTracked
  <2>7. QED  BY <1>0, <2>0, <2>3, <2>4, <2>5, <2>6 DEF TypeOK, Docs
<1>19. CASE Restart
  <2>1. docs' \in Docs /\ jobs' \in [JobIds -> Job \cup {NoJob}] /\ UNCHANGED <<ranges, registry, foundry>>
    BY <1>19, RecoveredType DEF Restart
  <2>2. \A j \in Running : jobs[j].made # None => jobs[j].made \in Resources
    BY RowTypes DEF Running, Job
  <2>3. lost' \in SUBSET (Resources \X {"restart", "no answer", "row deleted"})
    <3>1. \A p \in lost' : p \in lost \/ \E j \in Running : jobs[j].made # None /\ p = <<jobs[j].made, "restart">>
      BY <1>19 DEF Restart
    <3>2. \A p \in lost : p \in Resources \X {"restart", "no answer", "row deleted"}
      BY DEF TypeOK
    <3>3. \A j \in Running : jobs[j].made # None =>
             <<jobs[j].made, "restart">> \in Resources \X {"restart", "no answer", "row deleted"}
      BY <2>2
    <3>4. QED  BY <3>1, <3>2, <3>3
  <2>4. rebuilding' = {} /\ cleaning' = [on |-> FALSE, todo |-> {}] /\ assessing' = {}
    BY <1>19 DEF Restart
  <2>5. QED  BY <1>0, <2>1, <2>3, <2>4 DEF TypeOK, Docs
<1>20. CASE UNCHANGED vars
  BY <1>20 DEF vars, TypeOK
<1>21. QED
  BY <1>1, <1>2, <1>3, <1>4, <1>5, <1>6, <1>7, <1>8, <1>9, <1>10, <1>11, <1>12, <1>13, <1>14, <1>15, <1>16,
     <1>17, <1>18, <1>19, <1>20
  DEF Next

-------------------------------------------------------------------------------
(* The inductive invariant                                                  *)

\* A version its scenario or a session may still be assessed with.
Needs(d) == docs[d].status \in {"processing", "ready"} \/ \E s \in sessions : s.doc = d

\* A version's store is on record as the version's own.
StoresAreOnRecord == \A d \in DocRows : docs[d].store # None =>
    docs[d].store \in Tracked /\ registry[docs[d].store].doc = d

\* What a job has made and not yet recorded is there, nobody else's, and not lost.
InFlightIsNew == \A j \in Running : jobs[j].made # None =>
    /\ jobs[j].made \in Live \ Tracked
    /\ \A p \in lost : p[1] # jobs[j].made
    /\ \A k \in Running \ {j} : jobs[k].made # jobs[j].made

LostIsUnknown == \A p \in lost : p[1] \in Made \ Tracked

\* A session pins a version that was indexed, and such a version never goes back.
PinsAreIndexed == \A s \in sessions : s.doc # None =>
    s.doc \in DocRows /\ docs[s.doc].status \in {"ready", "superseded"}

\* A clean-up works on stores of versions that can never be needed again.
CleaningIsSpare == \A d \in DocRows : docs[d].store \in cleaning.todo => ~Needs(d)

NeededIsServed == \A d \in DocRows : Needs(d) /\ docs[d].store # None => docs[d].store \in Tracked \cap Live

ResourcesInv == TodoIsTracked /\ Tracked \subseteq Made /\ InFlightIsNew /\ LostIsUnknown
VersionsInv == StoresAreOnRecord /\ PinsAreIndexed /\ CleaningIsSpare /\ NeededIsServed
DocumentsInv == ResourcesInv /\ VersionsInv

LEMMA NeededVersions == Needed = {docs[d].store : d \in {e \in DocRows : Needs(e)}} \ {None}
BY DEF Needed, Needs

LEMMA InvInit == Init => DocumentsInv
BY DEF Init, DocumentsInv, ResourcesInv, VersionsInv, TodoIsTracked, Tracked, Made, InFlightIsNew, Running,
       LostIsUnknown, StoresAreOnRecord, PinsAreIndexed, CleaningIsSpare, NeededIsServed, DocRows

-------------------------------------------------------------------------------
(* How resources and versions change                                        *)

\* Handlers keep what is on record and what is there.
SameResources == Tracked' = Tracked /\ Made' = Made /\ Live' = Live
SameRecord == \A x \in Tracked : registry'[x].doc = registry[x].doc

LEMMA SameTables ==
    UNCHANGED <<registry, foundry>> => SameResources /\ SameRecord
BY DEF SameResources, SameRecord, Tracked, Made, Live

\* Versions only age: a row keeps its store, and its status goes on.
Ages(new) == \A d \in DocIds :
    /\ new[d] # NoDoc <=> d \in DocRows
    /\ d \in DocRows =>
         /\ new[d].store = docs[d].store
         /\ \/ new[d].status = docs[d].status \/ new[d].status = "superseded"
            \/ docs[d].status = "processing" /\ new[d].status \in {"ready", "failed"}

LEMMA SameDocsAge == Ages(docs)
BY DEF Ages, DocRows

LEMMA MarkFailedAges == ASSUME TypeOK, NEW e PROVE Ages(MarkFailed(e))
<1>1. ASSUME e \in DocRows, docs[e].status = "processing"  PROVE Ages(MarkFailed(e))
  <2>1. docs[e] \in Doc /\ MarkFailed(e) = [docs EXCEPT ![e] = AsFailed(docs[e])]
    BY <1>1, RowTypes DEF DocRows, MarkFailed, AsFailed
  <2>2. MarkFailed(e)[e] = AsFailed(docs[e]) /\ \A d \in DocIds \ {e} : MarkFailed(e)[d] = docs[d]
    BY <1>1, <2>1 DEF DocRows, TypeOK
  <2>3. AsFailed(docs[e]) # NoDoc /\ AsFailed(docs[e]).store = docs[e].store /\ AsFailed(docs[e]).status = "failed"
    BY <2>1, DocFields, DocsStayRows
  <2>4. QED  BY <1>1, <2>2, <2>3 DEF Ages, DocRows
<1>2. QED  BY <1>1, SameDocsAge DEF MarkFailed

LEMMA RecoveredAges == TypeOK => Ages(Recovered)
BY MarkFailedAges DEF Ages, Recovered, DocRows

LEMMA SupersededAges == ASSUME TypeOK, NEW r PROVE Ages(Superseded(r))
<1>1. ASSUME NEW d \in DocIds, d \in Current(r)
      PROVE  /\ d \in DocRows /\ Superseded(r)[d] # NoDoc
             /\ Superseded(r)[d].store = docs[d].store /\ Superseded(r)[d].status = "superseded"
  <2>1. d \in DocRows /\ docs[d] \in Doc
    BY <1>1, RowTypes DEF Current, VersionsOf, DocRows
  <2>2. Superseded(r)[d] = AsSuperseded(docs[d])
    BY <1>1 DEF Superseded, AsSuperseded
  <2>3. QED  BY <2>1, <2>2, DocFields, DocsStayRows
<1>2. \A d \in DocIds \ Current(r) : Superseded(r)[d] = docs[d]
  BY DEF Superseded
<1>3. QED  BY <1>1, <1>2 DEF Ages, DocRows

LEMMA PromotedAges ==
    ASSUME TypeOK, NEW d \in DocRows, docs[d].status = "processing", NEW r
    PROVE  Ages(Promoted(d, r)) /\ Promoted(d, r)[d].status = "ready"
<1>1. Ages(Superseded(r)) /\ Superseded(r) \in Docs /\ d \in DocIds
  BY SupersededAges, SupersededType DEF DocRows
<1>2. Superseded(r)[d] \in Doc /\ Superseded(r)[d].store = docs[d].store
  <2>1. Superseded(r)[d] # NoDoc /\ Superseded(r)[d].store = docs[d].store
    BY <1>1 DEF Ages
  <2>2. QED  BY <1>1, <2>1 DEF Docs
<1>3. Promoted(d, r)[d].store = docs[d].store /\ Promoted(d, r)[d].status = "ready" /\ Promoted(d, r)[d] # NoDoc
  <2>1. Promoted(d, r)[d] = AsCurrent(Superseded(r)[d])
    BY PromotedType DEF AsCurrent
  <2>2. QED  BY <1>2, <2>1, DocFields, DocsStayRows
<1>4. \A v \in DocIds \ {d} : Promoted(d, r)[v] = Superseded(r)[v]
  BY <1>1 DEF Promoted, Docs
<1>5. QED  BY <1>1, <1>3, <1>4 DEF Ages

LEMMA MarkedAges == ASSUME TypeOK, NEW reg PROVE Ages(Marked(reg))
<1>1. ASSUME NEW d \in DocRows
      PROVE  Marked(reg)[d] # NoDoc /\ Marked(reg)[d].store = docs[d].store /\ Marked(reg)[d].status = docs[d].status
  <2>1. docs[d] \in Doc /\ d \in DocIds
    BY RowTypes DEF DocRows
  <2>2. Marked(reg)[d] = docs[d] \/ Marked(reg)[d] = AsGone(docs[d], TRUE)
    BY <2>1 DEF Marked, AsGone
  <2>3. /\ AsGone(docs[d], TRUE) # NoDoc /\ AsGone(docs[d], TRUE).store = docs[d].store
        /\ AsGone(docs[d], TRUE).status = docs[d].status
    BY <2>1, DocFields, DocsStayRows
  <2>4. QED  BY <2>1, <2>2, <2>3, DocsAreRows
<1>2. \A d \in DocIds \ DocRows : Marked(reg)[d] = docs[d]
  BY DEF Marked
<1>3. QED  BY <1>1, <1>2 DEF Ages, DocRows

\* What aging, and pins that only reach versions that are needed, leave true.
LEMMA AgingKeepsVersions ==
    ASSUME TypeOK, DocumentsInv, Ages(docs'), Tracked \subseteq Tracked', Live \subseteq Live', SameRecord,
           cleaning'.todo \subseteq cleaning.todo,
           \A s \in sessions' : s.doc # None =>
               \/ \E u \in sessions : u.doc = s.doc
               \/ s.doc \in DocRows /\ Needs(s.doc) /\ docs'[s.doc].status \in {"ready", "superseded"}
    PROVE  VersionsInv'
<1>1. DocRows' = DocRows
  BY DEF Ages, DocRows
<1>2. \A d \in DocRows : docs'[d].store = docs[d].store
  BY DEF Ages, DocRows
<1>3. \A s \in sessions' : s.doc # None => Needs(s.doc)
  BY DEF Needs
<1>4. ASSUME NEW d \in DocRows, Needs(d)'  PROVE Needs(d)
  <2>1. docs'[d].status \in {"processing", "ready"} => docs[d].status \in {"processing", "ready"}
    BY DEF Ages, DocRows
  <2>2. d # None
    BY Ids DEF DocRows
  <2>3. QED  BY <1>3, <1>4, <2>1, <2>2 DEF Needs
<1>5. PinsAreIndexed'
  <2> SUFFICES ASSUME NEW s \in sessions', s.doc # None
               PROVE  s.doc \in DocRows' /\ docs'[s.doc].status \in {"ready", "superseded"}
    BY DEF PinsAreIndexed
  <2>1. ASSUME NEW u \in sessions, u.doc = s.doc
        PROVE  s.doc \in DocRows /\ docs'[s.doc].status \in {"ready", "superseded"}
    BY <2>1 DEF DocumentsInv, VersionsInv, PinsAreIndexed, Ages, DocRows
  <2>2. QED  BY <1>1, <2>1
<1>6. StoresAreOnRecord'
  BY <1>1, <1>2 DEF DocumentsInv, VersionsInv, StoresAreOnRecord, SameRecord
<1>7. CleaningIsSpare'
  BY <1>1, <1>2, <1>4 DEF DocumentsInv, VersionsInv, CleaningIsSpare
<1>8. NeededIsServed'
  BY <1>1, <1>2, <1>4 DEF DocumentsInv, VersionsInv, NeededIsServed
<1>9. QED  BY <1>5, <1>6, <1>7, <1>8 DEF VersionsInv

\* Resources stay as they are, and jobs only end or forget.
LEMMA SameResourcesKept ==
    ASSUME ResourcesInv, SameResources, lost' = lost, cleaning'.todo \subseteq cleaning.todo,
           \A j \in Running' : jobs'[j].made = None \/ (j \in Running /\ jobs'[j].made = jobs[j].made)
    PROVE  ResourcesInv'
<1>1. InFlightIsNew'
  BY DEF ResourcesInv, SameResources, InFlightIsNew
<1>2. QED  BY <1>1 DEF ResourcesInv, SameResources, TodoIsTracked, LostIsUnknown

LEMMA LeavesJobs ==
    ASSUME TypeOK, NEW j \in JobIds, Leaves(j)
    PROVE  Running' = Running \ {j} /\ \A k \in Running' : jobs'[k] = jobs[k]
<1>1. jobs'[j] = NoJob /\ \A k \in JobIds \ {j} : jobs'[k] = jobs[k]
  BY DEF Leaves, TypeOK
<1>2. QED  BY <1>1 DEF Running

LEMMA StartJobs ==
    ASSUME TypeOK, NEW j \in JobIds, NEW d, NEW row, NEW why, Start(j, d, row, why)
    PROVE  \A k \in Running' : jobs'[k].made = None \/ (k \in Running /\ jobs'[k].made = jobs[k].made)
<1>1. jobs'[j].made = None /\ \A k \in JobIds \ {j} : jobs'[k] = jobs[k]
  BY DEF Start, TypeOK
<1>2. QED  BY <1>1 DEF Running

\* Registry updates that keep every row.
LEMMA EntriesStay ==
    ASSUME NEW e \in Entry
    PROVE  /\ [e EXCEPT !.doc = None] # NoEntry
           /\ [e EXCEPT !.deleted = TRUE] # NoEntry /\ [e EXCEPT !.deleted = TRUE].doc = e.doc
<1>1. [e EXCEPT !.doc = None] \in Entry /\ [e EXCEPT !.deleted = TRUE] \in Entry
  BY DEF Entry
<1>2. [e EXCEPT !.deleted = TRUE].doc = e.doc
  BY DEF Entry
<1>3. QED  BY <1>1, <1>2, EntriesAreRows

LEMMA DeleteRangeResources ==
    ASSUME TypeOK, NEW r \in Ranges, DeleteRange(r)
    PROVE  SameResources
<1>1. \A x \in Resources : \/ x \in Tracked /\ registry'[x] = [registry[x] EXCEPT !.doc = None]
                           \/ registry'[x] = registry[x]
  BY DEF DeleteRange
<1>2. \A x \in Tracked : [registry[x] EXCEPT !.doc = None] # NoEntry
  BY RowTypes, EntriesStay DEF Tracked
<1>3. Tracked' = Tracked
  BY <1>1, <1>2 DEF Tracked
<1>4. foundry' = foundry
  BY DEF DeleteRange
<1>5. QED  BY <1>3, <1>4 DEF SameResources, Made, Live

LEMMA CleanupTurnResources ==
    ASSUME TypeOK, TodoIsTracked, NEW x \in Resources, NEW done \in BOOLEAN, CleanupTurn(x, done)
    PROVE  SameResources /\ SameRecord
<1>1. registry' = registry \/ registry' = [registry EXCEPT ![x].deleted = TRUE]
  BY DEF CleanupTurn
<1>2. x \in Tracked /\ registry[x] \in Entry
  BY RowTypes DEF CleanupTurn, TodoIsTracked
<1>3. \A y \in Resources : registry'[y] = registry[y] \/ (y = x /\ registry'[y] = [registry[x] EXCEPT !.deleted = TRUE])
  BY <1>1 DEF TypeOK
<1>4. [registry[x] EXCEPT !.deleted = TRUE] # NoEntry /\ [registry[x] EXCEPT !.deleted = TRUE].doc = registry[x].doc
  BY <1>2, EntriesStay
<1>5. Tracked' = Tracked /\ SameRecord
  BY <1>2, <1>3, <1>4 DEF Tracked, SameRecord
<1>6. foundry' = foundry
  BY DEF CleanupTurn
<1>7. QED  BY <1>5, <1>6 DEF SameResources, Made, Live

LEMMA FoundryMakesResources ==
    ASSUME TypeOK, NEW j \in JobIds, NEW x \in Resources, FoundryMakes(j, x)
    PROVE  /\ x \notin Made /\ Made' = Made \cup {x} /\ Live' = Live \cup {x} /\ Tracked' = Tracked
           /\ j \in Running /\ Running' = Running /\ jobs'[j].made = x
           /\ \A k \in Running \ {j} : jobs'[k] = jobs[k]
<1>1. \A y \in Made : y < x
  BY DEF FoundryMakes, IsNextRow
<1>2. x \notin Made
  BY <1>1 DEF Resources
<1>3. jobs[j] \in Job /\ j \in Running
  BY RowTypes DEF FoundryMakes
<1>4. [content |-> jobs[j].content, live |-> TRUE] \in Thing
  BY <1>3 DEF Job, Thing
<1>5. foundry'[x] = [content |-> jobs[j].content, live |-> TRUE] /\ \A y \in Resources \ {x} : foundry'[y] = foundry[y]
  BY DEF FoundryMakes, TypeOK
<1>6. foundry'[x] # NoThing /\ foundry'[x].live
  <2>1. foundry'[x] # NoThing
    BY <1>4, <1>5, ThingsAreThere
  <2>2. QED  BY <1>5, <2>1
<1>7. Made' = Made \cup {x} /\ Live' = Live \cup {x}
  BY <1>5, <1>6 DEF Made, Live
<1>8. [jobs[j] EXCEPT !.made = x] \in Job /\ [jobs[j] EXCEPT !.made = x].made = x
  BY <1>3 DEF Job
<1>9. jobs'[j] = [jobs[j] EXCEPT !.made = x] /\ \A k \in JobIds \ {j} : jobs'[k] = jobs[k]
  BY DEF FoundryMakes, TypeOK
<1>10. jobs'[j] # NoJob /\ jobs'[j].made = x
  BY <1>8, <1>9, JobsAreRunning
<1>11. Running' = Running
  BY <1>3, <1>9, <1>10 DEF Running
<1>12. Tracked' = Tracked
  BY DEF FoundryMakes, Tracked
<1>13. \A k \in Running \ {j} : jobs'[k] = jobs[k]
  BY <1>9 DEF Running
<1>14. QED  BY <1>2, <1>3, <1>7, <1>10, <1>11, <1>12, <1>13

LEMMA RecordResourceResources ==
    ASSUME TypeOK, InFlightIsNew, NEW j \in JobIds, RecordResource(j)
    PROVE  /\ jobs[j].made \in Live \ Tracked /\ jobs[j].doc \in DocRows
           /\ Tracked' = Tracked \cup {jobs[j].made} /\ Made' = Made /\ Live' = Live
           /\ registry'[jobs[j].made].doc = jobs[j].doc
           /\ \A y \in Tracked : registry'[y] = registry[y]
           /\ j \in Running /\ Running' = Running /\ jobs'[j].made = None
           /\ \A k \in Running \ {j} : jobs'[k] = jobs[k]
<1>1. j \in Running /\ jobs[j] \in Job /\ jobs[j].made # None /\ jobs[j].doc \in DocRows
  BY RowTypes DEF RecordResource
<1>2. jobs[j].made \in Live \ Tracked
  BY <1>1 DEF InFlightIsNew
<1>3. jobs[j].made \in Resources
  BY <1>2 DEF Live, Made
<1>4. [doc |-> jobs[j].doc, deleted |-> FALSE] \in Entry
  BY <1>1 DEF Entry, DocRows
<1>5. /\ registry'[jobs[j].made] = [doc |-> jobs[j].doc, deleted |-> FALSE]
      /\ \A y \in Resources \ {jobs[j].made} : registry'[y] = registry[y]
  BY <1>3 DEF RecordResource, TypeOK
<1>6. registry'[jobs[j].made] # NoEntry /\ registry'[jobs[j].made].doc = jobs[j].doc
  <2>1. registry'[jobs[j].made] # NoEntry
    BY <1>4, <1>5, EntriesAreRows
  <2>2. QED  BY <1>5, <2>1
<1>7. Tracked' = Tracked \cup {jobs[j].made}
  BY <1>3, <1>5, <1>6 DEF Tracked
<1>8. Made' = Made /\ Live' = Live
  BY DEF RecordResource, Made, Live
<1>9. /\ [jobs[j] EXCEPT !.at = "index", !.made = None] \in Job
      /\ [jobs[j] EXCEPT !.at = "index", !.made = None].made = None
  BY <1>1 DEF Job
<1>10. /\ jobs'[j] = [jobs[j] EXCEPT !.at = "index", !.made = None]
       /\ \A k \in JobIds \ {j} : jobs'[k] = jobs[k]
  BY DEF RecordResource, TypeOK
<1>11. jobs'[j] # NoJob /\ jobs'[j].made = None
  BY <1>9, <1>10, JobsAreRunning
<1>12. Running' = Running /\ \A k \in Running \ {j} : jobs'[k] = jobs[k]
  BY <1>1, <1>10, <1>11 DEF Running
<1>13. \A y \in Tracked : registry'[y] = registry[y]
  BY <1>2, <1>5 DEF Tracked
<1>14. QED  BY <1>1, <1>2, <1>6, <1>7, <1>8, <1>11, <1>12, <1>13

LEMMA FoundryRemovesResources ==
    ASSUME TypeOK, NEW x \in Resources, FoundryRemoves(x)
    PROVE  x \in cleaning.todo \cap Live /\ Tracked' = Tracked /\ Made' = Made /\ Live' = Live \ {x}
<1>1. x \in cleaning.todo \cap Live /\ foundry[x] \in Thing
  BY RowTypes DEF FoundryRemoves, Live
<1>2. [foundry[x] EXCEPT !.live = FALSE] \in Thing /\ ~[foundry[x] EXCEPT !.live = FALSE].live
  BY <1>1 DEF Thing
<1>3. /\ foundry'[x] = [foundry[x] EXCEPT !.live = FALSE]
      /\ \A y \in Resources \ {x} : foundry'[y] = foundry[y]
  BY DEF FoundryRemoves, TypeOK
<1>4. foundry'[x] # NoThing /\ ~foundry'[x].live
  BY <1>2, <1>3, ThingsAreThere
<1>5. Made' = Made /\ Live' = Live \ {x}
  BY <1>1, <1>3, <1>4 DEF Made, Live
<1>6. Tracked' = Tracked
  BY DEF FoundryRemoves, Tracked
<1>7. QED  BY <1>1, <1>5, <1>6

\* A job that ends with a resource it did not record: the server has lost it.
LEMMA LosingKeepsResources ==
    ASSUME TypeOK, ResourcesInv, NEW j \in Running, NEW why, Leaves(j), Loses(j, why), SameResources,
           cleaning' = cleaning
    PROVE  ResourcesInv'
<1>1. Running' = Running \ {j} /\ \A k \in Running' : jobs'[k] = jobs[k]
  BY LeavesJobs DEF Running
<1>2. \A p \in lost' : p \in lost \/ (jobs[j].made # None /\ p[1] = jobs[j].made)
  BY DEF Loses
<1>3. InFlightIsNew'
  BY <1>1, <1>2 DEF ResourcesInv, SameResources, InFlightIsNew
<1>4. LostIsUnknown'
  BY <1>2 DEF ResourcesInv, SameResources, InFlightIsNew, LostIsUnknown, Live
<1>5. QED  BY <1>3, <1>4 DEF ResourcesInv, SameResources, TodoIsTracked

LEMMA ResourcesStep == TypeOK /\ ResourcesInv /\ [Next]_vars => ResourcesInv'
<1> SUFFICES ASSUME TypeOK, ResourcesInv, [Next]_vars  PROVE ResourcesInv'
  OBVIOUS
<1>1. ASSUME UNCHANGED <<foundry, jobs, lost>>, Tracked' = Tracked, cleaning'.todo \subseteq cleaning.todo
      PROVE  ResourcesInv'
  <2>1. SameResources /\ Running' = Running /\ lost' = lost /\ jobs' = jobs
    BY <1>1 DEF SameResources, Made, Live, Running
  <2>2. QED  BY <1>1, <2>1, SameResourcesKept
<1>2. ASSUME NEW r \in Ranges, CreateRange(r) \/ DeleteRange(r)  PROVE ResourcesInv'
  <2>1. UNCHANGED <<foundry, jobs, lost, cleaning>>
    BY <1>2 DEF CreateRange, DeleteRange
  <2>2. Tracked' = Tracked
    <3>1. CreateRange(r) => registry' = registry
      BY DEF CreateRange
    <3>2. QED  BY <1>2, <3>1, DeleteRangeResources DEF SameResources, Tracked
  <2>3. QED  BY <1>1, <2>1, <2>2
<1>3. ASSUME \/ \E t \in Teams : ForgetTeam(t) \/ \E r \in Ranges : StartSession(t, r)
             \/ \E s \in sessions : BeginAssessment(s)
             \/ \E a \in assessing : EndAssessment(a)
      PROVE  ResourcesInv'
  <2>1. UNCHANGED <<registry, foundry, jobs, lost, cleaning>>
    BY <1>3 DEF ForgetTeam, StartSession, BeginAssessment, EndAssessment
  <2>2. QED  BY <1>1, <2>1 DEF Tracked
<1>4. ASSUME NEW j \in JobIds, NEW d \in DocIds,
             \/ \E r \in Ranges, c \in Contents : UploadVersion(r, c, d, j)
             \/ RetryVersion(d, j) \/ RebuildVersion(d, j)
      PROVE  ResourcesInv'
  <2>1. \E row, why : Start(j, d, row, why)
    BY <1>4 DEF UploadVersion, RetryVersion, RebuildVersion
  <2>2. UNCHANGED <<registry, foundry, lost, cleaning>>
    BY <1>4 DEF UploadVersion, RetryVersion, RebuildVersion
  <2>3. QED  BY <2>1, <2>2, StartJobs, SameTables, SameResourcesKept
<1>5. ASSUME NEW j \in JobIds, Promote(j) \/ Rebuilt(j)  PROVE ResourcesInv'
  <2>1. Leaves(j) /\ UNCHANGED <<registry, foundry, lost, cleaning>>
    BY <1>5 DEF Promote, Rebuilt
  <2>2. \A k \in Running' : k \in Running /\ jobs'[k].made = jobs[k].made
    BY <2>1, LeavesJobs
  <2>3. QED  BY <2>1, <2>2, SameTables, SameResourcesKept, Zenon
<1>6. ASSUME NEW j \in JobIds, RecordRefused(j) \/ JobFails(j)  PROVE ResourcesInv'
  <2>1. j \in Running /\ Leaves(j) /\ (\E why : Loses(j, why)) /\ UNCHANGED <<registry, foundry, cleaning>>
    BY <1>6 DEF RecordRefused, JobFails
  <2>2. QED  BY <2>1, SameTables, LosingKeepsResources
<1>7. ASSUME NEW j \in JobIds, NEW x \in Resources, FoundryMakes(j, x)  PROVE ResourcesInv'
  <2>1. UNCHANGED <<lost, cleaning>>
    BY <1>7 DEF FoundryMakes
  <2>2. x \notin Tracked /\ (\A p \in lost : p[1] # x) /\ \A k \in Running : jobs[k].made # x \/ x = None
    BY <1>7, FoundryMakesResources DEF ResourcesInv, LostIsUnknown, InFlightIsNew, Live
  <2>3. x # None
    BY Ids
  <2>4. InFlightIsNew'
    BY <1>7, <2>1, <2>2, <2>3, FoundryMakesResources DEF ResourcesInv, InFlightIsNew
  <2>5. QED  BY <1>7, <2>1, <2>4, FoundryMakesResources DEF ResourcesInv, TodoIsTracked, LostIsUnknown
<1>8. ASSUME NEW j \in JobIds, RecordResource(j)  PROVE ResourcesInv'
  <2>1. UNCHANGED <<lost, cleaning>> /\ InFlightIsNew
    BY <1>8 DEF RecordResource, ResourcesInv
  <2>2. jobs[j].made \in Made /\ jobs[j].made # None
    BY <1>8 DEF RecordResource, ResourcesInv, InFlightIsNew, Live
  <2>3. \A k \in Running' : jobs'[k].made # None => k \in Running \ {j} /\ jobs'[k] = jobs[k]
    BY <1>8, <2>1, RecordResourceResources
  <2>4. Tracked' = Tracked \cup {jobs[j].made} /\ Made' = Made /\ Live' = Live /\ Running' = Running /\ j \in Running
    BY <1>8, <2>1, RecordResourceResources
  <2>5. InFlightIsNew'
    BY <2>1, <2>2, <2>3, <2>4 DEF InFlightIsNew
  <2>6. LostIsUnknown'
    BY <2>1, <2>2, <2>4 DEF ResourcesInv, LostIsUnknown, InFlightIsNew
  <2>7. QED  BY <2>1, <2>2, <2>4, <2>5, <2>6 DEF ResourcesInv, TodoIsTracked
<1>9. ASSUME NEW S \in SUBSET Resources, StartCleanup(S)  PROVE ResourcesInv'
  <2>1. UNCHANGED <<registry, foundry, jobs, lost>> /\ cleaning'.todo = S /\ S \subseteq Tracked
    BY <1>9 DEF StartCleanup, Candidates
  <2>2. QED  BY <2>1 DEF ResourcesInv, TodoIsTracked, Tracked, Made, InFlightIsNew, Running, Live, LostIsUnknown
<1>10. ASSUME NEW x \in Resources, FoundryRemoves(x)  PROVE ResourcesInv'
  <2>1. UNCHANGED <<jobs, lost, cleaning>>
    BY <1>10 DEF FoundryRemoves
  <2>2. x \in Tracked /\ Tracked' = Tracked /\ Made' = Made /\ Live' = Live \ {x}
    BY <1>10, FoundryRemovesResources DEF ResourcesInv, TodoIsTracked
  <2>3. InFlightIsNew'
    BY <2>1, <2>2 DEF ResourcesInv, InFlightIsNew, Running
  <2>4. QED  BY <2>1, <2>2, <2>3 DEF ResourcesInv, TodoIsTracked, LostIsUnknown
<1>11. ASSUME NEW x \in Resources, NEW done \in BOOLEAN, CleanupTurn(x, done)  PROVE ResourcesInv'
  <2>1. UNCHANGED <<foundry, jobs, lost>> /\ cleaning'.todo \subseteq cleaning.todo
    BY <1>11 DEF CleanupTurn
  <2>2. Tracked' = Tracked
    BY <1>11, CleanupTurnResources DEF ResourcesInv, SameResources
  <2>3. QED  BY <1>1, <2>1, <2>2
<1>12. CASE Restart
  <2>1. UNCHANGED <<registry, foundry>> /\ cleaning'.todo = {} /\ jobs' = [j \in JobIds |-> NoJob]
    BY <1>12 DEF Restart
  <2>2. \A p \in lost' : p \in lost \/ \E j \in Running : jobs[j].made # None /\ p[1] = jobs[j].made
    BY <1>12 DEF Restart
  <2>3. Running' = {}
    BY <2>1 DEF Running
  <2>4. SameResources
    BY <2>1, SameTables
  <2>5. QED  BY <2>1, <2>2, <2>3, <2>4 DEF ResourcesInv, TodoIsTracked, InFlightIsNew, LostIsUnknown, SameResources, Live
<1>13. CASE UNCHANGED vars
  <2>1. UNCHANGED <<registry, foundry, jobs, lost, cleaning>>
    BY <1>13 DEF vars
  <2>2. QED  BY <1>1, <2>1 DEF Tracked
<1>14. QED
  BY <1>2, <1>3, <1>4, <1>5, <1>6, <1>7, <1>8, <1>9, <1>10, <1>11, <1>12, <1>13 DEF Next

LEMMA GoneAges ==
    ASSUME TypeOK, NEW e \in DocRows, NEW b \in BOOLEAN
    PROVE  Ages([docs EXCEPT ![e].gone = b])
<1>1. docs[e] \in Doc /\ [docs EXCEPT ![e].gone = b] = [docs EXCEPT ![e] = AsGone(docs[e], b)]
  BY RowTypes DEF DocRows, AsGone
<1>2. /\ AsGone(docs[e], b) # NoDoc /\ AsGone(docs[e], b).store = docs[e].store
      /\ AsGone(docs[e], b).status = docs[e].status
  BY <1>1, DocFields, DocsStayRows
<1>3. /\ [docs EXCEPT ![e].gone = b][e] = AsGone(docs[e], b)
      /\ \A d \in DocIds \ {e} : [docs EXCEPT ![e].gone = b][d] = docs[d]
  BY <1>1 DEF DocRows, TypeOK
<1>4. QED  BY <1>2, <1>3 DEF Ages, DocRows

\* The statements that only let versions age.
LEMMA VersionsAge ==
    ASSUME TypeOK, NEW j \in JobIds,
           \/ JobFails(j) \/ Promote(j) \/ Rebuilt(j)
           \/ Restart
           \/ \E x \in Resources, done \in BOOLEAN : CleanupTurn(x, done)
    PROVE  Ages(docs')
<1>1. Ages(docs) /\ (\A e : Ages(MarkFailed(e))) /\ Ages(Recovered) /\ \A reg : Ages(Marked(reg))
  BY SameDocsAge, MarkFailedAges, RecoveredAges, MarkedAges
<1>2. JobFails(j) => docs' = docs \/ docs' = MarkFailed(jobs[j].doc)
  BY DEF JobFails, Failed
<1>3. ASSUME Promote(j)  PROVE Ages(docs')
  <2>1. \/ docs' = docs \/ docs' = MarkFailed(jobs[j].doc)
        \/ /\ jobs[j].doc \in DocRows /\ docs[jobs[j].doc].status = "processing"
           /\ docs' = Promoted(jobs[j].doc, jobs[j].range)
    BY <1>3 DEF Promote, Promoted
  <2>2. QED  BY <1>1, <2>1, PromotedAges
<1>4. Rebuilt(j) => docs' = docs \/ (jobs[j].doc \in DocRows /\ docs' = [docs EXCEPT ![jobs[j].doc].gone = FALSE])
  BY DEF Rebuilt
<1>5. Restart => docs' = Recovered
  BY DEF Restart
<1>6. ASSUME NEW x, NEW done, CleanupTurn(x, done)  PROVE docs' = docs \/ \E reg : docs' = Marked(reg)
  BY <1>6 DEF CleanupTurn
<1>7. QED  BY <1>1, <1>2, <1>3, <1>4, <1>5, <1>6, GoneAges

\* What the sessions pin after a step: what one pinned before, or a version ready to be assessed with.
PinsReach ==
    \A s \in sessions' : s.doc # None =>
        \/ \E u \in sessions : u.doc = s.doc
        \/ s.doc \in DocRows /\ Needs(s.doc) /\ docs'[s.doc].status \in {"ready", "superseded"}

LEMMA StartSessionReach ==
    ASSUME TypeOK, NEW t, NEW r, StartSession(t, r)
    PROVE  PinsReach
<1>1. \A q : PinFor(q) # None => PinFor(q) \in DocRows /\ docs[PinFor(q)].status = "ready"
  BY PinsAreReady DEF Current, VersionsOf
<1>2. \A u \in sessions' : \/ u.doc = PinFor(r)
                           \/ \E s \in sessions : u = s \/ u = [s EXCEPT !.doc = Repin(s)]
  BY DEF StartSession
<1>3. \A s \in sessions : [s EXCEPT !.doc = Repin(s)].doc = Repin(s)
  BY DEF TypeOK
<1>4. \A s \in sessions : Repin(s) = s.doc \/ Repin(s) = PinFor(s.range)
  BY DEF Repin
<1>5. docs' = docs
  BY DEF StartSession
<1>6. ASSUME NEW u \in sessions'
      PROVE  (\E s \in sessions : s.doc = u.doc) \/ \E q : u.doc = PinFor(q)
  <2>1. CASE u.doc = PinFor(r)
    BY <2>1
  <2>2. ASSUME NEW s \in sessions, u = s \/ u = [s EXCEPT !.doc = Repin(s)]
        PROVE  (\E o \in sessions : o.doc = u.doc) \/ \E q : u.doc = PinFor(q)
    <3>1. u.doc = s.doc \/ u.doc = Repin(s)
      BY <1>3, <2>2
    <3>2. QED  BY <1>4, <3>1
  <2>3. QED  BY <1>2, <2>1, <2>2
<1>7. QED  BY <1>1, <1>5, <1>6 DEF PinsReach, Needs

LEMMA PromoteReach ==
    ASSUME TypeOK, NEW j, Promote(j)
    PROVE  PinsReach
<1>1. \/ sessions' = sessions
      \/ /\ jobs[j].doc \in DocRows /\ docs[jobs[j].doc].status = "processing"
         /\ docs' = Promoted(jobs[j].doc, jobs[j].range)
         /\ sessions' = Backfilled(jobs[j].range, jobs[j].doc)
  BY DEF Promote, Promoted
<1>2. sessions' = sessions => PinsReach
  BY DEF PinsReach
<1>3. ASSUME sessions' = Backfilled(jobs[j].range, jobs[j].doc), jobs[j].doc \in DocRows,
             docs[jobs[j].doc].status = "processing", docs' = Promoted(jobs[j].doc, jobs[j].range)
      PROVE  PinsReach
  <2>1. docs'[jobs[j].doc].status = "ready" /\ Needs(jobs[j].doc)
    BY <1>3, PromotedAges DEF Needs
  <2>2. \A s \in sessions : [s EXCEPT !.doc = jobs[j].doc].doc = jobs[j].doc
    BY DEF TypeOK
  <2>3. \A u \in sessions' : u \in sessions \/ \E s \in sessions : u = [s EXCEPT !.doc = jobs[j].doc]
    BY <1>3 DEF Backfilled
  <2>4. \A u \in sessions' : u \in sessions \/ u.doc = jobs[j].doc
    BY <2>2, <2>3
  <2>5. QED  BY <1>3, <2>1, <2>4 DEF PinsReach
<1>4. QED  BY <1>1, <1>2, <1>3

\* One version's row is written: the others and the sessions stay as they are.
LEMMA OneVersionWritten ==
    ASSUME TypeOK, DocumentsInv, NEW e \in DocIds, docs'[e] # NoDoc,
           \A d \in DocIds \ {e} : docs'[d] = docs[d],
           Tracked \subseteq Tracked', Live \subseteq Live', SameRecord, UNCHANGED <<sessions, cleaning>>,
           docs'[e].store # None => /\ docs'[e].store \in (Tracked' \cap Live') \ cleaning.todo
                                    /\ registry'[docs'[e].store].doc = e,
           \A s \in sessions : s.doc = e => docs'[e].status \in {"ready", "superseded"}
    PROVE  VersionsInv'
<1>1. DocRows' = DocRows \cup {e}
  BY DEF DocRows
<1>2. \A d \in DocRows' \ {e} : d \in DocRows /\ docs'[d] = docs[d] /\ (Needs(d)' <=> Needs(d))
  BY DEF DocRows, Needs
<1>3. None \notin cleaning.todo
  BY Ids DEF DocumentsInv, ResourcesInv, TodoIsTracked, Tracked
<1>4. PinsAreIndexed'
  BY <1>1 DEF DocumentsInv, VersionsInv, PinsAreIndexed, DocRows
<1>5. StoresAreOnRecord'
  BY <1>2 DEF DocumentsInv, VersionsInv, StoresAreOnRecord, SameRecord
<1>6. CleaningIsSpare'
  BY <1>2, <1>3 DEF DocumentsInv, VersionsInv, CleaningIsSpare
<1>7. NeededIsServed'
  BY <1>2 DEF DocumentsInv, VersionsInv, NeededIsServed
<1>8. QED  BY <1>4, <1>5, <1>6, <1>7 DEF VersionsInv

LEMMA DeleteRangeVersions ==
    ASSUME TypeOK, DocumentsInv, NEW r \in Ranges, DeleteRange(r)
    PROVE  VersionsInv'
<1>1. SameResources /\ cleaning' = cleaning
  BY DeleteRangeResources DEF DeleteRange
<1>2. DocRows' = DocRows \ VersionsOf(r) /\ \A d \in DocRows' : docs'[d] = docs[d]
  BY DEF DeleteRange, DocRows, VersionsOf
<1>3. \A x \in Tracked : registry[x].doc \notin VersionsOf(r) => registry'[x] = registry[x]
  BY DEF DeleteRange, Tracked
<1>4. \A u \in sessions' : u.doc # None => u \in sessions /\ u.doc \notin VersionsOf(r)
  <2>1. \A s \in sessions : [s EXCEPT !.doc = None].doc = None
    BY DEF TypeOK
  <2>2. \A u \in sessions' : \E s \in sessions : \/ s.doc \notin VersionsOf(r) /\ u = s
                                                 \/ u = [s EXCEPT !.doc = None]
    BY DEF DeleteRange
  <2>3. QED  BY <2>1, <2>2
<1>5. ASSUME NEW d \in DocRows'  PROVE d \in DocRows /\ d \notin VersionsOf(r) /\ (Needs(d)' => Needs(d))
  <2>1. d \in DocRows /\ d \notin VersionsOf(r) /\ docs'[d] = docs[d]
    BY <1>2, <1>5
  <2>2. d # None
    BY <2>1, Ids DEF DocRows
  <2>3. QED  BY <1>4, <2>1, <2>2 DEF Needs
<1>6. PinsAreIndexed'
  BY <1>2, <1>4 DEF DocumentsInv, VersionsInv, PinsAreIndexed
<1>7. StoresAreOnRecord'
  BY <1>1, <1>2, <1>3, <1>5 DEF DocumentsInv, VersionsInv, StoresAreOnRecord, SameResources
<1>8. CleaningIsSpare'
  BY <1>1, <1>2, <1>5 DEF DocumentsInv, VersionsInv, CleaningIsSpare
<1>9. NeededIsServed'
  BY <1>1, <1>2, <1>5 DEF DocumentsInv, VersionsInv, NeededIsServed, SameResources
<1>10. QED  BY <1>6, <1>7, <1>8, <1>9 DEF VersionsInv

\* The check of the whole list: nothing on it can be needed again.
LEMMA StartCleanupVersions ==
    ASSUME DocumentsInv, NEW S, StartCleanup(S)
    PROVE  VersionsInv'
<1>1. UNCHANGED <<docs, registry, foundry, sessions>> /\ cleaning'.todo = S /\ S \subseteq Candidates
  BY DEF StartCleanup
<1>2. ASSUME NEW d \in DocRows, docs[d].store \in S  PROVE ~Needs(d)
  <2>1. docs[d].store \in Tracked /\ ~InUse(docs[d].store)
    BY <1>1, <1>2 DEF Candidates
  <2>2. docs[d].store # None
    BY <2>1, Ids DEF Tracked
  <2>3. registry[docs[d].store].doc = d
    BY <2>2 DEF DocumentsInv, VersionsInv, StoresAreOnRecord
  <2>4. QED  BY <2>1, <2>3 DEF InUse, Needs
<1>3. CleaningIsSpare'
  BY <1>1, <1>2 DEF CleaningIsSpare, DocRows, Needs
<1>4. QED
  BY <1>1, <1>3
  DEF DocumentsInv, VersionsInv, StoresAreOnRecord, PinsAreIndexed, NeededIsServed, DocRows, Needs, Tracked, Made,
      Live

LEMMA FoundryRemovesVersions ==
    ASSUME TypeOK, DocumentsInv, NEW x \in Resources, FoundryRemoves(x)
    PROVE  VersionsInv'
<1>1. UNCHANGED <<docs, registry, sessions, cleaning>> /\ Tracked' = Tracked /\ Live' = Live \ {x} /\ x \in cleaning.todo
  BY FoundryRemovesResources DEF FoundryRemoves
<1>2. DocRows' = DocRows /\ \A d : Needs(d)' <=> Needs(d)
  BY <1>1 DEF DocRows, Needs
<1>3. \A d \in DocRows : Needs(d) => docs[d].store # x
  BY <1>1 DEF DocumentsInv, VersionsInv, CleaningIsSpare
<1>4. NeededIsServed'
  BY <1>1, <1>2, <1>3 DEF DocumentsInv, VersionsInv, NeededIsServed
<1>5. QED
  BY <1>1, <1>2, <1>4
  DEF DocumentsInv, VersionsInv, StoresAreOnRecord, PinsAreIndexed, CleaningIsSpare

LEMMA VersionsStep == TypeOK /\ DocumentsInv /\ [Next]_vars => VersionsInv'
<1> SUFFICES ASSUME TypeOK, DocumentsInv, [Next]_vars  PROVE VersionsInv'
  OBVIOUS
<1>1. ASSUME Ages(docs'), SameResources, SameRecord, cleaning'.todo \subseteq cleaning.todo, PinsReach
      PROVE  VersionsInv'
  BY <1>1, AgingKeepsVersions DEF SameResources, PinsReach
<1>2. sessions' \subseteq sessions => PinsReach
  BY DEF PinsReach
<1>3. ASSUME UNCHANGED docs  PROVE Ages(docs')
  BY <1>3, SameDocsAge DEF Ages, DocRows
<1>4. ASSUME NEW r \in Ranges, CreateRange(r)  PROVE VersionsInv'
  BY <1>1, <1>2, <1>3, <1>4, SameTables DEF CreateRange
<1>5. ASSUME NEW t \in Teams, ForgetTeam(t)  PROVE VersionsInv'
  BY <1>1, <1>2, <1>3, <1>5, SameTables DEF ForgetTeam
<1>6. ASSUME NEW t \in Teams, NEW r \in Ranges, StartSession(t, r)  PROVE VersionsInv'
  <2>1. UNCHANGED <<docs, registry, foundry, cleaning>> /\ PinsReach
    BY <1>6, StartSessionReach DEF StartSession
  <2>2. QED  BY <1>1, <1>3, <2>1, SameTables
<1>7. ASSUME (\E s \in sessions : BeginAssessment(s)) \/ (\E a \in assessing : EndAssessment(a))
      PROVE  VersionsInv'
  <2>1. UNCHANGED <<docs, registry, foundry, cleaning, sessions>>
    BY <1>7 DEF BeginAssessment, EndAssessment
  <2>2. QED  BY <1>1, <1>2, <1>3, <2>1, SameTables
<1>8. ASSUME NEW d \in DocIds, NEW j \in JobIds, RebuildVersion(d, j)  PROVE VersionsInv'
  <2>1. UNCHANGED <<docs, registry, foundry, cleaning, sessions>>
    BY <1>8 DEF RebuildVersion
  <2>2. QED  BY <1>1, <1>2, <1>3, <2>1, SameTables
<1>9. ASSUME NEW j \in JobIds, RecordRefused(j)  PROVE VersionsInv'
  <2>1. UNCHANGED <<docs, registry, foundry, cleaning, sessions>>
    BY <1>9 DEF RecordRefused
  <2>2. QED  BY <1>1, <1>2, <1>3, <2>1, SameTables
<1>10. ASSUME NEW j \in JobIds, NEW x \in Resources, FoundryMakes(j, x)  PROVE VersionsInv'
  <2>1. UNCHANGED <<docs, registry, cleaning, sessions>>
    BY <1>10 DEF FoundryMakes
  <2>2. Live \subseteq Live' /\ Tracked \subseteq Tracked'
    BY <1>10, FoundryMakesResources
  <2>3. Ages(docs') /\ PinsReach /\ SameRecord
    BY <1>2, <1>3, <2>1 DEF SameRecord
  <2>4. QED  BY <2>1, <2>2, <2>3, AgingKeepsVersions DEF PinsReach
<1>11. ASSUME NEW j \in JobIds, JobFails(j) \/ Rebuilt(j)  PROVE VersionsInv'
  <2>1. UNCHANGED <<registry, foundry, cleaning, sessions>> /\ Ages(docs')
    BY <1>11, VersionsAge DEF JobFails, Rebuilt
  <2>2. QED  BY <1>1, <1>2, <2>1, SameTables
<1>12. ASSUME NEW j \in JobIds, Promote(j)  PROVE VersionsInv'
  <2>1. UNCHANGED <<registry, foundry, cleaning>> /\ Ages(docs') /\ PinsReach
    BY <1>12, VersionsAge, PromoteReach DEF Promote
  <2>2. QED  BY <1>1, <2>1, SameTables, Zenon
<1>13. ASSUME NEW x \in Resources, NEW done \in BOOLEAN, CleanupTurn(x, done)  PROVE VersionsInv'
  <2>1. UNCHANGED sessions /\ cleaning'.todo \subseteq cleaning.todo
    BY <1>13 DEF CleanupTurn
  <2>2. SameResources /\ SameRecord
    BY <1>13, CleanupTurnResources DEF DocumentsInv, ResourcesInv
  <2>3. Ages(docs')
    <3>1. docs' = docs \/ \E reg : docs' = Marked(reg)
      BY <1>13 DEF CleanupTurn
    <3>2. QED  BY <3>1, SameDocsAge, MarkedAges
  <2>4. QED  BY <1>1, <1>2, <2>1, <2>2, <2>3
<1>14. CASE Restart
  <2>1. UNCHANGED <<registry, foundry, sessions>> /\ cleaning'.todo = {} /\ docs' = Recovered
    BY <1>14 DEF Restart
  <2>2. Ages(docs')
    BY <2>1, RecoveredAges
  <2>3. QED  BY <1>1, <1>2, <2>1, <2>2, SameTables
<1>15. ASSUME NEW r \in Ranges, NEW c \in Contents, NEW d \in DocIds, NEW j \in JobIds, UploadVersion(r, c, d, j)
       PROVE  VersionsInv'
  <2> DEFINE row == [range |-> r, content |-> c, status |-> "processing", current |-> FALSE,
                     store |-> None, gone |-> FALSE]
  <2>1. docs' = [docs EXCEPT ![d] = row] /\ UNCHANGED <<registry, foundry, cleaning, sessions>>
        /\ IsNextRow(d, DocRows)
    BY <1>15 DEF UploadVersion
  <2>2. d \notin DocRows
    BY <2>1 DEF IsNextRow, DocRows, DocIds
  <2>3. row \in Doc
    BY DEF Doc
  <2>4. docs'[d] # NoDoc /\ docs'[d].store = None /\ \A v \in DocIds \ {d} : docs'[v] = docs[v]
    <3>1. docs'[d] = row /\ \A v \in DocIds \ {d} : docs'[v] = docs[v]
      BY <2>1 DEF TypeOK
    <3>2. row.store = None
      OBVIOUS
    <3> HIDE DEF row
    <3>3. QED  BY <2>3, <3>1, <3>2, DocsAreRows
  <2>5. \A s \in sessions : s.doc # d
    BY <2>2, Ids DEF DocumentsInv, VersionsInv, PinsAreIndexed
  <2> HIDE DEF row
  <2>6. SameResources /\ SameRecord
    BY <2>1, SameTables
  <2>7. QED  BY <2>1, <2>4, <2>5, <2>6, OneVersionWritten DEF SameResources
<1>16. ASSUME NEW d \in DocIds, NEW j \in JobIds, RetryVersion(d, j)  PROVE VersionsInv'
  <2>1. docs' = [docs EXCEPT ![d] = Retried(docs[d])] /\ UNCHANGED <<registry, foundry, cleaning, sessions>>
        /\ d \in DocRows /\ docs[d].status = "failed" /\ docs[d] \in Doc
    BY <1>16, RowTypes DEF RetryVersion
  <2>2. docs'[d] # NoDoc /\ docs'[d].store = None
    <3>1. docs'[d] = Retried(docs[d])
      BY <2>1 DEF TypeOK
    <3>2. QED  BY <2>1, <3>1, DocFields, DocsStayRows
  <2>3. \A v \in DocIds \ {d} : docs'[v] = docs[v]
    BY <2>1 DEF TypeOK
  <2>4. \A s \in sessions : s.doc # d
    BY <2>1, Ids DEF DocumentsInv, VersionsInv, PinsAreIndexed
  <2>5. SameResources /\ SameRecord
    BY <2>1, SameTables
  <2>6. QED  BY <2>1, <2>2, <2>3, <2>4, <2>5, OneVersionWritten DEF SameResources
<1>17. ASSUME NEW j \in JobIds, RecordResource(j)  PROVE VersionsInv'
  <2> DEFINE x == jobs[j].made
             d == jobs[j].doc
  <2>1. docs' = [docs EXCEPT ![d] = WithId(docs[d], x)] /\ UNCHANGED <<cleaning, sessions>>
    BY <1>17 DEF RecordResource
  <2>2. /\ x \in Live \ Tracked /\ d \in DocRows /\ Tracked' = Tracked \cup {x} /\ Live' = Live
        /\ registry'[x].doc = d /\ \A y \in Tracked : registry'[y] = registry[y]
    BY <1>17, RecordResourceResources DEF DocumentsInv, ResourcesInv
  <2>3. docs[d] \in Doc /\ x \in Resources /\ d \in DocIds
    BY <2>2, RowTypes DEF DocRows, Live, Made
  <2>4. docs'[d] # NoDoc /\ docs'[d].store = x /\ docs'[d].status = docs[d].status
    <3>1. docs'[d] = WithId(docs[d], x)
      BY <2>1, <2>3 DEF TypeOK
    <3>2. QED  BY <2>3, <3>1, DocFields, DocsStayRows
  <2>5. \A v \in DocIds \ {d} : docs'[v] = docs[v]
    BY <2>1, <2>3 DEF TypeOK
  <2>6. \A s \in sessions : s.doc = d => docs'[d].status \in {"ready", "superseded"}
    BY <2>3, <2>4, Ids DEF DocumentsInv, VersionsInv, PinsAreIndexed
  <2>7. x \notin cleaning.todo
    BY <2>2 DEF DocumentsInv, ResourcesInv, TodoIsTracked
  <2>8. SameRecord
    BY <2>2 DEF SameRecord
  <2> HIDE DEF x, d
  <2>9. QED  BY <2>1, <2>2, <2>3, <2>4, <2>5, <2>6, <2>7, <2>8, OneVersionWritten
<1>18. CASE UNCHANGED vars
  <2>1. UNCHANGED <<docs, registry, foundry, cleaning, sessions>>
    BY <1>18 DEF vars
  <2>2. QED  BY <1>1, <1>2, <1>3, <2>1, SameTables
<1>19. QED
  BY <1>4, <1>5, <1>6, <1>7, <1>8, <1>9, <1>10, <1>11, <1>12, <1>13, <1>14, <1>15, <1>16, <1>17, <1>18,
     DeleteRangeVersions, StartCleanupVersions, FoundryRemovesVersions
  DEF Next

\* The invariant the theorems rest on: a resource is on record, on its way in one job, or known to be
\* lost, and every version that may still be asked for has its store.
THEOREM DocumentsInvariant == Spec => [](TypeOK /\ DocumentsInv)
<1>1. Init => TypeOK /\ DocumentsInv
  BY InitType, InvInit
<1>2. TypeOK /\ DocumentsInv /\ [Next]_vars => (TypeOK /\ DocumentsInv)'
  BY TypeStep, ResourcesStep, VersionsStep DEF DocumentsInv, ResourcesInv
<1>3. QED  BY <1>1, <1>2, PTL DEF Spec

-------------------------------------------------------------------------------
(* The promise about the resources                                          *)

LostIds == {p[1] : p \in lost}

LEMMA NeededIsTracked == NeededIsServed => Needed \subseteq Tracked \cap Live
BY NeededVersions DEF NeededIsServed

LEMMA ServedNext == NeededIsServed' => Promise!NeedsAreServed
<1>1. NeededIsServed' => Needed' \subseteq Tracked' \cap Live'
  BY NeededIsTracked DEF NeededIsServed, Needed, Needs, Tracked, Live, Made, DocRows
<1>2. QED  BY <1>1 DEF Promise!NeedsAreServed

LEMMA LoseMapped ==
    ASSUME SameResources, NEW S \in SUBSET Resources, S \subseteq Made \ (Tracked \cup LostIds),
           LostIds' = LostIds \cup S, NeededIsServed'
    PROVE  Promise!Next
<1>1. Promise!Lose(S)
  BY DEF SameResources, LostIds, Promise!Lose
<1>2. QED  BY <1>1, ServedNext DEF Promise!Next

\* A step that leaves the resources alone at most changes what is needed.
LEMMA QuietMapped ==
    ASSUME SameResources, lost' = lost, NeededIsServed'
    PROVE  Promise!Next
<1>1. LostIds' = LostIds
  BY DEF LostIds
<1>2. {} \in SUBSET (Made \ (Tracked \cup LostIds)) /\ LostIds \cup {} = LostIds /\ {} \in SUBSET Resources
  OBVIOUS
<1>3. Promise!Lose({})
  BY <1>1, <1>2 DEF SameResources, LostIds, Promise!Lose
<1>4. QED  BY <1>2, <1>3, ServedNext DEF Promise!Next

LEMMA LostJobMapped ==
    ASSUME TypeOK, DocumentsInv, NEW j \in Running, NEW why, Loses(j, why), SameResources, NeededIsServed'
    PROVE  Promise!Next
<1>1. CASE jobs[j].made = None
  BY <1>1, QuietMapped DEF Loses
<1>2. CASE jobs[j].made # None
  <2>1. jobs[j].made \in Made \ (Tracked \cup LostIds) /\ jobs[j].made \in Resources
    BY <1>2 DEF DocumentsInv, ResourcesInv, InFlightIsNew, LostIds, Live, Made
  <2>2. LostIds' = LostIds \cup {jobs[j].made}
    <3>1. lost' = lost \cup {<<jobs[j].made, why>>}
      BY <1>2 DEF Loses
    <3>2. \A x : x \in LostIds' <=> (\E p \in lost : x = p[1]) \/ x = <<jobs[j].made, why>>[1]
      BY <3>1 DEF LostIds
    <3>3. \A x : x \in LostIds <=> \E p \in lost : x = p[1]
      BY DEF LostIds
    <3>4. <<jobs[j].made, why>>[1] = jobs[j].made
      OBVIOUS
    <3>5. \A x : x \in LostIds' <=> x \in LostIds \/ x = jobs[j].made
      BY <3>2, <3>3, <3>4
    <3>6. QED  BY <3>5
  <2>3. QED  BY <2>1, <2>2, LoseMapped
<1>3. QED  BY <1>1, <1>2

LEMMA RestartMapped ==
    ASSUME TypeOK, DocumentsInv, Restart, NeededIsServed'
    PROVE  Promise!Next
<1> DEFINE Waiting == {k \in Running : jobs[k].made # None}
           S == {jobs[k].made : k \in Waiting}
<1>1. SameResources
  BY SameTables DEF Restart
<1>2. \A k \in Waiting : jobs[k].made \in Made \ (Tracked \cup LostIds) /\ jobs[k].made \in Resources
  BY DEF DocumentsInv, ResourcesInv, InFlightIsNew, LostIds, Live, Made
<1>3. lost' = lost \cup {<<jobs[k].made, "restart">> : k \in Waiting}
  BY DEF Restart
<1>4. LostIds' = LostIds \cup S
  <2>1. \A x : x \in LostIds' <=> \E p \in lost' : x = p[1]
    BY DEF LostIds
  <2>2. \A x : x \in LostIds <=> \E p \in lost : x = p[1]
    BY DEF LostIds
  <2>3. \A p : p \in lost' <=> p \in lost \/ \E k \in Waiting : p = <<jobs[k].made, "restart">>
    BY <1>3
  <2>4. \A x : x \in S <=> \E k \in Waiting : x = jobs[k].made
    OBVIOUS
  <2>5. \A k \in Waiting : <<jobs[k].made, "restart">>[1] = jobs[k].made
    OBVIOUS
  <2> HIDE DEF Waiting, S
  <2>6. ASSUME NEW x \in LostIds'  PROVE x \in LostIds \cup S
    <3>1. PICK p \in lost' : x = p[1]
      BY <2>1, <2>6
    <3>2. QED  BY <2>2, <2>3, <2>4, <2>5, <3>1
  <2>7. ASSUME NEW x \in LostIds \cup S  PROVE x \in LostIds'
    <3>1. x \in LostIds => x \in LostIds'
      BY <2>1, <2>2, <2>3
    <3>2. ASSUME x \in S  PROVE x \in LostIds'
      <4>1. PICK k \in Waiting : x = jobs[k].made
        BY <2>4, <3>2
      <4>2. <<jobs[k].made, "restart">> \in lost'
        BY <2>3
      <4>3. QED  BY <2>1, <2>5, <4>1, <4>2
    <3>3. QED  BY <2>7, <3>1, <3>2
  <2>8. QED  BY <2>6, <2>7
<1>5. S \subseteq Made \ (Tracked \cup LostIds) /\ S \subseteq Resources
  BY <1>2
<1> HIDE DEF S
<1>6. QED  BY <1>1, <1>4, <1>5, LoseMapped

LEMMA PromiseStep == TypeOK /\ DocumentsInv /\ DocumentsInv' /\ [Next]_vars => [Promise!Next]_(Promise!vars)
<1> SUFFICES ASSUME TypeOK, DocumentsInv, DocumentsInv', [Next]_vars  PROVE [Promise!Next]_(Promise!vars)
  OBVIOUS
<1>0. NeededIsServed'
  BY DEF DocumentsInv, VersionsInv
<1>1. UNCHANGED <<registry, foundry, lost>> => Promise!Next
  BY <1>0, SameTables, QuietMapped
<1>2. ASSUME NEW r \in Ranges, CreateRange(r) \/ DeleteRange(r)  PROVE Promise!Next
  <2>1. CreateRange(r) => UNCHANGED <<registry, foundry, lost>>
    BY DEF CreateRange
  <2>2. DeleteRange(r) => SameResources /\ lost' = lost
    BY DeleteRangeResources DEF DeleteRange
  <2>3. QED  BY <1>0, <1>1, <1>2, <2>1, <2>2, QuietMapped
<1>3. ASSUME \/ \E t \in Teams : ForgetTeam(t) \/ \E r \in Ranges : StartSession(t, r)
             \/ \E s \in sessions : BeginAssessment(s)
             \/ \E a \in assessing : EndAssessment(a)
      PROVE  Promise!Next
  <2>1. UNCHANGED <<registry, foundry, lost>>
    BY <1>3 DEF ForgetTeam, StartSession, BeginAssessment, EndAssessment
  <2>2. QED  BY <1>1, <2>1
<1>4. ASSUME NEW j \in JobIds, NEW d \in DocIds,
             \/ \E r \in Ranges, c \in Contents : UploadVersion(r, c, d, j)
             \/ RetryVersion(d, j) \/ RebuildVersion(d, j)
      PROVE  Promise!Next
  <2>1. UNCHANGED <<registry, foundry, lost>>
    BY <1>4 DEF UploadVersion, RetryVersion, RebuildVersion
  <2>2. QED  BY <1>1, <2>1
<1>5. ASSUME NEW j \in JobIds, NEW x \in Resources, FoundryMakes(j, x)  PROVE Promise!Next
  <2>1. x \notin Made /\ Made' = Made \cup {x} /\ Live' = Live \cup {x} /\ Tracked' = Tracked /\ LostIds' = LostIds
    BY <1>5, FoundryMakesResources DEF FoundryMakes, LostIds
  <2>2. Promise!Create(x)
    BY <2>1 DEF Promise!Create, LostIds
  <2>3. QED  BY <1>0, <2>2, ServedNext DEF Promise!Next
<1>6. ASSUME NEW j \in JobIds, RecordResource(j)  PROVE Promise!Next
  <2>1. /\ jobs[j].made \in Live \ Tracked /\ Tracked' = Tracked \cup {jobs[j].made}
        /\ Made' = Made /\ Live' = Live /\ j \in Running
    BY <1>6, RecordResourceResources DEF DocumentsInv, ResourcesInv
  <2>2. jobs[j].made \in Made \ (Tracked \cup LostIds) /\ jobs[j].made \in Resources
    BY <1>6, <2>1 DEF RecordResource, DocumentsInv, ResourcesInv, InFlightIsNew, LostIds, Live, Made
  <2>3. LostIds' = LostIds
    BY <1>6 DEF RecordResource, LostIds
  <2>4. Promise!Track(jobs[j].made)
    BY <2>1, <2>2, <2>3 DEF Promise!Track, LostIds
  <2>5. QED  BY <1>0, <2>2, <2>4, ServedNext DEF Promise!Next
<1>7. ASSUME NEW j \in JobIds, RecordRefused(j) \/ JobFails(j)  PROVE Promise!Next
  <2>1. j \in Running /\ (\E why : Loses(j, why)) /\ UNCHANGED <<registry, foundry>>
    BY <1>7 DEF RecordRefused, JobFails
  <2>2. QED  BY <1>0, <2>1, SameTables, LostJobMapped
<1>8. ASSUME NEW j \in JobIds, Promote(j) \/ Rebuilt(j)  PROVE Promise!Next
  <2>1. UNCHANGED <<registry, foundry, lost>>
    BY <1>8 DEF Promote, Rebuilt
  <2>2. QED  BY <1>1, <2>1
<1>9. ASSUME NEW S \in SUBSET Resources, StartCleanup(S)  PROVE Promise!Next
  BY <1>1, <1>9 DEF StartCleanup
<1>10. ASSUME NEW x \in Resources, FoundryRemoves(x)  PROVE Promise!Next
  <2>1. x \in cleaning.todo \cap Live /\ Tracked' = Tracked /\ Made' = Made /\ Live' = Live \ {x}
    BY <1>10, FoundryRemovesResources
  <2>2. x \in Tracked /\ x \notin Needed
    BY <2>1, NeededVersions DEF DocumentsInv, ResourcesInv, TodoIsTracked, VersionsInv, CleaningIsSpare
  <2>3. LostIds' = LostIds
    BY <1>10 DEF FoundryRemoves, LostIds
  <2>4. Promise!Remove(x)
    BY <2>1, <2>2, <2>3 DEF Promise!Remove, LostIds
  <2>5. QED  BY <1>0, <2>4, ServedNext DEF Promise!Next
<1>11. ASSUME NEW x \in Resources, NEW done \in BOOLEAN, CleanupTurn(x, done)  PROVE Promise!Next
  <2>1. SameResources /\ lost' = lost
    BY <1>11, CleanupTurnResources DEF CleanupTurn, DocumentsInv, ResourcesInv
  <2>2. QED  BY <1>0, <2>1, QuietMapped
<1>12. Restart => Promise!Next
  BY <1>0, RestartMapped
<1>13. UNCHANGED vars => Promise!Next
  BY <1>1 DEF vars
<1>14. QED
  BY <1>2, <1>3, <1>4, <1>5, <1>6, <1>7, <1>8, <1>9, <1>10, <1>11, <1>12, <1>13 DEF Next

LEMMA PromiseInit == Init => Promise!Init
<1>1. Init => Made = {} /\ Live = {} /\ Tracked = {} /\ LostIds = {} /\ DocRows = {}
  BY DEF Init, Made, Live, Tracked, LostIds, DocRows
<1>2. DocRows = {} => Needed = {}
  BY DEF Needed
<1>3. QED  BY <1>1, <1>2 DEF Promise!Init, LostIds

\* The documents keep the promise TrackedResources makes: a file or a store the server creates is
\* recorded unless its creation was still in flight, a clean-up never removes what a version on its
\* way, a current or pinned version or an assessment needs, and nothing removed is needed again
\* (recordResource, executeCleanup, retryVersion).
THEOREM DocumentsKeepTheirPromise == Spec => ResourcesAreTracked
<1>1. Init => Promise!Init
  BY PromiseInit
<1>2. TypeOK /\ DocumentsInv /\ (TypeOK /\ DocumentsInv)' /\ [Next]_vars => [Promise!Next]_(Promise!vars)
  BY PromiseStep
<1>3. QED  BY <1>1, <1>2, DocumentsInvariant, PTL DEF Spec, ResourcesAreTracked, Promise!Spec

-------------------------------------------------------------------------------
(* Nobody waits for work nobody does                                        *)

\* An indexing job that goes on, for the version it was started for.
WorksOn(j, d) == j \in Running /\ jobs[j].doc = d /\ jobs[j].for = "index"

LEMMA WorkedOn == ProcessingIsWorkedOn <=>
    \A d \in DocRows : docs[d].status = "processing" => \E j \in JobIds : WorksOn(j, d)
BY DEF ProcessingIsWorkedOn, WorksOn, Running

\* Versions that were being processed are still worked on, or no longer processing.
LEMMA StillWorkedOn ==
    ASSUME ProcessingIsWorkedOn,
           \A d \in DocRows' : docs'[d].status = "processing" =>
               \/ \E j \in JobIds : WorksOn(j, d)'
               \/ /\ d \in DocRows /\ docs[d].status = "processing"
                  /\ \A j \in JobIds : WorksOn(j, d) => WorksOn(j, d)'
    PROVE  ProcessingIsWorkedOn'
<1>1. ASSUME NEW d \in DocRows', docs'[d].status = "processing"  PROVE \E j \in JobIds : WorksOn(j, d)'
  <2>1. CASE d \in DocRows /\ docs[d].status = "processing" /\ \A j \in JobIds : WorksOn(j, d) => WorksOn(j, d)'
    <3>1. \E j \in JobIds : WorksOn(j, d)
      BY <2>1, WorkedOn
    <3>2. QED  BY <2>1, <3>1
  <2>2. QED  BY <1>1, <2>1
<1>2. QED  BY <1>1 DEF ProcessingIsWorkedOn, WorksOn

LEMMA AgingKeepsStatus ==
    ASSUME Ages(docs'), NEW d \in DocRows', docs'[d].status = "processing"
    PROVE  d \in DocRows /\ docs[d].status = "processing"
BY DEF Ages, DocRows

LEMMA WorkStarts ==
    ASSUME TypeOK, NEW j \in JobIds, NEW d, NEW row, NEW why, Start(j, d, row, why)
    PROVE  /\ \A k \in JobIds : \A e : WorksOn(k, e) => WorksOn(k, e)'
           /\ why = "index" => WorksOn(j, d)'
<1> DEFINE job == [at |-> "create", for |-> why, doc |-> d, range |-> row.range, content |-> row.content, made |-> None]
<1>1. jobs[j] = NoJob /\ jobs'[j] = job /\ \A k \in JobIds \ {j} : jobs'[k] = jobs[k]
  BY DEF Start, TypeOK
<1>2. job.doc = d /\ job.for = why /\ job # NoJob
  BY DEF NoJob
<1> HIDE DEF job
<1>3. QED  BY <1>1, <1>2 DEF WorksOn, Running

\* Versions that were not written by the step, or whose row only ages.
LEMMA SameWork ==
    ASSUME ProcessingIsWorkedOn, Ages(docs'), \A k \in JobIds, e \in DocRows : WorksOn(k, e) => WorksOn(k, e)'
    PROVE  ProcessingIsWorkedOn'
BY AgingKeepsStatus, StillWorkedOn

\* The job of a version ends: the version is then failed, or it was never waiting for this job.
LEMMA WorkEnds ==
    ASSUME TypeOK, ProcessingIsWorkedOn, NEW j \in Running, Leaves(j), Ages(docs'),
           jobs[j].for = "index" /\ jobs[j].doc \in DocRows => docs'[jobs[j].doc].status # "processing"
    PROVE  ProcessingIsWorkedOn'
<1>1. \A k \in JobIds \ {j} : \A e : WorksOn(k, e) => WorksOn(k, e)'
  BY LeavesJobs DEF WorksOn, Running
<1>2. ASSUME NEW d \in DocRows', docs'[d].status = "processing"
      PROVE  \A k \in JobIds : WorksOn(k, d) => WorksOn(k, d)'
  <2>1. d \in DocRows /\ docs[d].status = "processing"
    BY <1>2, AgingKeepsStatus
  <2>2. ~WorksOn(j, d)
    BY <1>2, <2>1 DEF WorksOn
  <2>3. QED  BY <1>1, <2>2
<1>3. QED  BY <1>2, AgingKeepsStatus, StillWorkedOn

LEMMA FailedIsNotProcessing ==
    ASSUME TypeOK, NEW e \in DocRows
    PROVE  MarkFailed(e)[e].status # "processing"
<1>1. CASE docs[e].status = "processing"
  <2>1. MarkFailed(e) = [docs EXCEPT ![e].status = "failed"] /\ docs[e] \in Doc
    BY <1>1, RowTypes DEF MarkFailed, DocRows
  <2>2. MarkFailed(e)[e] = AsFailed(docs[e])
    BY <2>1 DEF TypeOK, DocRows, AsFailed
  <2>3. QED  BY <2>1, <2>2, DocFields
<1>2. QED  BY <1>1 DEF MarkFailed

LEMMA ProcessingStep == TypeOK /\ TodoIsTracked /\ ProcessingIsWorkedOn /\ [Next]_vars => ProcessingIsWorkedOn'
<1> SUFFICES ASSUME TypeOK, TodoIsTracked, ProcessingIsWorkedOn, [Next]_vars  PROVE ProcessingIsWorkedOn'
  OBVIOUS
<1>1. UNCHANGED <<docs, jobs>> => ProcessingIsWorkedOn'
  BY DEF ProcessingIsWorkedOn, DocRows, Running
<1>2. ASSUME NEW r \in Ranges, DeleteRange(r)  PROVE ProcessingIsWorkedOn'
  <2>1. jobs' = jobs /\ \A d \in DocRows' : d \in DocRows /\ docs'[d] = docs[d]
    BY <1>2 DEF DeleteRange, DocRows
  <2>2. QED  BY <2>1 DEF ProcessingIsWorkedOn, Running
<1>3. ASSUME NEW r \in Ranges, NEW c \in Contents, NEW d \in DocIds, NEW j \in JobIds, UploadVersion(r, c, d, j)
      PROVE  ProcessingIsWorkedOn'
  <2>1. (\E row : docs' = [docs EXCEPT ![d] = row] /\ Start(j, d, row, "index"))
    BY <1>3 DEF UploadVersion
  <2>2. \A v \in DocIds \ {d} : docs'[v] = docs[v]
    BY <2>1 DEF TypeOK
  <2>3. WorksOn(j, d)' /\ \A k \in JobIds : \A e : WorksOn(k, e) => WorksOn(k, e)'
    BY <2>1, WorkStarts
  <2>4. QED  BY <2>2, <2>3, StillWorkedOn DEF DocRows
<1>4. ASSUME NEW d \in DocIds, NEW j \in JobIds, RetryVersion(d, j)  PROVE ProcessingIsWorkedOn'
  <2>1. docs' = [docs EXCEPT ![d] = Retried(docs[d])] /\ Start(j, d, docs[d], "index")
    BY <1>4 DEF RetryVersion
  <2>2. \A v \in DocIds \ {d} : docs'[v] = docs[v]
    BY <2>1 DEF TypeOK
  <2>3. WorksOn(j, d)' /\ \A k \in JobIds : \A e : WorksOn(k, e) => WorksOn(k, e)'
    BY <2>1, WorkStarts
  <2>4. QED  BY <2>2, <2>3, StillWorkedOn DEF DocRows
<1>5. ASSUME NEW d \in DocIds, NEW j \in JobIds, RebuildVersion(d, j)  PROVE ProcessingIsWorkedOn'
  <2>1. docs' = docs /\ Start(j, d, docs[d], "rebuild")
    BY <1>5 DEF RebuildVersion
  <2>2. QED  BY <2>1, WorkStarts, SameDocsAge, SameWork DEF Ages, DocRows
<1>6. ASSUME NEW j \in JobIds, NEW x \in Resources, FoundryMakes(j, x)  PROVE ProcessingIsWorkedOn'
  <2>1. docs' = docs /\ Running' = Running /\ \A k \in Running \ {j} : jobs'[k] = jobs[k]
    BY <1>6, FoundryMakesResources DEF FoundryMakes
  <2>2. j \in Running /\ jobs[j] \in Job
    BY <1>6, RowTypes DEF FoundryMakes
  <2>3. [jobs[j] EXCEPT !.made = x].doc = jobs[j].doc /\ [jobs[j] EXCEPT !.made = x].for = jobs[j].for
    BY <2>2 DEF Job
  <2>4. jobs'[j] = [jobs[j] EXCEPT !.made = x]
    BY <1>6 DEF FoundryMakes, TypeOK
  <2>5. \A k \in Running : jobs'[k].doc = jobs[k].doc /\ jobs'[k].for = jobs[k].for
    BY <2>1, <2>3, <2>4
  <2>6. DocRows' = DocRows
    BY <2>1 DEF DocRows
  <2>7. QED  BY <2>1, <2>5, <2>6 DEF ProcessingIsWorkedOn
<1>7. ASSUME NEW j \in JobIds, RecordResource(j)  PROVE ProcessingIsWorkedOn'
  <2> DEFINE new == [jobs[j] EXCEPT !.at = "index", !.made = None]
             d == jobs[j].doc
  <2>1. j \in Running /\ jobs[j] \in Job /\ d \in DocRows /\ docs[d] \in Doc /\ jobs[j].made \in Resources \cup {None}
    BY <1>7, RowTypes DEF RecordResource, Job, DocRows
  <2>2. new \in Job /\ new.doc = jobs[j].doc /\ new.for = jobs[j].for
    BY <2>1 DEF Job
  <2>3. jobs'[j] = new /\ \A k \in JobIds \ {j} : jobs'[k] = jobs[k]
    BY <1>7 DEF RecordResource, TypeOK
  <2>4. docs'[d] = WithId(docs[d], jobs[j].made) /\ \A v \in DocIds \ {d} : docs'[v] = docs[v]
    BY <1>7, <2>1 DEF RecordResource, TypeOK, DocRows
  <2>5. WithId(docs[d], jobs[j].made).status = docs[d].status
    BY <2>1, DocFields
  <2> HIDE DEF new, d
  <2>6. \A v \in DocRows' : v \in DocRows /\ docs'[v].status = docs[v].status
    BY <2>1, <2>4, <2>5 DEF DocRows
  <2>7. \A k \in JobIds : \A e : WorksOn(k, e) => WorksOn(k, e)'
    BY <2>1, <2>2, <2>3, JobsAreRunning DEF WorksOn, Running
  <2>8. QED  BY <2>6, <2>7, StillWorkedOn
<1>8. ASSUME NEW j \in JobIds, RecordRefused(j)  PROVE ProcessingIsWorkedOn'
  <2>1. j \in Running /\ Leaves(j) /\ jobs[j].doc \notin DocRows /\ docs' = docs
    BY <1>8 DEF RecordRefused
  <2>2. Ages(docs')
    BY <2>1, SameDocsAge DEF Ages, DocRows
  <2>3. QED  BY <2>1, <2>2, WorkEnds
<1>9. ASSUME NEW j \in JobIds, JobFails(j)  PROVE ProcessingIsWorkedOn'
  <2>1. j \in Running /\ Leaves(j) /\ (jobs[j].for = "index" => docs' = MarkFailed(jobs[j].doc))
    BY <1>9 DEF JobFails, Failed
  <2>2. QED  BY <1>9, <2>1, VersionsAge, FailedIsNotProcessing, WorkEnds
<1>10. ASSUME NEW j \in JobIds, Promote(j)  PROVE ProcessingIsWorkedOn'
  <2>1. j \in Running /\ Leaves(j) /\ Ages(docs')
    BY <1>10, VersionsAge DEF Promote
  <2>2. \/ docs' = docs /\ (jobs[j].doc \in DocRows => docs[jobs[j].doc].status # "processing")
        \/ docs' = MarkFailed(jobs[j].doc)
        \/ /\ jobs[j].doc \in DocRows /\ docs[jobs[j].doc].status = "processing"
           /\ docs' = Promoted(jobs[j].doc, jobs[j].range)
    BY <1>10 DEF Promote, Promoted
  <2>3. jobs[j].doc \in DocRows => docs'[jobs[j].doc].status # "processing"
    BY <2>2, FailedIsNotProcessing, PromotedAges
  <2>4. QED  BY <2>1, <2>3, WorkEnds, Zenon
<1>11. ASSUME NEW j \in JobIds, Rebuilt(j)  PROVE ProcessingIsWorkedOn'
  <2>1. j \in Running /\ Leaves(j) /\ Ages(docs') /\ jobs[j].for # "index"
    BY <1>11, VersionsAge DEF Rebuilt
  <2>2. QED  BY <2>1, WorkEnds
<1>12. ASSUME NEW x \in Resources, NEW done \in BOOLEAN, CleanupTurn(x, done)  PROVE ProcessingIsWorkedOn'
  <2>1. jobs' = jobs /\ (docs' = docs \/ \E reg : docs' = Marked(reg))
    BY <1>12 DEF CleanupTurn
  <2>2. Ages(docs')
    BY <2>1, SameDocsAge, MarkedAges
  <2>3. QED  BY <2>1, <2>2, SameWork DEF WorksOn, Running
<1>13. CASE Restart
  <2>1. docs' = Recovered
    BY <1>13 DEF Restart
  <2>2. Ages(docs')
    BY <2>1, RecoveredAges
  <2>3. \A d \in DocRows : Recovered[d].status # "processing"
    BY FailedIsNotProcessing DEF Recovered, DocRows
  <2>4. ~\E d \in DocRows' : docs'[d].status = "processing"
    BY <2>1, <2>2, <2>3, AgingKeepsStatus
  <2>5. QED  BY <2>4, StillWorkedOn
<1>14. ASSUME \/ \E r \in Ranges : CreateRange(r)
              \/ \E t \in Teams : ForgetTeam(t) \/ \E r \in Ranges : StartSession(t, r)
              \/ \E s \in sessions : BeginAssessment(s)
              \/ \E a \in assessing : EndAssessment(a)
              \/ \E S \in SUBSET Resources : StartCleanup(S)
              \/ \E x \in Resources : FoundryRemoves(x)
              \/ UNCHANGED vars
       PROVE  ProcessingIsWorkedOn'
  <2>1. UNCHANGED <<docs, jobs>>
    BY <1>14
    DEF CreateRange, ForgetTeam, StartSession, BeginAssessment, EndAssessment, StartCleanup, FoundryRemoves, vars
  <2>2. QED  BY <1>1, <2>1
<1>15. QED
  BY <1>2, <1>3, <1>4, <1>5, <1>6, <1>7, <1>8, <1>9, <1>10, <1>11, <1>12, <1>13, <1>14 DEF Next

\* A version is never left processing with nobody at work on it, whichever way its jobs end: an error,
\* a restart, a version or a scenario that went meanwhile (markFailed, recoverInterruptedAiWork).
THEOREM ProcessingEnds == Spec => []ProcessingIsWorkedOn
<1>1. Init => ProcessingIsWorkedOn
  BY DEF Init, ProcessingIsWorkedOn, DocRows
<1>2. TypeOK /\ DocumentsInv /\ ProcessingIsWorkedOn /\ [Next]_vars => ProcessingIsWorkedOn'
  BY ProcessingStep DEF DocumentsInv, ResourcesInv
<1>3. QED  BY <1>1, <1>2, DocumentsInvariant, PTL DEF Spec

-------------------------------------------------------------------------------
(* Pins                                                                     *)

\* The primary key of team_cyber_range_progress.
SessionsAreOne == \A s, u \in sessions : s.team = u.team /\ s.range = u.range => s = u

\* A step keeps a session's key: only what it pins changes.
LEMMA KeysStay ==
    ASSUME TypeOK, NEW s \in sessions, NEW d
    PROVE  /\ [s EXCEPT !.doc = d].team = s.team /\ [s EXCEPT !.doc = d].range = s.range
           /\ [s EXCEPT !.doc = d].doc = d
BY DEF TypeOK

LEMMA StartedSessions ==
    ASSUME TypeOK, NEW t, NEW r, StartSession(t, r)
    PROVE  \/ /\ \A s \in sessions : s.team # t \/ s.range # r
              /\ sessions' = sessions \cup {[team |-> t, range |-> r, doc |-> PinFor(r)]}
           \/ \A u \in sessions' : \E s \in sessions :
                 u.team = s.team /\ u.range = s.range /\ (s.doc # None => u = s)
                 /\ \A v \in sessions' : v.team = u.team /\ v.range = u.range /\ SessionsAreOne => v = u
<1> DEFINE mine == {s \in sessions : s.team = t /\ s.range = r}
           f(s) == IF s \in mine THEN [s EXCEPT !.doc = Repin(s)] ELSE s
<1>1. CASE mine = {}
  BY <1>1 DEF StartSession
<1>2. CASE mine # {}
  <2>1. sessions' = {f(s) : s \in sessions}
    BY <1>2 DEF StartSession
  <2>2. \A s \in sessions : f(s).team = s.team /\ f(s).range = s.range /\ (s.doc # None => f(s) = s)
    <3>1. \A s \in sessions : s.doc # None => [s EXCEPT !.doc = Repin(s)] = s
      BY DEF Repin, TypeOK
    <3>2. QED  BY <3>1, KeysStay
  <2> HIDE DEF f
  <2>3. QED  BY <2>1, <2>2 DEF SessionsAreOne
<1>3. QED  BY <1>1, <1>2

\* What a step makes of the session of one team and scenario.
LEMMA SessionsStep ==
    ASSUME TypeOK, SessionsAreOne, [Next]_vars
    PROVE  /\ SessionsAreOne'
           /\ \A s \in sessions, u \in sessions' :
                 /\ s.team = u.team /\ s.range = u.range /\ s.doc # None
                 /\ s.doc \in VersionsOf(s.range) \/ s.doc \in DocRows'
                 => u.doc = s.doc
<1> DEFINE Stands == \A s \in sessions, u \in sessions' :
                        /\ s.team = u.team /\ s.range = u.range /\ s.doc # None
                        /\ s.doc \in VersionsOf(s.range) \/ s.doc \in DocRows'
                        => u.doc = s.doc
<1>1. sessions' \subseteq sessions => SessionsAreOne' /\ Stands
  BY DEF SessionsAreOne
<1>2. ASSUME NEW r \in Ranges, DeleteRange(r)  PROVE SessionsAreOne' /\ Stands
  <2> DEFINE f(s) == IF s.doc \in VersionsOf(r) THEN [s EXCEPT !.doc = None] ELSE s
  <2>1. sessions' = {f(s) : s \in sessions}
    BY <1>2 DEF DeleteRange
  <2>2. \A s \in sessions : f(s).team = s.team /\ f(s).range = s.range
    BY KeysStay
  <2>3. \A s \in sessions : s.doc \in VersionsOf(r) => s.doc \notin VersionsOf(s.range) /\ s.doc \notin DocRows'
    <3>1. \A s \in sessions : s.range # r
      BY <1>2 DEF DeleteRange
    <3>2. \A d \in VersionsOf(r) : d \notin DocRows'
      BY <1>2 DEF DeleteRange, VersionsOf, DocRows
    <3>3. QED  BY <3>1, <3>2 DEF VersionsOf
  <2>4. \A s \in sessions : s.doc \notin VersionsOf(r) => f(s) = s
    OBVIOUS
  <2> HIDE DEF f
  <2>5. SessionsAreOne'
    BY <2>1, <2>2 DEF SessionsAreOne
  <2>6. Stands
    BY <2>1, <2>2, <2>3, <2>4 DEF SessionsAreOne
  <2>7. QED  BY <2>5, <2>6
<1>3. ASSUME NEW t \in Teams, NEW r \in Ranges, StartSession(t, r)  PROVE SessionsAreOne' /\ Stands
  <2>1. CASE /\ \A s \in sessions : s.team # t \/ s.range # r
             /\ sessions' = sessions \cup {[team |-> t, range |-> r, doc |-> PinFor(r)]}
    BY <2>1 DEF SessionsAreOne
  <2>2. CASE \A u \in sessions' : \E s \in sessions :
                 u.team = s.team /\ u.range = s.range /\ (s.doc # None => u = s)
                 /\ \A v \in sessions' : v.team = u.team /\ v.range = u.range /\ SessionsAreOne => v = u
    BY <2>2 DEF SessionsAreOne
  <2>3. QED  BY <1>3, <2>1, <2>2, StartedSessions
<1>4. ASSUME NEW j \in JobIds, Promote(j)  PROVE SessionsAreOne' /\ Stands
  <2> DEFINE f(s) == IF s.range = jobs[j].range /\ s.doc = None THEN [s EXCEPT !.doc = jobs[j].doc] ELSE s
  <2>1. sessions' = sessions \/ sessions' = {f(s) : s \in sessions}
    BY <1>4 DEF Promote, Backfilled
  <2>2. \A s \in sessions : f(s).team = s.team /\ f(s).range = s.range /\ (s.doc # None => f(s) = s)
    BY KeysStay
  <2> HIDE DEF f
  <2>3. CASE sessions' = {f(s) : s \in sessions}
    BY <2>2, <2>3 DEF SessionsAreOne
  <2>4. QED  BY <1>1, <2>1, <2>3
<1>5. ASSUME NEW t \in Teams, ForgetTeam(t)  PROVE SessionsAreOne' /\ Stands
  BY <1>1, <1>5 DEF ForgetTeam
<1>6. UNCHANGED sessions => SessionsAreOne' /\ Stands
  BY <1>1
<1> HIDE DEF Stands
<1>7. SessionsAreOne' /\ Stands
  BY <1>2, <1>3, <1>4, <1>5, <1>6
  DEF Next, vars, CreateRange, BeginAssessment, EndAssessment, UploadVersion, RetryVersion, RebuildVersion,
      FoundryMakes, RecordResource, RecordRefused, JobFails, Rebuilt, StartCleanup, FoundryRemoves, CleanupTurn,
      Restart
<1>8. QED  BY <1>7 DEF Stands

\* A session keeps the version it pinned until the session itself is gone, through restarts of the
\* scenario, later uploads, promotions, failures and rebuilds: all its assessments are made against
\* one text (startCyberRangeForTeam, the backfill at the end of indexDocument, deleteCyberRange).
THEOREM PinsAreKept == Spec => PinsStand
<1>1. Init => SessionsAreOne
  BY DEF Init, SessionsAreOne
<1>2. TypeOK /\ SessionsAreOne /\ [Next]_vars =>
        /\ SessionsAreOne'
        /\ \A s \in sessions, u \in sessions' :
              /\ s.team = u.team /\ s.range = u.range /\ s.doc # None
              /\ s.doc \in VersionsOf(s.range) \/ s.doc \in DocRows'
              => u.doc = s.doc
  BY SessionsStep
<1>3. QED  BY <1>1, <1>2, DocumentsInvariant, PTL DEF Spec, PinsStand

-------------------------------------------------------------------------------
(* Assessments: rows and requests                                           *)

\* The new row's id is nobody's: among the sets of larger ids, one is minimal.
LEMMA NextRowIsFree == NextRow \in Nat \ {0} /\ NextRow \notin InRows
<1> DEFINE Above(i) == {k \in RowIds : k > i}
           A == {Above(i) : i \in InRows}
<1>1. CASE InRows = {}
  BY <1>1 DEF NextRow
<1>2. CASE InRows # {}
  <2>1. IsFiniteSet(RowIds)
    BY FS_Interval, RowsAreBounded DEF RowIds
  <2>2. IsWellFoundedOn(StrictSubsetOrdering(RowIds), SUBSET RowIds)
    BY <2>1, FS_FiniteSubsetsOfFinite, FS_StrictSubsetOrderingWellFounded
  <2>3. A \subseteq SUBSET RowIds /\ A # {}
    BY <1>2
  <2>4. PICK a \in A : \A b \in A : ~ (<<b, a>> \in StrictSubsetOrdering(RowIds))
    <3> HIDE DEF A
    <3>1. QED  BY <2>2, <2>3, WFMin
  <2>5. PICK i \in InRows : a = Above(i)
    BY <2>4
  <2>6. ASSUME NEW j \in InRows, ~(j <= i)  PROVE FALSE
    <3>1. Above(j) \subseteq Above(i) /\ j \in Above(i) /\ j \notin Above(j)
      BY <2>6, RowsAreBounded DEF InRows, RowIds
    <3>2. <<Above(j), Above(i)>> \in StrictSubsetOrdering(RowIds)
      BY <3>1 DEF StrictSubsetOrdering
    <3>3. QED  BY <2>4, <2>5, <3>2
  <2>7. PICK k \in InRows : k = CHOOSE x \in InRows : \A y \in InRows : y <= x
    BY <2>6
  <2>8. NextRow = 1 + k /\ \A y \in InRows : y <= k
    BY <1>2, <2>6, <2>7 DEF NextRow
  <2>9. QED  BY <2>8, RowsAreBounded DEF InRows, RowIds
<1>3. QED  BY <1>1, <1>2

\* An id that is not another row's was asked for once.
LEMMA FreshIsOnce ==
    ASSUME NEW i, Fresh(i), NEW m \in DOMAIN asked, NEW n \in DOMAIN asked,
           asked[m].row = i, asked[n].row = i, AskTypeOK
    PROVE  m = n
<1> DEFINE S == {k \in DOMAIN asked : asked[k].row = i}
<1>1. DOMAIN asked = 1..Len(asked) /\ Len(asked) \in Nat
  BY DEF AskTypeOK
<1>2. IsFiniteSet(DOMAIN asked)
  BY <1>1, FS_Interval
<1>3. IsFiniteSet(S)
  BY <1>2, FS_Subset
<1>4. Cardinality(S) = 1
  BY DEF Fresh
<1>5. PICK x : S = {x}
  <2> HIDE DEF S
  <2>1. QED  BY <1>3, <1>4, FS_Singleton
<1>6. QED  BY <1>5

LEMMA SnapshotType == ASSUME AskTypeOK, NEW t \in Sessions PROVE Snapshot(t) \in Snapshots
<1>1. standing[t] \in Session /\ work[t] \in Works /\ t \in Teams
  BY DEF Sessions, AskTypeOK
<1>2. {p[3] : p \in {q \in posted : q[1] = t}} \in SUBSET Nat
  BY DEF AskTypeOK
<1>3. QED  BY <1>1, <1>2 DEF Snapshot, Snapshots

LEMMA RequestedRow ==
    ASSUME AskTypeOK, NEW t \in Teams, NEW m \in Modes, NEW force \in BOOLEAN, RequestAssessment(t, m, force)
    PROVE  \E i \in RowIds \ InRows, req \in Request :
              /\ req = [row |-> i, team |-> t, mode |-> m, forced |-> force, snapshot |-> Snapshot(t)]
              /\ asked' = Append(asked, req)
              /\ rows' = [rows EXCEPT ![i] = [status |-> "running", result |-> NoResult, for |-> Len(asked) + 1,
                                              decision |-> "none", score |-> 0]]
              /\ calls' = calls \cup {[row |-> i, for |-> Len(asked) + 1, attempt |-> 1]}
              /\ UNCHANGED <<standing, work, posted, moment>>
<1> DEFINE i == NextRow
           req == [row |-> i, team |-> t, mode |-> m, forced |-> force, snapshot |-> Snapshot(t)]
<1>1. i \in RowIds /\ i \notin InRows /\ t \in Sessions
  BY NextRowIsFree DEF RequestAssessment, MayAsk
<1>2. req \in Request
  BY <1>1, SnapshotType DEF Request
<1>3. asked' = Append(asked, req)
  BY DEF RequestAssessment
<1>4. Len(asked') = Len(asked) + 1
  BY <1>2, <1>3 DEF AskTypeOK
<1>5. /\ rows' = [rows EXCEPT ![i] = [status |-> "running", result |-> NoResult, for |-> Len(asked) + 1,
                                       decision |-> "none", score |-> 0]]
      /\ calls' = calls \cup {[row |-> i, for |-> Len(asked) + 1, attempt |-> 1]}
      /\ UNCHANGED <<standing, work, posted, moment>>
  BY <1>4 DEF RequestAssessment
<1>6. req = [row |-> i, team |-> t, mode |-> m, forced |-> force, snapshot |-> Snapshot(t)]
  OBVIOUS
<1>7. QED
  <2> HIDE DEF i, req
  <2>1. QED  BY <1>1, <1>2, <1>3, <1>5, <1>6

-------------------------------------------------------------------------------
(* Assessments: type correctness                                            *)

\* What a job writes at its end goes to the row that has its id, if there is one.
LEMMA EndedRow ==
    ASSUME AskTypeOK, NEW i \in RowIds, NEW status \in {"succeeded", "failed"}, NEW result,
           rows' = Ended(i, status, result)
    PROVE  /\ rows' = [k \in RowIds |-> rows'[k]]
           /\ InRows' = InRows
           /\ \A k \in InRows : /\ DOMAIN rows'[k] = Columns
                                /\ rows'[k].for = rows[k].for
                                /\ rows'[k].decision = rows[k].decision
                                /\ rows'[k].score = rows[k].score
           /\ i \in InRows => rows'[i].status = status /\ rows'[i].result = result
           /\ \A k \in InRows \ {i} : rows'[k] = rows[k]
<1>1. CASE i \notin InRows
  BY <1>1 DEF Ended, AskTypeOK, InRows
<1>2. CASE i \in InRows
  <2> DEFINE r == [rows[i] EXCEPT !.status = status, !.result = result]
  <2>1. DOMAIN rows[i] = Columns
    BY <1>2 DEF AskTypeOK
  <2>2. /\ DOMAIN r = Columns /\ r.status = status /\ r.result = result
        /\ r.for = rows[i].for /\ r.decision = rows[i].decision /\ r.score = rows[i].score
    BY <2>1 DEF Columns
  <2>3. rows' = [k \in RowIds |-> IF k = i THEN r ELSE rows[k]]
    BY <1>2 DEF Ended, AskTypeOK
  <2>4. r # NoRow
    BY <2>2 DEF NoRow
  <2> HIDE DEF r
  <2>5. InRows' = InRows
    BY <1>2, <2>3, <2>4 DEF InRows
  <2>6. QED  BY <2>2, <2>3, <2>5 DEF AskTypeOK, InRows
<1>3. QED  BY <1>1, <1>2

\* The same for a decision.
LEMMA DecidedRow ==
    ASSUME AskTypeOK, NEW i \in RowIds, NEW d \in {"approved", "edited", "rejected"}, NEW n, NEW o,
           DecideAssessment(i, d, n, o)
    PROVE  /\ i \in InRows /\ Decidable(i, o)
           /\ rows' = [k \in RowIds |-> rows'[k]]
           /\ InRows' = InRows
           /\ DOMAIN rows'[i] = Columns /\ rows'[i].for = rows[i].for /\ rows'[i].status = rows[i].status
           /\ rows'[i].result = rows[i].result
           /\ rows'[i].decision = d /\ rows'[i].score = DecidedScore(i, d, n)
           /\ \A k \in InRows \ {i} : rows'[k] = rows[k]
           /\ UNCHANGED <<standing, work, calls, posted, asked, moment>>
<1> DEFINE r == [rows[i] EXCEPT !.decision = d, !.score = DecidedScore(i, d, n)]
<1>1. i \in InRows /\ DOMAIN rows[i] = Columns
  BY DEF DecideAssessment, AskTypeOK
<1>2. /\ DOMAIN r = Columns /\ r.status = rows[i].status /\ r.result = rows[i].result
      /\ r.for = rows[i].for /\ r.decision = d /\ r.score = DecidedScore(i, d, n)
  BY <1>1 DEF Columns
<1>3. rows' = [k \in RowIds |-> IF k = i THEN r ELSE rows[k]]
  BY <1>1 DEF DecideAssessment, AskTypeOK
<1>4. r # NoRow
  <2>1. "decision" \notin DOMAIN NoRow /\ "decision" \in DOMAIN r
    BY <1>2 DEF NoRow, Columns
  <2>2. QED  BY <2>1
<1> HIDE DEF r
<1>5. InRows' = InRows
  BY <1>1, <1>3, <1>4 DEF InRows
<1>6. \A k \in InRows \ {i} : rows'[k] = rows[k]
  BY <1>3 DEF InRows
<1>7. rows' = [k \in RowIds |-> rows'[k]] /\ rows'[i] = r
  BY <1>1, <1>3
<1>8. QED  BY <1>1, <1>2, <1>5, <1>6, <1>7 DEF DecideAssessment

\* The same for the recovery after a restart.
LEMMA InterruptedRows ==
    ASSUME AskTypeOK, RestartServer
    PROVE  /\ rows' = [k \in RowIds |-> rows'[k]]
           /\ InRows' = InRows
           /\ \A k \in InRows : /\ DOMAIN rows'[k] = Columns
                                /\ rows'[k].for = rows[k].for /\ rows'[k].result = rows[k].result
                                /\ rows'[k].decision = rows[k].decision /\ rows'[k].score = rows[k].score
                                /\ rows[k].status = "running" => rows'[k].status = "failed"
                                /\ rows[k].status # "running" => rows'[k] = rows[k]
<1>1. rows' = Interrupted
  BY DEF RestartServer
<1>2. ASSUME NEW k \in RowIds
      PROVE  rows'[k] = IF k \in InRows /\ rows[k].status = "running" THEN [rows[k] EXCEPT !.status = "failed"] ELSE rows[k]
  BY <1>1 DEF Interrupted, Active
<1>3. ASSUME NEW k \in InRows
      PROVE  /\ DOMAIN rows'[k] = Columns
             /\ rows'[k].for = rows[k].for /\ rows'[k].result = rows[k].result
             /\ rows'[k].decision = rows[k].decision /\ rows'[k].score = rows[k].score
             /\ rows[k].status = "running" => rows'[k].status = "failed"
             /\ rows[k].status # "running" => rows'[k] = rows[k]
  <2>1. DOMAIN rows[k] = Columns /\ k \in RowIds
    BY DEF AskTypeOK, InRows
  <2>2. QED  BY <1>2, <2>1 DEF Columns
<1>4. \A k \in InRows : rows'[k] # NoRow
  <2>1. "decision" \notin DOMAIN NoRow /\ "decision" \in Columns
    BY DEF NoRow, Columns
  <2>2. QED  BY <1>3, <2>1
<1>5. InRows' = InRows
  <2>1. \A k \in RowIds \ InRows : rows'[k] = rows[k] /\ rows[k] = NoRow
    BY <1>2 DEF InRows
  <2>2. \A k \in RowIds : k \in InRows' <=> rows'[k] # NoRow
    BY DEF InRows
  <2>3. InRows' \subseteq RowIds /\ InRows \subseteq RowIds
    BY DEF InRows
  <2>4. QED  BY <1>4, <2>1, <2>2, <2>3
<1>6. rows' = [k \in RowIds |-> rows'[k]]
  BY <1>1 DEF Interrupted
<1>7. QED  BY <1>3, <1>5, <1>6

LEMMA RemovedRows ==
    ASSUME AskTypeOK, NEW t \in Teams, DeleteTeam(t)
    PROVE  /\ rows' = [k \in RowIds |-> rows'[k]]
           /\ InRows' = {i \in InRows : Of(i).team # t}
           /\ \A k \in InRows' : rows'[k] = rows[k]
           /\ posted' = {p \in posted : p[1] # t}
           /\ UNCHANGED <<calls, asked>>
BY DEF DeleteTeam, InRows

\* Type correctness is kept by every step.
LEMMA AskTypeStep == AskTypeOK /\ [AskNext]_askVars => AskTypeOK'
<1> SUFFICES ASSUME AskTypeOK, [AskNext]_askVars  PROVE AskTypeOK'
  OBVIOUS
<1> USE DEF AskTypeOK
<1>1. ASSUME NEW t \in Teams, BeginSession(t)  PROVE AskTypeOK'
  <2>1. moment' \in Nat /\ UNCHANGED <<work, rows, calls, posted, asked>>
    BY <1>1 DEF BeginSession, Later
  <2>2. [status |-> "active", started |-> moment', completed |-> Never] \in Session
    BY <2>1 DEF Session, Statuses, Never
  <2>3. standing' \in [Teams -> Session \cup {NoSession}]
    BY <1>1, <2>2 DEF BeginSession
  <2>4. QED  BY <2>1, <2>3 DEF InRows
<1>2. ASSUME NEW t \in Teams, PauseSession(t) \/ CompleteSession(t)  PROVE AskTypeOK'
  <2>1. moment' \in Nat /\ UNCHANGED <<work, rows, calls, posted, asked>>
    BY <1>2 DEF PauseSession, CompleteSession, Later
  <2>2. standing[t] \in Session
    BY <1>2 DEF PauseSession, CompleteSession, Sessions, NoSession
  <2>3. /\ [standing[t] EXCEPT !.status = "paused"] \in Session
        /\ [standing[t] EXCEPT !.status = "completed", !.completed = moment'] \in Session
    BY <2>1, <2>2 DEF Session, Statuses
  <2>4. standing' \in [Teams -> Session \cup {NoSession}]
    BY <1>2, <2>3 DEF PauseSession, CompleteSession
  <2>5. QED  BY <2>1, <2>4 DEF InRows
<1>3. ASSUME NEW t \in Teams, NEW w \in Works, Document(t, w)  PROVE AskTypeOK'
  BY <1>3 DEF Document, InRows
<1>4. ASSUME NEW t \in Teams, DeleteTeam(t)  PROVE AskTypeOK'
  <2>1. standing' \in [Teams -> Session \cup {NoSession}] /\ work' \in [Teams -> Works] /\ moment' = moment
    BY <1>4, WorkStartsBlank DEF DeleteTeam
  <2>2. QED  BY <1>4, <2>1, RemovedRows
<1>5. ASSUME NEW t \in Teams, NEW m \in Modes, NEW force \in BOOLEAN, RequestAssessment(t, m, force)
      PROVE  AskTypeOK'
  <2>1. PICK i \in RowIds \ InRows, req \in Request :
              /\ asked' = Append(asked, req)
              /\ rows' = [rows EXCEPT ![i] = [status |-> "running", result |-> NoResult, for |-> Len(asked) + 1,
                                              decision |-> "none", score |-> 0]]
              /\ calls' = calls \cup {[row |-> i, for |-> Len(asked) + 1, attempt |-> 1]}
              /\ UNCHANGED <<standing, work, posted, moment>>
    BY <1>5, RequestedRow
  <2> DEFINE r == [status |-> "running", result |-> NoResult, for |-> Len(asked) + 1, decision |-> "none", score |-> 0]
  <2>2. asked' \in Seq(Request) /\ DOMAIN asked' = DOMAIN asked \cup {Len(asked) + 1}
    BY <2>1
  <2>3. calls' \subseteq [row : RowIds, for : DOMAIN asked', attempt : 1..2]
    BY <2>1, <2>2
  <2>4. rows' = [k \in RowIds |-> IF k = i THEN r ELSE rows[k]]
    BY <2>1
  <2>5. DOMAIN r = Columns /\ r.status = "running" /\ r.for = Len(asked) + 1 /\ r.decision = "none"
    BY DEF Columns
  <2> HIDE DEF r
  <2>6. \A k \in InRows' : k = i \/ k \in InRows
    BY <2>4 DEF InRows
  <2>7. \A k \in InRows' : /\ DOMAIN rows'[k] = Columns
                           /\ rows'[k].status \in {"running", "succeeded", "failed"}
                           /\ rows'[k].for \in DOMAIN asked'
                           /\ rows'[k].decision \in {"none", "approved", "edited", "rejected"}
    BY <2>2, <2>4, <2>5, <2>6 DEF InRows
  <2>8. QED  BY <2>1, <2>2, <2>3, <2>4, <2>7
<1>6. ASSUME NEW j \in calls, CallFails(j)  PROVE AskTypeOK'
  <2>1. j.row \in RowIds /\ rows' = Ended(j.row, "failed", NoResult)
    BY <1>6 DEF CallFails
  <2>2. calls' \subseteq calls /\ UNCHANGED <<standing, work, posted, asked, moment>>
    BY <1>6 DEF CallFails
  <2>3. /\ rows' = [k \in RowIds |-> rows'[k]]
        /\ InRows' = InRows
        /\ \A k \in InRows : /\ DOMAIN rows'[k] = Columns
                             /\ rows'[k].for = rows[k].for
                             /\ rows'[k].decision = rows[k].decision
                             /\ rows'[k].status \in {"running", "succeeded", "failed"}
    BY <2>1, EndedRow
  <2>4. QED  BY <2>2, <2>3
<1>7. ASSUME NEW j \in calls, NEW reply \in Replies, Reply(j, reply)  PROVE AskTypeOK'
  <2>1. UNCHANGED <<standing, work, posted, asked, moment>>
    BY <1>7 DEF Reply
  <2>2. CASE UNCHANGED rows /\ calls' = (calls \ {j}) \cup {[j EXCEPT !.attempt = 2]}
    <3>1. [j EXCEPT !.attempt = 2] \in [row : RowIds, for : DOMAIN asked, attempt : 1..2]
      OBVIOUS
    <3>2. QED  BY <2>1, <2>2, <3>1 DEF InRows
  <2>3. CASE /\ calls' = calls \ {j}
             /\ \E status \in {"succeeded", "failed"} : \E result : rows' = Ended(j.row, status, result)
    <3>1. PICK status \in {"succeeded", "failed"} : \E result : rows' = Ended(j.row, status, result)
      BY <2>3
    <3>2. PICK result : rows' = Ended(j.row, status, result)
      BY <3>1
    <3>3. j.row \in RowIds
      OBVIOUS
    <3>4. /\ rows' = [k \in RowIds |-> rows'[k]]
          /\ InRows' = InRows
          /\ \A k \in InRows : /\ DOMAIN rows'[k] = Columns
                               /\ rows'[k].for = rows[k].for
                               /\ rows'[k].decision = rows[k].decision
                               /\ rows'[k].status \in {"running", "succeeded", "failed"}
      BY <3>2, <3>3, EndedRow
    <3>5. QED  BY <2>1, <2>3, <3>4
  <2>4. QED  BY <1>7, <2>2, <2>3 DEF Reply
<1>8. ASSUME NEW i \in RowIds, NEW d \in {"approved", "edited", "rejected"}, NEW n, NEW o, DecideAssessment(i, d, n, o)
      PROVE  AskTypeOK'
  <2>1. /\ i \in InRows /\ InRows' = InRows
        /\ rows' = [k \in RowIds |-> rows'[k]]
        /\ DOMAIN rows'[i] = Columns /\ rows'[i].for = rows[i].for /\ rows'[i].status = rows[i].status
        /\ rows'[i].decision = d
        /\ \A k \in InRows \ {i} : rows'[k] = rows[k]
        /\ UNCHANGED <<standing, work, calls, posted, asked, moment>>
    BY <1>8, DecidedRow
  <2>2. \A k \in InRows : /\ DOMAIN rows'[k] = Columns
                           /\ rows'[k].status \in {"running", "succeeded", "failed"}
                           /\ rows'[k].for \in DOMAIN asked
                           /\ rows'[k].decision \in {"none", "approved", "edited", "rejected"}
    BY <2>1
  <2>3. QED  BY <2>1, <2>2
<1>9. ASSUME NEW t \in Teams, NEW i \in RowIds, AddFeedback(t, i)  PROVE AskTypeOK'
  BY <1>9 DEF AddFeedback, Later, InRows
<1>10. ASSUME NEW p \in posted, DeleteFeedback(p)  PROVE AskTypeOK'
  BY <1>10 DEF DeleteFeedback, InRows
<1>11. CASE RestartServer
  <2>1. calls' = {} /\ UNCHANGED <<standing, work, posted, asked, moment>>
    BY <1>11 DEF RestartServer
  <2>2. /\ rows' = [k \in RowIds |-> rows'[k]]
        /\ InRows' = InRows
        /\ \A k \in InRows : /\ DOMAIN rows'[k] = Columns
                             /\ rows'[k].for = rows[k].for
                             /\ rows'[k].decision = rows[k].decision
                             /\ rows'[k].status \in {"running", "succeeded", "failed"}
    BY <1>11, InterruptedRows
  <2>3. QED  BY <2>1, <2>2
<1>12. CASE UNCHANGED askVars
  BY <1>12 DEF askVars, InRows
<1>13. QED
  BY <1>1, <1>2, <1>3, <1>4, <1>5, <1>6, <1>7, <1>8, <1>9, <1>10, <1>11, <1>12 DEF AskNext

-------------------------------------------------------------------------------
(* Assessments: the inductive invariant                                     *)

\* A row and a job have the id their request was given, and a request has one job at most.
IdsAgree ==
    /\ \A i \in InRows : asked[rows[i].for].row = i
    /\ \A j \in calls : asked[j.for].row = j.row
    /\ \A j, k \in calls : j.for = k.for => j = k

\* Nothing is on its way to a row that has ended, unless its id was another row's before.
EndedRowsRest ==
    \A i \in InRows : Fresh(i) /\ rows[i].status # "running" => \A j \in calls : j.row # i

\* Posted feedback has its source, of the same team.
PostsHaveTheirRow == \A p \in posted : p[2] \in InRows /\ Of(p[2]).team = p[1]

\* Work was measured again, without force, because it had failed to be measured.
EarlierHadFailed ==
    \A i, k \in InRows :
        /\ rows[i].for < rows[k].for /\ Fresh(i) /\ ~Of(k).forced
        /\ Of(i).team = Of(k).team /\ Of(i).mode = Of(k).mode /\ Of(i).snapshot = Of(k).snapshot
        => rows[i].status = "failed"

\* A decision is made on a result, and feedback posted from one.
DecidedOnResults ==
    \A i \in InRows : Fresh(i) =>
        /\ rows[i].decision # "none" => /\ rows[i].status = "succeeded" /\ rows[i].result # NoResult
                                        /\ Of(i).mode = "final"
        /\ rows[i].decision = "approved" => rows[i].score = rows[i].result.total
        /\ \A p \in posted : p[2] = i => rows[i].status = "succeeded"

AskIInv == /\ AskTypeOK /\ IdsAgree /\ EndedRowsRest /\ PostsHaveTheirRow /\ EarlierHadFailed
           /\ DecidedOnResults /\ ResultsAnswerARequest

\* Steps that leave the rows, jobs and requests alone, and add no feedback.
LEMMA QuietStep ==
    ASSUME AskIInv, UNCHANGED <<rows, calls, asked>>, posted' \subseteq posted
    PROVE  IdsAgree' /\ EndedRowsRest' /\ PostsHaveTheirRow' /\ EarlierHadFailed' /\ DecidedOnResults'
           /\ ResultsAnswerARequest'
<1>1. IdsAgree' /\ EndedRowsRest'
  BY DEF AskIInv, IdsAgree, EndedRowsRest, InRows, Fresh
<1>2. PostsHaveTheirRow' /\ EarlierHadFailed'
  BY DEF AskIInv, PostsHaveTheirRow, EarlierHadFailed, InRows, Of, Fresh
<1>3. DecidedOnResults' /\ ResultsAnswerARequest'
  BY DEF AskIInv, DecidedOnResults, ResultsAnswerARequest, InRows, Of, Fresh
<1>4. QED  BY <1>1, <1>2, <1>3

\* Rows of one team leave; the jobs stay.
LEMMA TeamLeaves ==
    ASSUME AskIInv, NEW t \in Teams, DeleteTeam(t)
    PROVE  IdsAgree' /\ EndedRowsRest' /\ PostsHaveTheirRow' /\ EarlierHadFailed' /\ DecidedOnResults'
           /\ ResultsAnswerARequest'
<1>1. /\ InRows' = {i \in InRows : Of(i).team # t}
      /\ \A k \in InRows' : rows'[k] = rows[k]
      /\ posted' = {p \in posted : p[1] # t}
      /\ calls' = calls /\ asked' = asked
  BY RemovedRows DEF AskIInv
<1>2. \A k \in InRows' : k \in InRows /\ Of(k)' = Of(k) /\ (Fresh(k)' <=> Fresh(k))
  BY <1>1 DEF Of, Fresh
<1>3. IdsAgree'
  BY <1>1, <1>2 DEF AskIInv, IdsAgree
<1>4. EndedRowsRest'
  BY <1>1, <1>2 DEF AskIInv, EndedRowsRest
<1>5. PostsHaveTheirRow'
  BY <1>1, <1>2 DEF AskIInv, PostsHaveTheirRow
<1>6. EarlierHadFailed'
  BY <1>1, <1>2 DEF AskIInv, EarlierHadFailed
<1>7. DecidedOnResults'
  BY <1>1, <1>2 DEF AskIInv, DecidedOnResults
<1>8. ResultsAnswerARequest'
  BY <1>1, <1>2 DEF AskIInv, ResultsAnswerARequest
<1>9. QED  BY <1>3, <1>4, <1>5, <1>6, <1>7, <1>8

\* A request is accepted: what it would repeat, if anything, has failed.
LEMMA RequestAccepted ==
    ASSUME AskIInv, NEW t \in Teams, NEW m \in Modes, NEW force \in BOOLEAN, RequestAssessment(t, m, force)
    PROVE  IdsAgree' /\ EndedRowsRest' /\ PostsHaveTheirRow' /\ EarlierHadFailed' /\ DecidedOnResults'
           /\ ResultsAnswerARequest'
<1>0. AskTypeOK /\ asked \in Seq(Request)
  BY DEF AskIInv, AskTypeOK
<1>1. PICK i \in RowIds \ InRows, req \in Request :
         /\ req = [row |-> i, team |-> t, mode |-> m, forced |-> force, snapshot |-> Snapshot(t)]
         /\ asked' = Append(asked, req)
         /\ rows' = [rows EXCEPT ![i] = [status |-> "running", result |-> NoResult, for |-> Len(asked) + 1,
                                         decision |-> "none", score |-> 0]]
         /\ calls' = calls \cup {[row |-> i, for |-> Len(asked) + 1, attempt |-> 1]}
         /\ UNCHANGED <<standing, work, posted, moment>>
  BY <1>0, RequestedRow
<1> DEFINE r == [status |-> "running", result |-> NoResult, for |-> Len(asked) + 1, decision |-> "none", score |-> 0]
           c == [row |-> i, for |-> Len(asked) + 1, attempt |-> 1]
           N == Len(asked) + 1
<1>2. /\ r.status = "running" /\ r.result = NoResult /\ r.for = N /\ r.decision = "none"
      /\ c.row = i /\ c.for = N /\ r # NoRow
  BY DEF NoRow
<1>3. rows' = [k \in RowIds |-> IF k = i THEN r ELSE rows[k]] /\ calls' = calls \cup {c}
  BY <1>0, <1>1 DEF AskTypeOK
<1> HIDE DEF r, c
<1>4. InRows' = InRows \cup {i} /\ rows'[i] = r /\ \A k \in InRows : rows'[k] = rows[k] /\ k # i
  BY <1>1, <1>2, <1>3 DEF InRows
<1>5. /\ DOMAIN asked' = DOMAIN asked \cup {N} /\ N \notin DOMAIN asked /\ N \in Nat
      /\ \A n \in DOMAIN asked : asked'[n] = asked[n] /\ n < N /\ n \in Nat
      /\ asked'[N] = req /\ req.row = i
  BY <1>0, <1>1
<1>6. \A k \in InRows : rows[k].for \in DOMAIN asked /\ Of(k)' = Of(k)
  BY <1>0, <1>4, <1>5 DEF Of, AskTypeOK
<1>7. Of(i)' = req
  BY <1>2, <1>4, <1>5 DEF Of
<1>8. \A k \in InRows : Fresh(k)' <=> Fresh(k)
  <2> SUFFICES ASSUME NEW k \in InRows PROVE Fresh(k)' <=> Fresh(k)
    OBVIOUS
  <2>1. {n \in DOMAIN asked' : asked'[n].row = k} = {n \in DOMAIN asked : asked[n].row = k}
    BY <1>4, <1>5
  <2>2. QED  BY <2>1 DEF Fresh
<1>9. \A j \in calls : j.for \in DOMAIN asked
  BY <1>0 DEF AskTypeOK
<1>10. IdsAgree'
  <2>1. \A k \in InRows' : asked'[rows'[k].for].row = k
    BY <1>2, <1>4, <1>5, <1>6 DEF AskIInv, IdsAgree
  <2>2. \A j \in calls' : asked'[j.for].row = j.row
    BY <1>2, <1>3, <1>5, <1>9 DEF AskIInv, IdsAgree
  <2>3. \A j, k \in calls' : j.for = k.for => j = k
    BY <1>2, <1>3, <1>5, <1>9 DEF AskIInv, IdsAgree
  <2>4. QED  BY <2>1, <2>2, <2>3 DEF IdsAgree
<1>11. EndedRowsRest'
  <2>1. ASSUME NEW k \in InRows', Fresh(k)', rows'[k].status # "running"
        PROVE  \A j \in calls' : j.row # k
    <3>1. k \in InRows /\ Fresh(k) /\ rows[k].status # "running" /\ k # i
      BY <2>1, <1>2, <1>4, <1>8
    <3>2. QED  BY <3>1, <1>2, <1>3 DEF AskIInv, EndedRowsRest
  <2>2. QED  BY <2>1 DEF EndedRowsRest
<1>12. PostsHaveTheirRow'
  BY <1>1, <1>4, <1>6 DEF AskIInv, PostsHaveTheirRow
<1>13. EarlierHadFailed'
  <2>1. ASSUME NEW a \in InRows', NEW b \in InRows',
               rows'[a].for < rows'[b].for, Fresh(a)', ~Of(b)'.forced,
               Of(a)'.team = Of(b)'.team, Of(a)'.mode = Of(b)'.mode, Of(a)'.snapshot = Of(b)'.snapshot
        PROVE  rows'[a].status = "failed"
    <3>1. a \in InRows
      <4>1. CASE a = i
        <5>1. rows'[b].for = N \/ rows'[b].for \in DOMAIN asked
          BY <1>2, <1>4, <1>6
        <5>2. QED  BY <2>1, <4>1, <5>1, <1>2, <1>4, <1>5
      <4>2. QED  BY <4>1, <1>4
    <3>2. CASE b \in InRows
      BY <2>1, <3>1, <3>2, <1>4, <1>6, <1>8 DEF AskIInv, EarlierHadFailed
    <3>3. CASE b = i
      <4>1. ~force /\ Of(a).team = t /\ Of(a).mode = m /\ Of(a).snapshot = Snapshot(t)
        BY <2>1, <3>1, <3>3, <1>1, <1>6, <1>7
      <4>2. a \notin Reusable(t, m) /\ ~InProgress(t, m)
        BY <4>1 DEF RequestAssessment, Repeats, MayAsk
      <4>3. rows[a].status # "succeeded" /\ rows[a].status # "running"
        BY <3>1, <4>1, <4>2 DEF Reusable, SameAsked, InProgress, Active
      <4>4. QED  BY <3>1, <4>3, <1>0, <1>4 DEF AskTypeOK
    <3>4. QED  BY <3>2, <3>3, <1>4
  <2>2. QED  BY <2>1 DEF EarlierHadFailed
<1>14. DecidedOnResults'
  <2>1. \A p \in posted' : p[2] # i
    BY <1>1, <1>4 DEF AskIInv, PostsHaveTheirRow
  <2>2. QED  BY <2>1, <1>1, <1>2, <1>4, <1>6, <1>8 DEF AskIInv, DecidedOnResults
<1>15. ResultsAnswerARequest'
  BY <1>2, <1>4, <1>5 DEF AskIInv, ResultsAnswerARequest
<1>16. QED  BY <1>10, <1>11, <1>12, <1>13, <1>14, <1>15

\* A job ends: the row that is its own was still running, without a decision and without feedback.
LEMMA JobEnds ==
    ASSUME AskIInv, NEW j \in calls, NEW status \in {"succeeded", "failed"}, NEW result,
           rows' = Ended(j.row, status, result), calls' = calls \ {j},
           UNCHANGED <<standing, work, posted, asked, moment>>,
           result # NoResult => Sound(result, Asked(j))
    PROVE  IdsAgree' /\ EndedRowsRest' /\ PostsHaveTheirRow' /\ EarlierHadFailed' /\ DecidedOnResults'
           /\ ResultsAnswerARequest'
<1> DEFINE i == j.row
<1>0. AskTypeOK /\ i \in RowIds /\ j.for \in DOMAIN asked /\ asked[j.for].row = i
  BY DEF AskIInv, AskTypeOK, IdsAgree
<1>1. /\ InRows' = InRows
      /\ \A k \in InRows : /\ rows'[k].for = rows[k].for
                           /\ rows'[k].decision = rows[k].decision
                           /\ rows'[k].score = rows[k].score
      /\ i \in InRows => rows'[i].status = status /\ rows'[i].result = result
      /\ \A k \in InRows \ {i} : rows'[k] = rows[k]
  BY <1>0, EndedRow
<1>2. \A k \in InRows : Of(k)' = Of(k) /\ (Fresh(k)' <=> Fresh(k))
  BY <1>1 DEF Of, Fresh
<1>3. i \in InRows /\ Fresh(i) => /\ rows[i].status = "running" /\ rows[i].decision = "none"
                                  /\ \A p \in posted : p[2] # i
  BY DEF AskIInv, EndedRowsRest, DecidedOnResults
<1>4. IdsAgree'
  BY <1>1, <1>2 DEF AskIInv, IdsAgree
<1>5. EndedRowsRest'
  <2>1. ASSUME NEW k \in InRows, Fresh(k), rows'[k].status # "running", NEW c \in calls', c.row = k
        PROVE  FALSE
    <3>1. c \in calls /\ c # j
      BY <2>1
    <3>2. CASE k = i
      <4>1. c.for \in DOMAIN asked /\ asked[c.for].row = i
        BY <2>1, <3>1, <3>2, <1>0 DEF AskIInv, AskTypeOK, IdsAgree
      <4>2. c.for = j.for
        BY <2>1, <3>2, <4>1, <1>0, FreshIsOnce
      <4>3. QED  BY <3>1, <4>2 DEF AskIInv, IdsAgree
    <3>3. CASE k # i
      BY <2>1, <3>1, <3>3, <1>1 DEF AskIInv, EndedRowsRest
    <3>4. QED  BY <3>2, <3>3
  <2>2. QED  BY <2>1, <1>1, <1>2 DEF EndedRowsRest
<1>6. PostsHaveTheirRow'
  BY <1>1, <1>2 DEF AskIInv, PostsHaveTheirRow
<1>7. EarlierHadFailed'
  <2>1. ASSUME NEW a \in InRows, NEW b \in InRows,
               rows[a].for < rows[b].for, Fresh(a), ~Of(b).forced,
               Of(a).team = Of(b).team, Of(a).mode = Of(b).mode, Of(a).snapshot = Of(b).snapshot
        PROVE  rows'[a].status = "failed"
    <3>1. rows[a].status = "failed"
      BY <2>1 DEF AskIInv, EarlierHadFailed
    <3>2. a # i
      BY <2>1, <3>1, <1>3
    <3>3. QED  BY <2>1, <3>1, <3>2, <1>1
  <2>2. QED  BY <2>1, <1>1, <1>2 DEF EarlierHadFailed
<1>8. DecidedOnResults'
  BY <1>1, <1>2, <1>3 DEF AskIInv, DecidedOnResults
<1>9. ResultsAnswerARequest'
  <2>1. ASSUME NEW k \in InRows, rows'[k].result # NoResult
        PROVE  \E n \in DOMAIN asked : asked[n].row = k /\ Sound(rows'[k].result, Context(asked[n].mode, asked[n].snapshot))
    <3>1. CASE k = i
      BY <2>1, <3>1, <1>0, <1>1 DEF Asked
    <3>2. CASE k # i
      BY <2>1, <3>2, <1>1 DEF AskIInv, ResultsAnswerARequest
    <3>3. QED  BY <3>1, <3>2
  <2>2. QED  BY <2>1, <1>1 DEF ResultsAnswerARequest
<1>10. QED  BY <1>4, <1>5, <1>6, <1>7, <1>8, <1>9

\* A decision: nothing but the row's decision and score.
LEMMA Decided ==
    ASSUME AskIInv, NEW i \in RowIds, NEW d \in {"approved", "edited", "rejected"}, NEW n, NEW o,
           DecideAssessment(i, d, n, o)
    PROVE  IdsAgree' /\ EndedRowsRest' /\ PostsHaveTheirRow' /\ EarlierHadFailed' /\ DecidedOnResults'
           /\ ResultsAnswerARequest'
<1>1. /\ i \in InRows /\ Decidable(i, o)
      /\ InRows' = InRows
      /\ rows'[i].for = rows[i].for /\ rows'[i].status = rows[i].status /\ rows'[i].result = rows[i].result
      /\ rows'[i].decision = d /\ rows'[i].score = DecidedScore(i, d, n)
      /\ \A k \in InRows \ {i} : rows'[k] = rows[k]
      /\ UNCHANGED <<standing, work, calls, posted, asked, moment>>
  BY DecidedRow DEF AskIInv
<1>2. \A k \in InRows : /\ Of(k)' = Of(k) /\ (Fresh(k)' <=> Fresh(k))
                        /\ rows'[k].status = rows[k].status /\ rows'[k].result = rows[k].result
                        /\ rows'[k].for = rows[k].for
  BY <1>1 DEF Of, Fresh
<1>3. IdsAgree' /\ EndedRowsRest'
  BY <1>1, <1>2 DEF AskIInv, IdsAgree, EndedRowsRest
<1>4. PostsHaveTheirRow' /\ EarlierHadFailed'
  BY <1>1, <1>2 DEF AskIInv, PostsHaveTheirRow, EarlierHadFailed
<1>5. DecidedOnResults'
  BY <1>1, <1>2 DEF AskIInv, DecidedOnResults, Decidable, DecidedScore
<1>6. ResultsAnswerARequest'
  BY <1>1, <1>2 DEF AskIInv, ResultsAnswerARequest
<1>7. QED  BY <1>3, <1>4, <1>5, <1>6

\* Feedback is posted from a result.
LEMMA FeedbackPosted ==
    ASSUME AskIInv, NEW t \in Teams, NEW i \in RowIds, AddFeedback(t, i)
    PROVE  IdsAgree' /\ EndedRowsRest' /\ PostsHaveTheirRow' /\ EarlierHadFailed' /\ DecidedOnResults'
           /\ ResultsAnswerARequest'
<1>1. /\ i \in InRows /\ Of(i).team = t /\ rows[i].status = "succeeded"
      /\ posted' = posted \cup {<<t, i, moment'>>}
      /\ UNCHANGED <<standing, work, rows, calls, asked>>
  BY DEF AddFeedback, PostableFrom
<1>2. InRows' = InRows /\ \A k : Of(k)' = Of(k) /\ (Fresh(k)' <=> Fresh(k))
  BY <1>1 DEF InRows, Of, Fresh
<1>3. IdsAgree' /\ EndedRowsRest'
  BY <1>1, <1>2 DEF AskIInv, IdsAgree, EndedRowsRest
<1>4. PostsHaveTheirRow' /\ EarlierHadFailed'
  BY <1>1, <1>2 DEF AskIInv, PostsHaveTheirRow, EarlierHadFailed
<1>5. DecidedOnResults' /\ ResultsAnswerARequest'
  BY <1>1, <1>2 DEF AskIInv, DecidedOnResults, ResultsAnswerARequest
<1>6. QED  BY <1>3, <1>4, <1>5

\* The recovery after a restart: what was running has failed, and no job is left.
LEMMA RestartRecovered ==
    ASSUME AskIInv, RestartServer
    PROVE  IdsAgree' /\ EndedRowsRest' /\ PostsHaveTheirRow' /\ EarlierHadFailed' /\ DecidedOnResults'
           /\ ResultsAnswerARequest'
<1>1. /\ InRows' = InRows
      /\ \A k \in InRows : /\ rows'[k].for = rows[k].for /\ rows'[k].result = rows[k].result
                           /\ rows'[k].decision = rows[k].decision /\ rows'[k].score = rows[k].score
                           /\ rows[k].status = "running" => rows'[k].status = "failed"
                           /\ rows[k].status # "running" => rows'[k] = rows[k]
  BY InterruptedRows DEF AskIInv
<1>2. calls' = {} /\ UNCHANGED <<posted, asked>>
  BY DEF RestartServer
<1>3. \A k \in InRows : Of(k)' = Of(k) /\ (Fresh(k)' <=> Fresh(k))
  BY <1>1, <1>2 DEF Of, Fresh
<1>4. IdsAgree' /\ EndedRowsRest'
  BY <1>1, <1>2 DEF AskIInv, IdsAgree, EndedRowsRest
<1>5. PostsHaveTheirRow' /\ EarlierHadFailed'
  BY <1>1, <1>2, <1>3 DEF AskIInv, PostsHaveTheirRow, EarlierHadFailed
<1>6. DecidedOnResults'
  BY <1>1, <1>2, <1>3 DEF AskIInv, DecidedOnResults
<1>7. ResultsAnswerARequest'
  BY <1>1, <1>2 DEF AskIInv, ResultsAnswerARequest
<1>8. QED  BY <1>4, <1>5, <1>6, <1>7

-------------------------------------------------------------------------------
(* Assessments: what is stored of a reply                                   *)

LEMMA NotFaulty ==
    ASSUME NEW reply, NEW request, ~Faulty(reply, request)
    PROVE  reply.mode = request.mode /\ (request.mode = "final" => DOMAIN reply.score = DOMAIN Rubric)
<1> DEFINE faults == Faults(reply, request)
<1>1. 4 \in DOMAIN faults /\ 5 \in DOMAIN faults
  BY DEF Faults
<1>2. ASSUME reply.mode # request.mode  PROVE FALSE
  <2>1. faults[4] = [bad |-> TRUE, code |-> "invalid_response"]
    BY <1>2 DEF Faults
  <2>2. faults[4].bad
    BY <2>1
  <2>3. QED  BY <1>1, <2>2 DEF Faulty
<1>3. ASSUME request.mode = "final", DOMAIN reply.score # DOMAIN Rubric  PROVE FALSE
  <2>1. faults[5] = [bad |-> TRUE, code |-> "rubric_mismatch"]
    BY <1>3 DEF Faults
  <2>2. faults[5].bad
    BY <2>1
  <2>3. QED  BY <1>1, <2>2 DEF Faulty
<1>4. QED  BY <1>2, <1>3

\* The points within the rubric add up to no more than 100 (RubricAddsUp).
LEMMA AwardedIsASheet ==
    ASSUME NEW score, DOMAIN score = DOMAIN Rubric, \A k \in DOMAIN score : score[k] \in Int
    PROVE  /\ DOMAIN Awarded(score) = DOMAIN Rubric
           /\ \A k \in DOMAIN Rubric : Awarded(score)[k] \in 0..Rubric[k]
           /\ SumOf(Awarded(score)) \in 0..100
<1>1. \A k \in DOMAIN Rubric : Rubric[k] \in 0..100 /\ Awarded(score)[k] \in 0..Rubric[k]
  BY RubricAddsUp DEF Awarded, Clamp
<1>2. Awarded(score) \in ScoreSheets
  BY <1>1 DEF ScoreSheets, Awarded
<1>3. DOMAIN Awarded(score) = DOMAIN Rubric
  BY DEF Awarded
<1>4. QED  BY <1>1, <1>2, <1>3, RubricAddsUp

\* A technique the team has to find, named in a text it may read, is a leak.
LEMMA NamedIsLeaked ==
    ASSUME NEW mentions, NEW request, NEW t \in request.expected \ request.tagged,
           t \in mentions, \A u \in request.tagged : ParentOf(u) # t
    PROVE  Leaked(mentions, request) # {}
BY DEF Leaked

\* validateAssessment: whatever the agent says, what is stored is sound for what was asked.
LEMMA ValidatedIsSound ==
    ASSUME NEW reply, NEW request, request.mode \in Modes, ~Faulty(reply, request),
           \A k \in DOMAIN reply.score : reply.score[k] \in Int
    PROVE  Sound(Validated(reply, request), request)
<1>1. reply.mode = request.mode /\ (request.mode = "final" => DOMAIN reply.score = DOMAIN Rubric)
  BY NotFaulty
<1>2. ASSUME NEW i \in DOMAIN reply.items
      PROVE  LET item == Supported(reply.items[i], request)
             IN /\ item.evidence \subseteq request.records
                /\ item.judgement \in Claims /\ item.evidence = {} => item.unsupported
  BY DEF Supported, CheckedEvidence
<1>3. CASE request.mode = "final"
  <2> DEFINE v == ValidFinal(reply, request)
  <2>1. /\ v.mode = "final"
        /\ v.items = [i \in DOMAIN reply.items |-> Supported(reply.items[i], request)]
        /\ v.score = Awarded(reply.score) /\ v.total = SumOf(Awarded(reply.score))
        /\ v.mentions = reply.mentions
    BY DEF ValidFinal, Total
  <2>2. v.leak <=> Leaked(reply.mentions, request) # {} \/ LeakedTerms(reply.words, request) # {}
    BY DEF ValidFinal
  <2>3. Validated(reply, request) = v
    BY <1>3 DEF Validated
  <2> HIDE DEF v
  <2>4. \A i \in DOMAIN v.items : /\ v.items[i].evidence \subseteq request.records
                                  /\ v.items[i].judgement \in Claims /\ v.items[i].evidence = {} => v.items[i].unsupported
    BY <1>2, <2>1
  <2>5. /\ DOMAIN v.score = DOMAIN Rubric
        /\ \A k \in DOMAIN Rubric : v.score[k] \in 0..Rubric[k]
        /\ v.total = SumOf(v.score) /\ v.total \in 0..100
    BY <1>1, <1>3, <2>1, AwardedIsASheet
  <2>6. \A t \in request.expected \ request.tagged :
            t \in v.mentions /\ (\A u \in request.tagged : ParentOf(u) # t) => v.leak
    BY <2>1, <2>2, NamedIsLeaked
  <2>7. QED  BY <1>3, <2>1, <2>3, <2>4, <2>5, <2>6 DEF Sound
<1>4. CASE request.mode = "live"
  <2> DEFINE v == ValidLive(reply, request)
  <2>1. /\ v.mode = "live"
        /\ v.items = [i \in DOMAIN reply.items |-> Supported(reply.items[i], request)]
        /\ v.points = KeptPoints(reply, request) /\ v.comments = reply.comments \cap request.entries
        /\ v.mentions = reply.mentions
    BY DEF ValidLive
  <2>2. v.leak <=> Leaked(reply.mentions, request) # {} \/ LeakedTerms(reply.words, request) # {}
    BY DEF ValidLive
  <2>3. Validated(reply, request) = v
    BY <1>4, Zenon DEF Validated
  <2>4. /\ DOMAIN KeptPoints(reply, request) \subseteq request.entries
        /\ \A e \in DOMAIN KeptPoints(reply, request) : KeptPoints(reply, request)[e] \in 1..100
    BY DEF KeptPoints, Restrict
  <2> HIDE DEF v
  <2>5. \A i \in DOMAIN v.items : /\ v.items[i].evidence \subseteq request.records
                                  /\ v.items[i].judgement \in Claims /\ v.items[i].evidence = {} => v.items[i].unsupported
    BY <1>2, <2>1
  <2>6. \A t \in request.expected \ request.tagged :
            t \in v.mentions /\ (\A u \in request.tagged : ParentOf(u) # t) => v.leak
    BY <2>1, <2>2, NamedIsLeaked
  <2>7. DOMAIN v.points \cup v.comments \subseteq request.entries /\ \A e \in DOMAIN v.points : v.points[e] \in 1..100
    BY <2>1, <2>4
  <2>8. QED  BY <1>4, <2>1, <2>3, <2>5, <2>6, <2>7 DEF Sound
<1>5. QED  BY <1>3, <1>4 DEF Modes

-------------------------------------------------------------------------------
(* Assessments: the theorems                                                *)

LEMMA AskInitially == AskInit => AskIInv
<1> SUFFICES ASSUME AskInit PROVE AskIInv
  OBVIOUS
<1>1. InRows = {} /\ calls = {} /\ posted = {} /\ asked = <<>>
  BY DEF AskInit, InRows
<1>2. AskTypeOK
  BY <1>1, WorkStartsBlank DEF AskInit, AskTypeOK, Never
<1>3. IdsAgree /\ EndedRowsRest /\ PostsHaveTheirRow /\ EarlierHadFailed /\ DecidedOnResults /\ ResultsAnswerARequest
  BY <1>1 DEF IdsAgree, EndedRowsRest, PostsHaveTheirRow, EarlierHadFailed, DecidedOnResults, ResultsAnswerARequest
<1>4. QED  BY <1>2, <1>3 DEF AskIInv

LEMMA AskStep == AskIInv /\ [AskNext]_askVars => AskIInv'
<1> SUFFICES ASSUME AskIInv, [AskNext]_askVars  PROVE AskIInv'
  OBVIOUS
<1> DEFINE Goal == IdsAgree' /\ EndedRowsRest' /\ PostsHaveTheirRow' /\ EarlierHadFailed' /\ DecidedOnResults'
                   /\ ResultsAnswerARequest'
<1>0. AskTypeOK'
  BY AskTypeStep DEF AskIInv
<1>1. ASSUME NEW t \in Teams, \/ BeginSession(t) \/ PauseSession(t) \/ CompleteSession(t)
                              \/ \E w \in Works : Document(t, w)
      PROVE  Goal
  <2>1. UNCHANGED <<rows, calls, asked>> /\ posted' \subseteq posted
    BY <1>1 DEF BeginSession, PauseSession, CompleteSession, Document
  <2>2. QED  BY <2>1, QuietStep
<1>2. ASSUME NEW t \in Teams, DeleteTeam(t)  PROVE Goal
  BY <1>2, TeamLeaves
<1>3. ASSUME NEW t \in Teams, NEW m \in Modes, NEW force \in BOOLEAN, RequestAssessment(t, m, force)  PROVE Goal
  BY <1>3, RequestAccepted
<1>4. ASSUME NEW t \in Teams, NEW i \in RowIds, AddFeedback(t, i)  PROVE Goal
  BY <1>4, FeedbackPosted
<1>5. ASSUME NEW j \in calls, CallFails(j)  PROVE Goal
  <2>1. /\ rows' = Ended(j.row, "failed", NoResult) /\ calls' = calls \ {j}
        /\ UNCHANGED <<standing, work, posted, asked, moment>>
    BY <1>5 DEF CallFails
  <2>2. QED  BY <2>1, JobEnds
<1>6. ASSUME NEW j \in calls, NEW reply \in Replies, Reply(j, reply)  PROVE Goal
  <2>1. UNCHANGED <<standing, work, posted, asked, moment>>
    BY <1>6 DEF Reply
  <2>2. CASE UNCHANGED rows /\ calls' = (calls \ {j}) \cup {[j EXCEPT !.attempt = 2]}
    <3> DEFINE k == [j EXCEPT !.attempt = 2]
    <3>1. k.row = j.row /\ k.for = j.for
      BY DEF AskIInv, AskTypeOK
    <3> HIDE DEF k
    <3>2. InRows' = InRows /\ \A i : Fresh(i)' <=> Fresh(i)
      BY <2>1, <2>2 DEF InRows, Fresh
    <3>3. calls' = (calls \ {j}) \cup {k}
      BY <2>2 DEF k
    <3>4. IdsAgree'
      BY <2>1, <2>2, <3>1, <3>2, <3>3 DEF AskIInv, IdsAgree
    <3>5. EndedRowsRest'
      BY <2>1, <2>2, <3>1, <3>2, <3>3 DEF AskIInv, EndedRowsRest
    <3>6. PostsHaveTheirRow' /\ EarlierHadFailed' /\ DecidedOnResults' /\ ResultsAnswerARequest'
      BY <2>1, <2>2 DEF AskIInv, PostsHaveTheirRow, EarlierHadFailed, DecidedOnResults, ResultsAnswerARequest,
                        InRows, Of, Fresh
    <3>7. QED  BY <3>4, <3>5, <3>6
  <2>3. CASE Faulty(reply, Asked(j)) /\ calls' = calls \ {j} /\ rows' = Ended(j.row, "failed", NoResult)
    BY <2>1, <2>3, JobEnds
  <2>4. CASE /\ ~Faulty(reply, Asked(j)) /\ calls' = calls \ {j}
             /\ rows' = Ended(j.row, "succeeded", Validated(reply, Asked(j)))
    <3>1. asked[j.for] \in Request
      BY DEF AskIInv, AskTypeOK
    <3>2. Asked(j).mode \in Modes
      BY <3>1 DEF Asked, Context, Request
    <3>3. \A k \in DOMAIN reply.score : reply.score[k] \in Int
      BY RepliesScoreInPoints
    <3>4. Sound(Validated(reply, Asked(j)), Asked(j))
      BY <2>4, <3>2, <3>3, ValidatedIsSound
    <3>5. QED  BY <2>1, <2>4, <3>4, JobEnds
  <2>5. QED  BY <1>6, <2>2, <2>3, <2>4 DEF Reply
<1>7. ASSUME NEW i \in RowIds, NEW d \in {"approved", "edited", "rejected"}, NEW n \in Score, NEW o \in BOOLEAN,
             DecideAssessment(i, d, n, o)
      PROVE  Goal
  BY <1>7, Decided
<1>8. ASSUME NEW p \in posted, DeleteFeedback(p)  PROVE Goal
  <2>1. UNCHANGED <<rows, calls, asked>> /\ posted' \subseteq posted
    BY <1>8 DEF DeleteFeedback
  <2>2. QED  BY <2>1, QuietStep
<1>9. ASSUME RestartServer  PROVE Goal
  BY <1>9, RestartRecovered
<1>10. ASSUME UNCHANGED askVars  PROVE Goal
  <2>1. UNCHANGED <<rows, calls, asked>> /\ posted' \subseteq posted
    BY <1>10 DEF askVars
  <2>2. QED  BY <2>1, QuietStep
<1>11. Goal
  <2> HIDE DEF Goal
  <2>1. QED  BY <1>1, <1>2, <1>3, <1>4, <1>5, <1>6, <1>7, <1>8, <1>9, <1>10 DEF AskNext
<1>12. QED  BY <1>0, <1>11 DEF AskIInv

LEMMA AskInvariant == AskSpec => []AskIInv
<1>1. QED  BY AskInitially, AskStep, PTL DEF AskSpec

\* Type correctness of requests, rows, jobs and posted feedback.
THEOREM AskTypeCorrect == AskSpec => []AskTypeOK
<1>1. AskIInv => AskTypeOK
  BY DEF AskIInv
<1>2. QED  BY <1>1, AskInvariant, PTL

\* Whatever the agent answers, at the first or the second attempt, and whichever row has the id of a
\* request by then, a stored result is sound for a request made under its id.
THEOREM ResultsStaySound == AskSpec => []ResultsAnswerARequest
<1>1. AskIInv => ResultsAnswerARequest
  BY DEF AskIInv
<1>2. QED  BY <1>1, AskInvariant, PTL

\* The same work in the same session, its times included, is measured twice only if an instructor
\* insisted: a row an unforced request found neither running nor succeeded had failed, and no job is left
\* that could mend it.
THEOREM WorkIsPaidOnce == AskSpec => []UnchangedWorkIsPaidOnce
<1>1. AskIInv => UnchangedWorkIsPaidOnce
  <2>1. ASSUME EarlierHadFailed, NEW i \in InRows, NEW k \in InRows, rows[i].for < rows[k].for, Fresh(i),
               rows[i].status = "succeeded",
               <<Of(i).team, Of(i).mode, Of(i).snapshot>> = <<Of(k).team, Of(k).mode, Of(k).snapshot>>
        PROVE  Of(k).forced
    <3>1. Of(i).team = Of(k).team /\ Of(i).mode = Of(k).mode /\ Of(i).snapshot = Of(k).snapshot
      BY <2>1
    <3>2. rows[i].status # "failed"
      BY <2>1
    <3>3. QED  BY <2>1, <3>1, <3>2 DEF EarlierHadFailed
  <2>2. QED  BY <2>1 DEF AskIInv, UnchangedWorkIsPaidOnce
<1>2. QED  BY <1>1, AskInvariant, PTL

\* A decision and posted feedback keep the result they were made from.
THEOREM DecisionsKeepTheirResult == AskSpec => []DecisionsRestOnResults
<1>1. AskIInv => DecisionsRestOnResults
  <2>1. ASSUME AskIInv, NEW i \in InRows, Fresh(i)  PROVE RestsOnItsResult(i)
    <3>1. /\ rows[i].decision # "none" => rows[i].status = "succeeded" /\ rows[i].result # NoResult
          /\ rows[i].decision = "approved" => rows[i].score = rows[i].result.total
      BY <2>1 DEF AskIInv, DecidedOnResults
    <3>2. Of(i).mode = "final" /\ rows[i].decision \in {"approved", "edited"} => i \in Approved(Of(i).team)
      BY <2>1, <3>1 DEF Approved
    <3>3. \A p \in posted : p[2] = i => rows[i].status = "succeeded" /\ Of(i).team = p[1]
      BY <2>1 DEF AskIInv, DecidedOnResults, PostsHaveTheirRow
    <3>4. QED  BY <3>1, <3>2, <3>3 DEF RestsOnItsResult
  <2>2. QED  BY <2>1 DEF DecisionsRestOnResults
<1>2. QED  BY <1>1, AskInvariant, PTL
=====================================================================================
