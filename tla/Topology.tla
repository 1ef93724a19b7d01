--------------------------------- MODULE Topology ---------------------------------
(***************************************************************************)
(* The lab topology and where it comes from: cloud environments, the       *)
(* discovery runs that write their machines into the topologies of the     *)
(* scenarios they back (services/discovery), the instructor's edits, the   *)
(* snapshot published to students (services/topologyPublication), and the  *)
(* deletion of an environment with everything recorded against it          *)
(* (services/environments).                                                *)
(*                                                                         *)
(* Only a discovery awaits anything. Its run row is in the database, the   *)
(* promise that will finish it is in memory, and every other handler may   *)
(* run before it resumes.                                                  *)
(***************************************************************************)
EXTENDS Integers, FiniteSets

CONSTANTS
    Ranges,                     \* cyber_ranges (scenarios)
    Machines,                   \* ARM resource ids a discovery may report
    Manual,                     \* external_key of a node the instructor drew
    MaxEnv, MaxNode, MaxRun     \* bounds on rowids in use at one time

EnvIds  == 1..MaxEnv
NodeIds == 1..MaxNode
RunIds  == 1..MaxRun
None    == 0                    \* a NULL environment_id or discovery_run_id

ASSUME BoundsAreNatural == MaxEnv \in Nat /\ MaxNode \in Nat /\ MaxRun \in Nat
ASSUME ManualIsNoMachine == Manual \notin Machines

VARIABLES
    envs,       \* rows of cloud_environments
    linked,     \* cyber_range_environments: <<range, environment>>
    nodes,      \* topology_nodes
    runs,       \* environment_discovery_runs
    searching,  \* per run: the environment its pending discovery reads, or None
    pinned,     \* nodes an access target or an instructor's edge refers to
    used,       \* nodes with access-session or script-execution history
    busy,       \* ... of which a session is active or a script is running
    published,  \* per range: the nodes of its snapshot, as <<id, external key>>
    dangling,   \* history: <<range, id>> whose node was deleted one by one
    lost        \* history: runs whose discovery died with the process or never began

vars == <<envs, linked, nodes, runs, searching, pinned, used, busy, published, dangling, lost>>

record == <<pinned, used, busy>>
shown  == <<published, dangling>>

NoNode == [range |-> "none"]
NoRun  == [env |-> None, status |-> "none"]
Node   == [range : Ranges, key : Machines \cup {Manual}, env : EnvIds \cup {None},
           run : RunIds \cup {None}, visible : BOOLEAN]
Run    == [env : EnvIds, status : {"running", "succeeded", "partial_failure", "failed"}]

TypeOK ==
    /\ envs \in SUBSET EnvIds
    /\ linked \in SUBSET (Ranges \X envs)
    /\ nodes \in [NodeIds -> Node \cup {NoNode}]
    /\ runs \in [RunIds -> Run \cup {NoRun}]
    /\ searching \in [RunIds -> EnvIds \cup {None}]
    /\ used \in SUBSET NodeIds
    /\ busy \in SUBSET used
    /\ pinned \in SUBSET NodeIds
    /\ published \in [Ranges -> SUBSET (NodeIds \X (Machines \cup {Manual}))]
    /\ dangling \in SUBSET (Ranges \X NodeIds)
    /\ lost \in SUBSET RunIds

-------------------------------------------------------------------------------
(* Rows                                                                     *)

NodeRows == {n \in NodeIds : nodes[n] # NoNode}
RunRows  == {d \in RunIds : runs[d] # NoRun}
RunsOf(e) == {d \in RunRows : runs[d].env = e}
RangesOf(e) == {r \in Ranges : <<r, e>> \in linked}

\* INTEGER PRIMARY KEY without AUTOINCREMENT: the largest rowid in use plus one
IsNextRow(id, rows) == (\A x \in rows : x < id) /\ (id = 1 \/ id - 1 \in rows)

Published(S) == {p \in Ranges \X S : \E k \in Machines \cup {Manual} : <<p[2], k>> \in published[p[1]]}

-------------------------------------------------------------------------------
(* Environments and what they back                                          *)

\* POST /environments: the environment, linked to the range it is registered with
RegisterEnvironment(e, r) ==
    /\ IsNextRow(e, envs)
    /\ envs' = envs \cup {e}
    /\ linked' = linked \cup {<<r, e>>}
    /\ UNCHANGED <<nodes, runs, searching, record, shown, lost>>

LinkEnvironment(r, e) ==
    /\ e \in envs /\ <<r, e>> \notin linked
    /\ linked' = linked \cup {<<r, e>>}
    /\ UNCHANGED <<envs, nodes, runs, searching, record, shown, lost>>

\* the nodes already discovered into the range stay
UnlinkEnvironment(r, e) ==
    /\ <<r, e>> \in linked
    /\ linked' = linked \ {<<r, e>>}
    /\ UNCHANGED <<envs, nodes, runs, searching, record, shown, lost>>

\* Mutant: every node of a range the environment backs.
Footprint_ByRange(e) == {n \in NodeRows : nodes[n].range \in RangesOf(e)}

\* environmentFootprint: the nodes last written by the environment or by one of its runs
Footprint(e) == {n \in NodeRows : nodes[n].env = e \/ nodes[n].run \in RunsOf(e)}

\* Mutant: a script running on one of its hosts does not block its deletion.
Blocked_ByDiscoveriesOnly(e) == \E d \in RunsOf(e) : runs[d].status = "running"

Blocked(e) ==
    \/ Footprint(e) \cap busy # {}
    \/ \E d \in RunsOf(e) : runs[d].status = "running"

\* Mutant: only ranges still linked have their snapshots stripped.
TouchedRanges_LinkedOnly(e) == RangesOf(e)

\* the ranges whose snapshots are stripped
TouchedRanges(e) == RangesOf(e) \cup {nodes[n].range : n \in {m \in NodeRows : nodes[m].env = e}}

DeleteEnvironment(e) ==
    LET gone == Footprint(e) IN
    /\ e \in envs
    /\ ~Blocked(e)
    /\ envs' = envs \ {e}
    /\ linked' = {l \in linked : l[2] # e}
    /\ nodes' = [n \in NodeIds |-> IF n \in gone THEN NoNode ELSE nodes[n]]
    /\ runs' = [d \in RunIds |-> IF d \in RunsOf(e) THEN NoRun ELSE runs[d]]
    /\ used' = used \ gone
    /\ busy' = busy \ gone
    /\ pinned' = pinned \ gone
    /\ published' = [r \in Ranges |-> IF r \in TouchedRanges(e)
                                       THEN {p \in published[r] : p[1] \notin gone}
                                       ELSE published[r]]
    /\ dangling' = {p \in dangling : p[1] \notin TouchedRanges(e) \/ p[2] \notin gone}
    /\ lost' = lost \ RunsOf(e)
    /\ UNCHANGED searching

-------------------------------------------------------------------------------
(* Discovery                                                                *)

\* the partial unique index admits one queued or running run per environment
NewRun(d, e) ==
    /\ e \in envs
    /\ \A c \in RunsOf(e) : runs[c].status # "running"
    /\ IsNextRow(d, RunRows)
    /\ runs' = [runs EXCEPT ![d] = [env |-> e, status |-> "running"]]

TriggerDiscovery(d, e) ==
    /\ NewRun(d, e)
    /\ searching' = [searching EXCEPT ![d] = e]
    /\ UNCHANGED <<envs, linked, nodes, record, shown, lost>>

\* the credential cannot be decrypted: that throws where no catch finishes the run
DiscoveryNeverBegins(d, e) ==
    /\ NewRun(d, e)
    /\ lost' = lost \cup {d}
    /\ UNCHANGED <<envs, linked, nodes, searching, record, shown>>

\* finishRun: UPDATE ... WHERE id = d
FinishRun(d, status) ==
    /\ runs' = [runs EXCEPT ![d] = IF @ = NoRun THEN NoRun ELSE [@ EXCEPT !.status = status]]
    /\ searching' = [searching EXCEPT ![d] = None]

DiscoveryFails(d) ==
    /\ searching[d] # None
    /\ FinishRun(d, "failed")
    /\ UNCHANGED <<envs, linked, nodes, record, shown, lost>>

\* the (range, machine) pairs a discovery of found inserts, and the rows its prune deletes
Missing(e, found) == {p \in RangesOf(e) \X found :
    \A n \in NodeRows : ~(nodes[n].range = p[1] /\ nodes[n].key = p[2])}
Stale(e, found) == {n \in NodeRows :
    nodes[n].range \in RangesOf(e) /\ nodes[n].env = e /\ nodes[n].key \notin found}

\* New rows take the ids above the rows in use. A range is pruned before the next one is
\* written, so the ids pruned in one range may be taken in another.
NextIds(f, gone) ==
    /\ \A p, q \in DOMAIN f : p # q => f[p] # f[q]
    /\ \A p \in DOMAIN f :
         /\ \A n \in NodeRows : n < f[p] \/ (n \in gone /\ nodes[n].range # p[1])
         /\ f[p] = 1 \/ f[p] - 1 \in NodeRows \/ \E q \in DOMAIN f : f[q] = f[p] - 1

\* Mutant: ON CONFLICT DO UPDATE leaves environment_id to the first discoverer.
Upserted_KeepsOwner(e, d, found, gone, f, seen) == [n \in NodeIds |->
    IF \E p \in DOMAIN f : f[p] = n
    THEN LET p == CHOOSE p \in DOMAIN f : f[p] = n
         IN  [range |-> p[1], key |-> p[2], env |-> e, run |-> d, visible |-> p[2] \in seen]
    ELSE IF n \in gone \/ nodes[n] = NoNode THEN NoNode
    ELSE IF nodes[n].range \in RangesOf(e) /\ nodes[n].key \in found
         THEN [nodes[n] EXCEPT !.run = d] ELSE nodes[n]]

\* upsertForCyberRange and pruneStale over every linked range; what the instructor may
\* have edited on an existing row is left alone. seen: the machines whose type students
\* see unless the instructor says otherwise
Upserted(e, d, found, gone, f, seen) == [n \in NodeIds |->
    IF \E p \in DOMAIN f : f[p] = n
    THEN LET p == CHOOSE p \in DOMAIN f : f[p] = n
         IN  [range |-> p[1], key |-> p[2], env |-> e, run |-> d, visible |-> p[2] \in seen]
    ELSE IF n \in gone \/ nodes[n] = NoNode THEN NoNode
    ELSE IF nodes[n].range \in RangesOf(e) /\ nodes[n].key \in found
         THEN [nodes[n] EXCEPT !.env = e, !.run = d] ELSE nodes[n]]

\* clean: the provider had no warnings, so what it did not report is pruned
DiscoveryWrites(d, found, clean) ==
    LET e    == searching[d]
        gone == IF clean THEN Stale(e, found) ELSE {}
    IN
    /\ e # None
    /\ gone \cap (pinned \cup used) = {}
    /\ \E f \in [Missing(e, found) -> NodeIds], seen \in SUBSET found :
         /\ NextIds(f, gone)
         /\ nodes' = Upserted(e, d, found, gone, f, seen)
    /\ FinishRun(d, IF clean /\ RangesOf(e) # {} THEN "succeeded" ELSE "partial_failure")
    /\ dangling' = dangling \cup Published(gone)
    /\ UNCHANGED <<envs, linked, record, published, lost>>

\* a foreign key refuses to let a stale node go: the whole run is rolled back
DiscoveryRolledBack(d, found) ==
    /\ searching[d] # None
    /\ Stale(searching[d], found) \cap (pinned \cup used) # {}
    /\ FinishRun(d, "failed")
    /\ UNCHANGED <<envs, linked, nodes, record, shown, lost>>

\* the process dies: nothing at start-up looks at the run rows again
Crash ==
    /\ searching' = [d \in RunIds |-> None]
    /\ lost' = lost \cup {d \in RunIds : searching[d] # None}
    /\ UNCHANGED <<envs, linked, nodes, runs, record, shown>>

-------------------------------------------------------------------------------
(* The instructor's edits, and what is recorded against a node              *)

AddNode(n, r) ==
    /\ IsNextRow(n, NodeRows)
    /\ nodes' = [nodes EXCEPT ![n] = [range |-> r, key |-> Manual, env |-> None, run |-> None,
                                       visible |-> TRUE]]
    /\ UNCHANGED <<envs, linked, runs, searching, record, shown, lost>>

ShowOrHide(n) ==
    /\ n \in NodeRows
    /\ nodes' = [nodes EXCEPT ![n].visible = ~@]
    /\ UNCHANGED <<envs, linked, runs, searching, record, shown, lost>>

\* refused for a node with history; takes its edges and access target along
DeleteNode(n) ==
    /\ n \in NodeRows \ used
    /\ nodes' = [nodes EXCEPT ![n] = NoNode]
    /\ pinned' = pinned \ {n}
    /\ dangling' = dangling \cup Published({n})
    /\ UNCHANGED <<envs, linked, runs, searching, used, busy, published, lost>>

Publish(r) ==
    /\ published' = [published EXCEPT ![r] = {<<n, nodes[n].key>> :
                        n \in {m \in NodeRows : nodes[m].range = r /\ nodes[m].visible}}]
    /\ dangling' = {p \in dangling : p[1] # r}
    /\ UNCHANGED <<envs, linked, nodes, runs, searching, record, lost>>

\* an access target is configured or an edge drawn; or removed
Pin(n) ==
    /\ n \in NodeRows
    /\ pinned' = (pinned \ {n}) \cup ({n} \ pinned)
    /\ UNCHANGED <<envs, linked, nodes, runs, searching, used, busy, shown, lost>>

\* a session or a script starts on a discovered machine ...
Occupy(n) ==
    /\ n \in NodeRows /\ nodes[n].env # None
    /\ n \notin busy
    /\ used' = used \cup {n}
    /\ busy' = busy \cup {n}
    /\ UNCHANGED <<envs, linked, nodes, runs, searching, pinned, shown, lost>>

\* ... and ends
Vacate(n) ==
    /\ n \in busy
    /\ busy' = busy \ {n}
    /\ UNCHANGED <<envs, linked, nodes, runs, searching, pinned, used, shown, lost>>

\* event reset: the histories are RUN data, the topology is CONFIG
ResetEvent ==
    /\ used # {}
    /\ used' = {}
    /\ busy' = {}
    /\ UNCHANGED <<envs, linked, nodes, runs, searching, pinned, shown, lost>>

-------------------------------------------------------------------------------

Init ==
    /\ envs = {}
    /\ linked = {}
    /\ nodes = [n \in NodeIds |-> NoNode]
    /\ runs = [d \in RunIds |-> NoRun]
    /\ searching = [d \in RunIds |-> None]
    /\ pinned = {}
    /\ used = {}
    /\ busy = {}
    /\ published = [r \in Ranges |-> {}]
    /\ dangling = {}
    /\ lost = {}

Environments ==
    \/ \E e \in EnvIds, r \in Ranges :
         RegisterEnvironment(e, r) \/ LinkEnvironment(r, e) \/ UnlinkEnvironment(r, e)
    \/ \E e \in EnvIds : DeleteEnvironment(e)

DiscoverySettles(d) ==
    \/ DiscoveryFails(d)
    \/ \E found \in SUBSET Machines :
         DiscoveryRolledBack(d, found) \/ \E clean \in BOOLEAN : DiscoveryWrites(d, found, clean)

Discovering ==
    \/ \E d \in RunIds, e \in EnvIds : TriggerDiscovery(d, e) \/ DiscoveryNeverBegins(d, e)
    \/ \E d \in RunIds : DiscoverySettles(d)

Editing ==
    \/ \E n \in NodeIds, r \in Ranges : AddNode(n, r)
    \/ \E n \in NodeIds : ShowOrHide(n) \/ DeleteNode(n) \/ Pin(n)
    \/ \E r \in Ranges : Publish(r)

Using == ResetEvent \/ \E n \in NodeIds : Occupy(n) \/ Vacate(n)

Next == Environments \/ Discovering \/ Editing \/ Using \/ Crash

Spec == Init /\ [][Next]_vars

-------------------------------------------------------------------------------
(* Properties                                                               *)

\* A node's owner and the run that last wrote it agree, whichever of several
\* environments discovered the same machine last.
OwnershipAgrees == \A n \in NodeRows :
    IF nodes[n].env = None THEN nodes[n].run = None
    ELSE nodes[n].env \in envs /\ nodes[n].run \in RunsOf(nodes[n].env)

\* deleteEnvironment "never touches another environment's rows": the nodes that go are
\* exactly those the environment was the last to discover.
DeletionIsLocal == [][\A e \in envs \ envs' : \A n \in NodeRows :
    nodes'[n] = NoNode <=> nodes[n].env = e]_vars

\* A discovery in flight always finds its own run row, still running and still of the
\* environment it reads, so its late result is never written over another run's or for
\* an environment that is gone, whatever is deleted and re-registered meanwhile.
DiscoveriesHaveRows == \A d \in RunIds : searching[d] # None =>
    searching[d] \in envs /\ runs[d] = [env |-> searching[d], status |-> "running"]

\* A run that shows as running is being worked on, died with the process or could not
\* read its credential: no other path leaves one behind. One left behind blocks its
\* environment's discovery and deletion for good.
RunningIsSearched == \A d \in RunRows :
    runs[d].status = "running" => searching[d] = runs[d].env \/ d \in lost

\* Discoveries at work and rows that say so match one another, in both directions.
RunsAreDiscoveries == DiscoveriesHaveRows /\ RunningIsSearched

\* What discovery writes agrees, however many environments report the same machines while
\* others are deleted and their ids given again: nodes, owners, runs and what is in flight.
DiscoveriesAgree == OwnershipAgrees /\ RunsAreDiscoveries

\* A published snapshot shows no host of a deleted environment: what it shows exists, or
\* was deleted one by one (by the instructor or a prune) since.
SnapshotsFollowDeletion == \A r \in Ranges : \A p \in published[r] :
    \/ nodes[p[1]] # NoNode /\ nodes[p[1]].range = r /\ nodes[p[1]].key = p[2]
    \/ <<r, p[1]>> \in dangling

===============================================================================
