----------------------------- MODULE MachineOpsProofs -----------------------------
(***************************************************************************)
(* Safety theorems about Topology, for every number of scenarios, machines,*)
(* environments, nodes and discovery runs; that MachineOps, for every      *)
(* number of scripts and power operations, refines it and so inherits      *)
(* them; and the safety theorems about scripts and power.                  *)
(***************************************************************************)
EXTENDS MachineOps, TLAPS

USE DEF record, shown, scripts, power

\* Ownership needs a discovery to still find its run, and the snapshots need ownership:
\* a deletion strips the ranges of the nodes it owns, and takes every node it last wrote.
IInv == TypeOK /\ OwnershipAgrees /\ DiscoveriesHaveRows /\ SnapshotsFollowDeletion

-------------------------------------------------------------------------------
(* Rows                                                                     *)

LEMMA NodesAreRows == \A x \in Node : x # NoNode
BY DEF Node, NoNode

LEMMA RunsAreRows == \A x \in Run : x # NoRun
BY DEF Run, NoRun

LEMMA RowsOfNodes ==
    ASSUME TypeOK, NEW n \in NodeRows
    PROVE  n \in NodeIds /\ nodes[n] \in Node
BY DEF TypeOK, NodeRows

LEMMA RowsOfRuns ==
    ASSUME TypeOK, NEW d \in RunRows
    PROVE  d \in RunIds /\ runs[d] \in Run
BY DEF TypeOK, RunRows

LEMMA NextRowIsFree ==
    ASSUME NEW id \in Int, NEW rows, IsNextRow(id, rows)
    PROVE  id \notin rows
BY DEF IsNextRow

LEMMA FinishRunType ==
    ASSUME TypeOK, NEW d \in RunIds, FinishRun(d, "succeeded") \/ FinishRun(d, "failed")
                                     \/ FinishRun(d, "partial_failure")
    PROVE  /\ runs' \in [RunIds -> Run \cup {NoRun}]
           /\ searching' = [searching EXCEPT ![d] = None]
           /\ searching' \in [RunIds -> EnvIds \cup {None}]
           /\ \A c \in RunIds : c # d => runs'[c] = runs[c]
           /\ \A c \in RunRows : c \in RunRows' /\ runs'[c].env = runs[c].env
<1>1. PICK s \in {"succeeded", "failed", "partial_failure"} : FinishRun(d, s)  OBVIOUS
<1>2. runs' = [runs EXCEPT ![d] = IF runs[d] = NoRun THEN NoRun ELSE [runs[d] EXCEPT !.status = s]]
      /\ searching' = [searching EXCEPT ![d] = None]
  BY <1>1 DEF FinishRun
<1>3. ASSUME runs[d] # NoRun
      PROVE  [runs[d] EXCEPT !.status = s] \in Run /\ [runs[d] EXCEPT !.status = s].env = runs[d].env
  BY <1>3 DEF TypeOK, Run
<1>4. \A c \in RunRows : runs'[c] # NoRun /\ runs'[c].env = runs[c].env
  BY <1>2, <1>3, RunsAreRows DEF TypeOK, RunRows
<1>5. QED  BY <1>2, <1>3, <1>4 DEF TypeOK, RunRows

LEMMA WritesFinish ==
    ASSUME NEW d \in RunIds, NEW found, NEW clean \in BOOLEAN, DiscoveryWrites(d, found, clean)
    PROVE  FinishRun(d, "succeeded") \/ FinishRun(d, "failed") \/ FinishRun(d, "partial_failure")
BY DEF DiscoveryWrites

\* What the upsert leaves in a row: a node new under its id, the old one, possibly with
\* a new owner, or nothing.
LEMMA UpsertedRows ==
    ASSUME TypeOK, NEW e \in EnvIds, NEW d \in RunIds, NEW found \in SUBSET Machines, NEW gone,
           NEW f \in [Missing(e, found) -> NodeIds], NEW seen,
           nodes' = Upserted(e, d, found, gone, f, seen), NEW n \in NodeIds
    PROVE  \/ /\ \E p \in DOMAIN f : f[p] = n
              /\ nodes'[n] \in Node /\ nodes'[n].env = e /\ nodes'[n].run = d
           \/ /\ ~\E p \in DOMAIN f : f[p] = n
              /\ n \in NodeRows /\ n \notin gone
              /\ nodes'[n] \in Node
              /\ nodes'[n].range = nodes[n].range /\ nodes'[n].key = nodes[n].key
              /\ \/ nodes'[n].env = e /\ nodes'[n].run = d
                 \/ nodes'[n].env = nodes[n].env /\ nodes'[n].run = nodes[n].run
           \/ /\ ~\E p \in DOMAIN f : f[p] = n
              /\ n \in gone \/ n \notin NodeRows
              /\ nodes'[n] = NoNode
<1> DEFINE to == nodes'[n]
<1>0. to = Upserted(e, d, found, gone, f, seen)[n]
  OBVIOUS
<1> HIDE DEF to
<1>1. CASE \E p \in DOMAIN f : f[p] = n
  <2> DEFINE q == CHOOSE p \in DOMAIN f : f[p] = n
  <2>1. q \in Missing(e, found)
    BY <1>1
  <2>2. q[1] \in Ranges /\ q[2] \in Machines
    BY <2>1 DEF Missing, RangesOf
  <2>3. to = [range |-> q[1], key |-> q[2], env |-> e, run |-> d, visible |-> q[2] \in seen]
    BY <1>0, <1>1 DEF Upserted
  <2> HIDE DEF q
  <2>4. QED  BY <1>1, <2>2, <2>3 DEF Node, to
<1>2. CASE ~\E p \in DOMAIN f : f[p] = n
  <2>1. CASE n \in gone \/ nodes[n] = NoNode
    BY <1>0, <1>2, <2>1 DEF Upserted, NodeRows, to
  <2>2. CASE n \notin gone /\ nodes[n] # NoNode
    <3>1. nodes[n] \in Node
      BY <2>2 DEF TypeOK
    <3>2. to = nodes[n] \/ to = [nodes[n] EXCEPT !.env = e, !.run = d]
      BY <1>0, <1>2, <2>2 DEF Upserted
    <3>3. QED  BY <1>2, <2>2, <3>1, <3>2 DEF Node, NodeRows, to
  <2>3. QED  BY <2>1, <2>2
<1>3. QED  BY <1>1, <1>2 DEF to

-------------------------------------------------------------------------------
(* Type correctness                                                         *)

LEMMA InitType == Init => TypeOK
BY DEF Init, TypeOK, NodeIds, RunIds, EnvIds, None

LEMMA WritesType ==
    ASSUME TypeOK, NEW d \in RunIds, NEW found \in SUBSET Machines, NEW clean \in BOOLEAN,
           DiscoveryWrites(d, found, clean)
    PROVE  TypeOK'
<1> DEFINE e == searching[d]
           gone == IF clean THEN Stale(e, found) ELSE {}
<1>1. PICK f \in [Missing(e, found) -> NodeIds], seen \in SUBSET found :
        nodes' = Upserted(e, d, found, gone, f, seen)
  BY DEF DiscoveryWrites
<1>2. e \in EnvIds
  BY DEF DiscoveryWrites, TypeOK
<1>3. gone \subseteq NodeIds
  BY DEF Stale, NodeRows
<1> HIDE DEF e, gone
<1>4. \A n \in NodeIds : nodes'[n] \in Node \cup {NoNode}
  BY <1>1, <1>2, UpsertedRows
<1>5. nodes' \in [NodeIds -> Node \cup {NoNode}]
  BY <1>1, <1>4 DEF Upserted
<1>6. dangling' \in SUBSET (Ranges \X NodeIds)
  BY <1>3 DEF DiscoveryWrites, Published, TypeOK, e, gone
<1>7. QED  BY <1>5, <1>6, WritesFinish, FinishRunType DEF DiscoveryWrites, TypeOK

LEMMA DeleteEnvironmentType ==
    ASSUME TypeOK, NEW e \in EnvIds, DeleteEnvironment(e)
    PROVE  TypeOK'
<1>1. envs' \in SUBSET EnvIds /\ linked' \in SUBSET (Ranges \X envs')
  BY DEF DeleteEnvironment, TypeOK
<1>2. nodes' \in [NodeIds -> Node \cup {NoNode}] /\ runs' \in [RunIds -> Run \cup {NoRun}]
  BY DEF DeleteEnvironment, TypeOK
<1>3. published' \in [Ranges -> SUBSET (NodeIds \X (Machines \cup {Manual}))]
  BY DEF DeleteEnvironment, TypeOK
<1>4. used' \in SUBSET NodeIds /\ busy' \in SUBSET used' /\ pinned' \in SUBSET NodeIds
      /\ dangling' \in SUBSET (Ranges \X NodeIds) /\ lost' \in SUBSET RunIds
      /\ searching' = searching
  BY DEF DeleteEnvironment, TypeOK
<1>5. QED  BY <1>1, <1>2, <1>3, <1>4 DEF TypeOK

LEMMA TypeStep == TypeOK /\ [Next]_vars => TypeOK'
<1> SUFFICES ASSUME TypeOK, [Next]_vars PROVE TypeOK'  OBVIOUS
<1>1. ASSUME Environments PROVE TypeOK'
  <2>1. ASSUME NEW e \in EnvIds, NEW r \in Ranges, RegisterEnvironment(e, r) PROVE TypeOK'
    BY <2>1 DEF RegisterEnvironment, TypeOK
  <2>2. ASSUME NEW e \in EnvIds, NEW r \in Ranges, LinkEnvironment(r, e) PROVE TypeOK'
    BY <2>2 DEF LinkEnvironment, TypeOK
  <2>3. ASSUME NEW e \in EnvIds, NEW r \in Ranges, UnlinkEnvironment(r, e) PROVE TypeOK'
    BY <2>3 DEF UnlinkEnvironment, TypeOK
  <2>4. QED  BY <1>1, <2>1, <2>2, <2>3, DeleteEnvironmentType DEF Environments
<1>2. ASSUME Discovering PROVE TypeOK'
  <2>1. ASSUME NEW d \in RunIds, NEW e \in EnvIds,
               TriggerDiscovery(d, e) \/ DiscoveryNeverBegins(d, e)
        PROVE  TypeOK'
    BY <2>1 DEF TriggerDiscovery, DiscoveryNeverBegins, NewRun, TypeOK, Run
  <2>2. ASSUME NEW d \in RunIds, DiscoveryFails(d) PROVE TypeOK'
    BY <2>2, FinishRunType DEF DiscoveryFails, TypeOK
  <2>3. ASSUME NEW d \in RunIds, NEW found \in SUBSET Machines, DiscoveryRolledBack(d, found)
        PROVE  TypeOK'
    BY <2>3, FinishRunType DEF DiscoveryRolledBack, TypeOK
  <2>4. QED  BY <1>2, <2>1, <2>2, <2>3, WritesType DEF Discovering, DiscoverySettles
<1>3. ASSUME Editing PROVE TypeOK'
  <2>1. ASSUME NEW n \in NodeIds, NEW r \in Ranges, AddNode(n, r) PROVE TypeOK'
    BY <2>1 DEF AddNode, TypeOK, Node
  <2>2. ASSUME NEW n \in NodeIds, ShowOrHide(n) PROVE TypeOK'
    <3>1. nodes[n] \in Node
      BY <2>2, RowsOfNodes DEF ShowOrHide
    <3>2. [nodes[n] EXCEPT !.visible = ~@] \in Node
      BY <3>1 DEF Node
    <3>3. QED  BY <2>2, <3>2 DEF ShowOrHide, TypeOK
  <2>3. ASSUME NEW n \in NodeIds, DeleteNode(n) PROVE TypeOK'
    <3>1. Published({n}) \subseteq Ranges \X NodeIds
      BY <2>3 DEF Published
    <3>2. QED  BY <2>3, <3>1 DEF DeleteNode, TypeOK
  <2>4. ASSUME NEW n \in NodeIds, Pin(n) PROVE TypeOK'
    BY <2>4 DEF Pin, TypeOK
  <2>5. ASSUME NEW r \in Ranges, Publish(r) PROVE TypeOK'
    <3>1. \A n \in NodeRows : n \in NodeIds /\ nodes[n].key \in Machines \cup {Manual}
      BY RowsOfNodes DEF Node
    <3>2. QED  BY <2>5, <3>1 DEF Publish, TypeOK
  <2>6. QED  BY <1>3, <2>1, <2>2, <2>3, <2>4, <2>5 DEF Editing
<1>4. ASSUME Using PROVE TypeOK'
  BY <1>4 DEF Using, ResetEvent, Occupy, Vacate, TypeOK
<1>5. CASE Crash
  BY <1>5 DEF Crash, TypeOK
<1>6. CASE UNCHANGED vars
  BY <1>6 DEF vars, TypeOK
<1>7. QED  BY <1>1, <1>2, <1>3, <1>4, <1>5, <1>6 DEF Next

\* Every variable keeps its type.
THEOREM TypeCorrect == Spec => []TypeOK
BY InitType, TypeStep, PTL DEF Spec

-------------------------------------------------------------------------------
(* Ownership                                                                *)

LEMMA NoneIsNoRow == None \notin EnvIds /\ None \notin RunIds
BY BoundsAreNatural DEF None, EnvIds, RunIds

\* What an environment last wrote is what it owns.
LEMMA FootprintIsOwned ==
    ASSUME TypeOK, OwnershipAgrees, NEW e \in EnvIds, NEW n \in NodeRows
    PROVE  n \in Footprint(e) <=> nodes[n].env = e
<1>1. ASSUME nodes[n].run \in RunsOf(e) PROVE nodes[n].env = e
  <2>1. nodes[n].run # None
    BY <1>1, NoneIsNoRow DEF RunsOf, RunRows
  <2>2. nodes[n].run \in RunsOf(nodes[n].env)
    BY <2>1 DEF OwnershipAgrees
  <2>3. QED  BY <1>1, <2>2 DEF RunsOf
<1>2. QED  BY <1>1 DEF Footprint

\* An environment that can be deleted has no discovery in flight.
LEMMA NoDiscoveryInFlight ==
    ASSUME TypeOK, DiscoveriesHaveRows, NEW e \in EnvIds, ~Blocked(e), NEW d \in RunIds
    PROVE  searching[d] # e
<1> SUFFICES ASSUME searching[d] = e PROVE FALSE  OBVIOUS
<1>1. searching[d] # None
  BY NoneIsNoRow
<1>2. runs[d] = [env |-> e, status |-> "running"]
  BY <1>1 DEF DiscoveriesHaveRows
<1>3. runs[d] # NoRun /\ runs[d].env = e /\ runs[d].status = "running"
  BY <1>2 DEF NoRun
<1>4. QED  BY <1>3 DEF Blocked, RunsOf, RunRows

LEMMA OwnershipAfterDeletion ==
    ASSUME IInv, NEW e \in EnvIds, DeleteEnvironment(e)
    PROVE  OwnershipAgrees'
<1> SUFFICES ASSUME NEW n \in NodeRows'
             PROVE  IF nodes'[n].env = None THEN nodes'[n].run = None
                    ELSE /\ nodes'[n].env \in envs'
                         /\ nodes'[n].run \in RunRows'
                         /\ runs'[nodes'[n].run].env = nodes'[n].env
  BY DEF OwnershipAgrees, RunsOf
<1>1. n \in NodeRows /\ n \notin Footprint(e) /\ nodes'[n] = nodes[n]
  BY DEF DeleteEnvironment, NodeRows
<1>2. nodes[n].env # e
  BY <1>1, FootprintIsOwned DEF IInv
<1>3. CASE nodes[n].env = None
  BY <1>1, <1>3 DEF IInv, OwnershipAgrees
<1>4. CASE nodes[n].env # None
  <2> DEFINE o == nodes[n].env
             d == nodes[n].run
  <2>1. o \in envs /\ d \in RunIds /\ runs[d] # NoRun /\ runs[d].env = o
    BY <1>1, <1>4 DEF IInv, OwnershipAgrees, RunsOf, RunRows
  <2>2. o \in envs' /\ d \notin RunsOf(e)
    BY <1>2, <2>1 DEF DeleteEnvironment, RunsOf
  <2>3. runs'[d] = runs[d]
    BY <2>1, <2>2 DEF DeleteEnvironment
  <2>4. QED  BY <1>1, <1>4, <2>1, <2>2, <2>3 DEF RunsOf, RunRows
<1>5. QED  BY <1>3, <1>4

LEMMA OwnershipAfterWrites ==
    ASSUME IInv, NEW d \in RunIds, NEW found \in SUBSET Machines, NEW clean \in BOOLEAN,
           DiscoveryWrites(d, found, clean)
    PROVE  OwnershipAgrees'
<1> DEFINE e == searching[d]
           gone == IF clean THEN Stale(e, found) ELSE {}
<1>1. PICK f \in [Missing(e, found) -> NodeIds], seen \in SUBSET found :
        nodes' = Upserted(e, d, found, gone, f, seen)
  BY DEF DiscoveryWrites
<1>2. e # None /\ envs' = envs
  BY DEF DiscoveryWrites
<1>3. \A c \in RunRows : c \in RunRows' /\ runs'[c].env = runs[c].env
  BY WritesFinish, FinishRunType DEF IInv
<1>4. e \in envs /\ runs[d] = [env |-> e, status |-> "running"]
  BY <1>2 DEF IInv, DiscoveriesHaveRows
<1>5. d \in RunRows' /\ runs'[d].env = e
  BY <1>3, <1>4 DEF RunRows, NoRun
<1> HIDE DEF e, gone
<1> SUFFICES ASSUME NEW n \in NodeRows'
             PROVE  IF nodes'[n].env = None THEN nodes'[n].run = None
                    ELSE /\ nodes'[n].env \in envs'
                         /\ nodes'[n].run \in RunRows'
                         /\ runs'[nodes'[n].run].env = nodes'[n].env
  BY DEF OwnershipAgrees, RunsOf
<1>6. n \in NodeIds /\ nodes'[n] # NoNode
  BY DEF NodeRows
<1>7. \/ nodes'[n].env = e /\ nodes'[n].run = d
      \/ n \in NodeRows /\ nodes'[n].env = nodes[n].env /\ nodes'[n].run = nodes[n].run
  <2>1. e \in EnvIds /\ TypeOK
    BY <1>4 DEF IInv, TypeOK
  <2>2. \/ /\ \E p \in DOMAIN f : f[p] = n
           /\ nodes'[n].env = e /\ nodes'[n].run = d
        \/ /\ n \in NodeRows
           /\ \/ nodes'[n].env = e /\ nodes'[n].run = d
              \/ nodes'[n].env = nodes[n].env /\ nodes'[n].run = nodes[n].run
        \/ nodes'[n] = NoNode
    BY <1>1, <1>6, <2>1, UpsertedRows
  <2>3. QED  BY <1>6, <2>2
<1>8. CASE nodes'[n].env = e /\ nodes'[n].run = d
  BY <1>2, <1>4, <1>5, <1>8
<1>9. CASE n \in NodeRows /\ nodes'[n].env = nodes[n].env /\ nodes'[n].run = nodes[n].run
  BY <1>2, <1>3, <1>9 DEF IInv, OwnershipAgrees, RunsOf
<1>10. QED  BY <1>7, <1>8, <1>9

\* A step that leaves environments, nodes' owners and run rows at least as they were.
LEMMA OwnershipKept ==
    ASSUME OwnershipAgrees, envs \subseteq envs',
           \A n \in NodeRows' : \/ n \in NodeRows /\ nodes'[n].env = nodes[n].env
                                                   /\ nodes'[n].run = nodes[n].run
                                \/ nodes'[n].env = None /\ nodes'[n].run = None,
           \A c \in RunRows : c \in RunRows' /\ runs'[c].env = runs[c].env
    PROVE  OwnershipAgrees'
<1>1. \A x : RunsOf(x) \subseteq RunsOf(x)'
  BY DEF RunsOf
<1>2. QED  BY <1>1 DEF OwnershipAgrees

LEMMA OwnershipStep == IInv /\ [Next]_vars => OwnershipAgrees'
<1> SUFFICES ASSUME IInv, [Next]_vars PROVE OwnershipAgrees'  OBVIOUS
<1> USE DEF IInv
<1>1. ASSUME Environments PROVE OwnershipAgrees'
  <2>1. ASSUME NEW e \in EnvIds, NEW r \in Ranges,
               RegisterEnvironment(e, r) \/ LinkEnvironment(r, e) \/ UnlinkEnvironment(r, e)
        PROVE  OwnershipAgrees'
    BY <2>1, OwnershipKept
       DEF RegisterEnvironment, LinkEnvironment, UnlinkEnvironment, NodeRows, RunRows
  <2>2. QED  BY <1>1, <2>1, OwnershipAfterDeletion DEF Environments
<1>2. ASSUME Discovering PROVE OwnershipAgrees'
  <2>1. ASSUME NEW d \in RunIds, NEW e \in EnvIds,
               TriggerDiscovery(d, e) \/ DiscoveryNeverBegins(d, e)
        PROVE  OwnershipAgrees'
    <3>1. NewRun(d, e) /\ nodes' = nodes /\ envs' = envs
      BY <2>1 DEF TriggerDiscovery, DiscoveryNeverBegins
    <3>2. d \notin RunRows
      BY <3>1, NextRowIsFree DEF NewRun, RunIds
    <3>3. \A c \in RunRows : runs'[c] = runs[c]
      BY <3>1, <3>2 DEF NewRun, RunRows, TypeOK
    <3>4. QED  BY <3>1, <3>3, OwnershipKept DEF NewRun, NodeRows, RunRows
  <2>2. ASSUME NEW d \in RunIds, NEW found, DiscoveryFails(d) \/ DiscoveryRolledBack(d, found)
        PROVE  OwnershipAgrees'
    <3>1. FinishRun(d, "failed") /\ nodes' = nodes /\ envs' = envs
      BY <2>2 DEF DiscoveryFails, DiscoveryRolledBack
    <3>2. QED  BY <3>1, FinishRunType, OwnershipKept DEF NodeRows
  <2>3. QED  BY <1>2, <2>1, <2>2, OwnershipAfterWrites DEF Discovering, DiscoverySettles
<1>3. ASSUME Editing PROVE OwnershipAgrees'
  <2>1. ASSUME NEW n \in NodeIds, NEW r \in Ranges, AddNode(n, r) PROVE OwnershipAgrees'
    BY <2>1, OwnershipKept DEF AddNode, NodeRows, RunRows, TypeOK
  <2>2. ASSUME NEW n \in NodeIds, ShowOrHide(n) PROVE OwnershipAgrees'
    BY <2>2, OwnershipKept, RowsOfNodes DEF ShowOrHide, NodeRows, RunRows, TypeOK, Node
  <2>3. ASSUME NEW n \in NodeIds, DeleteNode(n) PROVE OwnershipAgrees'
    BY <2>3, OwnershipKept DEF DeleteNode, NodeRows, RunRows, TypeOK
  <2>4. ASSUME NEW n \in NodeIds, Pin(n) PROVE OwnershipAgrees'
    BY <2>4, OwnershipKept DEF Pin, NodeRows, RunRows
  <2>5. ASSUME NEW r \in Ranges, Publish(r) PROVE OwnershipAgrees'
    BY <2>5, OwnershipKept DEF Publish, NodeRows, RunRows
  <2>6. QED  BY <1>3, <2>1, <2>2, <2>3, <2>4, <2>5 DEF Editing
<1>4. ASSUME Using \/ Crash \/ UNCHANGED vars PROVE OwnershipAgrees'
  BY <1>4, OwnershipKept DEF Using, ResetEvent, Occupy, Vacate, Crash, vars, NodeRows, RunRows
<1>5. QED  BY <1>1, <1>2, <1>3, <1>4 DEF Next

-------------------------------------------------------------------------------
(* Discoveries                                                              *)

\* A step that leaves the pending discoveries and their runs alone, or ends some.
LEMMA DiscoveriesKept ==
    ASSUME DiscoveriesHaveRows, envs \subseteq envs',
           \A d \in RunIds : \/ searching'[d] = None
                             \/ searching'[d] = searching[d] /\ runs'[d] = runs[d]
    PROVE  DiscoveriesHaveRows'
BY DEF DiscoveriesHaveRows

LEMMA DiscoveriesStep == IInv /\ [Next]_vars => DiscoveriesHaveRows'
<1> SUFFICES ASSUME IInv, [Next]_vars PROVE DiscoveriesHaveRows'  OBVIOUS
<1> USE DEF IInv
<1>1. ASSUME NEW e \in EnvIds, DeleteEnvironment(e) PROVE DiscoveriesHaveRows'
  <2> SUFFICES ASSUME NEW d \in RunIds, searching[d] # None
               PROVE  searching[d] \in envs' /\ runs'[d] = [env |-> searching[d], status |-> "running"]
    BY <1>1 DEF DiscoveriesHaveRows, DeleteEnvironment
  <2>1. searching[d] \in envs /\ runs[d] = [env |-> searching[d], status |-> "running"]
    BY DEF DiscoveriesHaveRows
  <2>2. searching[d] # e
    BY <1>1, NoDiscoveryInFlight DEF DeleteEnvironment
  <2>3. runs[d].env # e
    BY <2>1, <2>2
  <2>4. QED  BY <1>1, <2>1, <2>2, <2>3 DEF DeleteEnvironment, RunsOf
<1>2. ASSUME NEW e \in EnvIds, NEW r \in Ranges,
             RegisterEnvironment(e, r) \/ LinkEnvironment(r, e) \/ UnlinkEnvironment(r, e)
      PROVE  DiscoveriesHaveRows'
  BY <1>2, DiscoveriesKept DEF RegisterEnvironment, LinkEnvironment, UnlinkEnvironment
<1>3. ASSUME NEW d \in RunIds, NEW e \in EnvIds, TriggerDiscovery(d, e) PROVE DiscoveriesHaveRows'
  BY <1>3 DEF TriggerDiscovery, NewRun, DiscoveriesHaveRows, TypeOK
<1>4. ASSUME NEW d \in RunIds, NEW e \in EnvIds, DiscoveryNeverBegins(d, e)
      PROVE  DiscoveriesHaveRows'
  <2>1. d \notin RunRows
    BY <1>4, NextRowIsFree DEF DiscoveryNeverBegins, NewRun, RunIds
  <2>2. QED  BY <1>4, <2>1 DEF DiscoveryNeverBegins, NewRun, DiscoveriesHaveRows, RunRows, NoRun, TypeOK
<1>5. ASSUME NEW d \in RunIds, DiscoverySettles(d) PROVE DiscoveriesHaveRows'
  <2>1. FinishRun(d, "succeeded") \/ FinishRun(d, "failed") \/ FinishRun(d, "partial_failure")
    BY <1>5, WritesFinish DEF DiscoverySettles, DiscoveryFails, DiscoveryRolledBack
  <2>2. envs' = envs
    BY <1>5 DEF DiscoverySettles, DiscoveryFails, DiscoveryRolledBack, DiscoveryWrites
  <2>3. \A c \in RunIds : c # d => searching'[c] = searching[c] /\ runs'[c] = runs[c]
    BY <2>1, FinishRunType DEF TypeOK
  <2>4. searching'[d] = None
    BY <2>1, FinishRunType DEF TypeOK
  <2>5. QED  BY <2>2, <2>3, <2>4, DiscoveriesKept
<1>6. ASSUME Editing \/ Using \/ UNCHANGED vars PROVE DiscoveriesHaveRows'
  BY <1>6, DiscoveriesKept DEF Editing, AddNode, ShowOrHide, DeleteNode, Pin, Publish,
       Using, ResetEvent, Occupy, Vacate, vars
<1>7. CASE Crash
  BY <1>7, DiscoveriesKept DEF Crash
<1>8. QED  BY <1>1, <1>2, <1>3, <1>4, <1>5, <1>6, <1>7 DEF Next, Environments, Discovering

-------------------------------------------------------------------------------
(* Snapshots                                                                *)

\* <<id, key>> in the snapshot of range r is the node it was taken of.
Shows(r, p) == nodes[p[1]] # NoNode /\ nodes[p[1]].range = r /\ nodes[p[1]].key = p[2]

\* A step that adds to no snapshot, and deletes no shown node without marking it.
LEMMA SnapshotsKept ==
    ASSUME SnapshotsFollowDeletion,
           \A r \in Ranges : published'[r] \subseteq published[r],
           \A r \in Ranges : \A p \in published'[r] :
              /\ Shows(r, p) => Shows(r, p)' \/ <<r, p[1]>> \in dangling'
              /\ <<r, p[1]>> \in dangling => <<r, p[1]>> \in dangling'
    PROVE  SnapshotsFollowDeletion'
BY DEF SnapshotsFollowDeletion, Shows

LEMMA SnapshotsAfterDeletion ==
    ASSUME IInv, NEW e \in EnvIds, DeleteEnvironment(e)
    PROVE  SnapshotsFollowDeletion'
<1>1. \A r \in Ranges : published'[r] \subseteq published[r]
  BY DEF DeleteEnvironment, IInv, TypeOK
<1> SUFFICES ASSUME NEW r \in Ranges, NEW p \in published'[r]
             PROVE  /\ Shows(r, p) => Shows(r, p)'
                    /\ <<r, p[1]>> \in dangling => <<r, p[1]>> \in dangling'
  BY <1>1, SnapshotsKept DEF IInv
<1>2. p[1] \in NodeIds
  BY <1>1 DEF IInv, TypeOK
<1>3. r \notin TouchedRanges(e) \/ p[1] \notin Footprint(e)
  BY DEF DeleteEnvironment
<1>4. ASSUME Shows(r, p) PROVE p[1] \notin Footprint(e)
  <2>1. p[1] \in NodeRows /\ nodes[p[1]].range = r
    BY <1>2, <1>4 DEF Shows, NodeRows
  <2>2. CASE nodes[p[1]].env = e
    BY <1>3, <2>1, <2>2 DEF TouchedRanges
  <2>3. CASE nodes[p[1]].env # e
    BY <2>1, <2>3, FootprintIsOwned DEF IInv
  <2>4. QED  BY <2>2, <2>3
<1>5. ASSUME Shows(r, p) PROVE Shows(r, p)'
  BY <1>2, <1>4, <1>5 DEF DeleteEnvironment, Shows
<1>6. QED  BY <1>3, <1>5 DEF DeleteEnvironment

LEMMA SnapshotsAfterWrites ==
    ASSUME IInv, NEW d \in RunIds, NEW found \in SUBSET Machines, NEW clean \in BOOLEAN,
           DiscoveryWrites(d, found, clean)
    PROVE  SnapshotsFollowDeletion'
<1> DEFINE e == searching[d]
           gone == IF clean THEN Stale(e, found) ELSE {}
<1>1. PICK f \in [Missing(e, found) -> NodeIds], seen \in SUBSET found :
        NextIds(f, gone) /\ nodes' = Upserted(e, d, found, gone, f, seen)
  BY DEF DiscoveryWrites
<1>2. e \in EnvIds
  BY DEF DiscoveryWrites, IInv, TypeOK
<1>3. published' = published /\ dangling' = dangling \cup Published(gone)
  BY DEF DiscoveryWrites
<1> HIDE DEF e, gone
<1> SUFFICES ASSUME NEW r \in Ranges, NEW p \in published[r], Shows(r, p)
             PROVE  Shows(r, p)' \/ <<r, p[1]>> \in dangling'
  BY <1>3, SnapshotsKept DEF IInv
<1> DEFINE n == p[1]
<1>4. n \in NodeIds /\ p[2] \in Machines \cup {Manual} /\ p = <<p[1], p[2]>>
  BY DEF IInv, TypeOK
<1>5. n \in NodeRows
  BY <1>4 DEF Shows, NodeRows
<1>6. CASE n \in gone
  BY <1>3, <1>4, <1>6 DEF Published
<1>7. CASE n \notin gone
  <2>1. \A q \in DOMAIN f : f[q] # n
    BY <1>1, <1>4, <1>5, <1>7 DEF NextIds, NodeIds
  <2>2. nodes'[n] \in Node /\ nodes'[n].range = nodes[n].range /\ nodes'[n].key = nodes[n].key
    BY <1>1, <1>2, <1>4, <1>5, <1>7, <2>1, UpsertedRows DEF IInv
  <2>3. QED  BY <2>2, NodesAreRows DEF Shows
<1>8. QED  BY <1>6, <1>7

LEMMA SnapshotsStep == IInv /\ [Next]_vars => SnapshotsFollowDeletion'
<1> SUFFICES ASSUME IInv, [Next]_vars PROVE SnapshotsFollowDeletion'  OBVIOUS
<1> USE DEF IInv
<1>1. ASSUME UNCHANGED <<nodes, published, dangling>> PROVE SnapshotsFollowDeletion'
  BY <1>1 DEF SnapshotsFollowDeletion
<1>2. ASSUME Environments PROVE SnapshotsFollowDeletion'
  BY <1>1, <1>2, SnapshotsAfterDeletion
     DEF Environments, RegisterEnvironment, LinkEnvironment, UnlinkEnvironment
<1>3. ASSUME Discovering PROVE SnapshotsFollowDeletion'
  BY <1>1, <1>3, SnapshotsAfterWrites
     DEF Discovering, DiscoverySettles, TriggerDiscovery, DiscoveryNeverBegins, DiscoveryFails, DiscoveryRolledBack
<1>4. ASSUME Editing PROVE SnapshotsFollowDeletion'
  <2>1. ASSUME NEW n \in NodeIds, NEW r \in Ranges, AddNode(n, r) PROVE SnapshotsFollowDeletion'
    <3>1. nodes[n] = NoNode
      BY <2>1, NextRowIsFree DEF AddNode, NodeIds, NodeRows
    <3>2. \A m \in NodeIds : nodes[m] # NoNode => nodes'[m] = nodes[m]
      BY <2>1, <3>1 DEF AddNode, TypeOK
    <3>3. published' = published /\ dangling' = dangling
      BY <2>1 DEF AddNode
    <3>4. \A s \in Ranges : \A p \in published[s] : p[1] \in NodeIds
      BY DEF TypeOK
    <3>5. QED  BY <3>2, <3>3, <3>4, SnapshotsKept DEF Shows
  <2>2. ASSUME NEW n \in NodeIds, ShowOrHide(n) PROVE SnapshotsFollowDeletion'
    <3>1. nodes[n] \in Node
      BY <2>2, RowsOfNodes DEF ShowOrHide
    <3>2. nodes'[n] \in Node /\ nodes'[n].range = nodes[n].range /\ nodes'[n].key = nodes[n].key
      BY <2>2, <3>1 DEF ShowOrHide, TypeOK, Node
    <3>3. \A m \in NodeIds : m # n => nodes'[m] = nodes[m]
      BY <2>2 DEF ShowOrHide, TypeOK
    <3>4. QED  BY <2>2, <3>2, <3>3, NodesAreRows, SnapshotsKept DEF ShowOrHide, Shows, TypeOK
  <2>3. ASSUME NEW n \in NodeIds, DeleteNode(n) PROVE SnapshotsFollowDeletion'
    <3>1. \A m \in NodeIds : m # n => nodes'[m] = nodes[m]
      BY <2>3 DEF DeleteNode, TypeOK
    <3>2. published' = published /\ dangling' = dangling \cup Published({n})
      BY <2>3 DEF DeleteNode
    <3>3. ASSUME NEW r \in Ranges, NEW p \in published[r], p[1] = n
          PROVE  <<r, n>> \in Published({n})
      <4>1. p = <<n, p[2]>> /\ p[2] \in Machines \cup {Manual}
        BY <3>3 DEF TypeOK
      <4>2. <<r, n>> \in Ranges \X {n} /\ <<r, n>>[1] = r /\ <<r, n>>[2] = n
        OBVIOUS
      <4>3. QED  BY <4>1, <4>2 DEF Published
    <3>4. ASSUME NEW r \in Ranges, NEW p \in published'[r], Shows(r, p)
          PROVE  Shows(r, p)' \/ <<r, p[1]>> \in dangling'
      <4>1. p \in published[r] /\ p[1] \in NodeIds
        BY <3>2 DEF TypeOK
      <4>2. CASE p[1] = n
        BY <3>2, <3>3, <4>1, <4>2
      <4>3. CASE p[1] # n
        BY <3>1, <3>4, <4>1, <4>3 DEF Shows
      <4>4. QED  BY <4>2, <4>3
    <3>5. QED  BY <3>2, <3>4, SnapshotsKept
  <2>4. ASSUME NEW r \in Ranges, Publish(r) PROVE SnapshotsFollowDeletion'
    <3> SUFFICES ASSUME NEW s \in Ranges, NEW p \in published'[s]
                 PROVE  Shows(s, p) \/ <<s, p[1]>> \in dangling'
      BY <2>4 DEF SnapshotsFollowDeletion, Shows, Publish
    <3>1. CASE s = r
      <4>1. PICK n \in NodeRows : p = <<n, nodes[n].key>> /\ nodes[n].range = r
        BY <2>4, <3>1 DEF Publish, TypeOK
      <4>2. QED  BY <3>1, <4>1 DEF Shows, NodeRows
    <3>2. CASE s # r
      BY <2>4, <3>2 DEF Publish, SnapshotsFollowDeletion, Shows, TypeOK
    <3>3. QED  BY <3>1, <3>2
  <2>5. QED  BY <1>1, <1>4, <2>1, <2>2, <2>3, <2>4 DEF Editing, Pin
<1>5. ASSUME Using \/ Crash \/ UNCHANGED vars PROVE SnapshotsFollowDeletion'
  BY <1>1, <1>5 DEF Using, ResetEvent, Occupy, Vacate, Crash, vars
<1>6. QED  BY <1>2, <1>3, <1>4, <1>5 DEF Next

-------------------------------------------------------------------------------
(* Theorems                                                                 *)

THEOREM Inductive == Spec => []IInv
<1>1. Init => IInv
  BY InitType DEF Init, IInv, OwnershipAgrees, DiscoveriesHaveRows, SnapshotsFollowDeletion, NodeRows
<1>2. IInv /\ [Next]_vars => IInv'
  BY TypeStep, OwnershipStep, DiscoveriesStep, SnapshotsStep DEF IInv
<1>3. QED  BY <1>1, <1>2, PTL DEF Spec

\* The owner of a node and the run that last wrote it always agree: whichever of several
\* environments discovers a machine last owns it, and no deletion leaves either behind.
THEOREM OwnersAgree == Spec => []OwnershipAgrees
BY Inductive, PTL DEF IInv

\* Whatever is deleted, re-registered or reused while the cloud answers, a discovery's
\* late result is written under its own run and for an environment that still exists.
THEOREM LateDiscoveriesAreSafe == Spec => []DiscoveriesHaveRows
BY Inductive, PTL DEF IInv

\* What a snapshot shows exists or was deleted one by one since it was published.
THEOREM SnapshotsStayClean == Spec => []SnapshotsFollowDeletion
BY Inductive, PTL DEF IInv

\* Deleting an environment takes exactly the nodes it owns.
THEOREM DeletionTakesItsOwn == Spec => DeletionIsLocal
<1> DEFINE Local == \A e \in envs \ envs' : \A n \in NodeRows :
                      nodes'[n] = NoNode <=> nodes[n].env = e
<1>1. IInv /\ [Next]_vars => [Local]_vars
  <2> SUFFICES ASSUME IInv, Next, NEW e \in envs \ envs', NEW n \in NodeRows
               PROVE  nodes'[n] = NoNode <=> nodes[n].env = e
    OBVIOUS
  <2>1. e \in EnvIds
    BY DEF IInv, TypeOK
  <2>2. DeleteEnvironment(e)
    <3>1. \A x \in EnvIds : DeleteEnvironment(x) => x = e
      BY DEF DeleteEnvironment
    <3>2. Environments
      BY DEF Next, Discovering, DiscoverySettles, TriggerDiscovery, DiscoveryNeverBegins, DiscoveryFails,
             DiscoveryRolledBack, DiscoveryWrites, Editing, AddNode, ShowOrHide, DeleteNode, Pin,
             Publish, Using, ResetEvent, Occupy, Vacate, Crash
    <3>3. QED  BY <3>1, <3>2
      DEF Environments, RegisterEnvironment, LinkEnvironment, UnlinkEnvironment
  <2>3. n \in NodeIds /\ nodes[n] # NoNode
    BY DEF NodeRows
  <2>4. nodes'[n] = NoNode <=> n \in Footprint(e)
    BY <2>2, <2>3 DEF DeleteEnvironment
  <2>5. QED  BY <2>1, <2>4, FootprintIsOwned DEF IInv
<1>2. QED  BY <1>1, Inductive, PTL DEF Spec, DeletionIsLocal

\* A step that gives no run the status running, and ends or loses no search.
LEMMA RunningKept ==
    ASSUME RunningIsSearched,
           \A d \in RunIds : /\ runs'[d] = runs[d] \/ runs'[d] = NoRun
                             /\ runs'[d] # NoRun => \/ searching'[d] = searching[d]
                                                   \/ d \in lost'
                             /\ runs'[d] # NoRun /\ d \in lost => d \in lost'
    PROVE  RunningIsSearched'
BY DEF RunningIsSearched, RunRows

LEMMA RunningStep == IInv /\ RunningIsSearched /\ [Next]_vars => RunningIsSearched'
<1> SUFFICES ASSUME IInv, RunningIsSearched, [Next]_vars PROVE RunningIsSearched'  OBVIOUS
<1> USE DEF IInv
<1>1. ASSUME UNCHANGED <<runs, searching, lost>> PROVE RunningIsSearched'
  BY <1>1 DEF RunningIsSearched, RunRows
<1>2. ASSUME Environments PROVE RunningIsSearched'
  <2>1. ASSUME NEW e \in EnvIds, DeleteEnvironment(e) PROVE RunningIsSearched'
    BY <2>1, RunningKept DEF DeleteEnvironment
  <2>2. QED
    BY <1>1, <1>2, <2>1 DEF Environments, RegisterEnvironment, LinkEnvironment, UnlinkEnvironment
<1>3. ASSUME NEW d \in RunIds, NEW e \in EnvIds, TriggerDiscovery(d, e) \/ DiscoveryNeverBegins(d, e)
      PROVE  RunningIsSearched'
  <2>1. runs' = [runs EXCEPT ![d] = [env |-> e, status |-> "running"]]
    BY <1>3 DEF TriggerDiscovery, DiscoveryNeverBegins, NewRun
  <2>2. searching'[d] = e \/ d \in lost'
    BY <1>3 DEF TriggerDiscovery, DiscoveryNeverBegins, TypeOK
  <2>3. \A c \in RunIds \ {d} : runs'[c] = runs[c] /\ searching'[c] = searching[c]
    BY <1>3, <2>1 DEF TriggerDiscovery, DiscoveryNeverBegins, TypeOK
  <2>4. lost \subseteq lost'
    BY <1>3 DEF TriggerDiscovery, DiscoveryNeverBegins
  <2>5. QED  BY <2>1, <2>2, <2>3, <2>4 DEF RunningIsSearched, RunRows, TypeOK
<1>4. ASSUME NEW d \in RunIds, DiscoverySettles(d) PROVE RunningIsSearched'
  <2>1. FinishRun(d, "succeeded") \/ FinishRun(d, "failed") \/ FinishRun(d, "partial_failure")
    BY <1>4, WritesFinish DEF DiscoverySettles, DiscoveryFails, DiscoveryRolledBack
  <2>2. \A c \in RunIds : c # d => searching'[c] = searching[c] /\ runs'[c] = runs[c]
    BY <2>1, FinishRunType DEF TypeOK
  <2>3. runs'[d] = NoRun \/ runs'[d].status # "running"
    BY <2>1, RowsOfRuns DEF FinishRun, TypeOK, Run
  <2>4. lost' = lost
    BY <1>4 DEF DiscoverySettles, DiscoveryFails, DiscoveryRolledBack, DiscoveryWrites
  <2>5. QED  BY <2>2, <2>3, <2>4 DEF RunningIsSearched, RunRows
<1>5. ASSUME Editing \/ Using \/ UNCHANGED vars PROVE RunningIsSearched'
  BY <1>1, <1>5 DEF Editing, AddNode, ShowOrHide, DeleteNode, Pin, Publish,
       Using, ResetEvent, Occupy, Vacate, vars
<1>6. CASE Crash
  BY <1>6, NoneIsNoRow DEF Crash, RunningIsSearched, RunRows, TypeOK, DiscoveriesHaveRows
<1>7. QED  BY <1>2, <1>3, <1>4, <1>5, <1>6 DEF Next, Discovering

\* A run that shows as running is being worked on, or is one of those lost with the
\* process or to a credential that could not be read.
THEOREM RunningRunsAreSearched == Spec => []RunningIsSearched
<1>1. Init => RunningIsSearched
  BY DEF Init, RunningIsSearched, RunRows
<1>2. QED  BY <1>1, Inductive, RunningStep, PTL DEF Spec

\* Discoveries at work and the rows that say so match one another.
THEOREM RunsAlwaysMatch == Spec => []RunsAreDiscoveries
<1>1. DiscoveriesHaveRows /\ RunningIsSearched => RunsAreDiscoveries
  BY DEF RunsAreDiscoveries
<1>2. QED  BY <1>1, LateDiscoveriesAreSafe, RunningRunsAreSearched, PTL

\* Owners and runs agree, and discoveries at work and the rows that say so, whichever environments
\* report the same machines and are deleted and registered again meanwhile.
THEOREM DiscoveriesAlwaysAgree == Spec => []DiscoveriesAgree
<1>1. OwnershipAgrees /\ RunsAreDiscoveries => DiscoveriesAgree
  BY DEF DiscoveriesAgree
<1>2. QED  BY <1>1, OwnersAgree, RunsAlwaysMatch, PTL

-------------------------------------------------------------------------------
(* Refinement                                                               *)

LEMMA TopologyStep == TopologyChanges => Next
BY DEF TopologyChanges, Next, Environments, Editing

LEMMA StepsRefine == TypeOK /\ [MachineNext]_allVars => [Next]_vars
<1> SUFFICES ASSUME TypeOK, [MachineNext]_allVars  PROVE [Next]_vars
  OBVIOUS
<1>1. CASE Scripting
  <2>1. ASSUME NEW x \in ExecIds, NEW j \in JobIds, NEW n \in NodeIds, RunScript(x, j, n)
        PROVE  Next
    BY <2>1 DEF RunScript, Next, Using
  <2>2. ASSUME NEW j \in JobIds, NEW result, ScriptEnds(j, result)
        PROVE  UNCHANGED vars \/ \E n \in NodeIds : Vacate(n)
    BY <2>2 DEF ScriptEnds, Vacate, TypeOK
  <2>3. QED  BY <1>1, <2>1, <2>2 DEF Scripting, Next, Using
<1>2. CASE Powering
  BY <1>2 DEF Powering, PowerEnvironment, PowerNode, Begin, TargetDone, SetStatus
<1>3. CASE TopologyChanges
  BY <1>3, TopologyStep
<1>4. CASE \E e \in EnvIds : RemoveEnvironment(e)
  BY <1>4 DEF RemoveEnvironment, Next, Environments
<1>5. CASE ResetRuns
  BY <1>5 DEF ResetRuns, Next, Using
<1>6. CASE ProcessDies
  BY <1>6 DEF ProcessDies, Next
<1>7. CASE UNCHANGED allVars
  BY <1>7 DEF allVars
<1>8. QED  BY <1>1, <1>2, <1>3, <1>4, <1>5, <1>6, <1>7 DEF MachineNext

\* Scripts and power operations only do to the topology what Topology allows.
THEOREM ImplementsTopology == MachineSpec => Spec
<1>1. MachineInit => Init
  BY DEF MachineInit
<1>2. TypeOK /\ [MachineNext]_allVars => TypeOK'
  BY StepsRefine, TypeStep
<1>3. QED  BY <1>1, <1>2, InitType, StepsRefine, PTL DEF MachineSpec, Spec

-------------------------------------------------------------------------------
(* Type correctness                                                         *)

LEMMA ExecsAreRows == \A x \in Exec : x # NoExec
BY DEF Exec, NoExec

LEMMA JobsAreRows == /\ \A x \in Job : x # NoJob
                     /\ NoJob.exec \notin ExecIds
BY DEF Job, NoJob, ExecIds

LEMMA BeginType ==
    ASSUME MachineTypeOK, NEW op \in Op, Begin(op)
    PROVE  MachineTypeOK'
<1>1. LocksOf(op) \in SUBSET (({"env"} \X EnvIds) \cup ({"node"} \X NodeIds))
  BY DEF LocksOf, Op
<1>2. QED  BY <1>1 DEF Begin, MachineTypeOK, Op

LEMMA EnvironmentOp ==
    ASSUME NEW e \in EnvIds
    PROVE  [env |-> e, nodes |-> VmNodes(e), todo |-> Copies(VmNodes(e))] \in Op
BY DEF Op, VmNodes, Copies, NodeRows

LEMMA NodeOp ==
    ASSUME NEW n \in NodeIds
    PROVE  [env |-> None, nodes |-> Siblings(n), todo |-> {Siblings(n)}] \in Op
BY DEF Op, Siblings, NodeRows

LEMMA ScriptEndsType ==
    ASSUME MachineTypeOK, NEW j \in JobIds, NEW result \in {"succeeded", "failed"},
           ScriptEnds(j, result)
    PROVE  /\ execs' \in [ExecIds -> Exec \cup {NoExec}]
           /\ jobs' \in [JobIds -> Job \cup {NoJob}]
<1>1. \A k \in JobIds : Answered(j)[k] \in Job \cup {NoJob}
  <2> SUFFICES ASSUME NEW k \in JobIds  PROVE Answered(j)[k] \in Job \cup {NoJob}
    OBVIOUS
  <2>1. jobs[k] \in Job => [jobs[k] EXCEPT !.own = FALSE] \in Job
    BY DEF Job
  <2>2. jobs[k] \notin Job => jobs[k].exec # jobs[j].exec
    BY JobsAreRows DEF ScriptEnds, MachineTypeOK, Job
  <2>3. QED  BY <2>1, <2>2 DEF Answered, MachineTypeOK
<1>2. jobs' \in [JobIds -> Job \cup {NoJob}]
  BY <1>1 DEF ScriptEnds, Answered
<1>3. ASSUME NEW x \in ExecRows  PROVE [execs[x] EXCEPT !.status = result] \in Exec
  BY DEF ExecRows, MachineTypeOK, Exec
<1>4. execs' \in [ExecIds -> Exec \cup {NoExec}]
  BY <1>3 DEF ScriptEnds, MachineTypeOK, ExecRows
<1>5. QED  BY <1>2, <1>4

LEMMA MachineTypeStep == TypeOK /\ MachineTypeOK /\ [MachineNext]_allVars => MachineTypeOK'
<1> SUFFICES ASSUME TypeOK, MachineTypeOK, [MachineNext]_allVars  PROVE MachineTypeOK'
  OBVIOUS
<1>1. ASSUME NEW x \in ExecIds, NEW j \in JobIds, NEW n \in NodeIds, RunScript(x, j, n)
      PROVE  MachineTypeOK'
  <2>1. nodes[n] \in Node
    BY <1>1 DEF RunScript, Occupy, NodeRows, TypeOK
  <2>2. [exec |-> x, vm |-> nodes[n].key, own |-> TRUE] \in Job
    BY <2>1 DEF Job, Node
  <2>3. [node |-> n, status |-> "running"] \in Exec
    BY DEF Exec
  <2>4. QED  BY <1>1, <2>2, <2>3 DEF RunScript, MachineTypeOK
<1>2. ASSUME NEW j \in JobIds, NEW result \in {"succeeded", "failed"}, ScriptEnds(j, result)
      PROVE  MachineTypeOK'
  <2>1. UNCHANGED <<orphans, power>>
    BY <1>2 DEF ScriptEnds
  <2>2. QED  BY <1>2, <2>1, ScriptEndsType DEF MachineTypeOK
<1>3. ASSUME NEW e \in EnvIds, PowerEnvironment(e)  PROVE MachineTypeOK'
  BY <1>3, BeginType, EnvironmentOp DEF PowerEnvironment
<1>4. ASSUME NEW n \in NodeIds, PowerNode(n)  PROVE MachineTypeOK'
  BY <1>4, BeginType, NodeOp DEF PowerNode
<1>5. ASSUME NEW n \in NodeIds, NEW moving \in BOOLEAN, SetStatus(n, moving)
      PROVE  MachineTypeOK'
  BY <1>5 DEF SetStatus, MachineTypeOK
<1>6. ASSUME NEW op \in ops, NEW t \in op.todo, TargetDone(op, t)
      PROVE  MachineTypeOK'
  <2>1. op \in Op
    BY DEF MachineTypeOK
  <2>2. [op EXCEPT !.todo = op.todo \ {t}] \in Op
    BY <2>1 DEF Op
  <2>3. ops' \in SUBSET Op /\ locks' \subseteq locks
    BY <1>6, <2>2 DEF TargetDone, MachineTypeOK
  <2>4. QED  BY <1>6, <2>3 DEF TargetDone, MachineTypeOK
<1>7. ASSUME StatusFollowsRows
      PROVE  changing' \in SUBSET NodeIds /\ adrift' \in SUBSET NodeIds
  BY <1>7 DEF StatusFollowsRows, MachineTypeOK
<1>8. CASE TopologyChanges
  BY <1>7, <1>8 DEF TopologyChanges, MachineTypeOK
<1>9. ASSUME NEW e \in EnvIds, RemoveEnvironment(e)  PROVE MachineTypeOK'
  BY <1>7, <1>9 DEF RemoveEnvironment, MachineTypeOK
<1>10. CASE ResetRuns
  <2>1. \A j \in JobIds : jobs[j] # NoJob => [jobs[j] EXCEPT !.own = FALSE] \in Job
    BY DEF MachineTypeOK, Job
  <2>2. QED  BY <1>10, <2>1 DEF ResetRuns, MachineTypeOK
<1>11. CASE ProcessDies
  BY <1>11 DEF ProcessDies, MachineTypeOK, ExecRows
<1>12. CASE UNCHANGED allVars
  BY <1>12 DEF allVars, MachineTypeOK
<1>13. QED  BY <1>1, <1>2, <1>3, <1>4, <1>5, <1>6, <1>8, <1>9, <1>10, <1>11, <1>12
              DEF MachineNext, Scripting, Powering

LEMMA MachineInitType == MachineInit => TypeOK /\ MachineTypeOK
BY InitType DEF MachineInit, MachineTypeOK

\* Scripts, jobs, operations, locks and statuses keep their types.
THEOREM MachineTypeCorrect == MachineSpec => [](TypeOK /\ MachineTypeOK)
<1>1. TypeOK /\ MachineTypeOK /\ [MachineNext]_allVars => (TypeOK /\ MachineTypeOK)'
  BY StepsRefine, TypeStep, MachineTypeStep
<1>2. QED  BY <1>1, MachineInitType, PTL DEF MachineSpec

-------------------------------------------------------------------------------
(* Locks                                                                    *)

LEMMA LocksAfterBegin ==
    ASSUME MachineTypeOK, LocksAreHeld, NEW op \in Op, LocksOf(op) \cap locks = {}, Begin(op)
    PROVE  LocksAreHeld'
<1>1. CASE UNCHANGED <<ops, locks>>
  BY <1>1 DEF LocksAreHeld, LocksOf
<1>2. CASE ops' = ops \cup {op} /\ locks' = locks \cup LocksOf(op)
  <2>1. \A other \in ops : LocksOf(other) \cap LocksOf(op) = {}
    BY DEF LocksAreHeld
  <2>2. locks' = UNION {LocksOf(o) : o \in ops'}
    BY <1>2 DEF LocksAreHeld
  <2>3. \A o, other \in ops' : LocksOf(o) \cap LocksOf(other) # {} => o = other
    BY <1>2, <2>1 DEF LocksAreHeld
  <2>4. QED  BY <2>2, <2>3 DEF LocksAreHeld, LocksOf
<1>3. QED  BY <1>1, <1>2 DEF Begin

LEMMA LocksAfterTarget ==
    ASSUME MachineTypeOK, LocksAreHeld, NEW op \in ops, NEW t \in op.todo,
           TargetDone(op, t)
    PROVE  LocksAreHeld'
<1>1. CASE op.todo = {t}
  <2>1. ops' = ops \ {op} /\ locks' = locks \ LocksOf(op)
    BY <1>1 DEF TargetDone
  <2>2. locks' = UNION {LocksOf(o) : o \in ops'}
    BY <2>1 DEF LocksAreHeld
  <2>3. \A o, other \in ops' : LocksOf(o) \cap LocksOf(other) # {} => o = other
    BY <2>1 DEF LocksAreHeld
  <2>4. QED  BY <2>2, <2>3 DEF LocksAreHeld, LocksOf
<1>2. CASE op.todo # {t}
  <2> DEFINE rest == [op EXCEPT !.todo = op.todo \ {t}]
  <2>1. ops' = (ops \ {op}) \cup {rest} /\ locks' = locks
    BY <1>2 DEF TargetDone
  <2>2. op \in Op
    BY DEF MachineTypeOK
  <2>3. LocksOf(rest) = LocksOf(op)
    BY <2>2 DEF LocksOf, Op
  <2> HIDE DEF rest
  <2>4. locks' = UNION {LocksOf(o) : o \in ops'}
    BY <2>1, <2>3 DEF LocksAreHeld
  <2>5. \A o, other \in ops' : LocksOf(o) \cap LocksOf(other) # {} => o = other
    BY <2>1, <2>3 DEF LocksAreHeld
  <2>6. QED  BY <2>4, <2>5 DEF LocksAreHeld, LocksOf
<1>3. QED  BY <1>1, <1>2

\* what is left of an operation's locks when nothing touches ops and locks
LEMMA LocksKept == LocksAreHeld /\ UNCHANGED <<ops, locks>> => LocksAreHeld'
BY DEF LocksAreHeld, LocksOf

LEMMA LocksStep == TypeOK /\ MachineTypeOK /\ LocksAreHeld /\ [MachineNext]_allVars => LocksAreHeld'
<1> SUFFICES ASSUME TypeOK, MachineTypeOK, LocksAreHeld, [MachineNext]_allVars
             PROVE  LocksAreHeld'
  OBVIOUS
<1>1. ASSUME NEW e \in EnvIds, PowerEnvironment(e)  PROVE LocksAreHeld'
  BY <1>1, EnvironmentOp, LocksAfterBegin DEF PowerEnvironment
<1>2. ASSUME NEW n \in NodeIds, PowerNode(n)  PROVE LocksAreHeld'
  BY <1>2, NodeOp, LocksAfterBegin DEF PowerNode
<1>3. ASSUME NEW op \in ops, NEW t \in op.todo, TargetDone(op, t)
      PROVE  LocksAreHeld'
  BY <1>3, LocksAfterTarget
<1>4. CASE ProcessDies
  BY <1>4 DEF ProcessDies, LocksAreHeld, LocksOf
<1>5. ASSUME Scripting \/ (\E n \in NodeIds, moving \in BOOLEAN : SetStatus(n, moving))
             \/ TopologyChanges \/ (\E e \in EnvIds : RemoveEnvironment(e)) \/ ResetRuns
             \/ UNCHANGED allVars
      PROVE  UNCHANGED <<ops, locks>>
  BY <1>5 DEF Scripting, RunScript, ScriptEnds, SetStatus, TopologyChanges, RemoveEnvironment,
              ResetRuns, allVars
<1>6. QED  BY <1>1, <1>2, <1>3, <1>4, <1>5, LocksKept DEF MachineNext, Powering

\* Whatever is deleted, rediscovered or started meanwhile, the power locks are those of
\* the operations in flight, each operation's its own.
THEOREM LocksAlwaysHeld == MachineSpec => []LocksAreHeld
<1>1. MachineInit => LocksAreHeld
  BY DEF MachineInit, LocksAreHeld
<1>2. QED  BY <1>1, LocksStep, MachineTypeCorrect, PTL DEF MachineSpec

-------------------------------------------------------------------------------
(* Status                                                                   *)

\* Only a row has a status: a target whose node is gone marks nothing when it is done, so
\* the node must not be shown as changing any more.
StatusOfRows == changing \subseteq NodeRows

StatusInv == StatusOfRows /\ ChangingIsHeld

LEMMA StatusAfterBegin ==
    ASSUME MachineTypeOK, StatusInv, NEW op \in Op, op.nodes \subseteq NodeRows,
           op.nodes = UNION op.todo, Begin(op)
    PROVE  StatusInv'
<1>1. UNCHANGED nodes
  BY DEF Begin, vars
<1>2. CASE ops' = ops \cup {op} /\ changing' = changing \cup op.nodes
  BY <1>1, <1>2 DEF Begin, StatusInv, StatusOfRows, ChangingIsHeld, NodeRows
<1>3. CASE ops' = ops /\ changing' = changing \ op.nodes
  BY <1>1, <1>3 DEF Begin, StatusInv, StatusOfRows, ChangingIsHeld, NodeRows
<1>4. QED  BY <1>2, <1>3 DEF Begin

LEMMA StatusAfterTarget ==
    ASSUME MachineTypeOK, StatusInv, NEW op \in ops, NEW t \in op.todo, TargetDone(op, t)
    PROVE  StatusInv'
<1> DEFINE rest == [op EXCEPT !.todo = op.todo \ {t}]
<1>1. UNCHANGED nodes /\ changing' = changing \ t /\ adrift' = adrift \ t
  BY DEF TargetDone, vars
<1>2. StatusOfRows'
  BY <1>1 DEF StatusInv, StatusOfRows, NodeRows
<1>3. op \in Op
  BY DEF MachineTypeOK
<1>4. rest.todo = op.todo \ {t}
  BY <1>3 DEF Op
<1>5. ops' = IF op.todo = {t} THEN ops \ {op} ELSE (ops \ {op}) \cup {rest}
  BY DEF TargetDone
<1> HIDE DEF rest
<1>6. ASSUME NEW n \in changing'
      PROVE  n \in adrift' \/ \E o \in ops' : \E u \in o.todo : n \in u
  <2>1. n \notin t /\ n \in changing
    BY <1>1, <1>6
  <2>2. ASSUME NEW o \in ops, NEW u \in o.todo, n \in u
        PROVE  \E o2 \in ops' : \E v \in o2.todo : n \in v
    BY <1>4, <1>5, <2>1, <2>2
  <2>3. QED  BY <1>1, <2>1, <2>2 DEF StatusInv, ChangingIsHeld
<1>7. QED  BY <1>2, <1>6 DEF StatusInv, ChangingIsHeld

LEMMA StatusFollows ==
    ASSUME StatusInv, StatusFollowsRows, UNCHANGED ops
    PROVE  StatusInv'
BY DEF StatusFollowsRows, StatusInv, StatusOfRows, ChangingIsHeld, NodeRows

LEMMA StatusKept == StatusInv /\ UNCHANGED <<nodes, power>> => StatusInv'
BY DEF StatusInv, StatusOfRows, ChangingIsHeld, NodeRows

LEMMA StatusStep == TypeOK /\ MachineTypeOK /\ StatusInv /\ [MachineNext]_allVars => StatusInv'
<1> SUFFICES ASSUME TypeOK, MachineTypeOK, StatusInv, [MachineNext]_allVars  PROVE StatusInv'
  OBVIOUS
<1>1. ASSUME NEW e \in EnvIds, PowerEnvironment(e)  PROVE StatusInv'
  <2> DEFINE op == [env |-> e, nodes |-> VmNodes(e), todo |-> Copies(VmNodes(e))]
  <2>1. op.nodes \subseteq NodeRows /\ op.nodes = UNION op.todo
    BY DEF VmNodes, Copies
  <2>2. QED  BY <1>1, <2>1, EnvironmentOp, StatusAfterBegin DEF PowerEnvironment
<1>2. ASSUME NEW n \in NodeIds, PowerNode(n)  PROVE StatusInv'
  <2> DEFINE op == [env |-> None, nodes |-> Siblings(n), todo |-> {Siblings(n)}]
  <2>1. op.nodes \subseteq NodeRows /\ op.nodes = UNION op.todo
    BY DEF Siblings
  <2>2. QED  BY <1>2, <2>1, NodeOp, StatusAfterBegin DEF PowerNode
<1>3. ASSUME NEW op \in ops, NEW t \in op.todo, TargetDone(op, t)
      PROVE  StatusInv'
  BY <1>3, StatusAfterTarget
<1>4. ASSUME NEW n \in NodeIds, NEW moving \in BOOLEAN, SetStatus(n, moving)
      PROVE  StatusInv'
  BY <1>4 DEF SetStatus, vars, MachineTypeOK, StatusInv, StatusOfRows, ChangingIsHeld, NodeRows
<1>5. CASE TopologyChanges
  BY <1>5, StatusFollows DEF TopologyChanges
<1>6. ASSUME NEW e \in EnvIds, RemoveEnvironment(e)  PROVE StatusInv'
  BY <1>6, StatusFollows DEF RemoveEnvironment
<1>7. CASE ProcessDies
  BY <1>7 DEF ProcessDies, Crash, StatusInv, StatusOfRows, ChangingIsHeld, NodeRows
<1>8. ASSUME Scripting \/ ResetRuns \/ UNCHANGED allVars
      PROVE  UNCHANGED <<nodes, power>>
  BY <1>8 DEF Scripting, RunScript, Occupy, ScriptEnds, Vacate, ResetRuns, ResetEvent, allVars, vars
<1>9. QED  BY <1>1, <1>2, <1>3, <1>4, <1>5, <1>6, <1>7, <1>8, StatusKept DEF MachineNext, Powering

\* A machine is shown as starting or stopping only while an operation works on it, if the
\* process did not die and no instructor said so.
THEOREM ChangingAlwaysHeld == MachineSpec => []ChangingIsHeld
<1>1. MachineInit => StatusInv
  BY DEF MachineInit, StatusInv, StatusOfRows, ChangingIsHeld
<1>2. StatusInv => ChangingIsHeld
  BY DEF StatusInv
<1>3. QED  BY <1>1, <1>2, StatusStep, MachineTypeCorrect, PTL DEF MachineSpec

\* Locks, statuses and the operations at work match, however operations on environments and on
\* single machines overlap, and whatever is discovered, handed over and deleted under them.
THEOREM PowerAlwaysHeld == MachineSpec => []PowerIsHeld
<1>1. LocksAreHeld /\ ChangingIsHeld => PowerIsHeld
  BY DEF PowerIsHeld
<1>2. QED  BY <1>1, LocksAlwaysHeld, ChangingAlwaysHeld, PTL

-------------------------------------------------------------------------------
(* Scripts                                                                  *)

\* A node with history is there, and the partial unique index holds.
UsedAreRows == used \subseteq NodeRows
OneRunningPerNode == \A x, y \in ExecRows :
    Running(x) /\ Running(y) /\ execs[x].node = execs[y].node => x = y

ScriptInv == /\ HistoryAgrees /\ UsedAreRows /\ OneRunningPerNode
             /\ ScriptRowsAreTheirs /\ RunningHaveJobs

\* A node with history survives every discovery and every single deletion as it was.
LEMMA UsedSurvive ==
    ASSUME TypeOK, UsedAreRows, TopologyChanges
    PROVE  /\ UNCHANGED <<used, busy>>
           /\ \A n \in used : nodes'[n] # NoNode /\ nodes'[n].key = nodes[n].key
<1>1. ASSUME NEW d \in RunIds, NEW found \in SUBSET Machines, NEW clean \in BOOLEAN,
             DiscoveryWrites(d, found, clean)
      PROVE  /\ UNCHANGED <<used, busy>>
             /\ \A n \in used : nodes'[n] # NoNode /\ nodes'[n].key = nodes[n].key
  <2> DEFINE e == searching[d]
             gone == IF clean THEN Stale(e, found) ELSE {}
  <2>1. e \in EnvIds /\ gone \cap used = {} /\ UNCHANGED <<used, busy>>
    BY <1>1 DEF DiscoveryWrites, TypeOK
  <2>2. PICK f \in [Missing(e, found) -> NodeIds], seen \in SUBSET found :
             NextIds(f, gone) /\ nodes' = Upserted(e, d, found, gone, f, seen)
    BY <1>1 DEF DiscoveryWrites
  <2> HIDE DEF e, gone
  <2>3. ASSUME NEW n \in used
        PROVE  nodes'[n] # NoNode /\ nodes'[n].key = nodes[n].key
    <3>1. n \in NodeIds /\ n \in NodeRows /\ n \notin gone
      BY <2>1, <2>3 DEF UsedAreRows, NodeRows
    <3>2. ~\E p \in DOMAIN f : f[p] = n
      BY <2>2, <3>1 DEF NextIds, NodeIds
    <3>3. nodes'[n] \in Node /\ nodes'[n].key = nodes[n].key
      BY <2>1, <2>2, <3>1, <3>2, UpsertedRows
    <3>4. QED  BY <3>3, NodesAreRows
  <2>4. QED  BY <2>1, <2>3
<1>2. ASSUME NEW n \in NodeIds, DeleteNode(n)
      PROVE  /\ UNCHANGED <<used, busy>>
             /\ \A m \in used : nodes'[m] # NoNode /\ nodes'[m].key = nodes[m].key
  BY <1>2 DEF DeleteNode, UsedAreRows, NodeRows, TypeOK
<1>3. ASSUME UNCHANGED <<nodes, used, busy>>
      PROVE  \A n \in used : nodes'[n] # NoNode /\ nodes'[n].key = nodes[n].key
  BY <1>3 DEF UsedAreRows, NodeRows
<1>4. QED  BY <1>1, <1>2, <1>3
  DEF TopologyChanges, RegisterEnvironment, LinkEnvironment, UnlinkEnvironment, Discovering,
      TriggerDiscovery, DiscoveryNeverBegins, DiscoverySettles, DiscoveryFails, DiscoveryRolledBack

LEMMA RunScriptKeeps ==
    ASSUME TypeOK, MachineTypeOK, ScriptInv, NEW x \in ExecIds, NEW j \in JobIds,
           NEW n \in NodeIds, RunScript(x, j, n)
    PROVE  ScriptInv'
<1>1. /\ n \in NodeRows /\ n \notin busy /\ UNCHANGED <<nodes, orphans>>
      /\ used' = used \cup {n} /\ busy' = busy \cup {n}
      /\ jobs[j] = NoJob
  BY DEF RunScript, Occupy
<1>2. x \notin ExecRows
  BY NextRowIsFree DEF RunScript, ExecIds
<1>3. /\ execs'[x] = [node |-> n, status |-> "running"]
      /\ \A y \in ExecIds : y # x => execs'[y] = execs[y]
      /\ ExecRows' = ExecRows \cup {x}
  BY <1>2 DEF RunScript, MachineTypeOK, ExecRows, NoExec
<1>4. /\ jobs'[j] = [exec |-> x, vm |-> nodes[n].key, own |-> TRUE]
      /\ \A k \in JobIds : k # j => jobs'[k] = jobs[k]
  BY DEF RunScript, MachineTypeOK
<1>5. HistoryAgrees'
  BY <1>1, <1>2, <1>3 DEF ScriptInv, HistoryAgrees, Running, ExecRows
<1>6. UsedAreRows'
  BY <1>1 DEF ScriptInv, UsedAreRows, NodeRows
<1>7. OneRunningPerNode'
  BY <1>1, <1>2, <1>3 DEF ScriptInv, HistoryAgrees, OneRunningPerNode, Running, ExecRows
<1>8. ScriptRowsAreTheirs'
  <2>1. ASSUME NEW k \in JobIds, k # j, jobs[k] # NoJob, jobs[k].own
        PROVE  jobs[k].exec \in ExecRows /\ jobs[k].exec # x
    BY <1>2, <2>1 DEF ScriptInv, ScriptRowsAreTheirs
  <2>2. QED  BY <1>1, <1>3, <1>4, <2>1
             DEF ScriptInv, ScriptRowsAreTheirs, Running, ExecRows, NodeRows
<1>9. RunningHaveJobs'
  BY <1>1, <1>3, <1>4, JobsAreRows DEF ScriptInv, RunningHaveJobs, Running, ExecRows
<1>10. QED  BY <1>5, <1>6, <1>7, <1>8, <1>9 DEF ScriptInv

LEMMA ScriptEndsKeeps ==
    ASSUME TypeOK, MachineTypeOK, ScriptInv, NEW j \in JobIds,
           NEW result \in {"succeeded", "failed"}, ScriptEnds(j, result)
    PROVE  ScriptInv'
<1> DEFINE x == jobs[j].exec
<1>1. x \in ExecIds
  BY DEF ScriptEnds, MachineTypeOK, Job
<1>2. /\ UNCHANGED <<nodes, used, orphans>>
      /\ jobs' = Answered(j)
  BY DEF ScriptEnds, Vacate, vars
<1>3. /\ ExecRows' = ExecRows
      /\ \A y \in ExecRows : execs'[y].node = execs[y].node
      /\ \A y \in ExecRows : Running(y)' <=> Running(y) /\ y # x
      /\ \A y \in ExecIds : y # x => execs'[y] = execs[y]
  <2>1. CASE x \in ExecRows
    <3>1. execs[x] \in Exec
      BY <2>1 DEF ExecRows, MachineTypeOK
    <3>2. [execs[x] EXCEPT !.status = result] \in Exec
          /\ [execs[x] EXCEPT !.status = result].status = result
          /\ [execs[x] EXCEPT !.status = result].node = execs[x].node
      BY <3>1 DEF Exec
    <3>3. execs' = [execs EXCEPT ![x] = [execs[x] EXCEPT !.status = result]]
      BY <2>1 DEF ScriptEnds
    <3>4. execs'[x] = [execs[x] EXCEPT !.status = result]
          /\ \A y \in ExecIds : y # x => execs'[y] = execs[y]
      BY <1>1, <3>3 DEF MachineTypeOK
    <3>5. execs'[x] # NoExec /\ execs'[x].node = execs[x].node /\ execs'[x].status # "running"
      BY <3>2, <3>4, ExecsAreRows
    <3> HIDE DEF x
    <3>6. QED  BY <2>1, <3>4, <3>5 DEF ExecRows, Running
  <2>2. CASE x \notin ExecRows
    BY <2>2 DEF ScriptEnds, ExecRows, Running
  <2>3. QED  BY <2>1, <2>2
<1>4. \A k \in JobIds :
        \/ jobs'[k] = NoJob
        \/ jobs'[k].exec = x /\ ~jobs'[k].own
        \/ jobs[k].exec # x /\ jobs'[k] = jobs[k]
  <2> SUFFICES ASSUME NEW k \in JobIds, k # j, jobs[k].exec = x
               PROVE  jobs'[k].exec = x /\ ~jobs'[k].own
    BY <1>2 DEF Answered
  <2>1. jobs[k] \in Job
    BY <1>1, JobsAreRows DEF MachineTypeOK
  <2>2. jobs'[k] = [jobs[k] EXCEPT !.own = FALSE]
    BY <1>2 DEF Answered
  <2>3. QED  BY <2>1, <2>2 DEF Job
<1>5. busy' = IF x \in ExecRows /\ Running(x) THEN busy \ {execs[x].node} ELSE busy
  BY DEF ScriptEnds, Vacate, vars
<1> HIDE DEF x
<1>6. HistoryAgrees'
  <2>1. used' = {execs'[y].node : y \in ExecRows'}
    BY <1>2, <1>3 DEF ScriptInv, HistoryAgrees
  <2>2. busy' = {execs'[y].node : y \in {z \in ExecRows' : Running(z)'}}
    BY <1>3, <1>5 DEF ScriptInv, HistoryAgrees, OneRunningPerNode
  <2>3. QED  BY <2>1, <2>2 DEF HistoryAgrees, Running
<1>7. UsedAreRows'
  BY <1>2 DEF ScriptInv, UsedAreRows, NodeRows
<1>8. OneRunningPerNode'
  BY <1>3 DEF ScriptInv, OneRunningPerNode, Running
<1>9. ScriptRowsAreTheirs'
  <2>1. ASSUME NEW k \in JobIds, jobs'[k] # NoJob, jobs'[k].own, NEW y, y = jobs'[k].exec
        PROVE  /\ y \in ExecRows' /\ execs'[y].status = "running"
               /\ nodes'[execs'[y].node] # NoNode
               /\ nodes'[execs'[y].node].key = jobs'[k].vm
    <3>1. y # x /\ jobs'[k] = jobs[k]
      BY <1>4, <2>1
    <3>2. /\ y \in ExecRows /\ Running(y)
          /\ nodes[execs[y].node] # NoNode /\ nodes[execs[y].node].key = jobs[k].vm
      BY <2>1, <3>1 DEF ScriptInv, ScriptRowsAreTheirs
    <3>3. y \in ExecIds /\ execs'[y] = execs[y]
      BY <1>3, <3>1, <3>2 DEF ExecRows
    <3>4. QED  BY <1>2, <1>3, <3>1, <3>2, <3>3 DEF Running
  <2>2. QED  BY <2>1 DEF ScriptRowsAreTheirs, Running
<1>10. RunningHaveJobs'
  <2> SUFFICES ASSUME NEW y \in ExecRows, Running(y), y # x
               PROVE  y \in orphans \/ \E k \in JobIds : jobs'[k].exec = y
    BY <1>2, <1>3 DEF RunningHaveJobs, Running
  <2>1. ASSUME NEW k \in JobIds, jobs[k].exec = y  PROVE jobs'[k].exec = y
    <3>1. k # j
      BY <2>1 DEF x
    <3>2. jobs'[k] = jobs[k]
      BY <1>2, <2>1, <3>1 DEF Answered, x
    <3>3. QED  BY <2>1, <3>2
  <2>2. QED  BY <2>1 DEF ScriptInv, RunningHaveJobs
<1>11. QED  BY <1>6, <1>7, <1>8, <1>9, <1>10 DEF ScriptInv

\* Deleting an environment takes the executions of its hosts, of which none is running.
LEMMA RemoveEnvironmentKeeps ==
    ASSUME TypeOK, MachineTypeOK, ScriptInv, NEW e \in EnvIds, RemoveEnvironment(e)
    PROVE  ScriptInv'
<1> DEFINE gone == {x \in ExecRows : execs[x].node \in Footprint(e)}
<1>1. /\ used' = used \ Footprint(e) /\ busy' = busy \ Footprint(e)
      /\ UNCHANGED jobs /\ orphans' = orphans \ gone
      /\ \A n \in NodeIds : n \notin Footprint(e) => nodes'[n] = nodes[n]
      /\ Footprint(e) \cap busy = {}
  BY DEF RemoveEnvironment, DeleteEnvironment, Blocked
<1>2. /\ ExecRows' = ExecRows \ gone
      /\ \A x \in ExecRows' : execs'[x] = execs[x]
  BY DEF RemoveEnvironment, ExecRows
<1>3. \A x \in ExecRows : Running(x) => execs[x].node \in busy
  BY DEF ScriptInv, HistoryAgrees
<1>4. used \subseteq NodeIds
  BY DEF TypeOK
<1> HIDE DEF gone
<1>5. \A x \in ExecRows : Running(x) => x \in ExecRows'
  BY <1>1, <1>2, <1>3 DEF gone
<1>6. HistoryAgrees'
  BY <1>1, <1>2 DEF gone, ScriptInv, HistoryAgrees, Running
<1>7. UsedAreRows'
  BY <1>1, <1>4 DEF ScriptInv, UsedAreRows, NodeRows
<1>8. OneRunningPerNode'
  BY <1>2, <1>5 DEF gone, ScriptInv, OneRunningPerNode, Running
<1>9. ScriptRowsAreTheirs'
  <2>1. ASSUME NEW j \in JobIds, jobs[j] # NoJob, jobs[j].own, NEW x, x = jobs[j].exec
        PROVE  /\ x \in ExecRows' /\ execs'[x].status = "running"
               /\ nodes'[execs'[x].node] # NoNode
               /\ nodes'[execs'[x].node].key = jobs[j].vm
    <3>1. /\ x \in ExecRows /\ Running(x)
          /\ nodes[execs[x].node] # NoNode /\ nodes[execs[x].node].key = jobs[j].vm
      BY <2>1 DEF ScriptInv, ScriptRowsAreTheirs
    <3>2. execs[x].node \in NodeIds /\ execs[x].node \notin Footprint(e)
      BY <1>1, <1>3, <3>1 DEF TypeOK
    <3>3. QED  BY <1>1, <1>2, <1>5, <3>1, <3>2 DEF Running
  <2>2. QED  BY <1>1, <2>1 DEF ScriptRowsAreTheirs, Running
<1>10. RunningHaveJobs'
  BY <1>1, <1>2 DEF gone, ScriptInv, RunningHaveJobs, Running
<1>11. QED  BY <1>6, <1>7, <1>8, <1>9, <1>10 DEF ScriptInv

LEMMA ResetRunsKeeps ==
    ASSUME MachineTypeOK, ScriptInv, ResetRuns
    PROVE  ScriptInv'
<1>1. used' = {} /\ busy' = {} /\ ExecRows' = {}
  BY DEF ResetRuns, ResetEvent, ExecRows
<1>2. \A j \in JobIds : jobs'[j] # NoJob => ~jobs'[j].own
  <2> SUFFICES ASSUME NEW j \in JobIds, jobs[j] # NoJob  PROVE ~jobs'[j].own
    BY DEF ResetRuns
  <2>1. jobs[j] \in Job
    BY DEF MachineTypeOK
  <2>2. jobs'[j] = [jobs[j] EXCEPT !.own = FALSE]
    BY DEF ResetRuns
  <2>3. QED  BY <2>1, <2>2 DEF Job
<1>3. QED  BY <1>1, <1>2 DEF ScriptInv, HistoryAgrees, UsedAreRows, OneRunningPerNode,
                             ScriptRowsAreTheirs, RunningHaveJobs

LEMMA ScriptsKept ==
    ASSUME ScriptInv, UNCHANGED <<execs, jobs, orphans, used, busy>>,
           \A n \in used : nodes'[n] # NoNode /\ nodes'[n].key = nodes[n].key,
           used \subseteq NodeIds
    PROVE  ScriptInv'
<1>1. HistoryAgrees' /\ OneRunningPerNode' /\ RunningHaveJobs'
  BY DEF ScriptInv, HistoryAgrees, OneRunningPerNode, RunningHaveJobs, Running, ExecRows
<1>2. UsedAreRows'
  BY DEF ScriptInv, UsedAreRows, NodeRows
<1>3. ScriptRowsAreTheirs'
  BY DEF ScriptInv, HistoryAgrees, ScriptRowsAreTheirs, Running, ExecRows
<1>4. QED  BY <1>1, <1>2, <1>3 DEF ScriptInv

LEMMA ProcessDiesKeeps ==
    ASSUME ScriptInv, ProcessDies
    PROVE  ScriptInv'
BY DEF ProcessDies, Crash, ScriptInv, HistoryAgrees, UsedAreRows, OneRunningPerNode,
       ScriptRowsAreTheirs, RunningHaveJobs, Running, ExecRows, NodeRows

LEMMA ScriptStep == TypeOK /\ MachineTypeOK /\ ScriptInv /\ [MachineNext]_allVars => ScriptInv'
<1> SUFFICES ASSUME TypeOK, MachineTypeOK, ScriptInv, [MachineNext]_allVars  PROVE ScriptInv'
  OBVIOUS
<1>1. CASE Scripting
  BY <1>1, RunScriptKeeps, ScriptEndsKeeps DEF Scripting
<1>2. used \subseteq NodeIds /\ used \subseteq NodeRows
  BY DEF TypeOK, ScriptInv, UsedAreRows
<1>3. CASE Powering \/ UNCHANGED allVars
  <2>1. UNCHANGED <<execs, jobs, orphans, used, busy, nodes>>
    BY <1>3 DEF Powering, PowerEnvironment, PowerNode, Begin, TargetDone, SetStatus, allVars, vars
  <2>2. QED  BY <1>2, <2>1, ScriptsKept DEF NodeRows
<1>4. CASE TopologyChanges
  <2>1. UNCHANGED <<execs, jobs, orphans>>
    BY <1>4 DEF TopologyChanges
  <2>2. QED  BY <1>2, <1>4, <2>1, UsedSurvive, ScriptsKept DEF ScriptInv
<1>5. CASE \E e \in EnvIds : RemoveEnvironment(e)
  BY <1>5, RemoveEnvironmentKeeps
<1>6. CASE ResetRuns
  BY <1>6, ResetRunsKeeps
<1>7. CASE ProcessDies
  BY <1>7, ProcessDiesKeeps
<1>8. QED  BY <1>1, <1>3, <1>4, <1>5, <1>6, <1>7 DEF MachineNext

\* The strengthening: nodes with history are there, and one script runs on each at most.
THEOREM ScriptsInductive == MachineSpec => []ScriptInv
<1>1. MachineInit => ScriptInv
  BY JobsAreRows DEF MachineInit, Init, ScriptInv, HistoryAgrees, UsedAreRows, OneRunningPerNode,
                     ScriptRowsAreTheirs, RunningHaveJobs, ExecRows
<1>2. QED  BY <1>1, ScriptStep, MachineTypeCorrect, PTL DEF MachineSpec

\* The blockers and the rows that the deletion of an environment counts are the ones there.
THEOREM HistoryAlwaysAgrees == MachineSpec => []HistoryAgrees
<1>1. ScriptInv => HistoryAgrees
  BY DEF ScriptInv
<1>2. QED  BY <1>1, ScriptsInductive, PTL

\* A script in flight finds its own row, running, on the machine it runs on.
THEOREM ScriptRowsStayTheirs == MachineSpec => []ScriptRowsAreTheirs
<1>1. ScriptInv => ScriptRowsAreTheirs
  BY DEF ScriptInv
<1>2. QED  BY <1>1, ScriptsInductive, PTL

\* No running execution without its job, unless the process died.
THEOREM RunningAlwaysHaveJobs == MachineSpec => []RunningHaveJobs
<1>1. ScriptInv => RunningHaveJobs
  BY DEF ScriptInv
<1>2. QED  BY <1>1, ScriptsInductive, PTL

\* Scripts in flight and the execution rows that say so match one another.
THEOREM JobsAlwaysMatch == MachineSpec => []JobsAreExecutions
<1>1. ScriptRowsAreTheirs /\ RunningHaveJobs => JobsAreExecutions
  BY DEF JobsAreExecutions
<1>2. QED  BY <1>1, ScriptRowsStayTheirs, RunningAlwaysHaveJobs, PTL

===============================================================================
