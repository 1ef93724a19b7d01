------------------------------- MODULE MCMachineOps -------------------------------
(* TLC instances of MachineOps: scenarios and machines are model values. A          *)
(* behaviour keeps to one of three scenes: scripts, or power operations, on the     *)
(* machines of one environment (neither looks at the other's state), or the         *)
(* topology alone, one scenario and one machine that two environments discover, at  *)
(* most one node referred to or used (one already holds a prune back) and at most   *)
(* one shown in the snapshot.                                                       *)
EXTENDS MachineOps, TLC

CONSTANTS r1, r2, vm1, vm2

VARIABLES scene, cast  \* cast: the only scenario and the only machine of the topology's scene

\* scenarios are interchangeable, and so are machines
Symmetry == Permutations(Ranges) \cup Permutations(Machines)

SceneInit ==
    /\ MachineInit
    /\ scene \in {"scripts", "power", "topology"}
    /\ IF scene = "topology" THEN cast \in Ranges \X Machines ELSE cast = <<>>

TopologyScene(r, v) ==
    /\ Next
    /\ linked' \subseteq {r} \X EnvIds
    /\ Cardinality(pinned' \cup used') <= 1 /\ Cardinality(published'[r]) <= 1
    /\ \A n \in NodeIds : nodes'[n] # NoNode => nodes'[n].range = r /\ nodes'[n].key \in {v, Manual}
    /\ \A p \in Ranges \ {r} : published'[p] = published[p]
    /\ UNCHANGED <<scripts, power>>

OneEnvironment == MachineNext /\ envs' \subseteq {1}

SpecScenes ==
    /\ SceneInit
    /\ [][/\ UNCHANGED <<scene, cast>>
          /\ \/ scene = "scripts" /\ OneEnvironment /\ UNCHANGED power
             \/ scene = "power" /\ OneEnvironment /\ UNCHANGED scripts
             \/ scene = "topology" /\ TopologyScene(cast[1], cast[2])]_<<allVars, scene, cast>>
===============================================================================
