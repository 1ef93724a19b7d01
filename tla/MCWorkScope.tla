------------------------------- MODULE MCWorkScope -------------------------------
(* A small instance of EventRecords: one instructor, two teams whose students may   *)
(* meet. A behaviour keeps to one of two scenes: work without certificates, with at *)
(* most one entry and one award, or certificates with one change less, and without  *)
(* records and remote sessions.                                                     *)
EXTENDS EventRecords, TLC

CONSTANTS t1, t2, u1, u2

VARIABLE scene

BothHome == [u \in Students |-> IF u = u1 THEN t1 ELSE t2]
\* the two teams change places together with their students
Swap == (t1 :> t2) @@ (t2 :> t1) @@ (u1 :> u2) @@ (u2 :> u1)
ScopeSymmetry == Permutations(Organizations) \cup Permutations(Ranges) \cup {Swap}

SceneInit == RecordInit /\ scene \in {"work", "certificates"}

SpecScenes ==
    /\ SceneInit
    /\ [][/\ RecordNext /\ UNCHANGED scene
          /\ scene = "work" => UNCHANGED grants /\ Cardinality(awards') < 2 /\ Cardinality(entries') < 2
          /\ scene = "certificates" => turns' < MaxTurns /\ UNCHANGED remote /\ filed' = 0]_<<recordVars, scene>>
==================================================================================
