------------------------------ MODULE MCIdentities ------------------------------
(* Small instances of two modules whose histories settle who or what a row stands   *)
(* for. A behaviour keeps to one of two scenes: accounts, tokens and sockets; the   *)
(* occurrences of techniques and the times to detect.                               *)
EXTENDS Identities, TimeToDetect, TLC

CONSTANTS x, X, y, z

VARIABLE scene

FoldXY == [n \in Names |-> IF n = X THEN x ELSE n]
\* tokens and teams are interchangeable
IdentitySymmetry == Permutations(Tokens) \cup Permutations(Teams)

SceneInit == Init /\ DetectInit /\ scene \in {"accounts", "detecting"}

SpecScenes ==
    /\ SceneInit
    /\ [][/\ UNCHANGED scene
          /\ \/ scene = "accounts" /\ Next /\ UNCHANGED detectVars
             \/ scene = "detecting" /\ DetectNext /\ UNCHANGED vars
         ]_<<vars, detectVars, scene>>
=================================================================================
