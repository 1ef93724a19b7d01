------------------------------ MODULE MCAiDocuments ------------------------------
(* What scenarios refer to.  A behaviour keeps to one of five scenes: the AI       *)
(* documents of a scenario; the library of certificates; a scenario that awards    *)
(* one; the library of scripts; the names of a scenario and of two environments.   *)
EXTENDS AiDocuments, ScenarioCatalog, TLC

CONSTANTS n1, n2, n3, w1, w2,
          Scenes

VARIABLE scene

\* no definition tells contents apart but by equality
ContentSymmetry == Permutations(Contents)

\* n1 and n2 differ in their spaces
MCTrimmed(n) == IF n = n2 THEN n1 ELSE n
MCNamed(w) == w

SceneInit == Init /\ CatalogInit /\ scene \in Scenes

\* certificates change elsewhere; scenarios bear one name
Awarding ==
    \/ CertificatesElsewhere /\ UNCHANGED catalogVars
    \/ \E b \in Browsers : FetchTemplates(b) /\ UNCHANGED catalogVars
    \/ \E s \in ScenarioIds : DeleteScenario(s)
    \/ Detailing /\ \A b \in Browsers : forms'[b].typed.name \in {NoName, n1}

SceneSpec ==
    /\ SceneInit
    /\ [][/\ UNCHANGED scene
          /\ \/ scene = "documents" /\ Next /\ UNCHANGED <<libraryVars, catalogVars>>
             \/ scene = "certificates" /\ Certifying /\ UNCHANGED <<vars, catalogVars>>
             \/ scene = "awards" /\ Awarding /\ UNCHANGED vars
             \/ scene = "scripts" /\ Scripting /\ UNCHANGED <<vars, catalogVars>>
             \/ scene = "names" /\ (Naming \/ Detailing) /\ UNCHANGED vars
         ]_<<vars, libraryVars, catalogVars, scene>>
==================================================================================
