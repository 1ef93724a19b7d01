--------------------------------- MODULE MCSetup ---------------------------------
(* What an event is set up with. A behaviour keeps to one of six scenes: the       *)
(* upgrade of the database; a scenario's topology being discovered, drawn and      *)
(* arranged, or discovered, drawn, connected and published; the secrets of two     *)
(* environments; the logins of a machine of one environment, or of one that        *)
(* changes hands between two, with a vault each.                                   *)
EXTENDS Upgrade, LabDrawing, MachineLogins, TLC

CONSTANTS anna, ANNA, bob,
          MaxEdits,   \* bound on the changes to the drawing
          HandLines,  \* bounds the lines drawn by hand, and the cards while there are any
          HandCards

VARIABLES scene, edits

MCName(s) == IF s = bob THEN "bob" ELSE "anna"

Vm(key, nics) == [key |-> key, kind |-> "vm", refs |-> nics]
Nic(key, subnets) == [key |-> key, kind |-> "nic", refs |-> subnets]

\* two subnets whose machines come before their interfaces; one, the other way round; and what is
\* left when a resource of the first could not be listed
MCInventories ==
    {[subnets |-> <<"s1", "s2">>,
      resources |-> <<Vm("a", <<"na">>), Vm("b", <<"nb">>), Nic("na", <<"s1">>), Nic("nb", <<"s2">>)>>],
     [subnets |-> <<"s1">>, resources |-> <<Nic("na", <<"s1">>), Vm("a", <<"na">>)>>],
     [subnets |-> <<"s2">>, resources |-> <<Vm("b", <<"gone", "na">>), Nic("na", <<"s1">>)>>]}
MCSpots == {<<0, 0>>}

SceneInit ==
    /\ UpgradeInit /\ LabInit /\ LoginsInit /\ edits = 0
    /\ scene \in {"upgrade", "arranging", "referring", "secrets", "logins", "vaults"}
    /\ scene # "upgrade" => was = Fresh

Edit ==
    /\ UNCHANGED <<upgradeVars, keyVars>>
    /\ edits' = IF drawing' = drawing \/ refused' # refused THEN edits ELSE edits + 1
    /\ edits' <= MaxEdits

FewLines ==
    /\ Cardinality({l \in lines' : l.by = "hand"}) <= HandLines
    /\ \A c \in CardIds : c > HandCards => cards'[c] = NoCard

OneSecret == CHOOSE secret \in Secrets : TRUE
OneVault == CHOOSE v \in Vaults : TRUE

\* the logins of one environment with one vault
LoginsOfOneEnvironment ==
    /\ \/ MachinesAndLogins
       \/ EnvRows = {} /\ RegisterEnvironment(OneSecret)
       \/ \E e \in EnvRows : DeleteEnvironmentWithSecrets(e)
    /\ \A e \in EnvIds : uri'[e] \in {OneVault, NoVault}

\* Machines and vaults change hands, with one request at a time, which succeeds if it is to save. The
\* first environment has either vault, the second comes upon the other one.
LoginsOfSeveralVaults ==
    /\ MachinesAndLogins \/ RegisterEnvironment(OneSecret)
    /\ Cardinality({r \in Requests : requests'[r] # Idle}) <= 1 /\ doubt' = {}
    /\ \A e \in EnvIds \ {1} : uri'[e] # OneVault
    /\ \A n \in NodeIds : targets'[n].row => targets'[n].stored /\ targets'[n].enabled

SetupSpec ==
    /\ SceneInit
    /\ [][/\ UNCHANGED scene
          /\ \/ scene = "upgrade" /\ UpgradeNext /\ UNCHANGED <<labVars, keyVars, edits>>
             \/ scene = "arranging" /\ (Discovering \/ Drawing \/ Arranging) /\ Edit
             \/ scene = "referring" /\ (Discovering \/ Drawing \/ Referring) /\ Edit /\ FewLines
             \/ scene = "secrets" /\ Environments /\ UNCHANGED <<upgradeVars, labVars, edits>>
             \/ scene = "logins" /\ LoginsOfOneEnvironment /\ UNCHANGED <<upgradeVars, labVars, edits>>
             \/ scene = "vaults" /\ LoginsOfSeveralVaults /\ UNCHANGED <<upgradeVars, labVars, edits>>
         ]_<<upgradeVars, labVars, keyVars, scene, edits>>
==================================================================================
