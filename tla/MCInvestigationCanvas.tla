------------------------- MODULE MCInvestigationCanvas -------------------------
(* A small instance of InvestigationCanvas. A behaviour keeps to one of three     *)
(* scenes: two teammates on one scenario's board, each with one change under way; *)
(* a student alone, whose changes overlap; teammates who look at two scenarios.   *)
EXTENDS InvestigationCanvas, TLC

CONSTANTS r1, a

VARIABLE scene

\* browsers of one kind, slots, and labels other than a, are told apart by equality only
CanvasSymmetry == Permutations(Authors) \cup Permutations(Slots)

\* one browser has the board in front of it; the others have yet to read it, if they are there at all
Drawing(c) ==
    /\ view = [d \in Clients |-> IF d = c THEN [range |-> r1, editable |-> TRUE] ELSE Hidden]
    /\ cache = [d \in Clients |-> [r \in Scenarios |-> IF d = c /\ r = r1 THEN Board(r1) ELSE NoData]]
    /\ online = [d \in Clients |-> scene # "alone" \/ d = c]

\* a team that has two nodes on r1, and works on it
InitDrawn ==
    /\ active = r1
    /\ nodes = {[id |-> i, range |-> r1, label |-> a] : i \in {1, 2}}
    /\ edges = {} /\ writes = 0 /\ faults = 0
    /\ fetch = [c \in Clients |-> [r \in Scenarios |-> NotAsked]]
    /\ request = [c \in Clients |-> [k \in Slots |-> NoMutation]]
    /\ scene \in {"teammates", "alone", "elsewhere"}
    /\ \E c \in Authors : Drawing(c)
    /\ inbox = [c \in Clients |-> <<>>]
    /\ missed = [c \in Clients |-> [r \in Scenarios |-> Nothing]]

UnderWay(cs) == Cardinality({m \in cs \X Slots : request'[m[1]][m[2]] # NoMutation})
OneScenario == {active'} \cup {view'[c].range : c \in Clients} \subseteq {r1, NoRange}

\* two changes, or one and something that goes wrong
Teammates == OneScenario /\ (\A c \in Clients : UnderWay({c}) <= 1) /\ writes' + faults' <= 2
Alone == UNCHANGED <<active, view, fetch, online>> /\ writes' + faults' <= 3
\* one browser stays where it works, and all that may go wrong is a read of the other
Elsewhere ==
    /\ writes' <= 1
    /\ faults' = faults \/ (faults = 0 /\ missed' # missed /\ UNCHANGED online)
    /\ \E c \in Authors :
        /\ view'[c].editable /\ fetch'[c] = [r \in Scenarios |-> NotAsked]
        /\ \A d \in Clients : Cardinality({r \in Scenarios : fetch'[d][r] # NotAsked}) <= 1
        /\ UnderWay({c}) = UnderWay(Clients) /\ UnderWay({c}) <= 1

SpecScenes ==
    /\ InitDrawn
    /\ [][/\ CanvasNext /\ UNCHANGED scene
          /\ scene = "teammates" => Teammates
          /\ scene = "alone" => Alone
          /\ scene = "elsewhere" => Elsewhere]_<<canvasVars, scene>>
=================================================================================
