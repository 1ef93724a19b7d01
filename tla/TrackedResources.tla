------------------------------ MODULE TrackedResources ------------------------------
(***************************************************************************)
(* What the AI documents promise about the files and vector stores they    *)
(* create in Microsoft Foundry: each one the server hears of is tracked    *)
(* from then on, nothing that is needed is ever removed, and nothing that  *)
(* was removed is ever needed again. A resource may be lost only while its *)
(* creation is still in flight.                                            *)
(***************************************************************************)
CONSTANT Resources

VARIABLES
    made,       \* created in Foundry
    live,       \* ... and not removed from it
    tracked,    \* the server has it on record, for good
    lost,       \* created, and the server will never hear of it
    needed      \* an assessment may be sent to it, now or once it is indexed

vars == <<made, live, tracked, lost, needed>>

TypeOK ==
    /\ made \in SUBSET Resources
    /\ live \in SUBSET made
    /\ tracked \in SUBSET made
    /\ lost \in SUBSET (made \ tracked)
    /\ needed \in SUBSET (tracked \cap live)

Init == made = {} /\ live = {} /\ tracked = {} /\ lost = {} /\ needed = {}

\* What is needed may change in any step, among what is tracked and still there.
NeedsAreServed == needed' \in SUBSET (tracked' \cap live')

Create(x) ==
    /\ x \notin made
    /\ made' = made \cup {x}
    /\ live' = live \cup {x}
    /\ UNCHANGED <<tracked, lost>>

Track(x) ==
    /\ x \in made \ (tracked \cup lost)
    /\ tracked' = tracked \cup {x}
    /\ UNCHANGED <<made, live, lost>>

Lose(S) ==
    /\ S \in SUBSET (made \ (tracked \cup lost))
    /\ lost' = lost \cup S
    /\ UNCHANGED <<made, live, tracked>>

Remove(x) ==
    /\ x \in (tracked \cap live) \ needed
    /\ live' = live \ {x}
    /\ UNCHANGED <<made, tracked, lost>>

Next ==
    /\ \/ \E x \in Resources : Create(x) \/ Track(x) \/ Remove(x)
       \/ \E S \in SUBSET Resources : Lose(S)
    /\ NeedsAreServed

Spec == Init /\ [][Next]_vars
=====================================================================================
