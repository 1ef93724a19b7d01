--------------------------- MODULE MCScenarioSession ---------------------------
(* A small instance of ScenarioSession. *)
EXTENDS ScenarioSession

CONSTANTS r1, r2

\* r1 has a time limit and a stage on the way; r2 has neither
TwoUnits == [r \in Ranges |-> IF r = r1 THEN 2 ELSE NoLimit]
OneStage == {[id |-> "half time", range |-> r1, trigger |-> 1]}

\* Up to MaxInbox events are on their way to a browser: the tick or stage of a scenario, and behind it
\* the change of scenario. Once there are requests or entries, which no event carries, one at a time.
OneAtATime == help' \cup entries' # {} => \A c \in Clients : Len(inbox'[c]) <= 1

SpecScenes == Init /\ [][Next /\ OneAtATime]_vars /\ Fairness
================================================================================
