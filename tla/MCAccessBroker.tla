---------------------------- MODULE MCAccessBroker ----------------------------
(* Small instances of AccessBroker for TLC.                                 *)
EXTENDS AccessBroker, TLC

CONSTANTS r1, r2, n1, h1

\* one machine, in scenario r1 of {r1, r2}
OneNode == n1 :> r1
OneHost == n1 :> h1

\* The whole of Next has too many interleavings for one run. A run starts from an
\* event in progress (a state Next reaches from Init) and leaves out the actions its
\* question does not need.
InitLive ==
    /\ member = [u \in Users |-> "none"]
    /\ team = [u \in Users |-> NoTeam]
    /\ teams = {1}
    /\ scenario = [t \in Teams |-> IF t = 1 THEN r1 ELSE NoRange]
    /\ target = [n \in Nodes |-> "on"]
    /\ shown = Nodes
    /\ sessions = [id \in SessionIds |-> NoRow]
    /\ links = {}
    /\ request = [u \in Users |-> Idle]
    /\ restore = [u \in Users |-> NoRestore]
    /\ cleaning = {}
    /\ revoke = [r \in Revokers |-> NotRevoking]
    /\ found = [r \in Revokers |-> {}]
    /\ frozen = FALSE
    /\ job = "idle"
    /\ stranded = {}

\* who and what may take an authorization away, against Connect, expiry and cleanup
SpecGrants == InitLive /\ [][People \/ Machines \/ Connect \/ Ending \/ Expiry \/ Cleaning]_vars

\* what must come to an end: a session, a reset job, a Connect; restores against whatever
\* ends, deletes or hides their session while they wait; and what becomes of the links
\* meanwhile, through reset jobs, revokes and crashes
SpecLive == InitLive /\ Fairness /\ [][
    \/ \E u \in Users, t \in Teams \cup {NoTeam} : Register(u, t)
    \/ \E u \in Users : RemoveUser(u)
    \/ \E t \in Teams : CreateTeam(t)
    \/ Publishing
    \/ Connect \/ Ending \/ Expiry \/ Cleaning \/ Restoring \/ Resetting \/ Crash]_vars
===============================================================================
