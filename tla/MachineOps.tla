-------------------------------- MODULE MachineOps --------------------------------
(***************************************************************************)
(* Long operations on the machines of the topology: Run Script             *)
(* (services/scriptExecution) and start / stop (services/vmPower). Both    *)
(* answer at once and finish in the background, in a promise that dies     *)
(* with the process, while discovery, node and environment deletion and    *)
(* the event reset go on. A script is guarded by its row in the database,  *)
(* a power operation by locks in memory.                                   *)
(*                                                                         *)
(* Composes with Topology: used and busy, which Topology leaves open, are  *)
(* here the nodes with a script_executions row and with a running one.     *)
(***************************************************************************)
EXTENDS Topology

CONSTANTS MaxExec, MaxJob   \* bounds on execution rowids and on scripts in flight

ASSUME MachineBoundsAreNatural == MaxExec \in Nat /\ MaxJob \in Nat

ExecIds == 1..MaxExec
JobIds  == 1..MaxJob

VARIABLES
    execs,      \* script_executions
    jobs,       \* executeInBackground in flight
    orphans,    \* history: running executions whose job died with the process
    ops,        \* runPower in flight
    locks,      \* locks: <<"env", id>> and <<"node", id>>
    changing,   \* nodes whose topology_nodes.status is starting or stopping
    adrift      \* history: ... left so by a crash, or set so by hand

scripts == <<execs, jobs, orphans>>
power   == <<ops, locks, changing, adrift>>
allVars == <<vars, scripts, power>>

NoExec == [status |-> "none"]
NoJob  == [exec |-> 0]
Exec   == [node : NodeIds, status : {"running", "succeeded", "failed"}]
\* own: history, FALSE once the job's row was wiped or answered by another job
Job    == [exec : ExecIds, vm : Machines \cup {Manual}, own : BOOLEAN]
\* todo: per machine still waited for, the nodes that stand for it
Op     == [env : EnvIds \cup {None}, nodes : SUBSET NodeIds, todo : SUBSET (SUBSET NodeIds)]

MachineTypeOK ==
    /\ execs \in [ExecIds -> Exec \cup {NoExec}]
    /\ jobs \in [JobIds -> Job \cup {NoJob}]
    /\ orphans \in SUBSET ExecIds
    /\ ops \in SUBSET Op
    /\ locks \in SUBSET (({"env"} \X EnvIds) \cup ({"node"} \X NodeIds))
    /\ changing \in SUBSET NodeIds
    /\ adrift \in SUBSET NodeIds

ExecRows   == {x \in ExecIds : execs[x] # NoExec}
Running(x) == execs[x].status = "running"

-------------------------------------------------------------------------------
(* Run Script                                                               *)

\* the partial unique index refuses a second running row on the node
RunScript(x, j, n) ==
    /\ Occupy(n)
    /\ IsNextRow(x, ExecRows)
    /\ jobs[j] = NoJob
    /\ execs' = [execs EXCEPT ![x] = [node |-> n, status |-> "running"]]
    /\ jobs' = [jobs EXCEPT ![j] = [exec |-> x, vm |-> nodes[n].key, own |-> TRUE]]
    /\ UNCHANGED <<orphans, power>>

\* the job is over; the row it answered is nobody else's any more
Answered(j) == [k \in JobIds |->
    IF k = j THEN NoJob
    ELSE IF jobs[k].exec = jobs[j].exec THEN [jobs[k] EXCEPT !.own = FALSE] ELSE jobs[k]]

\* UPDATE ... WHERE id = executionId, on whatever row has that id now
ScriptEnds(j, result) ==
    LET x == jobs[j].exec IN
    /\ jobs[j] # NoJob
    /\ jobs' = Answered(j)
    /\ IF x \in ExecRows
       THEN /\ execs' = [execs EXCEPT ![x].status = result]
            /\ IF Running(x) THEN Vacate(execs[x].node) ELSE UNCHANGED vars
       ELSE UNCHANGED <<execs, vars>>
    /\ UNCHANGED <<orphans, power>>

-------------------------------------------------------------------------------
(* Start and stop                                                           *)

LocksOf(op) == ({"env"} \X ({op.env} \ {None})) \cup ({"node"} \X op.nodes)

\* groupVmTargets: the nodes of S, one set per machine
Copies(S) == {{n \in S : nodes[n].key = v} : v \in {nodes[m].key : m \in S}}

VmNodes(e)  == {n \in NodeRows : nodes[n].env = e}
Siblings(n) == {m \in NodeRows : nodes[m].env = nodes[n].env /\ nodes[m].key = nodes[n].key}

\* runPower up to its first await; it may fail before there is one
Begin(op) ==
    /\ adrift' = adrift \ op.nodes
    /\ \/ /\ ops' = ops \cup {op}
          /\ locks' = locks \cup LocksOf(op)
          /\ changing' = changing \cup op.nodes
       \/ /\ changing' = changing \ op.nodes
          /\ UNCHANGED <<ops, locks>>
    /\ UNCHANGED <<vars, scripts>>

PowerEnvironment(e) ==
    LET op == [env |-> e, nodes |-> VmNodes(e), todo |-> Copies(VmNodes(e))] IN
    /\ e \in envs
    /\ VmNodes(e) # {}
    /\ LocksOf(op) \cap locks = {}
    /\ Begin(op)

\* Mutant: the machine's copies in other scenarios are locked and marked, not settled.
PowerNode_OneCopy(n) ==
    LET op == [env |-> None, nodes |-> Siblings(n), todo |-> {{n}}] IN
    /\ n \in NodeRows /\ nodes[n].env # None
    /\ <<"env", nodes[n].env>> \notin locks
    /\ LocksOf(op) \cap locks = {}
    /\ Begin(op)

PowerNode(n) ==
    LET op == [env |-> None, nodes |-> Siblings(n), todo |-> {Siblings(n)}] IN
    /\ n \in NodeRows /\ nodes[n].env # None
    /\ <<"env", nodes[n].env>> \notin locks
    /\ LocksOf(op) \cap locks = {}
    /\ Begin(op)

\* one machine's poller is done, or failed: its status is running, stopped or error; the
\* last one to be done ends the operation
TargetDone(op, t) ==
    /\ op \in ops /\ t \in op.todo
    /\ changing' = changing \ t
    /\ IF op.todo = {t}
       THEN /\ ops' = ops \ {op}
            /\ locks' = locks \ LocksOf(op)
       ELSE /\ ops' = (ops \ {op}) \cup {[op EXCEPT !.todo = @ \ {t}]}
            /\ UNCHANGED locks
    /\ adrift' = adrift \ t
    /\ UNCHANGED <<vars, scripts>>

\* the instructor picks any status by hand, also while an operation is under way
SetStatus(n, moving) ==
    /\ n \in NodeRows
    /\ changing' = IF moving THEN changing \cup {n} ELSE changing \ {n}
    /\ adrift' = IF moving THEN adrift \cup {n} ELSE adrift \ {n}
    /\ UNCHANGED <<vars, scripts, ops, locks>>

-------------------------------------------------------------------------------
(* The topology underneath                                                  *)

\* a row that goes takes its status with it, even when its id is used again
StatusFollowsRows ==
    LET kept == {n \in NodeRows : nodes'[n] # NoNode /\ nodes'[n].range = nodes[n].range
                                                    /\ nodes'[n].key = nodes[n].key} IN
    /\ changing' = changing \cap kept
    /\ adrift' = adrift \cap kept

TopologyChanges ==
    /\ \/ \E e \in EnvIds, r \in Ranges :
            RegisterEnvironment(e, r) \/ LinkEnvironment(r, e) \/ UnlinkEnvironment(r, e)
       \/ Discovering
       \/ \E n \in NodeIds : DeleteNode(n)
    /\ StatusFollowsRows
    /\ UNCHANGED <<scripts, ops, locks>>

\* power operations do not block it
RemoveEnvironment(e) ==
    LET gone == {x \in ExecRows : execs[x].node \in Footprint(e)} IN
    /\ DeleteEnvironment(e)
    /\ execs' = [x \in ExecIds |-> IF x \in gone THEN NoExec ELSE execs[x]]
    /\ orphans' = orphans \ gone
    /\ StatusFollowsRows
    /\ UNCHANGED <<jobs, ops, locks>>

\* the users of the event go, and their script_executions with them
ResetRuns ==
    /\ ResetEvent
    /\ execs' = [x \in ExecIds |-> NoExec]
    /\ jobs' = [j \in JobIds |-> IF jobs[j] = NoJob THEN NoJob ELSE [jobs[j] EXCEPT !.own = FALSE]]
    /\ orphans' = {}
    /\ UNCHANGED power

ProcessDies ==
    /\ Crash
    /\ jobs' = [j \in JobIds |-> NoJob]
    /\ orphans' = {x \in ExecRows : Running(x)}
    /\ ops' = {}
    /\ locks' = {}
    /\ adrift' = changing
    /\ UNCHANGED <<execs, changing>>

-------------------------------------------------------------------------------

MachineInit ==
    /\ Init
    /\ execs = [x \in ExecIds |-> NoExec]
    /\ jobs = [j \in JobIds |-> NoJob]
    /\ orphans = {}
    /\ ops = {}
    /\ locks = {}
    /\ changing = {}
    /\ adrift = {}

Scripting ==
    \/ \E x \in ExecIds, j \in JobIds, n \in NodeIds : RunScript(x, j, n)
    \/ \E j \in JobIds, result \in {"succeeded", "failed"} : ScriptEnds(j, result)

Powering ==
    \/ \E e \in EnvIds : PowerEnvironment(e)
    \/ \E n \in NodeIds : PowerNode(n) \/ \E moving \in BOOLEAN : SetStatus(n, moving)
    \/ \E op \in ops : \E t \in op.todo : TargetDone(op, t)

MachineNext ==
    \/ Scripting \/ Powering
    \/ TopologyChanges \/ \E e \in EnvIds : RemoveEnvironment(e)
    \/ ResetRuns \/ ProcessDies

MachineSpec == MachineInit /\ [][MachineNext]_allVars

-------------------------------------------------------------------------------
(* Properties                                                               *)

\* What Topology calls used and busy are the nodes with an execution and with a running
\* one: the rows the deletion of an environment counts as blockers and deletes.
HistoryAgrees ==
    /\ used = {execs[x].node : x \in ExecRows}
    /\ busy = {execs[x].node : x \in {y \in ExecRows : Running(y)}}

\* A script in flight still has its row, running, on a node of the machine it runs on,
\* unless an event reset wiped that row: no deletion, prune or rediscovery meanwhile makes
\* its result land nowhere or on another machine's history.
ScriptRowsAreTheirs == \A j \in JobIds : jobs[j] # NoJob /\ jobs[j].own =>
    LET x == jobs[j].exec IN
    x \in ExecRows /\ Running(x) /\ nodes[execs[x].node] # NoNode
                   /\ nodes[execs[x].node].key = jobs[j].vm

\* Every lock is held by exactly one operation in flight: none is left behind and none is
\* released under another operation, also when rowids are reused under them.
LocksAreHeld ==
    /\ locks = UNION {LocksOf(op) : op \in ops}
    /\ \A op, other \in ops : LocksOf(op) \cap LocksOf(other) # {} => op = other

\* A machine shown as starting or stopping has an operation at work on it, in every
\* scenario it appears in, unless the process died or the instructor set that status.
ChangingIsHeld == \A n \in changing :
    n \in adrift \/ \E op \in ops : \E t \in op.todo : n \in t

\* Operations at work on machines, the locks they hold and the statuses shown because of them
\* match one another: a lock or a 'starting' is never left with nobody at work.
PowerIsHeld == LocksAreHeld /\ ChangingIsHeld

\* An execution that shows as running has its job at work, or lost it with the process
\* (its node then takes no script, and its environment cannot be deleted, until an event
\* reset): no error path, deletion or late answer of another job leaves one behind.
RunningHaveJobs == \A x \in ExecRows :
    Running(x) => x \in orphans \/ \E j \in JobIds : jobs[j].exec = x

\* Scripts in flight and execution rows that say so match one another, in both directions.
JobsAreExecutions == ScriptRowsAreTheirs /\ RunningHaveJobs

===============================================================================
