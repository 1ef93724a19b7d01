------------------------------ MODULE TimeToDetect ------------------------------
(***************************************************************************)
(* When an expected technique happened in a scenario, and how long a team  *)
(* took to detect it.  A technique may name a script of the library as its *)
(* trigger and a host it is pinned to; a run of the script that succeeds   *)
(* leaves an occurrence at the time the run was sent.  Staff may also mark *)
(* one, and delete any.                                                    *)
(*                                                                         *)
(* A run takes minutes.  Meanwhile its script may be deleted and another   *)
(* one given its rowid, the triggers changed, or the event reset; the      *)
(* answer comes back by the rowid of the execution, and finds the triggers *)
(* of that moment.  One scenario; a script always suits its host's system. *)
(***************************************************************************)
EXTENDS Integers, Sequences, FiniteSets, FiniteSetsExt

CONSTANTS MaxScript, MaxExec, MaxHost, MaxTechnique, MaxOccurrence,   \* bounds on rowids
          MaxTime, MaxSerial, MaxResets                              \* and on what grows

ASSUME DetectAssumption ==
    {MaxScript, MaxExec, MaxHost, MaxTechnique, MaxOccurrence, MaxTime, MaxSerial, MaxResets} \subseteq Nat

VARIABLES
    time, began,   \* now, and when the event run began
    library,       \* [ScriptIds -> serial number of the script in that row, or Nil]
    techniques,    \* the expected techniques, in the order they were added; history: .wanted is the
                   \* serial number of the script last chosen as the trigger
    machines,      \* the rowids of hosts
    runs,          \* [RunIds -> row of script_executions, or NoRun]
    sent,          \* commands in flight: the execution, and history: the script it is a run of
    occurrences,   \* [OccurrenceIds -> row of ttp_occurrences, or NoOccurrence]
    serial, resets,
    happened,      \* history: what really happened, and counts
    strayed        \* history: an answer from before a reset has met a row of this event run

detectVars == <<time, began, library, techniques, machines, runs, sent, occurrences, serial, resets,
                happened, strayed>>

Nil == 0
NoRun == [host |-> Nil, script |-> Nil, running |-> FALSE, at |-> 0]
NoOccurrence == [technique |-> Nil, at |-> 0, run |-> Nil]

ScriptIds == 1..MaxScript
RunIds == 1..MaxExec
OccurrenceIds == 1..MaxOccurrence
Library == {s \in ScriptIds : library[s] # Nil}
Live == {e \in DOMAIN techniques : techniques[e].live}
Runs == {x \in RunIds : runs[x] # NoRun}
Occurrences == {o \in OccurrenceIds : occurrences[o] # NoOccurrence}
Following(rows) == IF rows = {} THEN 1 ELSE Max(rows) + 1
SerialOf(s) == IF s = Nil THEN Nil ELSE library[s]

HostIds == 1..MaxHost
Technique == [live : BOOLEAN, trigger : ScriptIds \cup {Nil}, host : HostIds \cup {Nil}, wanted : Nat]

DetectTypeOK ==
    /\ time \in Nat /\ began \in 0..time /\ serial \in Nat /\ resets \in Nat
    /\ library \in [ScriptIds -> 0..serial]
    /\ techniques \in Seq(Technique)
    /\ machines \subseteq HostIds
    /\ runs \in [RunIds -> [host : HostIds \cup {Nil}, script : ScriptIds \cup {Nil}, running : BOOLEAN, at : 0..time]]
    /\ sent \subseteq [run : RunIds, ran : 0..serial, own : BOOLEAN]
    /\ occurrences \in [OccurrenceIds -> [technique : Nat, at : 0..time, run : RunIds \cup {Nil}]]
    /\ strayed \in BOOLEAN

-----------------------------------------------------------------------------
(* The library and the expected techniques                                  *)

CreateScript ==
    LET s == Following(Library)
    IN  /\ s \in ScriptIds /\ serial < MaxSerial
        /\ serial' = serial + 1
        /\ library' = [library EXCEPT ![s] = serial + 1]
        /\ UNCHANGED <<time, began, techniques, machines, runs, sent, occurrences, resets, happened, strayed>>

\* Mutant: a technique keeps the rowid of its deleted trigger.
Untriggered_Kept(e, s) == techniques[e].trigger
\* ON DELETE SET NULL
Untriggered(e, s) == IF techniques[e].trigger = s THEN Nil ELSE techniques[e].trigger

DeleteScript(s) ==
    /\ library' = [library EXCEPT ![s] = Nil]
    /\ techniques' = [e \in DOMAIN techniques |->
         [techniques[e] EXCEPT !.trigger = Untriggered(e, s), !.wanted = IF @ = library[s] THEN Nil ELSE @]]
    /\ runs' = [x \in RunIds |-> IF runs[x].script = s THEN [runs[x] EXCEPT !.script = Nil] ELSE runs[x]]
    /\ UNCHANGED <<time, began, machines, sent, occurrences, serial, resets, happened, strayed>>

ExpectTechnique(s, h) ==
    /\ Len(techniques) < MaxTechnique
    /\ techniques' = Append(techniques, [live |-> TRUE, trigger |-> s, host |-> h, wanted |-> SerialOf(s)])
    /\ UNCHANGED <<time, began, library, machines, runs, sent, occurrences, serial, resets, happened, strayed>>

EditTechnique(e, s, h) ==
    /\ techniques' = [techniques EXCEPT ![e] = [live |-> TRUE, trigger |-> s, host |-> h, wanted |-> SerialOf(s)]]
    /\ UNCHANGED <<time, began, library, machines, runs, sent, occurrences, serial, resets, happened, strayed>>

\* a technique that is removed keeps its row; expecting it again makes a new one
UnexpectTechnique(e) ==
    /\ techniques' = [techniques EXCEPT ![e].live = FALSE]
    /\ UNCHANGED <<time, began, library, machines, runs, sent, occurrences, serial, resets, happened, strayed>>

-----------------------------------------------------------------------------
(* Hosts                                                                    *)

FindHost ==
    /\ Following(machines) <= MaxHost
    /\ machines' = machines \cup {Following(machines)}
    /\ UNCHANGED <<time, began, library, techniques, runs, sent, occurrences, serial, resets, happened, strayed>>

RunsOn(hosts) == {x \in Runs : runs[x].host \in hosts}

\* one host, refused once something ran on it, or all of an environment, refused while something runs:
\* the executions and their occurrences go, and the techniques are pinned no more
LoseHosts(hosts) ==
    /\ hosts # {}
    /\ \/ Cardinality(hosts) = 1 /\ RunsOn(hosts) = {}
       \/ hosts = machines /\ ~ \E x \in RunsOn(hosts) : runs[x].running
    /\ machines' = machines \ hosts
    /\ techniques' = [e \in DOMAIN techniques |-> IF techniques[e].host \in hosts THEN [techniques[e] EXCEPT !.host = Nil]
                                                  ELSE techniques[e]]
    /\ occurrences' = [o \in OccurrenceIds |-> IF occurrences[o].run \in RunsOn(hosts) THEN NoOccurrence ELSE occurrences[o]]
    /\ runs' = [x \in RunIds |-> IF x \in RunsOn(hosts) THEN NoRun ELSE runs[x]]
    /\ happened' = {h \in happened : h.run \notin RunsOn(hosts)}
    /\ UNCHANGED <<time, began, library, sent, serial, resets, strayed>>

-----------------------------------------------------------------------------
(* Runs                                                                     *)

\* one run at a time on a host (a unique index); a run may have no library script
RunScript(s, h) ==
    LET next == Following(Runs)
    IN  /\ ~ \E x \in RunsOn({h}) : runs[x].running
        /\ next \in RunIds
        /\ runs' = [runs EXCEPT ![next] = [host |-> h, script |-> s, running |-> TRUE, at |-> time]]
        /\ sent' = sent \cup {[run |-> next, ran |-> SerialOf(s), own |-> TRUE]}
        /\ UNCHANGED <<time, began, library, techniques, machines, occurrences, serial, resets, happened, strayed>>

Triggered(x) == {e \in Live : /\ runs[x].script # Nil /\ techniques[e].trigger = runs[x].script
                              /\ techniques[e].host \in {Nil, runs[x].host}}

NewOccurrences(x) == {o \in OccurrenceIds : o >= Following(Occurrences) /\ o < Following(Occurrences) + Cardinality(Triggered(x))}

\* what the run of j really sets off: the techniques whose author wants its script to, here
Due(j) == {e \in Live : /\ j.ran # Nil /\ techniques[e].wanted = j.ran
                        /\ techniques[e].host \in {Nil, runs[j.run].host}}

\* recordScriptOccurrences
RunSucceeds(j) ==
    LET new == NewOccurrences(j.run)
        nth == CHOOSE f \in [new -> Triggered(j.run)] : \A o, p \in new : o # p => f[o] # f[p]
    IN  /\ sent' = sent \ {j}
        /\ IF j.run \notin Runs
           THEN UNCHANGED <<runs, occurrences, happened, strayed>>
           ELSE /\ Cardinality(new) = Cardinality(Triggered(j.run))
                /\ runs' = [runs EXCEPT ![j.run].running = FALSE]
                /\ occurrences' = [o \in OccurrenceIds |->
                     IF o \in new THEN [technique |-> nth[o], at |-> runs[j.run].at, run |-> j.run] ELSE occurrences[o]]
                /\ happened' = IF j.own THEN happened \cup {[technique |-> e, at |-> runs[j.run].at, run |-> j.run] : e \in Due(j)}
                               ELSE happened
                /\ strayed' = (strayed \/ ~j.own)
        /\ UNCHANGED <<time, began, library, techniques, machines, serial, resets>>

RunFails(j) ==
    /\ sent' = sent \ {j}
    /\ runs' = IF j.run \in Runs THEN [runs EXCEPT ![j.run].running = FALSE] ELSE runs
    /\ strayed' = (strayed \/ (j.run \in Runs /\ ~j.own))
    /\ UNCHANGED <<time, began, library, techniques, machines, occurrences, serial, resets, happened>>

\* the commands are forgotten; the executions show as running until they are deleted
ServerRestarts ==
    /\ sent # {} /\ sent' = {}
    /\ UNCHANGED <<time, began, library, techniques, machines, runs, occurrences, serial, resets, happened, strayed>>

-----------------------------------------------------------------------------
(* Marks, and the event                                                     *)

\* "Mark occurred": at a time of this event run, now or earlier
MarkOccurred(e, at) ==
    LET o == Following(Occurrences)
    IN  /\ o \in OccurrenceIds /\ began <= at /\ at <= time
        /\ occurrences' = [occurrences EXCEPT ![o] = [technique |-> e, at |-> at, run |-> Nil]]
        /\ happened' = happened \cup {[technique |-> e, at |-> at, run |-> Nil]}
        /\ UNCHANGED <<time, began, library, techniques, machines, runs, sent, serial, resets, strayed>>

DeleteOccurrence(o) ==
    LET left == [occurrences EXCEPT ![o] = NoOccurrence]
    IN  /\ occurrences' = left
        /\ happened' = IF \E p \in OccurrenceIds : left[p] = occurrences[o] THEN happened ELSE happened \ {occurrences[o]}
        /\ UNCHANGED <<time, began, library, techniques, machines, runs, sent, serial, resets, strayed>>

\* deleting the event run deletes its users and, with them, their executions; a command in flight goes on
EventIsReset ==
    /\ resets < MaxResets
    /\ resets' = resets + 1 /\ began' = time
    /\ runs' = [x \in RunIds |-> NoRun]
    /\ occurrences' = [o \in OccurrenceIds |-> NoOccurrence]
    /\ sent' = {[j EXCEPT !.own = FALSE] : j \in sent}
    /\ happened' = {} /\ strayed' = FALSE
    /\ UNCHANGED <<time, library, techniques, machines, serial>>

Tick ==
    /\ time < MaxTime /\ time' = time + 1
    /\ UNCHANGED <<began, library, techniques, machines, runs, sent, occurrences, serial, resets, happened, strayed>>

-----------------------------------------------------------------------------
(* The report                                                               *)

RecordedFor(e) == {occurrences[o].at : o \in {p \in Occurrences : occurrences[p].technique = e}}

\* for a team that first started the scenario at `start` and detected at `found`
ComputeMttd(times, start, found) ==
    LET inWindow == {t \in times : start <= t /\ t <= found}
    IN  IF inWindow # {} THEN [measurable |-> TRUE, seconds |-> found - Min(inWindow)]
        ELSE [measurable |-> FALSE, reason |-> IF \E t \in times : t >= start THEN "detected before" ELSE "none recorded"]

-----------------------------------------------------------------------------

DetectInit ==
    /\ time = 0 /\ began = 0 /\ serial = 0 /\ resets = 0
    /\ library = [s \in ScriptIds |-> Nil] /\ techniques = <<>> /\ machines = {}
    /\ runs = [x \in RunIds |-> NoRun] /\ sent = {}
    /\ occurrences = [o \in OccurrenceIds |-> NoOccurrence]
    /\ happened = {} /\ strayed = FALSE

Authoring ==
    \/ CreateScript \/ \E s \in Library : DeleteScript(s)
    \/ \E s \in Library \cup {Nil}, h \in machines \cup {Nil} :
         ExpectTechnique(s, h) \/ \E e \in Live : EditTechnique(e, s, h)
    \/ \E e \in Live : UnexpectTechnique(e)

Happening ==
    \/ FindHost \/ \E hosts \in {machines} \cup {{h} : h \in machines} : LoseHosts(hosts)
    \/ \E h \in machines, s \in Library \cup {Nil} : RunScript(s, h)
    \/ \E j \in sent : RunSucceeds(j) \/ RunFails(j)
    \/ \E e \in Live, at \in began..time : MarkOccurred(e, at)
    \/ \E o \in Occurrences : DeleteOccurrence(o)
    \/ ServerRestarts \/ EventIsReset \/ Tick

DetectNext == Authoring \/ Happening

DetectSpec == DetectInit /\ [][DetectNext]_detectVars

-----------------------------------------------------------------------------
(* Property                                                                 *)

\* A time to detect is measured exactly when the technique happened between the team's start and its
\* detection, and from the first time it did; when it is not, the reason given is the right one. What
\* happened is what staff marked and the runs, on the technique's host, of the very script its author
\* chose: whatever was deleted and given the rowid of the script, the host or the run meanwhile. (An
\* answer that comes after a reset may meet the row of another run; ttpMatching: "there is deliberately
\* NO fallback", "one after the detection can't be what the team detected".)
TimesToDetectAreReal == ~strayed =>
    \A e \in Live, start, found \in 0..time :
      LET m == ComputeMttd(RecordedFor(e), start, found)
          times == {h.at : h \in {g \in happened : g.technique = e}}
      IN  start <= found =>
            /\ m.measurable <=> \E t \in times : t \in start..found
            /\ m.measurable => found - m.seconds \in times /\ \A t \in times \cap (start..found) : found - t <= m.seconds
            /\ ~m.measurable => (m.reason = "detected before" <=> \E t \in times : t > found)
=============================================================================
