# Formal models of the cyber-range platform

TLA+ models of the cyber-range platform (its server, `src/server`, and what the client,
`src/client`, keeps of the server's state), the TLC configurations that check them on small
instances, and theorems about them that the TLA+ proof system (TLAPS) checks for every
instance.

1. The system, part by part
2. Modules and how they correspond to the code
3. What is checked, and with which bounds
4. Fairness
5. What is proved
6. What is only model-checked, and why
7. What the models leave out
8. Observations
9. Plan

`PROJECT.json` holds the same in a form for machines: the parts, the runs, the mutants that
show each property bites, the lines of code behind every definition, the hazards with the
properties that look at them, and the theorems. An operation stands for its handler; a group of
operations (`Ending`, `Scripting`, `LabNext`) for the routes or the page that ask for them.

## 1. The system

One Node process (Express 4 over `node:sqlite`, which is synchronous) serves instructors
and teams of students during an event. Three facts decide how everything is modelled:

* Code between two `await`s cannot be interrupted. A handler without an `await` is one
  step. A handler with awaits is one step per stretch, and what it remembers across the
  await (ids, rows read, a decision taken) is state that other steps make stale.
* State lives in four places: SQLite rows, which survive a restart and whose foreign keys
  cascade or refuse; memory (locks, jobs, the freeze flag, promises in flight, sockets),
  which a restart empties; services away from the process (Azure, Key Vault, Microsoft
  Foundry), whose answers come late or not at all; and the query caches of open browsers.
* Row ids are `INTEGER PRIMARY KEY` without `AUTOINCREMENT`, so the id of a deleted last
  row is handed out again, and an id remembered across an await may come to mean something
  else.

| Part | State | Operations | Interacts with | What is hard | What makes it correct |
|---|---|---|---|---|---|
| Access broker (`services/accessBroker`) | `access_sessions`, Bastion links (one per VM), freeze flag | Connect, instructor Connect, end, force-close, restore, expiry sweep, link cleanup, revoke all | users, teams, progress, topology, publication, Azure | check, then many seconds of Azure, then insert; one link shared by several sessions | no session outlives a grant it had; no link is forgotten; every session, Connect and job ends |
| Event reset (`routes/admin/event`) | an in-memory job, `event_runs` | reset with or without override, manual revoke | broker, every RUN table by cascade | minutes of Azure calls between freezing and wiping | remote access is never left frozen |
| Scenario progress, clock, help (`cyberRangeProgress`, `clock`, `helpRequests`) | `team_cyber_range_progress`, announced stage, time-up set, `help_requests` | start, pause, complete, tick, ask, resolve | broker, scoring, browsers' clocks | one active scenario per team; announcements remembered in memory and keyed by reusable ids | help follows the active scenario; the end of the time is told once per run; late entries are marked |
| Topology (`environments`, `discovery`, `azureDiscoveryProvider`, `topologyLayout`, `topologyPublication`, `routes/admin/topology`) | environments, nodes, zones, edges, runs, snapshots | register, link, discover, draw, arrange, publish, delete | Azure, sessions, scripts | a discovery writes minutes after it was asked; several environments may report one machine; references kept by hand | owners agree with runs; a deletion takes exactly what it owns; drawings and snapshots name only what is there; an arranged drawing does not overlap |
| VM power and scripts (`vmPower`, `scriptExecution`) | locks in memory, node status, `script_executions` | start / stop, run, finish in background | topology, occurrences | overlapping lock sets; results written by id minutes later | locks have one holder; a result lands on its own row |
| Secrets (`credential.service`, `keyVault`, machine logins) | encrypted rows, vault secrets, `access_targets` | save, rotate, copy, remove, recover, show | environments, nodes | two stores written one after the other; names made from reusable ids | every environment and machine has its own login, whole |
| TTP scoring and what is shown of it (`ttpScoring`, `scoring`, `ttpMatching`, reports) | expectations, entries, tags, detections, scores, occurrences | tag, expect, edit, remove, void, credit by hand, award, mark occurrences | progress (reveal), documentation, scripts | several tables kept in step by hand, in any order of arrival | credits and score rows pair up; a credit is due; the budget holds; all pages tell one story; times to detect are real |
| AI documents (`services/ai/scenarioAiDocuments`) | document versions, tracked Foundry resources | upload, index in background, promote, retry, rebuild, clean up | Foundry, assessments | check, then await; a crash between a remote create and the row that tracks it | every remote resource is tracked; nothing in use is deleted |
| AI assessments (`assessmentRunner`, `assessmentValidation`, `AiBatchDialog`) | `ai_assessments`, jobs, the dialog's queue | request, run with one retry, validate, decide, post feedback, batch | AI documents, documentation | the agent may answer anything; rows go while their jobs run | a result is sound for its request; equal work in an equal session is paid for once; decisions rest on results; batches end |
| Accounts, teams, sign-in (`accounts`, `registration`, `profile`, `authz/principal`, `sockets`) | accounts, students, tokens, sockets | create, rename, move, disable, sign in and out | broker | one namespace over two tables; tokens and sockets outlive changes to their owner | names are one person's; tokens never change what they may do; sockets go with them |
| Organizations and scope (`organizations`, `authz/scope`, every scoped route) | organizations, instructors' pairs | assign, move teams, every scoped read and write | progress, scoring, broker | pairs, not cross products; rows that outlive people | instructors keep to their pairs; records outlive their authors |
| Catalogue and libraries (`cyberRangeCatalog`, `environments`, `certificateTemplates`, scripts; `ScenarioDetailsForm`, `CertificatesPage`, `ScriptLibraryPage`) | scenarios, their links and certificate, templates with one default, scripts; drafts and lists in every open page | register, rename, link, delete; pick, save, make the default | topology, certificates, scripts | pages save by an id read long before; a rename recognises its scenarios by their name | words are saved to the row they were written for; a scenario awards what was picked and bears the name it was given |
| Records of an event (`dashboard`, `history`, `eventExport`, `certificates`, leaderboard) | grants, otherwise queries | query, grant, revoke | all | five queries over the same rows, each written by hand | work stays visible and totals agree |
| Investigation canvas | nodes, edges, and a copy in every open browser | create, edit, delete, patch by event, optimistic update, undo | sockets | answers and events arrive in either order | a settled board shows the rows |
| Client caches and sockets (`socketClient`, pages' queries and listeners) | query cache per page | fetch, invalidate, patch, poll | every route | events lost, overtaken or never sent | a change reaches the screen, but for named exceptions |
| Start of the server (`db/migrate`, `seed`, `importScriptLibrary`) | the whole database | create, rebuild, fill, publish, import | – | killed after any statement, begun again | records are kept or the loss is explained |

## 2. Modules

A model module has its `MC…` module (a small instance with a restricted state space, its
scenes, its symmetry) and a module of proofs.

| Module | Stands for | Instance and run | Theorems in |
|---|---|---|---|
| `AccessBroker` | access broker, event reset, the routes that withdraw an authorization | `MCAccessBroker`: `grants`, `liveness` | `AccessBrokerProofs` |
| `Topology` | environments, discovery, nodes, publication and deletion | `MCMachineOps`: `machines` | `MachineOpsProofs` |
| `MachineOps` | scripts and power operations, composed with `Topology` | `MCMachineOps`: `machines` | `MachineOpsProofs` |
| `LabDrawing` | zones, cards, lines, layout and snapshot of one topology | `MCSetup`: `setup` | `SetupProofs` |
| `MachineLogins` | service principals and machine logins | `MCSetup`: `setup` | `SetupProofs` |
| `Upgrade` | migrate, seed and import at every start | `MCSetup`: `setup` | `SetupProofs` |
| `TtpScoring` | tags, expectations, credits and scores of one scenario | `MCTtpScoring`: `scoring` | `TtpScoringProofs` |
| `Debrief` | reports, chips, summary, score list and leaderboard over `TtpScoring` | `MCTtpScoring`: `scoring` | `TtpScoringProofs` |
| `TimeToDetect` | triggers, runs, occurrences and times to detect | `MCIdentities`: `identities` | `IdentitiesProofs` |
| `ScenarioSession` | active scenario, clock, stages, help, late entries, header clocks | `MCScenarioSession`: `session` | `ScenarioProofs` |
| `Libraries` | certificate templates, scripts, and the pages that edit them | `MCAiDocuments`: `documents` | `ScenarioProofs` |
| `ScenarioCatalog` | scenarios, their names, environments and certificates, the details form, over `Libraries` | `MCAiDocuments`: `documents` | `ScenarioProofs` |
| `TrackedResources` | abstract promise about Foundry resources | – (refined by `AiDocuments`) | `AiProofs` |
| `AiDocuments` | versions, indexing jobs, pins and clean-up | `MCAiDocuments`: `documents` | `AiProofs` |
| `AssessmentReply` | the deterministic checks on the agent's reply | `MCAiAssessments`: `assessments` | `AiProofs` |
| `AiAssessments` | requests, jobs, reuse, decisions, feedback | `MCAiAssessments`: `assessments` | `AiProofs` |
| `AiBatch` | the dialog that assesses many sessions | `MCAiAssessments`: `assessments` | – |
| `Identities` | names, accounts, students, tokens, sockets | `MCIdentities`: `identities` | `IdentitiesProofs` |
| `WorkScope` | organizations, pairs, and who may touch whose work | `MCWorkScope`: `scope` | `WorkScopeProofs` |
| `EventRecords` | dashboard, history, summary, export, certificates over `WorkScope` | `MCWorkScope`: `scope` | `WorkScopeProofs` |
| `InvestigationCanvas` | the canvas on the server and in every open browser | `MCInvestigationCanvas`: `canvas` | `WorkScopeProofs` |
| `LiveViews` | what every page fetches, hears and shows | `MCLiveViews`: `views` | – |
| `AiSessions` | the set of teams the AI modules share | | |

Definitions are named after the functions and columns they model where TLA+ allows it.
Operators named `X_Something`, `XOnce` and the like and marked "Mutant" are wrong versions
of `X`: each breaks the property it was written for and shows that the property looks at
that code.

**`AccessBroker`.** `sessions` are the rows of `access_sessions`; `links` is what exists in
Bastion. What is in flight across an await is a variable: `request` (a Connect), `restore`,
`cleaning` (the un-awaited half of `cleanupShareableLink`), `revoke` and `found` (the loop
of `revokeAllShareableLinks`), `job` and `frozen` (the reset). One user has one Connect and
one restore in flight at a time, which is a bound, not a rule of the code. A Connect is
`RequestSession` (every check), `LinkCreated`, then `InsertSession`, `ConnectFails` or
`InsertRefused`; nothing is checked again after the first. `granted` records whether the
authorization still held when the row was written. `InsertRefused` is a `Crash`: Express 4
ignores the promise of an async handler, so a foreign key failure after the await ends the
process. `stranded` is history: the links that a named failure left behind.

**`Topology`, `MachineOps`.** `nodes`, `runs`, `envs` and `linked` are rows; `searching` is
the promise of a discovery; `published` holds the (id, external key) pairs of a snapshot.
`pinned` and `used` are the two ways a foreign key can refuse to let a node go.
`MachineOps` EXTENDS `Topology` and makes `used` and `busy` precise: every action is a
`Topology` action conjoined with what happens to scripts and statuses, or leaves
`Topology`'s variables alone. Locks are keyed by node and by environment, as in the code:
copies of one machine in two environments share no key.

**`LabDrawing`** has the geometry `topologyLayout` computes (columns, rows, padded frames)
as integer arithmetic, because "can never touch" is its promise; `PlaceInZone`,
`AutoLayout`, `PublishDrawing` and the sweep in `Discover` are whole handlers.
**`MachineLogins`** lets a vault answer at any time between the start of a request and
the write that follows, and models `leaving` and `recoverable` secrets. A secret is looked for
in the vault of the environment its machine belongs to at that moment (`VaultOf`), and
`DiscoverHosts` hands machines from one environment to another and replaces an environment's
vault; where a login was really saved is history (the field `in` of a target). **`Upgrade`** has
one step per committed statement of `migrate.ts`, `seed.ts` and `importScriptLibrary.ts`,
and a crash between any two.

**`TtpScoring`, `Debrief`, `TimeToDetect`.** Every handler is synchronous, so each is one
action; but a route's write and the `reconcileTeamTtps` after it are two transactions, and
the `…ThenDie` actions let the process die between them. `tags` keeps removed tags, as the
table does, because the technique budget counts them. `voids` remembers why a credit went.
`Debrief` states each report as the query it is. `TimeToDetect` follows script runs whose
answer comes back by execution id.

**`ScenarioSession`.** Time is counted in a unit coarser than the one-second tick; the clock
runs at least once between two units (`Tick`, `Pass`). A browser's socket delivers in order
while it is up and loses what is sent while it is down.

**`AiDocuments`, `AiAssessments`, `AssessmentReply`, `AiBatch`.** Indexing jobs remember the
row id and the bytes of their start; the clean-up checks its whole list once and then awaits
one removal after another. What decides whether an assessment is asked for again is the hash of
the snapshot, and the session's times are in it: `moment` counts starts, completions and comments,
and `Snapshot` carries those of the session and of its comments. A session that is paused and
resumed is therefore measured, and paid for, again although nobody documented anything;
`UnchangedWorkIsPaidOnce` promises no more than the code does. `AssessmentReply` is the validation pipeline as operators over an
arbitrary reply. The batch dialog's workers run to their next await in one step.

**`Libraries`, `ScenarioCatalog`.** A row is told from the earlier ones under its id by its serial
number, and says for which row its words were written (`author`); both are history. `AfterRender`
is the pair of effects that decides, after any change of list or selection, what is in the editor
of `CertificatesPage`; an answer to a save (`RequestAnswered`) finds the page wherever it has been
moved to. `scenarios[s].name` is a copy of a name that lives in the environment's row too:
`Followers` are the linked scenarios whose copy still equals it. `story` is history: what staff
told a scenario last, its own name or to be named after an environment (`home`), which template
they picked, and whether something happened that the code cannot tell apart (`mixed`, `stale`).
Everyone else's browsers, and any other client, are `CertificatesElsewhere` and `ScriptsElsewhere`.

**`Identities`, `WorkScope`, `EventRecords`.** A socket keeps the principal of its handshake.
An assignment is a pair of an organization and a scenario. Each view in `EventRecords` is an
operator of the state and of its reader, translated from its own query.

**`InvestigationCanvas`.** The rows, an `inbox` of events per browser, the query `cache`, the
read in flight (`fetch`) and the mutations in flight (`request`), each with the board `onMutate`
remembered. `missed` is history: the first of six named causes that came up since the server
last read the board for that browser. Each kind of change has a `useMutation` of its own and
nothing makes one wait for another, so several are under way and answered in any order (`Slots`
bounds them). `over` says which of them the remembered board already shows, and `disturbed` that
something else has changed the board since: a refusal puts the remembered board back all the
same, with a change on it that was itself refused before, and without what was changed since.

**`LiveViews`.** One view (a query on a page, opened by one person) and one kind of change at
a time, for every view and change; `Untold` names the changes a view is not told of.

## 3. What is checked

TLC finishes every run within five minutes, with two workers. A component
with more behaviour than one run can hold is checked in *scenes*: an `MC…` module picks one of
several restricted state spaces in its initial state and stays in it, so that one configuration
answers for all of them. A restricted relation is a disjunction of actions of the whole one
started in a state the whole one reaches, so that a violation found there is real; what passes
is completed by the proofs, which are about the whole relation.

| Run | Instance | Properties |
|---|---|---|
| `grants` | one user id, two teams, two sessions, two scenarios, one machine, an event in progress | `GrantIsHonoured` |
| `liveness` | one user id, one team, one session, one machine; crashes, resets, revokes, restores; fairness | `LinksAreAccountedFor`, `RemoteAccessSettles` |
| `scoring` | scenes: one team with a technique and its sub-technique, a clock and a budget that moves; two teams on one technique with reused score ids and points by hand | `CreditsAreDue`, `BudgetHolds`, `ScoresPairCredits`, `ViewsAgree` |
| `machines` | scenes: scripts, or power, on two scenarios and two machines of one environment; two environments that discover one machine, one node at a time in use, one host in the snapshot | `JobsAreExecutions`, `PowerIsHeld`, `DiscoveriesAgree`, `SnapshotsFollowDeletion`, `DeletionIsLocal` |
| `documents` | scenes: two versions, two contents, three Foundry resources, one job, one session, restarts; a page of certificates over two rows of which three are made; a page of scripts likewise; a scenario's details over certificates that change; a scenario and two environments with three names, two of them equal when trimmed | `ProcessingIsWorkedOn`, `ResourcesAreTracked` (a refinement), `PinsStand`, `WordsAreTheirOwn`, `CertificatesPrintAsPicked`, `ScenarioNamesStand` |
| `assessments` | scenes: one session with good, malformed, foreign and over-generous replies, rows reused, its work changed back and forth; one that moves on up to four times (started, paused and resumed, completed, commented on); a batch of two sessions with two workers and a competitor | `ResultsAnswerARequest`, `UnchangedWorkIsPaidOnce`, `DecisionsRestOnResults`, `AssessmentsEnd` |
| `canvas` | scenes, each from a board that has two nodes, at most two writes and two events under way: two students with one change under way each, two changes or faults together; one student with two changes under way at once, three changes or faults together; two students, one at work and the other moving between two scenarios, one write, one failed read | `SettledBoardsAgree` |
| `session` | two scenarios, one of them timed with a stage, three starts, two entries or requests, one browser, one fault; up to two announcements on their way as long as nothing has been asked or written, one from then on | `HelpIsForTheActive`, `ClocksShowThisRun`, `LateEntriesAreMarked`, `TimeUpIsTold` |
| `identities` | scenes: two accounts, one student, four names of which two fold, two tokens; one script row, one execution row, two hosts, two occurrences, a reset | `UsernamesAreOne`, `TokensKeepTheirPrivileges`, `SocketsFollowTokens`, `TimesToDetectAreReal` |
| `scope` | scenes: four changes by an admin and an instructor over two organizations, teams, scenarios and students; certificates with three | `SessionsStayInScope`, `WorkStaysVisible`, `InstructorsKeepToTheirPairs`, `RecordsOutliveTheirAuthors` |
| `views` | every view and every kind of change, three changes or faults | `ChangesReachTheScreen` |
| `setup` | scenes: upgrades from seven versions with two crashes and two changes; a drawing arranged; a drawing connected and published; secrets of two environments; logins of a machine with two requests; logins of a machine that changes hands between two environments and two vaults, one request at a time | `UpgradesKeepRecords`, `DrawingsAreWhole`, `ArrangedCardsStayApart`, `SecretsAreTheirOwn` |

Why these bounds are enough to be worth running: nearly every hazard needs at most two
parties (two teams on one expectation, two discoverers of one machine, two jobs on one row id, two
browsers on one board, two changes of one browser), one reuse of one id, and one thing in flight
while another happens; the bounds give each of them. One party is missing: two sessions on one
link. `grants` has two sessions but asks about grants, and `liveness` has one session row, so what
a link shared by two sessions needs rests on the theorem `LinksAlwaysAccountedFor` alone, by
`CleanupCovers`. A late announcement of the scenario just left needs a queue of two, which
`session` has. One user id is not one user: the id is deleted
and registered again while a Connect of its former owner is in flight. A budget tier of 1 makes
the rounding of `techniqueBudget` bite at once (the code rounds to tens); the clock needs only a
before and an after. Where a bound excludes a combination, the theorems of section 5 have no
bounds.

Symmetry is used only for model values that no definition distinguishes, and never with a
liveness property. `machines` checks deadlock; elsewhere every bounded resource can be used up
with nobody obliged to act, and a quiet system is not an error.

What the properties rule out:

* *Remote access.* `GrantIsHonoured`: a session that keeps running after the logout, move,
  removal, scenario switch or access switch-off that withdrew the grant it was written under.
  `LinksAreAccountedFor`: a link that no session, deletion, revoke or Connect in flight will deal
  with and no named failure explains. `RemoteAccessSettles`: a session that is never swept, a
  reset that leaves remote access frozen, a Connect that never ends.
* *Scoring.* `ScoresPairCredits`: totals that keep the points of a voided credit or lose somebody
  else's. `CreditsAreDue`: a credit that a void covers, that nobody expects, or for answers tagged
  after the debrief. `BudgetHolds`: guessing by tagging and un-tagging. `ViewsAgree`: two pages
  that say different things of the same points, hits and misses. `TimesToDetectAreReal`: a time
  measured from a run of another script, host or event.
* *Machines.* `DiscoveriesAgree`, `DeletionIsLocal`: deleting one environment takes another's
  hosts. `DiscoveriesAgree`, `JobsAreExecutions`: a late result written into another's row, a
  row left 'running' by a path that forgot it. `SnapshotsFollowDeletion`, `DrawingsAreWhole`:
  something drawn or published that is not there. `PowerIsHeld`: a lock or a 'starting' left
  behind. `ArrangedCardsStayApart`: an arranged drawing that overlaps.
  `SecretsAreTheirOwn`: one environment's rotation that breaks another's, a user name from one
  save with the password of another, in the vault the login was saved to, through hand-overs of
  its machine and other vaults, unless a failed or overlapped request is on record.
* *Catalogue.* `WordsAreTheirOwn`: what was typed for one template or script saved to another that
  is there as well. `CertificatesPrintAsPicked`: a team that earns one certificate and is given
  another, or no default or two. `ScenarioNamesStand`: a rename of an environment that takes away a
  name staff gave a scenario, or leaves behind one that should have followed. The exceptions (`mixed`:
  an environment other than the one the scenario was named after has, or had, the scenario's name;
  or the process stopped between the two updates) are what an equality of names cannot tell.
* *AI.* `ResourcesAreTracked`: a file or store in Foundry nobody knows of, or one removed under a
  version that needs it. `ProcessingIsWorkedOn`, `PinsStand`: a scenario blocked for good, a
  session measured against two texts. `ResultsAnswerARequest`: a reply that escapes validation or
  lands on another's row. `UnchangedWorkIsPaidOnce`, `DecisionsRestOnResults`, `AssessmentsEnd`.
* *An event under way.* `HelpIsForTheActive`, `TimeUpIsTold`, `LateEntriesAreMarked`,
  `ClocksShowThisRun`: help for a scenario the team has left, an end of time that is never told or
  told of an earlier run. `SettledBoardsAgree`: a canvas that differs from what is saved, other than
  by the six named causes.
  `ChangesReachTheScreen`: a page that never hears of a change, other than the listed ones.
* *People and records.* `UsernamesAreOne`, `TokensKeepTheirPrivileges`, `SocketsFollowTokens`;
  `InstructorsKeepToTheirPairs`, `SessionsStayInScope`: reach through the cross product of two
  assignments; `RecordsOutliveTheirAuthors`, `WorkStaysVisible`: work lost or out of sight.
  `UpgradesKeepRecords`: a start killed half-way that loses what was there.

## 4. Fairness

Fairness is stated only of what the process, its timers and its network calls do by themselves,
never of people, crashes or lost connections:

* `AccessBroker`: `WF(Sweep)` (`setInterval(sweep, 10_000)`), `WF(ConnectSettles)`,
  `WF(RestoreSettles)`, `WF(RevokeStep)` (every awaited Azure call returns or throws within its
  client's budget: eight polls for a link, twelve for a revoke) and `WF(ResetEnds)`. Success and
  failure are one disjunction, so that fairness does not choose between them. That a scenario or a
  machine was deleted before the insert (`InsertRefused(u, TRUE)`) is outside it: a Connect must end
  without that.
* `AiAssessments`, `AiBatch`: every call to the agent returns (`invokeAssessment` gives up after
  `requestTimeoutMs`), with whatever answer; some timer of the dialog that is set fires, or some
  request is answered, with no order assumed among them.
* `ScenarioSession`: the clock's interval fires, time passes, a connected socket delivers.
* `LiveViews`: listeners run, the poll of a polled query fires, requests are answered.

All of it is weak fairness.

## 5. What is proved

Every theorem is about a specification with all of its actions and for any value of its
constants, under the assumptions its module names (sizes are natural numbers; sentinels are not
rows; a catalogue, a list of stages or of inventories is what the code's types make it). TLC
evaluates those assumptions in the runs, and has checked each inductive invariant before it was
proved. The specification proved about is the safety part (`Init /\ [][Next]_vars`), which the
fair specifications imply.

* **`AccessBrokerProofs`.** `GrantsAreHonoured` and `RowsAlwaysHaveOwners` from `GrantInv`, which
  adds `RangesAgree`: a row's scenario is its machine's. Without it `StartScenario`, which ends
  sessions by the scenario in the row, could miss a session whose grant is judged by the
  machine's. Owners are needed for grants: a granted session of a deleted team would pass to the
  next team under that id. `LinksAlwaysAccountedFor` from `LinkInv`, which adds `RevokeInStep`: a
  revoke works on one host at a time. Its heart is `CleanupCovers`: among the sessions ended
  together on one machine there is a last one, and it deletes the link unless another session is
  active. `OutcomesStayFinal`, step by step.
* **`MachineOpsProofs`.** `DiscoveriesAlwaysAgree` and the rest of the topology: `IInv` is the type, `OwnershipAgrees`,
  `DiscoveriesHaveRows` and `SnapshotsFollowDeletion`, inductive only together: an environment's
  footprint is the set of nodes it owns *because* owners and runs agree, its deletion leaves no
  discovery behind *because* a pending one has a running row of that environment, and the
  snapshots stripped are the right ones *because* the footprint is. Then `ImplementsTopology`:
  `MachineSpec => Spec`, which hands those theorems down; `PowerAlwaysHeld`
  from `LocksAlwaysHeld` and `ChangingAlwaysHeld` (what is waited for is locked); `JobsAlwaysMatch` and its parts from
  `ScriptInv`, inductive because deletions are refused by `busy`.
* **`SetupProofs`.** `SecretsStayTheirOwn` from `CredentialsStayOwn` and `LoginsStayTogether`, the latter from `LoginsInv`: what a
  request left alone finds in the vault it was saved to is what it put there, and only overlaps,
  failed saves and deletions raise a doubt, which is on record; a hand-over of the machine, or
  another vault of its environment, changes where a login is looked for, never what is kept where
  it was saved. `DrawingsStayWhole`: every delete of the routes and
  of a discovery's sweep takes the lines and zone references with it, snapshot included.
  `RecordsSurviveUpgrades` from `UpgradeInv`: the committed database differs from the
  connection's only inside a transaction, and each table is whole, being rebuilt, or torn in the
  one window that is not a transaction.
* **`TtpScoringProofs`.** `ScoringInv`: types, the pairing, dueness, and *settledness* (after every
  handler every expectation a team has evidence for is credited, voided, or owed to a process that
  died). `ScoresStayPaired`, `CreditsStayDue`, `BudgetAlwaysHolds` (with `Budget <= peak`; its
  lemmas are about cardinalities of tagged sets), `MissesAreReal` and `ChipsAreRight` (two of the
  three parts of `ViewsAgree`), and the action property `CreditsStayLocked`.
* **`IdentitiesProofs`.** `OneNamespace`; `PrivilegesAreTheTokens` by the invariant that a kept
  token's row says what its owner's row says; `SocketsAreCutOff` from it. For `TimeToDetect`,
  `TimesAreReal` from `DetectInv`: runs carry the serial number of the script they ran, triggers are those wanted, and
  the occurrences recorded are those that happened.
* **`ScenarioProofs`.** Help, late marks and clocks; a clock's invariant is about the events
  still on their way to it. `TimeUpIsToldOnceOnly` from what has been heard so far.
  For the catalogue, `CatalogInv`. A serial number *fits* an id when no row bears it any more or the
  row under that id does. (a) Of the rows: numbers are unique, and every row's author is itself or
  gone. (b) Of all that outlives a request: every row of a page's list, the row a listed draft was read
  from, an answer on its way and an open script fit the id they will be saved under. (b) is needed
  for (a), because a save writes by id what fits it; and it is kept because no step ever puts a number
  back (`FitsIsKept`, of any step a library can take, `Grown`). (c) Of the scenarios: what is awarded
  exists and what a form holds picked fits its id (`PicksAreSound`). (d) Of the names: a scenario not
  `mixed` bears its `home`'s name or its own, a home is linked, and among its other environments none
  has its name (`NamesAreSound`); without the last clause a rename could make it follow two.
  From these `WordsStayTheirOwn`, `CertificatesStayAsPicked`, `NamesStand`.
* **`AiProofs`.** `DocumentsInv` (every resource is on record, in flight in exactly one job, or
  lost; no clean-up holds a store that may still be needed) and from it the refinement
  `DocumentsKeepTheirPromise`: `AiDocuments` implements `TrackedResources`, initial states and
  each step. `AskIInv` ties a job to its row while ids are given again: a row made after the job
  began is not the job's unless the record says so. From it `ResultsStaySound`, `WorkIsPaidOnce`
  and `DecisionsKeepTheirResult`; the soundness of a reply is proved of the validation operators
  for an arbitrary reply.
* **`WorkScopeProofs`.** `RecordInv` (sessions in scope, work of teams that exist, entries on
  started scenarios, authors that stay) gives `StaffSessionsInScope`, `RecordsStay`,
  `PairsAreKept` and `WorkIsVisible`; the totals agree by counting disjoint sets of awards.
  For the canvas, `CanvasInv`: (a) every queue of events tells the truth about the rows (the last
  word on a row id, read off the queue, is what is in the table), although ids are given again and
  a node's deletion takes its edges; (b) every board (on the screen, in an answer on its way, or
  kept by `onMutate` to be put back) *fits* rows and queue, i.e. becomes exactly the rows once the
  queue is heard, but for the changes under way that it shows (`Ahead`). For the board on the
  screen these are all the changes of its browser; for a remembered board those it is `over`, never
  its own (`Sound`), and nothing is claimed of it once it is `disturbed`. Both are needed for several
  changes under way: the board a refusal puts on the screen fits it for the changes that are left.
  A board that shows a change refused already fits nothing (`Lost`), until a later refusal puts it
  right or on record. The steps are lemmas on hearing each event, on optimistic changes and
  answers, on the server adding to a queue, and on changes that come and go (`FollowsOn`).
  `BoardsSettle` is `CanvasInv` for an empty queue and nothing under way. Repeated delivery of
  the effect of one's own change, in either order of answer and event, needs no case of its own:
  that handlers are idempotent on a board that fits is what the lemmas say.

Reading order: each module states types first, then lemmas on rows and data, then one lemma per
action or kind of action, and the theorems last.

## 6. What is only model-checked, and why

* Liveness: `RemoteAccessSettles`, `AssessmentsEnd`, `TimeUpIsTold`, `ChangesReachTheScreen`.
  Fairness and ENABLED are outside the prover's reach. `LiveViews` as a whole is a liveness
  question, so it has no module of proofs.
* `PointsAgree` (the third part of `ViewsAgree`: sums of points over score rows and over credits)
  and `ArrangedCardsStayApart` (coordinates accumulated over an ordered list of zones and cards)
  are folds; what a fold computes for every input needs induction over data.
* `AiBatch`: its safety is in its liveness property (every item is told what became of it).
* `RubricAddsUp`, that awarded points within a rubric add up to 0..100, is an assumption of
  `AssessmentReply` for the same reason; TLC evaluates it for the rubric of the run.

## 7. What the models leave out

* Content: what a link, a script, an entry or a snapshot says; wording, audit lines. Payloads of
  socket messages are kept only where a client patches its cache with them (canvas, `LiveViews`).
* Permissions by role alone (which role may call a route at all) are taken for granted; scope,
  which depends on data, is modelled.
* In `Topology`: zones, edges and positions (they are in `LabDrawing`), deletion of a scenario. In
  `MachineOps`: cooldowns and the catalogue of scripts.
* In `InvestigationCanvas`: a node's geometry and text are one value; a reset of the event and the
  deletion of the team, which take a board's rows away without an event, so that what is said of
  boards is said of a team that exists.
* In `Libraries` and `ScenarioCatalog`: descriptions, logos and triggers beside the words; a page of
  certificates has one request in flight.
* Parts not modelled, with the reason: the audit log (appended and queried, never read back), the
  validation agent and its calls to Foundry below retry level, rendering and layout of forms.

## 8. Observations

What modelling brought up. Each item is in a model, or is why a property names an exception. No
statement of the code is contradicted in a run; the comments quoted here promise a little more than
the code keeps.

*Remote access.* A Connect in flight across a scenario switch inserts a session on the scenario the
team has left, after the switch ended the others (`accessBroker.service`, "a remote session must not
outlive the authorization it was granted under"); the link deletion decided when the last session
ended may reach Bastion after another session has started on the same link; a Connect that passed the
freeze check creates its link after its host was verified clean; a Connect whose user or team is gone
meanwhile is a foreign key failure after an await, which ends the process. `GrantIsHonoured` is about
the sessions whose grant held when their row was written, and the links are the recorded exceptions
of `LinksAreAccountedFor`.

*Topology.* A discovery whose credential cannot be decrypted, or which dies with the process, leaves a
run that blocks its environment's discovery and deletion until the row is edited by hand. A snapshot
that outlived one of its nodes names a machine that gets the id next. `azureDiscoveryProvider` reads
only the first page of Resource Graph results and compares Azure ids case-sensitively. A machine that
is pruned and found again loses its hidden flag; cards of a pruned zone stay without one. Zones
discovered in turn, and a zone that grows after its neighbour was placed, overlap until the next
auto-arrange; deleting a middle card makes the next one land on the last. An instructor's line to a
zone makes every later clean discovery fail. Stripping a snapshot leaves the zone of a card drawn by
hand naming a stripped zone. Deleting an environment un-pins techniques, whose triggers then count on
any host.

*Secrets.* Overlapping saves of a login can pair one save's user name with the other's password; a
save that fails after the vault took the password leaves the old user name with it. A save in flight
while its machine is deleted is a foreign key failure after an await, or, when the row id was given
again, stores one machine's login under another. Deletion of machines and environments leaves vault
secrets behind. A login is looked up in the vault of the environment that has the machine now: after
a discovery hands the machine to an environment with another vault, or reports another
`key_vault_uri`, it is out of reach, or an earlier machine's leftover under that row id is shown,
with nothing overlapped or failed. `SecretsAreTheirOwn` is therefore about the vault it was saved to.

*Scoring.* `POST /admin/scores` accepts a scenario the team was never assigned: the points count on
dashboard and leaderboard, not in summary and export. `GET /admin/scores` shows an unscoped total.
Member points in exports count awards from a student's earlier team; a moved student gains the new
team's certificates and loses the old ones; restarting a completed scenario withdraws its certificate;
a grant for a scenario the new team lacks cannot be revoked in the dialog. Answers are revealed only to
the teams then on a scenario: one that starts later can still score.

*AI.* An indexing job that outlives its scenario, when row ids were given again, can promote another
scenario's version and pin it to sessions; a ready version may be marked gone while its store is live;
a resource made for a version deleted meanwhile is not on record, although `config.sql` says an id is
never lost on scenario deletion. In `AiBatchDialog` a failed look inside the handling of
`assessment_in_progress` is not caught: the item stays 'running' and the dialog cannot be closed. A
deleted team's late reply may land on the row that has its id.

*Session.* Starting a scenario does not reset its pressure stage's id; a clock whose socket was down
during a change keeps the stage of the scenario before; an instructor who resolves a help request the
system has closed overwrites "system-closed". The late answer of a command in flight across an event
reset writes by execution id into the new event.

*Canvas and pages.* Of two overlapping changes of one browser that are both refused, the first may
stay on the screen although it was never saved; a refusal takes with it what was changed since, by
this browser or a teammate, until the board is read again (both are "put back"). The canvas handlers compare the team of an event and not its scenario, so another
scenario's rows may be drawn; creating an edge does not ask which scenario is active. `Untold` lists
the changes no open page hears of: voids and edited expectations on documentation pages, voids and
moves on the score history, a colleague's manual award on the scoring panel, categories, roster changes
by a colleague, almost everything on the range report and the summary, jobs a colleague started. A
reconnecting socket fetches nothing; an invalidation during a first load is merged into the older
request; a patched row may be overwritten by an older answer.

*Start of the server.* A crash inside the non-transactional rebuilds of `topology_edges` and
`access_sessions` leaves a `_new` table (every later start fails) or loses rows; one between creating
the publications table and filling it leaves old topologies unpublished; one inside the script import
leaves it incomplete. Staff whose names differ only in case make a unique index fail, so the server
never starts. Deleting every script makes the library come back at the next start.

*Script library.* Forms send all fields, so a colleague's edit is overwritten; a draft of a deleted
script saved after its row id was given again overwrites another script; "write manually" in
`RunScriptDrawer` still sends a script chosen before, which is refused.

*Catalogue.* `environments.service.ts`:163-165 says that a range renamed on its own keeps its name: it
does until one of its environments is given that name, from when on it follows. The rename is two
statements outside a transaction: a stop between them leaves the scenario with a name its environment
lacks, which it then never follows again. A scenario's name is trimmed and an environment's is not, so a
scenario registered with a name that has surrounding spaces never follows a rename, and one that took
such a name by a rename drops out when its details are saved, untouched or not; a details form opened
before a rename writes the old name back, with the same effect. Linking an environment again does not
show a scenario that a deletion hid. An environment without a resource group cannot be edited on its
page, whose form sends `externalScope: null`, which is refused. The answer to the save of one template
comes back to the page after another was selected, and selects the first again, whose text then may be
the cached one from before the save. A certificate picked from a list that still shows a deleted
template awards the template that has its id by then (`stale`); likewise a draft.

## 9. Plan

1. The browser's side of a remote session (`HeaderRemoteSession`, `TopologyViewerPage`) and of the
   reset (`EventResetPage`): polls and events over `AccessBroker`.
2. The retries of `foundryClient` under `AiDocuments` and `AiAssessments`.
3. Theorems about them as they come; in `LiveViews`, the safety core under its liveness (a change on
   no screen is on its way, lost, or untold) as an invariant.
