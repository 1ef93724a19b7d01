---------------------------- MODULE ScenarioCatalog ----------------------------
(***************************************************************************)
(* The catalogue of scenarios (cyber_ranges), between the two libraries    *)
(* and the cloud environments: what a scenario is called, which            *)
(* certificate it awards, which environments back it, and whether it is    *)
(* shown.                                                                  *)
(*                                                                         *)
(* Registering an environment makes a scenario of its name; a rename of    *)
(* the environment carries over to the linked scenarios that still bear    *)
(* the old one.  A scenario's details are saved whole, name and            *)
(* certificate alike, from a form read earlier; the certificates it offers *)
(* are those of the browser's list (pages[b].list, the query               *)
(* certificate-templates both pages share).                                *)
(***************************************************************************)
EXTENDS Libraries

CONSTANTS
    Names,            \* of scenarios and environments
    Trimmed(_),       \* String.trim
    MaxEnvironment    \* bound on the ids of environments

NoName == "none"    \* "", the name of nothing

ASSUME CatalogAssumption ==
    /\ MaxEnvironment \in Nat
    /\ \A n \in Names : Trimmed(n) \in Names /\ Trimmed(Trimmed(n)) = Trimmed(n)
    /\ NoName \notin Names

VARIABLES
    scenarios,      \* [ScenarioIds -> row of cyber_ranges, or NoScenario]
    environments,   \* [EnvironmentIds -> name of a row of cloud_environments, or NoName]
    links,          \* cyber_range_environments
    forms,          \* [Browsers -> ScenarioDetailsForm]
    story           \* history: [ScenarioIds -> what staff have told it], see Story

catalogVars == <<scenarios, environments, links, forms, story>>

EnvironmentIds == 1..MaxEnvironment
NoScenario == [name |-> NoName, shown |-> FALSE]
ScenarioRows == {s \in ScenarioIds : scenarios[s] # NoScenario}
EnvironmentRows == {e \in EnvironmentIds : environments[e] # NoName}

\* .picked tells the template of .award from others that bear its id
Details == [name : Names \cup {NoName}, award : RowIds \cup {Nil}, picked : Nat]
NoDetails == [name |-> NoName, award |-> Nil, picked |-> 0]
Form == [for : ScenarioIds \cup {Nil, New}, read : Details, typed : Details]
NoForm == [for |-> Nil, read |-> NoDetails, typed |-> NoDetails]

\* .home is the environment it is named after, or else .chosen its own name;
\* .mixed: another of its environments was given its name, or it that environment's;
\* .picked is the template picked for it, 0 the default; .stale: its id was another's when it was saved
Story == [home : EnvironmentIds \cup {Nil}, chosen : Names \cup {NoName}, mixed : BOOLEAN, picked : Nat, stale : BOOLEAN]
NoStory == [home |-> Nil, chosen |-> NoName, mixed |-> FALSE, picked |-> 0, stale |-> FALSE]

CatalogTypeOK ==
    /\ scenarios \in [ScenarioIds -> [name : Names \cup {NoName}, shown : BOOLEAN]]
    /\ environments \in [EnvironmentIds -> Names \cup {NoName}]
    /\ links \subseteq ScenarioRows \X EnvironmentRows
    /\ forms \in [Browsers -> Form]
    /\ story \in [ScenarioIds -> Story]

Linked(e) == {s \in ScenarioIds : <<s, e>> \in links}
\* the environments of that name a scenario has links to, but is not named after
Namesakes(s, n) == {e \in EnvironmentRows \ {story[s].home} : <<s, e>> \in links /\ environments[e] = n}

-----------------------------------------------------------------------------
(* The form of a scenario's details                                         *)

SerialOf(k) == IF k = Nil THEN 0 ELSE templates[k].serial
Stored(s) == [name |-> scenarios[s].name, award |-> awards[s], picked |-> SerialOf(awards[s])]

OpenNew(b) ==
    /\ forms' = [forms EXCEPT ![b] = [NoForm EXCEPT !.for = New]]
    /\ UNCHANGED <<libraryVars, scenarios, environments, links, story>>

\* GET /cyber-ranges offers the shown ones
OpenForm(b, s) ==
    /\ s \in ScenarioRows /\ scenarios[s].shown
    /\ forms' = [forms EXCEPT ![b] = [for |-> s, read |-> Stored(s), typed |-> Stored(s)]]
    /\ UNCHANGED <<libraryVars, scenarios, environments, links, story>>

\* the effect depends on [data]: an answer like the last one leaves the fields alone, any other sets them all
RefetchDetails(b) ==
    LET s == forms[b].for
    IN  /\ s \in ScenarioRows
        /\ \/ forms[b].read.name # Stored(s).name \/ forms[b].read.award # Stored(s).award
        /\ forms' = [forms EXCEPT ![b] = [for |-> s, read |-> Stored(s), typed |-> Stored(s)]]
        /\ UNCHANGED <<libraryVars, scenarios, environments, links, story>>

TypeName(b, n) ==
    /\ forms[b].for # Nil
    /\ forms' = [forms EXCEPT ![b].typed.name = n]
    /\ UNCHANGED <<libraryVars, scenarios, environments, links, story>>

ChooseCertificate(b, k) ==
    /\ forms[b].for # Nil
    /\ k \in RowsOf(pages[b].list.rows) \cup {Nil}
    /\ forms' = [forms EXCEPT ![b].typed =
           [name |-> @.name, award |-> k, picked |-> IF k = Nil THEN 0 ELSE pages[b].list.rows[k].serial]]
    /\ UNCHANGED <<libraryVars, scenarios, environments, links, story>>

CancelForm(b) ==
    /\ forms[b].for # Nil
    /\ forms' = [forms EXCEPT ![b] = NoForm]
    /\ UNCHANGED <<libraryVars, scenarios, environments, links, story>>

\* validateCertificateTemplateId, and a name that is not empty; refusals change nothing
Acceptable(d) == d.name \in Names /\ d.award \in RowsOf(templates) \cup {Nil}

Picked(d) == [picked |-> d.picked, stale |-> SerialOf(d.award) # d.picked]
\* what saving these details tells a scenario
ToldBy(s, d) ==
    LET n == Trimmed(d.name)
    IN  IF n = scenarios[s].name THEN [story[s] EXCEPT !.picked = Picked(d).picked, !.stale = Picked(d).stale]
        ELSE [home |-> Nil, chosen |-> n, mixed |-> \E e \in EnvironmentRows : <<s, e>> \in links /\ environments[e] = n,
              picked |-> Picked(d).picked, stale |-> Picked(d).stale]

\* PATCH /cyber-ranges/:id: all the fields of the form; an answer closes it
SaveForm(b) ==
    LET s == forms[b].for
        d == forms[b].typed
    IN  /\ s \in ScenarioRows /\ Acceptable(d)
        /\ scenarios' = [scenarios EXCEPT ![s].name = Trimmed(d.name)]
        /\ awards' = [awards EXCEPT ![s] = d.award]
        /\ forms' = [forms EXCEPT ![b] = NoForm]
        /\ story' = [story EXCEPT ![s] = ToldBy(s, d)]
        /\ UNCHANGED <<templates, defaults, scripts, made, pages, editors, environments, links>>

\* POST /cyber-ranges
CreateScenario(b) ==
    LET s == FirstFree(ScenarioRows)
        d == forms[b].typed
    IN  /\ forms[b].for = New /\ Acceptable(d) /\ s \in ScenarioIds
        /\ scenarios' = [scenarios EXCEPT ![s] = [name |-> Trimmed(d.name), shown |-> TRUE]]
        /\ awards' = [awards EXCEPT ![s] = d.award]
        /\ forms' = [forms EXCEPT ![b] = NoForm]
        /\ story' = [story EXCEPT ![s] = ToldBy(s, d)]
        /\ UNCHANGED <<templates, defaults, scripts, made, pages, editors, environments, links>>

-----------------------------------------------------------------------------
(* Environments and their scenarios                                         *)

\* registerEnvironmentWithCyberRange: the scenario's name is trimmed, the environment's is not
RegisterWithScenario(n) ==
    LET e == FirstFree(EnvironmentRows)
        s == FirstFree(ScenarioRows)
    IN  /\ e \in EnvironmentIds /\ s \in ScenarioIds
        /\ environments' = [environments EXCEPT ![e] = n]
        /\ scenarios' = [scenarios EXCEPT ![s] = [name |-> Trimmed(n), shown |-> TRUE]]
        /\ awards' = [awards EXCEPT ![s] = Nil]
        /\ links' = links \cup {<<s, e>>}
        /\ story' = [story EXCEPT ![s] = IF Trimmed(n) = n THEN [NoStory EXCEPT !.home = e]
                                         ELSE [NoStory EXCEPT !.chosen = Trimmed(n)]]
        /\ UNCHANGED <<templates, defaults, scripts, made, pages, editors, forms>>

\* the same request without a cyberRange
RegisterAlone(n) ==
    /\ FirstFree(EnvironmentRows) \in EnvironmentIds
    /\ environments' = [environments EXCEPT ![FirstFree(EnvironmentRows)] = n]
    /\ UNCHANGED <<libraryVars, scenarios, links, forms, story>>

\* Mutant: every linked scenario takes the new name.
Followers_All(e) == Linked(e)
\* those that still bear the old name
Followers(e) == {s \in Linked(e) : scenarios[s].name = environments[e]}

RenamedScenarios(e, n) == [s \in ScenarioIds |-> IF s \in Followers(e) THEN [scenarios[s] EXCEPT !.name = n] ELSE scenarios[s]]
Mixed(mixed) == [s \in ScenarioIds |-> IF s \in mixed THEN [story[s] EXCEPT !.mixed = TRUE] ELSE story[s]]

\* updateEnvironment; the page's form always sends the name
RenameEnvironment(e, n) ==
    /\ e \in EnvironmentRows /\ n # environments[e]
    /\ scenarios' = RenamedScenarios(e, n)
    /\ environments' = [environments EXCEPT ![e] = n]
    /\ story' = Mixed({s \in Linked(e) : IF story[s].home = e THEN Namesakes(s, n) # {} ELSE scenarios[s].name = n})
    /\ UNCHANGED <<libraryVars, links, forms>>

\* the two updates are not one transaction, and the process can stop between them
RenameInterrupted(e, n) ==
    /\ e \in EnvironmentRows /\ n # environments[e]
    /\ scenarios' = RenamedScenarios(e, n)
    /\ story' = Mixed({s \in Linked(e) : story[s].home = e})
    /\ UNCHANGED <<libraryVars, environments, links, forms>>

LinkEnvironment(s, e) ==
    /\ s \in ScenarioRows /\ e \in EnvironmentRows /\ <<s, e>> \notin links
    /\ links' = links \cup {<<s, e>>}
    /\ story' = Mixed({t \in {s} : scenarios[s].name = environments[e]})
    /\ UNCHANGED <<libraryVars, scenarios, environments, forms>>

\* a scenario without the environment it was named after keeps its name
Orphaned(e) == [s \in ScenarioIds |-> IF story[s].home = e THEN [story[s] EXCEPT !.home = Nil, !.chosen = scenarios[s].name]
                                      ELSE story[s]]

UnlinkEnvironment(s, e) ==
    /\ <<s, e>> \in links
    /\ links' = links \ {<<s, e>>}
    /\ story' = [story EXCEPT ![s] = Orphaned(e)[s]]
    /\ UNCHANGED <<libraryVars, scenarios, environments, forms>>

\* deleteEnvironment, deactivateIfOrphaned
DeleteWithLinks(e) ==
    /\ e \in EnvironmentRows
    /\ environments' = [environments EXCEPT ![e] = NoName]
    /\ links' = links \ (ScenarioIds \X {e})
    /\ scenarios' = [s \in ScenarioIds |-> IF s \in Linked(e) /\ \A f \in EnvironmentIds : <<s, f>> \notin links'
                                           THEN [scenarios[s] EXCEPT !.shown = FALSE] ELSE scenarios[s]]
    /\ story' = Orphaned(e)
    /\ UNCHANGED <<libraryVars, forms>>

\* deleteCyberRange; it may also be refused, for a team or for recorded activity
DeleteScenario(s) ==
    /\ s \in ScenarioRows /\ \A e \in EnvironmentIds : <<s, e>> \notin links
    /\ scenarios' = [scenarios EXCEPT ![s] = NoScenario]
    /\ awards' = [awards EXCEPT ![s] = Nil]
    /\ story' = [story EXCEPT ![s] = NoStory]
    /\ UNCHANGED <<templates, defaults, scripts, made, pages, editors, environments, links, forms>>

-----------------------------------------------------------------------------

CatalogInit ==
    /\ LibrariesInit
    /\ scenarios = [s \in ScenarioIds |-> NoScenario]
    /\ environments = [e \in EnvironmentIds |-> NoName]
    /\ links = {}
    /\ forms = [b \in Browsers |-> NoForm]
    /\ story = [s \in ScenarioIds |-> NoStory]

DetailsForm(b) ==
    \/ OpenNew(b) \/ \E s \in ScenarioIds : OpenForm(b, s)
    \/ RefetchDetails(b) \/ CancelForm(b) \/ SaveForm(b) \/ CreateScenario(b)
    \/ \E n \in Names : TypeName(b, n)
    \/ \E k \in RowIds \cup {Nil} : ChooseCertificate(b, k)

Detailing == \E b \in Browsers : DetailsForm(b)

Naming ==
    \/ \E n \in Names : RegisterWithScenario(n) \/ RegisterAlone(n)
    \/ \E e \in EnvironmentIds, n \in Names : RenameEnvironment(e, n) \/ RenameInterrupted(e, n)
    \/ \E s \in ScenarioIds, e \in EnvironmentIds : LinkEnvironment(s, e) \/ UnlinkEnvironment(s, e)
    \/ \E e \in EnvironmentIds : DeleteWithLinks(e)
    \/ \E s \in ScenarioIds : DeleteScenario(s)

CatalogNext ==
    \/ Detailing \/ Naming
    \/ Certifying /\ UNCHANGED catalogVars
    \/ Scripting /\ UNCHANGED catalogVars
CatalogSpec == CatalogInit /\ [][CatalogNext]_<<libraryVars, catalogVars>>

-----------------------------------------------------------------------------
(* Properties                                                               *)

\* A scenario awards the certificate that was picked for it for as long as that one exists, whatever was
\* renamed, deleted, made the default or given a used id meanwhile, and else the default, of which there is
\* always one; except where the id picked had become another template's before the details were saved.
CertificatesPrintAsPicked ==
    /\ \E k \in RowsOf(templates) : defaults = {k}
    /\ \A s \in ScenarioRows :
           IF Exists(templates, story[s].picked) THEN \E k \in TemplateFor(s) : templates[k].serial = story[s].picked
           ELSE story[s].stale \/ TemplateFor(s) = defaults

\* A scenario is called what it was called last: the name its staff gave it, whatever its environments are
\* renamed to; or, when registering an environment made it, that environment's name through every rename.
\* That fails only once another of its environments has had its name, or a rename was interrupted.
ScenarioNamesStand == \A s \in ScenarioRows :
    \/ story[s].mixed
    \/ scenarios[s].name = IF story[s].home = Nil THEN story[s].chosen ELSE environments[story[s].home]
=============================================================================
