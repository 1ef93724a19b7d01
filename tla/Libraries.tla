------------------------------- MODULE Libraries -------------------------------
(***************************************************************************)
(* The two libraries staff keep: certificate templates, each the printed   *)
(* text of a certificate, and scripts.  A page lists a library as it last  *)
(* read it, holds one row in an editor, and saves the whole of it by the   *)
(* row's id, however long after it was read; the id of a deleted last row  *)
(* is given again.  The page of certificates follows its list: which draft *)
(* is in its editor is decided by effects, after every change of the       *)
(* selection and after the selected row comes into or leaves the list.     *)
(*                                                                         *)
(* Exactly one template is the default; a scenario awards the template it  *)
(* picked, which leaves it when deleted (ON DELETE SET NULL).              *)
(*                                                                         *)
(* A template's fields are one value, its words.  A browser has one        *)
(* request of the certificates' page in flight.  Other browsers and other  *)
(* clients also send requests (`Elsewhere`), from rows just read.          *)
(***************************************************************************)
EXTENDS Integers, FiniteSets, FiniteSetsExt

CONSTANTS
    Browsers,
    Words,         \* what the fields of a row may hold
    Named(_),      \* the name among them, as the index COLLATE NOCASE compares it
    Original,      \* ORIGINAL_CERTIFICATE
    Unnamed,       \* a draft whose name is empty
    MaxScenario,   \* bounds on the ids of scenarios, and of a library
    MaxRow,
    MaxMade        \* bound on the rows ever made

ASSUME LibrariesAssumption ==
    /\ MaxScenario \in Nat /\ MaxRow \in Nat \ {0} /\ MaxMade \in Nat
    /\ Original \in Words /\ Unnamed \notin Words

VARIABLES
    templates,   \* [RowIds -> row of certificate_templates, or Absent]
    defaults,    \* those with is_default = 1
    awards,      \* [ScenarioIds -> certificate_template_id, or Nil]
    scripts,     \* [RowIds -> row of scripts, or Absent]
    made,        \* history: counts the rows made
    pages,       \* [Browsers -> CertificatesPage]
    editors      \* [Browsers -> ScriptLibraryPage]

libraryVars == <<templates, defaults, awards, scripts, made, pages, editors>>

RowIds == 1..MaxRow
ScenarioIds == 1..MaxScenario
Nil == 0
New == -1    \* "new"

\* .serial tells a row from the others that bear its id; .author is the row its words were written for
Row == [serial : Nat \ {0}, words : Words, author : Nat]
Absent == [serial |-> 0, words |-> Unnamed, author |-> 0]
RowsOf(library) == {k \in RowIds : library[k] # Absent}
\* INTEGER PRIMARY KEY
FirstFree(rows) == IF rows = {} THEN 1 ELSE Max(rows) + 1
NextId(library) == FirstFree(RowsOf(library))

List == [rows : [RowIds -> Row \cup {Absent}], defaults : SUBSET RowIds]
NoAnswer == [to |-> "nothing", id |-> Nil, row |-> Absent]
Answer == [to : {"nothing", "save", "delete"}, id : RowIds \cup {Nil}, row : Row \cup {Absent}]
NoDraft == "none"
\* .draft is what the editor holds, NoDraft before there is any; .source is the row it was read from
Page == [list : List, selected : RowIds \cup {Nil, New}, draft : Words \cup {Unnamed, NoDraft}, source : Nat,
         asked : RowIds \cup {Nil}, answer : Answer]
NoList == [rows |-> [k \in RowIds |-> Absent], defaults |-> {}]
Opened == [list |-> NoList, selected |-> Nil, draft |-> NoDraft, source |-> 0, asked |-> Nil, answer |-> NoAnswer]

Editor == [open : BOOLEAN, id : RowIds \cup {Nil}, words : Words \cup {Unnamed}, source : Nat, saving : BOOLEAN]
NoEditor == [open |-> FALSE, id |-> Nil, words |-> Unnamed, source |-> 0, saving |-> FALSE]

LibrariesTypeOK ==
    /\ templates \in [RowIds -> Row \cup {Absent}] /\ scripts \in [RowIds -> Row \cup {Absent}]
    /\ defaults \subseteq RowIds
    /\ awards \in [ScenarioIds -> RowIds \cup {Nil}]
    /\ made \in Nat
    /\ pages \in [Browsers -> Page]
    /\ editors \in [Browsers -> Editor]

-----------------------------------------------------------------------------
(* The rows                                                                 *)

NameTaken(words, k) == \E j \in RowsOf(templates) \ {k} : Named(templates[j].words) = Named(words)

Fresh(words) == [serial |-> made + 1, words |-> words, author |-> made + 1]

CreateTemplate(words) ==
    /\ ~NameTaken(words, Nil)
    /\ NextId(templates) \in RowIds /\ made < MaxMade
    /\ made' = made + 1
    /\ templates' = [templates EXCEPT ![NextId(templates)] = Fresh(words)]
    /\ UNCHANGED <<defaults, awards, scripts>>

UpdateTemplate(k, words, author) ==
    /\ k \in RowsOf(templates)
    /\ ~NameTaken(words, k)
    /\ templates' = [templates EXCEPT ![k] = [serial |-> @.serial, words |-> words, author |-> author]]
    /\ UNCHANGED <<defaults, awards, scripts, made>>

\* Mutant: the other default is left as it is.
NewDefaults_Added(k) == defaults \cup {k}
\* first the others are cleared, then k is set: a unique index allows one default at any time
NewDefaults(k) == {k}

MakeDefaultTemplate(k) ==
    /\ k \in RowsOf(templates)
    /\ defaults' = NewDefaults(k)
    /\ UNCHANGED <<templates, awards, scripts, made>>

\* Mutant: scenarios keep the id of a deleted template.
AwardsWithout_Kept(k) == awards
\* ON DELETE SET NULL
AwardsWithout(k) == [s \in ScenarioIds |-> IF awards[s] = k THEN Nil ELSE awards[s]]

DeleteTemplate(k) ==
    /\ k \in RowsOf(templates) \ defaults
    /\ templates' = [templates EXCEPT ![k] = Absent]
    /\ awards' = AwardsWithout(k)
    /\ UNCHANGED <<defaults, scripts, made>>

\* certificateTemplateForScenario
TemplateFor(s) == IF awards[s] \in RowsOf(templates) THEN {awards[s]} ELSE defaults

CreateScript(words) ==
    /\ NextId(scripts) \in RowIds /\ made < MaxMade
    /\ made' = made + 1
    /\ scripts' = [scripts EXCEPT ![NextId(scripts)] = Fresh(words)]
    /\ UNCHANGED <<templates, defaults, awards>>

UpdateScript(k, words, author) ==
    /\ k \in RowsOf(scripts)
    /\ scripts' = [scripts EXCEPT ![k] = [serial |-> @.serial, words |-> words, author |-> author]]
    /\ UNCHANGED <<templates, defaults, awards, made>>

DeleteScript(k) ==
    /\ k \in RowsOf(scripts)
    /\ scripts' = [scripts EXCEPT ![k] = Absent]
    /\ UNCHANGED <<templates, defaults, awards, made>>

-----------------------------------------------------------------------------
(* The page of certificates                                                 *)

Chosen(p) == IF p.selected \in RowIds /\ p.list.rows[p.selected] # Absent THEN p.selected ELSE Nil
Reloaded(p) == [p EXCEPT !.draft = p.list.rows[p.selected].words, !.source = p.list.rows[p.selected].serial]

\* Mutant: a draft is kept when another template is selected, as on every refetch.
AfterRender_Kept(old, new) ==
    LET p == IF new.selected # Nil \/ new.list.defaults = {} THEN new
             ELSE [new EXCEPT !.selected = CHOOSE k \in new.list.defaults : TRUE]
    IN  IF Chosen(p) # Nil /\ p.draft = NoDraft THEN Reloaded(p) ELSE p
\* the two effects: the default is selected when nothing is; the draft is read again when the selection,
\* or whether it is on the list, has changed, and not on every refetch
AfterRender(old, new) ==
    LET p == IF new.selected # Nil \/ new.list.defaults = {} THEN new
             ELSE [new EXCEPT !.selected = CHOOSE k \in new.list.defaults : TRUE]
    IN  IF p.selected = new.selected /\ new.selected = old.selected /\ Chosen(p) = Chosen(old) THEN p
        ELSE IF p.selected = New /\ p.list.defaults # {} THEN [p EXCEPT !.draft = Unnamed, !.source = 0]
        ELSE IF Chosen(p) # Nil THEN Reloaded(p)
        ELSE p

Rendered(b, new) == pages' = [pages EXCEPT ![b] = AfterRender(pages[b], new)]

FetchTemplates(b) ==
    /\ Rendered(b, [pages[b] EXCEPT !.list = [rows |-> templates, defaults |-> defaults]])
    /\ UNCHANGED <<templates, defaults, awards, scripts, made, editors>>

\* the confirmation of a delete covers the page
Clickable(b) == pages[b].asked = Nil

Select(b, k) ==
    /\ Clickable(b)
    /\ \/ k \in RowsOf(pages[b].list.rows)
       \/ k = New /\ pages[b].list.defaults # {}                                      \* + New certificate
       \/ k = Nil /\ pages[b].selected = New /\ pages[b].list.defaults = {}           \* Cancel
    /\ Rendered(b, [pages[b] EXCEPT !.selected = k])
    /\ UNCHANGED <<templates, defaults, awards, scripts, made, editors>>

EditDraft(b, words) ==
    /\ Clickable(b) /\ pages[b].draft # NoDraft
    /\ pages' = [pages EXCEPT ![b].draft = words]
    /\ UNCHANGED <<templates, defaults, awards, scripts, made, editors>>

DiscardChanges(b) ==
    /\ Clickable(b) /\ Chosen(pages[b]) # Nil
    /\ pages' = [pages EXCEPT ![b] = Reloaded(pages[b])]
    /\ UNCHANGED <<templates, defaults, awards, scripts, made, editors>>

Dirty(p) ==
    /\ p.draft \in Words
    /\ p.selected = New \/ (Chosen(p) # Nil /\ p.list.rows[p.selected].words # p.draft)

\* a refusal (400, 404, 409) is shown and changes nothing
SaveTemplate(b) ==
    LET p == pages[b]
        k == IF p.selected = New THEN NextId(templates) ELSE p.selected
    IN  /\ Clickable(b) /\ p.answer = NoAnswer /\ Dirty(p)
        /\ IF p.selected = New THEN CreateTemplate(p.draft) ELSE UpdateTemplate(p.selected, p.draft, p.source)
        /\ pages' = [pages EXCEPT ![b].answer = [to |-> "save", id |-> k, row |-> templates'[k]]]
        /\ UNCHANGED editors

MakeDefault(b) ==
    /\ Clickable(b) /\ Chosen(pages[b]) \notin pages[b].list.defaults \cup {Nil}
    /\ MakeDefaultTemplate(pages[b].selected)
    /\ UNCHANGED <<pages, editors>>

AskToDelete(b) ==
    /\ Clickable(b) /\ Chosen(pages[b]) \notin pages[b].list.defaults \cup {Nil}
    /\ pages' = [pages EXCEPT ![b].asked = pages[b].selected]
    /\ UNCHANGED <<templates, defaults, awards, scripts, made, editors>>

ConfirmDelete(b) ==
    /\ pages[b].asked # Nil /\ pages[b].answer = NoAnswer
    /\ DeleteTemplate(pages[b].asked)
    /\ pages' = [pages EXCEPT ![b].asked = Nil, ![b].answer = [NoAnswer EXCEPT !.to = "delete"]]
    /\ UNCHANGED editors

DeclineDelete(b) ==
    /\ pages[b].asked # Nil
    /\ pages' = [pages EXCEPT ![b].asked = Nil]
    /\ UNCHANGED <<templates, defaults, awards, scripts, made, editors>>

\* onSuccess, whatever is selected by now
RequestAnswered(b) ==
    LET p == [pages[b] EXCEPT !.answer = NoAnswer]
        a == pages[b].answer
    IN  /\ \/ a.to = "save" /\ Rendered(b, [p EXCEPT !.selected = a.id, !.draft = a.row.words, !.source = a.row.serial])
           \/ a.to = "delete" /\ Rendered(b, [p EXCEPT !.selected = Nil])
        /\ UNCHANGED <<templates, defaults, awards, scripts, made, editors>>

-----------------------------------------------------------------------------
(* The page of scripts                                                      *)

NewScript(b) ==
    /\ editors' = [editors EXCEPT ![b] = [NoEditor EXCEPT !.open = TRUE, !.saving = editors[b].saving]]
    /\ UNCHANGED <<templates, defaults, awards, scripts, made, pages>>

\* openForEdit: the draft is what the server answers, whenever it does
OpenForEdit(b, k) ==
    /\ k \in RowsOf(scripts)
    /\ editors' = [editors EXCEPT ![b] = [open |-> TRUE, id |-> k, words |-> scripts[k].words,
                                          source |-> scripts[k].serial, saving |-> editors[b].saving]]
    /\ UNCHANGED <<templates, defaults, awards, scripts, made, pages>>

EditScript(b, words) ==
    /\ editors[b].open
    /\ editors' = [editors EXCEPT ![b].words = words]
    /\ UNCHANGED <<templates, defaults, awards, scripts, made, pages>>

CancelScript(b) ==
    /\ editors[b].open
    /\ editors' = [editors EXCEPT ![b] = [NoEditor EXCEPT !.saving = editors[b].saving]]
    /\ UNCHANGED <<templates, defaults, awards, scripts, made, pages>>

SaveScript(b) ==
    LET e == editors[b]
    IN  /\ e.open /\ ~e.saving /\ e.words \in Words
        /\ IF e.id = Nil THEN CreateScript(e.words) ELSE UpdateScript(e.id, e.words, e.source)
        /\ editors' = [editors EXCEPT ![b].saving = TRUE]
        /\ UNCHANGED pages

\* onSuccess closes the editor, whatever is in it by now
ScriptSaved(b) ==
    /\ editors[b].saving
    /\ editors' = [editors EXCEPT ![b] = NoEditor]
    /\ UNCHANGED <<templates, defaults, awards, scripts, made, pages>>

-----------------------------------------------------------------------------

LibrariesInit ==
    /\ templates = [k \in RowIds |-> IF k = 1 THEN [serial |-> 1, words |-> Original, author |-> 1] ELSE Absent]
    /\ defaults = {1}           \* ensureDefaultCertificateTemplate
    /\ awards = [s \in ScenarioIds |-> Nil]
    /\ scripts = [k \in RowIds |-> Absent]
    /\ made = 1
    /\ pages = [b \in Browsers |-> Opened]
    /\ editors = [b \in Browsers |-> NoEditor]

CertificatesPage(b) ==
    \/ FetchTemplates(b) \/ RequestAnswered(b)
    \/ \E k \in RowIds \cup {Nil, New} : Select(b, k)
    \/ \E words \in Words : EditDraft(b, words)
    \/ DiscardChanges(b) \/ SaveTemplate(b) \/ MakeDefault(b)
    \/ AskToDelete(b) \/ ConfirmDelete(b) \/ DeclineDelete(b)

ScriptLibraryPage(b) ==
    \/ NewScript(b) \/ \E k \in RowIds : OpenForEdit(b, k)
    \/ \E words \in Words : EditScript(b, words)
    \/ CancelScript(b) \/ SaveScript(b) \/ ScriptSaved(b)

CertificatesElsewhere ==
    /\ \/ \E words \in Words : CreateTemplate(words)
       \/ \E k \in RowsOf(templates), words \in Words : UpdateTemplate(k, words, templates[k].serial)
       \/ \E k \in RowIds : MakeDefaultTemplate(k) \/ DeleteTemplate(k)
    /\ UNCHANGED <<pages, editors>>

ScriptsElsewhere ==
    /\ \/ \E words \in Words : CreateScript(words)
       \/ \E k \in RowsOf(scripts), words \in Words : UpdateScript(k, words, scripts[k].serial)
       \/ \E k \in RowIds : DeleteScript(k)
    /\ UNCHANGED <<pages, editors>>

Certifying == CertificatesElsewhere \/ \E b \in Browsers : CertificatesPage(b)
Scripting == ScriptsElsewhere \/ \E b \in Browsers : ScriptLibraryPage(b)

-----------------------------------------------------------------------------
(* Property                                                                 *)

Exists(library, serial) == \E k \in RowsOf(library) : library[k].serial = serial

\* What a row of a library says was written for it: no page ever saves to one row what was in its
\* editor for another, whatever was selected, answered, refetched or renamed meanwhile, unless that
\* other row is gone and had the same id.
WordsAreTheirOwn == \A library \in {templates, scripts} : \A k \in RowsOf(library) :
    library[k].author = library[k].serial \/ ~Exists(library, library[k].author)
=============================================================================
