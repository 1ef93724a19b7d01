----------------------------- MODULE LiveViews -----------------------------
(***************************************************************************)
(* What the browser shows of the server's state.  Every page keeps the     *)
(* answers of its GETs in the query cache of TanStack; socket events tell  *)
(* it which of them to fetch again (or carry the changed row, which is     *)
(* patched into the cached answer), a few views poll, and nothing is       *)
(* fetched again when the socket reconnects.  Events are announced after   *)
(* the write committed and arrive in order; the answers of HTTP requests   *)
(* arrive whenever they do.                                                *)
(*                                                                         *)
(* The queries of a page do not influence one another, so a behaviour      *)
(* follows one view (one query on one page, opened by one person whose     *)
(* scope covers the team) and one kind of change, among all the others.    *)
(* The server's data is reduced to the facts a query's answer depends on.  *)
(* MaxHappenings bounds the changes and the faults of a behaviour.         *)
(***************************************************************************)
EXTENDS Naturals, Sequences, FiniteSets

CONSTANT MaxHappenings

ASSUME MaxHappenings \in Nat

VARIABLES
  view,      \* the followed view
  change,    \* the followed kind of change
  shown,     \* its page is open
  loaded,    \* the cache holds an answer
  missing,   \* the cached answer lacks the followed change
  request,   \* "idle", "sent", or "answered": read on the server, not back yet
  behind,    \* the answer on its way lacks it
  notices,   \* the events on their way, in order: <<event, followed>>
  answers,   \* this page's own mutations not answered yet: {followed}
  online,    \* the socket is connected
  running,     \* the server-side job a view may follow is running
  readRunning, \* so says the answer on its way
  seenRunning, \* so says the cached answer
  lost,      \* its notice was spent without effect
  budget     \* changes and faults still allowed

vars == <<view, change, shown, loaded, missing, request, behind, notices, answers, online, lost, budget,
          running, readRunning, seenRunning>>

jobVars == <<running, readRunning, seenRunning>>

-----------------------------------------------------------------------------
(* What the server changes, and the events it sends for it.                *)

ToBoth(events) == [team |-> events, staff |-> events]

Credit(extra) == <<"score:awarded:ttp", "leaderboard:update">> \o extra

EntryPosted == [alters |-> {"entries"}, tells |-> ToBoth(<<"documentation:new">>)]

EntryDetected ==
  [alters |-> {"entries", "tags", "scores", "credits"},
   tells |-> [team |-> Credit(<<"documentation:new">>), staff |-> Credit(<<"ttp:changed", "documentation:new">>)]]

CategoryAdded == [alters |-> {"categories", "entries"}, tells |-> ToBoth(<<"documentation:new">>)]

TagsChanged ==
  [alters |-> {"entries", "tags"},
   tells |-> [team |-> <<"documentation:updated">>, staff |-> <<"ttp:changed", "documentation:updated">>]]

FeedbackChanged == [alters |-> {"entries"}, tells |-> ToBoth(<<"documentation:updated">>)]

ScoreAwarded == [alters |-> {"scores"}, tells |-> ToBoth(<<"score:awarded", "leaderboard:update">>)]

CreditGiven ==
  [alters |-> {"scores", "credits"},
   tells |-> [team |-> Credit(<<>>), staff |-> Credit(<<"ttp:changed">>)]]

CreditVoided ==
  [alters |-> {"scores", "credits"},
   tells |-> [team |-> <<"leaderboard:update">>, staff |-> <<"leaderboard:update", "ttp:changed">>]]

(* An expectation is edited without crediting anyone; its teams are told.  *)
ExpectationEdited == [alters |-> {"expected"}, tells |-> [team |-> <<>>, staff |-> <<"ttp:changed">>]]

(* The same on a scenario no team was ever assigned.                       *)
UnassignedEdited == [alters |-> {"unassigned"}, tells |-> ToBoth(<<>>)]

OccurrenceMarked == [alters |-> {"occurrences"}, tells |-> [team |-> <<>>, staff |-> <<"ttp:changed">>]]

ProgressChanged == [alters |-> {"progress"}, tells |-> ToBoth(<<"progress:changed">>)]

HelpAsked == [alters |-> {"help"}, tells |-> ToBoth(<<"help_request:new">>)]

HelpClosed == [alters |-> {"help"}, tells |-> ToBoth(<<"help_request:resolved">>)]

SessionStarted == [alters |-> {"sessions"}, tells |-> ToBoth(<<"access_session:started">>)]

SessionEnded == [alters |-> {"sessions"}, tells |-> ToBoth(<<"access_session:ended">>)]

TopologyPublished == [alters |-> {"published"}, tells |-> ToBoth(<<"topology:published">>)]

CertificateGranted == [alters |-> {"grants"}, tells |-> [team |-> <<"certificate:changed">>, staff |-> <<>>]]

TeamMoved == [alters |-> {"teams"}, tells |-> ToBoth(<<"leaderboard:update">>)]

MemberMoved == [alters |-> {"members"}, tells |-> ToBoth(<<>>)]

(* A background job of the server (VM power, discovery, script, document   *)
(* processing, assessment): nobody is told when it starts or ends.         *)
JobStarted == [alters |-> {"job"}, tells |-> ToBoth(<<>>)]

JobFinished == [alters |-> {"job"}, tells |-> ToBoth(<<>>)]

Change ==
  [jobStarted |-> JobStarted, jobFinished |-> JobFinished,
   entryPosted |-> EntryPosted, entryDetected |-> EntryDetected, categoryAdded |-> CategoryAdded,
   tagsChanged |-> TagsChanged, feedbackChanged |-> FeedbackChanged, scoreAwarded |-> ScoreAwarded,
   creditGiven |-> CreditGiven, creditVoided |-> CreditVoided, expectationEdited |-> ExpectationEdited,
   unassignedEdited |-> UnassignedEdited, occurrenceMarked |-> OccurrenceMarked,
   progressChanged |-> ProgressChanged, helpAsked |-> HelpAsked, helpClosed |-> HelpClosed,
   sessionStarted |-> SessionStarted, sessionEnded |-> SessionEnded,
   topologyPublished |-> TopologyPublished, certificateGranted |-> CertificateGranted,
   teamMoved |-> TeamMoved, memberMoved |-> MemberMoved]

Changes == DOMAIN Change

-----------------------------------------------------------------------------
(* What the answer of each GET depends on.                                 *)

LeaderboardReads   == {"scores", "teams"}
CertificateReads   == {"progress", "grants"}
ActiveRangeReads   == {"progress"}
DocumentationReads == {"entries", "tags", "credits", "expected"}
TeamScoresReads    == {"scores", "members"}
HistoryReads       == {"progress"}
SummaryReads       == {"progress", "entries", "scores", "help"}
DashboardReads     == {"progress", "entries", "scores", "credits", "expected", "help", "teams", "members"}
ReportReads        == {"expected", "tags", "credits", "occurrences"}
ExpectedReads      == {"expected", "unassigned", "occurrences"}

(* The views: who opens them, what they read, the events at which they     *)
(* fetch again, the events whose row they patch in, the own mutations      *)
(* after which they fetch again, and whether they poll: never, always, or  *)
(* while the answer they hold shows a running job.                         *)
Passive(role, reads) ==
  [role |-> role, reads |-> reads, refetch |-> {}, patch |-> {}, own |-> {}, polled |-> "never"]

Leaderboard == [Passive("team", LeaderboardReads) EXCEPT !.refetch = {"leaderboard:update"}]

Certificate ==
  [Passive("team", CertificateReads) EXCEPT !.refetch = {"certificate:changed", "progress:changed"}]

ActiveRange == [Passive("team", ActiveRangeReads) EXCEPT !.refetch = {"progress:changed"}]

OwnHelp ==
  [Passive("team", {"help"}) EXCEPT
     !.refetch = {"help_request:new", "help_request:resolved"}, !.own = {"helpAsked"}]

OpenHelp ==
  [Passive("staff", {"help"}) EXCEPT
     !.refetch = {"help_request:new", "help_request:resolved"}, !.own = {"helpClosed"}]

HeaderSession ==
  [Passive("team", {"sessions"}) EXCEPT
     !.refetch = {"access_session:started", "access_session:ended"}, !.own = {"sessionEnded"}]

Documentation_PatchesOnly ==
  [Passive("team", DocumentationReads) EXCEPT
     !.patch = {"documentation:new", "documentation:updated"},
     !.own = {"entryPosted", "entryDetected", "categoryAdded"}]

(* The Investigation page patches the changed entry in, and fetches again  *)
(* when a credit may have turned tags of other entries.                    *)
Documentation ==
  [Passive("team", DocumentationReads) EXCEPT
     !.refetch = {"score:awarded:ttp"}, !.patch = {"documentation:new", "documentation:updated"},
     !.own = {"entryPosted", "entryDetected", "categoryAdded"}]

StaffDocumentation == [Documentation EXCEPT !.role = "staff", !.own = {}]

Categories == [Passive("team", {"categories"}) EXCEPT !.own = {"categoryAdded"}]

ScoreHistory ==
  [Passive("team", TeamScoresReads) EXCEPT !.refetch = {"score:awarded", "score:awarded:ttp"}]

StudentTopology == [Passive("team", {"published"}) EXCEPT !.refetch = {"topology:published"}]

PastScenarios == [Passive("team", HistoryReads) EXCEPT !.refetch = {"progress:changed"}]

ScenarioSummary == [Passive("staff", SummaryReads) EXCEPT !.refetch = {"progress:changed"}]

Dashboard ==
  [Passive("staff", DashboardReads) EXCEPT
     !.refetch = {"documentation:new", "score:awarded", "score:awarded:ttp", "progress:changed",
                  "help_request:new", "help_request:resolved"},
     !.own = {"progressChanged", "helpClosed"}, !.polled = "always"]

ScoringDocumentation ==
  [Passive("staff", DocumentationReads) EXCEPT
     !.refetch = {"documentation:new", "documentation:updated", "ttp:changed"},
     !.own = {"scoreAwarded", "creditGiven", "creditVoided"}]

AwardedScores ==
  [Passive("staff", {"scores"}) EXCEPT
     !.refetch = {"ttp:changed"}, !.own = {"scoreAwarded", "creditGiven", "creditVoided"}]

TeamReport ==
  [Passive("staff", ReportReads) EXCEPT
     !.refetch = {"ttp:changed"}, !.own = {"creditGiven", "creditVoided"}]

RangeReport == Passive("staff", ReportReads)

ExpectedTechniques ==
  [Passive("staff", ExpectedReads) EXCEPT
     !.refetch = {"ttp:changed"}, !.own = {"expectationEdited", "unassignedEdited", "occurrenceMarked"}]

AccessSessions ==
  [Passive("staff", {"sessions"}) EXCEPT
     !.refetch = {"access_session:started", "access_session:ended"}, !.own = {"sessionEnded"}]

Roster == [Passive("staff", {"teams", "members"}) EXCEPT !.own = {"teamMoved", "memberMoved"}]

FollowsJob ==
  [Passive("staff", {"job"}) EXCEPT !.own = {"jobStarted"}, !.polled = "whileRunning"]

MachinePower == FollowsJob

DiscoveryRuns == FollowsJob

GroundTruthDocuments == FollowsJob

AssessmentList == FollowsJob

(* Each run is a query of its own.                                        *)
ScriptExecution == [FollowsJob EXCEPT !.own = {}]

View ==
  [leaderboard |-> Leaderboard, certificate |-> Certificate, activeRange |-> ActiveRange,
   ownHelp |-> OwnHelp, openHelp |-> OpenHelp, headerSession |-> HeaderSession,
   documentation |-> Documentation, staffDocumentation |-> StaffDocumentation,
   categories |-> Categories, scoreHistory |-> ScoreHistory, topology |-> StudentTopology,
   history |-> PastScenarios, summary |-> ScenarioSummary, dashboard |-> Dashboard,
   scoringDocumentation |-> ScoringDocumentation, awardedScores |-> AwardedScores,
   report |-> TeamReport, rangeReport |-> RangeReport, expected |-> ExpectedTechniques,
   accessSessions |-> AccessSessions, roster |-> Roster, power |-> MachinePower,
   discovery |-> DiscoveryRuns, documents |-> GroundTruthDocuments,
   assessments |-> AssessmentList, execution |-> ScriptExecution]

Here == View[view]

Concerns(c) == Change[c].alters \cap Here.reads # {}

Told(c) ==
  LET events == SelectSeq(Change[c].tells[Here.role], LAMBDA e : e \in Here.refetch \cup Here.patch)
  IN  [i \in 1..Len(events) |-> <<events[i], c = change>>]

Polling == Here.polled = "always" \/ (Here.polled = "whileRunning" /\ seenRunning)

(* A patched row carries the entry alone.                                  *)
RowSuffices == Change[change].alters \cap Here.reads = {"entries"}

Followed(queue) == \E i \in DOMAIN queue : queue[i][2]

-----------------------------------------------------------------------------
Init ==
  /\ view \in DOMAIN View
  /\ change \in {c \in Changes : Change[c].alters \cap View[view].reads # {}}
  /\ shown = TRUE /\ loaded = FALSE /\ missing = FALSE
  /\ request = "sent" /\ behind = FALSE
  /\ notices = <<>> /\ answers = {} /\ online = TRUE
  /\ lost = FALSE /\ budget = MaxHappenings
  /\ running \in {FALSE, "job" \in View[view].reads} /\ readRunning = FALSE /\ seenRunning = FALSE

(* A change commits and is announced: events reach the open page if its    *)
(* socket is connected.  A page's own mutation also gets its answer.       *)
Happen(c, mine) ==
  /\ budget > 0
  /\ \/ c = change \/ mine \/ Told(c) # <<>>
     \/ Concerns(c) /\ "job" \in Change[c].alters
  /\ mine => shown /\ c \in Here.own
  /\ c = "jobStarted" => ~running
  /\ c = "jobFinished" => running
  /\ running' = IF "job" \in Change[c].alters THEN c = "jobStarted" ELSE running
  /\ budget' = budget - 1
  /\ missing' = (missing \/ (c = change /\ loaded))
  /\ behind' = (behind \/ (c = change /\ request = "answered"))
  /\ notices' = IF shown /\ online THEN notices \o Told(c) ELSE notices
  /\ answers' = IF mine THEN answers \cup {c = change} ELSE answers
  /\ lost' = (lost \/ (c = change /\ ~(shown /\ online)))
  /\ UNCHANGED <<view, change, shown, loaded, request, online, readRunning, seenRunning>>

(* invalidateQueries: an answer already cached is fetched again, whatever  *)
(* is on its way; with nothing cached yet the call joins the request under *)
(* way, which may have been read before the change.                        *)
Refetch(followed) ==
  IF loaded \/ request = "idle"
  THEN request' = "sent" /\ behind' = FALSE /\ UNCHANGED lost
  ELSE lost' = (lost \/ (followed /\ behind)) /\ UNCHANGED <<request, behind>>

(* setQueryData: the row goes into the cached answer, if there is one; an  *)
(* older answer still on its way replaces it.                              *)
Patch(followed) ==
  /\ missing' = (missing /\ ~(followed /\ RowSuffices))
  /\ lost' = (lost \/ (followed /\ behind))
  /\ UNCHANGED <<request, behind>>

Hear ==
  /\ notices # <<>>
  /\ LET event == Head(notices)[1]
         followed == Head(notices)[2]
     IN  \/ event \in Here.refetch /\ Refetch(followed) /\ UNCHANGED missing
         \/ event \in Here.patch /\ Patch(followed)
  /\ notices' = Tail(notices)
  /\ UNCHANGED <<view, change, shown, loaded, answers, online, budget, jobVars>>

Answered(followed) ==
  /\ followed \in answers
  /\ answers' = answers \ {followed}
  /\ Refetch(followed)
  /\ UNCHANGED <<view, change, shown, loaded, missing, notices, online, budget, jobVars>>

Read ==
  /\ request = "sent"
  /\ request' = "answered" /\ behind' = FALSE /\ readRunning' = running
  /\ UNCHANGED <<view, change, shown, loaded, missing, notices, answers, online, lost, budget, running, seenRunning>>

Deliver ==
  /\ request = "answered"
  /\ request' = "idle" /\ loaded' = TRUE
  /\ missing' = behind /\ behind' = FALSE /\ lost' = (lost /\ behind)
  /\ seenRunning' = readRunning
  /\ UNCHANGED <<view, change, shown, notices, answers, online, budget, running, readRunning>>

(* The request fails (also on its one retry): the old answer stays.        *)
Fail ==
  /\ request # "idle" /\ budget > 0
  /\ request' = "idle" /\ behind' = FALSE /\ lost' = (lost \/ missing)
  /\ budget' = budget - 1
  /\ UNCHANGED <<view, change, shown, loaded, missing, notices, answers, online, jobVars>>

Poll ==
  /\ Polling /\ shown /\ request = "idle"
  /\ request' = "sent"
  /\ UNCHANGED <<view, change, shown, loaded, missing, behind, notices, answers, online, lost, budget, jobVars>>

(* The socket drops: events sent meanwhile are gone, and the connection    *)
(* coming back fetches nothing.                                            *)
Disconnect ==
  /\ online /\ budget > 0
  /\ online' = FALSE /\ notices' = <<>> /\ budget' = budget - 1
  /\ lost' = (lost \/ Followed(notices))
  /\ UNCHANGED <<view, change, shown, loaded, missing, request, behind, answers, jobVars>>

Reconnect ==
  /\ ~online /\ online' = TRUE
  /\ UNCHANGED <<view, change, shown, loaded, missing, request, behind, notices, answers, lost, budget, jobVars>>

(* Leaving the page takes its listeners with it; the cached answer stays   *)
(* for a while.  Opening it again shows that answer and fetches, unless a  *)
(* request is still under way.                                             *)
Leave ==
  /\ shown
  /\ shown' = FALSE /\ notices' = <<>> /\ answers' = {}
  /\ lost' = (lost \/ Followed(notices))
  /\ UNCHANGED <<view, change, loaded, missing, request, behind, online, budget, jobVars>>

Open ==
  /\ ~shown
  /\ shown' = TRUE
  /\ request' = IF request = "idle" THEN "sent" ELSE request
  /\ UNCHANGED <<view, change, loaded, missing, behind, notices, answers, online, lost, budget, jobVars>>

(* The signed-in identity changes: the whole cache is wiped.               *)
Forget ==
  /\ ~shown /\ loaded
  /\ loaded' = FALSE /\ missing' = FALSE
  /\ request' = "idle" /\ behind' = FALSE /\ lost' = FALSE /\ seenRunning' = FALSE
  /\ UNCHANGED <<view, change, shown, notices, answers, online, budget, running, readRunning>>

Next ==
  \/ \E c \in Changes, mine \in BOOLEAN : Happen(c, mine)
  \/ Hear
  \/ \E followed \in BOOLEAN : Answered(followed)
  \/ Read \/ Deliver \/ Fail \/ Poll
  \/ Disconnect \/ Reconnect \/ Leave \/ Open \/ Forget

(* The event loop runs the handlers, the interval of a polled query fires, *)
(* and the server answers the requests that do not fail.                   *)
Fairness ==
  /\ WF_vars(Hear) /\ WF_vars(Read) /\ WF_vars(Deliver) /\ WF_vars(Poll)
  /\ \A followed \in BOOLEAN : WF_vars(Answered(followed))

Spec == Init /\ [][Next]_vars /\ Fairness

-----------------------------------------------------------------------------
(* The changes a view is not told of: no event it listens to is sent for   *)
(* them, or the row it patches in is not all that changed.  A void reaches *)
(* the students' pages only on their next fetch; a colleague's manual      *)
(* award does not reach the scoring panel, whose list of awards is there   *)
(* to prevent a second one for the same entry; a job a colleague starts   *)
(* shows when the page is next fetched, and is followed from then on.      *)
Untold ==
  ({"documentation", "staffDocumentation"}
     \X {"tagsChanged", "creditVoided", "expectationEdited"})
  \cup ({"scoreHistory"} \X {"creditVoided", "memberMoved"})
  \cup ({"roster"} \X {"teamMoved", "memberMoved"})
  \cup {<<"categories", "categoryAdded">>, <<"awardedScores", "scoreAwarded">>,
        <<"expected", "unassignedEdited">>}
  \cup ({"power", "discovery", "documents", "assessments", "execution"} \X {"jobStarted", "jobFinished"})
  \cup ({"rangeReport"} \X Changes)
  \cup ({"summary"} \X (Changes \ {"progressChanged"}))

(* A change of what an open page shows, one of those listed in Change (a   *)
(* reset of the event and the deletion of a team are not among them),      *)
(* arrives on the screen: a polled view recovers whatever was lost, any    *)
(* other view shows the change unless it is one it is never told of, or    *)
(* its notice was spent: sent while the socket was down or the page        *)
(* closed, before a failed fetch, or overtaken by an older answer still on *)
(* its way.                                                                *)
ChangesReachTheScreen ==
  (shown /\ missing)
    ~> (~shown \/ ~missing \/ (~Polling /\ (lost \/ <<view, change>> \in Untold)))

=============================================================================
