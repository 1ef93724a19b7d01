------------------------------- MODULE TtpScoring -------------------------------
(***************************************************************************)
(* ATT&CK tagging and scoring of one scenario (services/ttpScoring,        *)
(* routes/documentation, routes/admin/ttp): students tag timeline entries  *)
(* with techniques, the instructor keeps the list of expected techniques,  *)
(* and reconcileTeamTtps turns matching tags into credits and score rows.  *)
(*                                                                         *)
(* Every handler is synchronous, so a handler is one action. A route's     *)
(* write and the reconcile that follows it are separate transactions, so   *)
(* the process may die between them (the ...ThenDie actions).              *)
(***************************************************************************)
EXTENDS Integers, FiniteSets

CONSTANTS
    Teams,
    Techniques,         \* the ATT&CK catalog
    Parent,             \* a sub-technique's technique; anything else for a top-level one
    MaxExpected,        \* bounds on rowids: cyber_range_expected_ttps,
    MaxEntry,           \*   documentation_entries,
    MaxScore,           \*   and scores
    Points,             \* points an expectation can be worth
    MaxTime,            \* bound on the clock
    PerEntry,           \* MAX_TTPS_PER_ENTRY (3 in the code)
    BudgetTier,         \* techniqueBudget: rounded up to a multiple of this (10) ...
    BudgetFactor        \* ... from this many techniques per expected one (3)

ExpectedIds == 1..MaxExpected
EntryIds    == 1..MaxEntry
ScoreIds    == 1..MaxScore
Times       == 0..MaxTime
Never       == MaxTime + 1          \* first_completed_at IS NULL

ASSUME BoundsAreNatural == MaxExpected \in Nat /\ MaxEntry \in Nat /\ MaxScore \in Nat /\ MaxTime \in Nat
ASSUME PointsArePositive == Points \subseteq Nat \ {0}
ASSUME CatalogIsFinite == IsFiniteSet(Techniques)
ASSUME BudgetIsPositive == BudgetTier \in Nat \ {0} /\ BudgetFactor \in Nat

VARIABLES
    expected,   \* cyber_range_expected_ttps
    entries,    \* documentation_entries
    tags,       \* documentation_entry_ttps, removed ones included
    credits,    \* ttp_detections with status 'credited' (unique per team and expectation)
    voids,      \* ttp_detections with status 'voided', and why
    scores,     \* scores
    progress,   \* team_cyber_range_progress
    now,        \* wall clock
    owed,       \* history: teams whose last reconcile was lost with the process
    peak        \* history: the largest technique budget there has been

vars == <<expected, entries, tags, credits, voids, scores, progress, now, owed, peak>>

NoExpectation == [tech |-> "none"]
NoEntry       == [team |-> "none"]
NoCredit      == [source |-> "none"]
NoScore       == [source |-> "none"]
Unassigned    == [status |-> "none", revealed |-> Never]

Pairs  == Teams \X ExpectedIds
Tag    == [team : Teams, entry : EntryIds, tech : Techniques, at : Times, active : BOOLEAN]
Credit == [source : {"auto", "instructor"}, at : Times, points : Points, score : ScoreIds]

TypeOK ==
    /\ expected \in [ExpectedIds -> [tech : Techniques, points : Points, active : BOOLEAN]
                                      \cup {NoExpectation}]
    /\ entries \in [EntryIds -> [team : Teams, at : Times] \cup {NoEntry}]
    /\ tags \in SUBSET Tag
    /\ credits \in [Pairs -> Credit \cup {NoCredit}]
    /\ voids \in SUBSET (Teams \X ExpectedIds \X {"judged", "removed"})
    /\ scores \in [ScoreIds -> [source : {"ttp", "manual"}, team : Teams, points : Points] \cup {NoScore}]
    /\ progress \in [Teams -> [status : {"active", "paused", "completed"}, revealed : Times \cup {Never}]
                                \cup {Unassigned}]
    /\ now \in Times
    /\ owed \in SUBSET Teams
    /\ peak \in Nat

-------------------------------------------------------------------------------
(* Matching, and what a reconcile is to credit                              *)

Matches(tagged, wanted) == tagged = wanted \/ Parent[tagged] = wanted

LiveIn(exp) == {x \in ExpectedIds : exp[x] # NoExpectation /\ exp[x].active}
Live        == LiveIn(expected)
Credited(t, x) == credits[<<t, x>>] # NoCredit
OnRange     == {t \in Teams : progress[t] # Unassigned}

\* active tags made before the team's first completion
Evidence(t, wanted, tgs) == {g \in tgs :
    g.team = t /\ g.active /\ g.at < progress[t].revealed /\ Matches(g.tech, wanted)}

\* Mutant: a void blocks its own expectation row only, not the technique.
DueIn_VoidByRow(t, exp, tgs) == {x \in LiveIn(exp) :
    /\ ~Credited(t, x)
    /\ \A v \in voids : ~(v[1] = t /\ v[2] = x)
    /\ Evidence(t, exp[x].tech, tgs) # {}}

\* the expectations reconcileTeamTtps(t) credits
DueIn(t, exp, tgs) == {x \in LiveIn(exp) :
    /\ ~Credited(t, x)
    /\ \A v \in voids : v[1] = t => /\ v[2] # x
                                    /\ v[3] = "judged" => exp[v[2]].tech # exp[x].tech
    /\ Evidence(t, exp[x].tech, tgs) # {}}

Earliest(S) == CHOOSE at \in {g.at : g \in S} : \A g \in S : at <= g.at

ScoreRows == {s \in ScoreIds : scores[s] # NoScore}

\* INTEGER PRIMARY KEY: new rows take the ids above the largest one in use
NextRows(f, new) ==
    /\ \A p, q \in new : p # q => f[p] # f[q]
    /\ \A p \in new : /\ \A s \in ScoreRows : s < f[p]
                      /\ f[p] = 1 \/ f[p] - 1 \in ScoreRows \/ \E q \in new : f[q] = f[p] - 1

\* reconcileTeamTtps for the teams of R, after the route has written exp and tgs
Reconcile(R, exp, tgs) ==
    LET new == {p \in Pairs : p[1] \in R /\ p[2] \in DueIn(p[1], exp, tgs)} IN
    \E f \in [new -> ScoreIds] :
        /\ NextRows(f, new)
        /\ credits' = [p \in Pairs |->
             IF p \in new THEN [source |-> "auto",
                                at     |-> Earliest(Evidence(p[1], exp[p[2]].tech, tgs)),
                                points |-> exp[p[2]].points,
                                score  |-> f[p]]
             ELSE credits[p]]
        /\ scores' = [s \in ScoreIds |->
             IF \E p \in new : f[p] = s
             THEN LET p == CHOOSE p \in new : f[p] = s IN
                  [source |-> "ttp", team |-> p[1], points |-> exp[p[2]].points]
             ELSE scores[s]]

\* the reconcile at the end of a handler: team after team, unless the process dies
\* part of the way
ReconcileOrDie(R, exp, tgs) == \E done \in SUBSET R :
    /\ Reconcile(done, exp, tgs)
    /\ owed' = (owed \cup R) \ done

-------------------------------------------------------------------------------
(* The technique budget                                                     *)

TechniqueBudget(n) ==
    LET tiers == (BudgetFactor * n + BudgetTier - 1) \div BudgetTier IN
    IF tiers = 0 THEN BudgetTier ELSE tiers * BudgetTier

Budget == TechniqueBudget(Cardinality(Live))

EverTagged(t) == {g.tech : g \in {h \in tags : h.team = t}}

\* Mutant: removed tags give their technique back.
WithinBudget_ActiveOnly(t, add) ==
    add = {} \/ Cardinality({g.tech : g \in {h \in tags : h.team = t /\ h.active}} \cup add) <= Budget

WithinBudget(t, add) ==
    add = {} \/ Cardinality(EverTagged(t) \cup add) <= Budget

-------------------------------------------------------------------------------
(* Students: entries and their tags                                         *)

NewTags(t, e, techs) ==
    {[team |-> t, entry |-> e, tech |-> k, at |-> now, active |-> TRUE] : k \in techs}

ActiveTechs(e) == {g.tech : g \in {h \in tags : h.entry = e /\ h.active}}

\* setEntryTtps: the desired set replaces the entry's active tags; removal keeps the row
Retagged(t, e, techs) ==
    {IF g.entry = e /\ g.active /\ g.tech \notin techs THEN [g EXCEPT !.active = FALSE] ELSE g
        : g \in tags} \cup NewTags(t, e, techs \ ActiveTechs(e))

MayWrite(t) == progress[t].status = "active"

AddEntry(t, e, techs) ==
    /\ MayWrite(t)
    /\ entries[e] = NoEntry
    /\ Cardinality(techs) <= PerEntry
    /\ WithinBudget(t, techs)
    /\ entries' = [entries EXCEPT ![e] = [team |-> t, at |-> now]]
    /\ tags' = tags \cup NewTags(t, e, techs)
    /\ ReconcileOrDie(IF techs = {} THEN {} ELSE {t}, expected, tags')
    /\ UNCHANGED <<expected, voids, progress, now, peak>>

\* PUT .../ttps; asking for the tags the entry already has changes nothing
SetTags(t, e, techs) ==
    /\ MayWrite(t)
    /\ entries[e] # NoEntry /\ entries[e].team = t
    /\ Cardinality(techs) <= PerEntry
    /\ techs # ActiveTechs(e)
    /\ WithinBudget(t, techs \ ActiveTechs(e))
    /\ tags' = Retagged(t, e, techs)
    /\ ReconcileOrDie({t}, expected, tags')
    /\ UNCHANGED <<expected, entries, voids, progress, now, peak>>

-------------------------------------------------------------------------------
(* The instructor's list of expected techniques                             *)

Larger(a, b) == IF a >= b THEN a ELSE b

\* an expectation row is never deleted, so ids are handed out once
AddExpectation(x, tech, pts) ==
    /\ expected[x] = NoExpectation
    /\ \A y \in 1..(x - 1) : expected[y] # NoExpectation
    /\ \A y \in Live : expected[y].tech # tech
    /\ expected' = [expected EXCEPT ![x] = [tech |-> tech, points |-> pts, active |-> TRUE]]
    /\ peak' = Larger(peak, TechniqueBudget(Cardinality(Live) + 1))
    /\ ReconcileOrDie(OnRange, expected', tags)
    /\ UNCHANGED <<entries, tags, voids, progress, now>>

\* PATCH: points count for later credits only
EditPoints(x, pts) ==
    /\ x \in Live /\ expected[x].points # pts
    /\ expected' = [expected EXCEPT ![x].points = pts]
    /\ UNCHANGED <<entries, tags, credits, voids, scores, progress, now, owed, peak>>

\* voidDetection on every credit of P
Void(P, reason) ==
    /\ credits' = [p \in Pairs |-> IF p \in P THEN NoCredit ELSE credits[p]]
    /\ voids' = voids \cup {<<p[1], p[2], reason>> : p \in P}
    /\ scores' = [s \in ScoreIds |-> IF \E p \in P : credits[p].score = s THEN NoScore ELSE scores[s]]

CreditsOf(x) == {p \in Pairs : p[2] = x /\ credits[p] # NoCredit}

\* Mutant: the credits of a removed technique are not voided.
RemoveExpectation_KeepsCredits(x, voidDetections) ==
    /\ x \in Live
    /\ CreditsOf(x) = {} \/ voidDetections
    /\ expected' = [expected EXCEPT ![x].active = FALSE]
    /\ UNCHANGED <<entries, tags, credits, voids, scores, progress, now, owed, peak>>

\* DELETE: refused while credits exist unless the instructor chose to void them
RemoveExpectation(x, voidDetections) ==
    /\ x \in Live
    /\ CreditsOf(x) = {} \/ voidDetections
    /\ expected' = [expected EXCEPT ![x].active = FALSE]
    /\ Void(CreditsOf(x), "removed")
    /\ UNCHANGED <<entries, tags, progress, now, owed, peak>>

-------------------------------------------------------------------------------
(* Instructor overrides and manual awards                                   *)

\* Mutant: the credit is voided and its score row stays.
VoidDetection_KeepsScore(t, x) ==
    /\ Credited(t, x)
    /\ credits' = [credits EXCEPT ![<<t, x>>] = NoCredit]
    /\ voids' = voids \cup {<<t, x, "judged">>}
    /\ UNCHANGED <<expected, entries, tags, scores, progress, now, owed, peak>>

VoidDetection(t, x) ==
    /\ Credited(t, x)
    /\ Void({<<t, x>>}, "judged")
    /\ UNCHANGED <<expected, entries, tags, progress, now, owed, peak>>

NextRow(s) == (\A r \in ScoreRows : r < s) /\ (s = 1 \/ s - 1 \in ScoreRows)

ManualCredit(t, x, e, s) ==
    /\ x \in Live
    /\ entries[e] # NoEntry /\ entries[e].team = t
    /\ ~Credited(t, x)
    /\ NextRow(s)
    /\ credits' = [credits EXCEPT ![<<t, x>>] =
         [source |-> "instructor", at |-> entries[e].at, points |-> expected[x].points, score |-> s]]
    /\ scores' = [scores EXCEPT ![s] = [source |-> "ttp", team |-> t, points |-> expected[x].points]]
    /\ UNCHANGED <<expected, entries, tags, voids, progress, now, owed, peak>>

\* POST /scores: points given by hand share the table and its rowids
AwardPoints(t, pts, s) ==
    /\ NextRow(s)
    /\ scores' = [scores EXCEPT ![s] = [source |-> "manual", team |-> t, points |-> pts]]
    /\ UNCHANGED <<expected, entries, tags, credits, voids, progress, now, owed, peak>>

-------------------------------------------------------------------------------
(* The team's progress, the clock and the end of an event                   *)

StartScenario(t) ==
    /\ progress[t].status # "active"
    /\ progress' = [progress EXCEPT ![t] = [status |-> "active", revealed |-> @.revealed]]
    /\ UNCHANGED <<expected, entries, tags, credits, voids, scores, now, owed, peak>>

\* the team is switched to another scenario
PauseScenario(t) ==
    /\ progress[t].status = "active"
    /\ progress' = [progress EXCEPT ![t].status = "paused"]
    /\ UNCHANGED <<expected, entries, tags, credits, voids, scores, now, owed, peak>>

\* first_completed_at is set once; the debrief may show the answers from then on
CompleteScenario(t) ==
    /\ progress[t] # Unassigned
    /\ progress' = [progress EXCEPT ![t] =
         [status |-> "completed", revealed |-> IF @.revealed = Never THEN now ELSE @.revealed]]
    /\ UNCHANGED <<expected, entries, tags, credits, voids, scores, now, owed, peak>>

Tick ==
    /\ now < MaxTime
    /\ now' = now + 1
    /\ UNCHANGED <<expected, entries, tags, credits, voids, scores, progress, owed, peak>>

\* ON DELETE CASCADE from teams: one team deleted, or all of them by an event reset.
\* The list of expected techniques is CONFIG and stays.
DeleteTeams(G) ==
    /\ entries' = [e \in EntryIds |-> IF entries[e] # NoEntry /\ entries[e].team \in G
                                       THEN NoEntry ELSE entries[e]]
    /\ tags' = {g \in tags : g.team \notin G}
    /\ credits' = [p \in Pairs |-> IF p[1] \in G THEN NoCredit ELSE credits[p]]
    /\ voids' = {v \in voids : v[1] \notin G}
    /\ scores' = [s \in ScoreIds |-> IF scores[s] # NoScore /\ scores[s].team \in G
                                      THEN NoScore ELSE scores[s]]
    /\ progress' = [t \in Teams |-> IF t \in G THEN Unassigned ELSE progress[t]]
    /\ owed' = owed \ G
    /\ UNCHANGED <<expected, now, peak>>

-------------------------------------------------------------------------------

Init ==
    /\ expected = [x \in ExpectedIds |-> NoExpectation]
    /\ entries = [e \in EntryIds |-> NoEntry]
    /\ tags = {}
    /\ credits = [p \in Pairs |-> NoCredit]
    /\ voids = {}
    /\ scores = [s \in ScoreIds |-> NoScore]
    /\ progress = [t \in Teams |-> Unassigned]
    /\ now = 0
    /\ owed = {}
    /\ peak = TechniqueBudget(0)

Students == \E t \in Teams, e \in EntryIds, techs \in SUBSET Techniques :
    AddEntry(t, e, techs) \/ SetTags(t, e, techs)

Expecting == \E x \in ExpectedIds :
    \/ \E k \in Techniques, pts \in Points : AddExpectation(x, k, pts)
    \/ \E pts \in Points : EditPoints(x, pts)
    \/ \E voidDetections \in BOOLEAN : RemoveExpectation(x, voidDetections)

Overriding == \E t \in Teams :
    \/ \E x \in ExpectedIds : VoidDetection(t, x)
    \/ \E x \in ExpectedIds, e \in EntryIds, s \in ScoreIds : ManualCredit(t, x, e, s)
    \/ \E pts \in Points, s \in ScoreIds : AwardPoints(t, pts, s)

Progressing == \E t \in Teams : StartScenario(t) \/ PauseScenario(t) \/ CompleteScenario(t)

Deleting == \E G \in {Teams} \cup {{t} : t \in Teams} : DeleteTeams(G)

Next == Students \/ Expecting \/ Overriding \/ Progressing \/ Deleting \/ Tick

Spec == Init /\ [][Next]_vars

-------------------------------------------------------------------------------
(* Properties                                                               *)

\* Points and credits never drift apart: every credit has a score row of its own, for
\* its team and its points, and every ATT&CK score row belongs to a credit. Voids
\* delete score rows by id and ids are reused, so a total could otherwise keep the
\* points of a voided credit or lose somebody else's.
ScoresPairCredits ==
    /\ \A p \in Pairs : credits[p] # NoCredit =>
         scores[credits[p].score] = [source |-> "ttp", team |-> p[1], points |-> credits[p].points]
    /\ \A p, q \in Pairs : credits[p] # NoCredit /\ credits[q] # NoCredit
                            /\ credits[p].score = credits[q].score => p = q
    /\ \A s \in ScoreIds : scores[s].source = "ttp" =>
         \E p \in Pairs : credits[p] # NoCredit /\ credits[p].score = s

\* No team keeps points for a technique the scenario no longer expects.
CreditsAreExpected == \A p \in Pairs : credits[p] # NoCredit => p[2] \in Live

\* An instructor's void of a technique stands against automatic credit for as long as
\* the team exists, also when the expectation is removed and added again.
VoidsStand == \A t \in Teams, x, y \in ExpectedIds :
    credits[<<t, x>>].source = "auto" /\ <<t, y, "judged">> \in voids
        => expected[x].tech # expected[y].tech

\* Nothing a team tags after the debrief could have shown it the answers is credited
\* automatically, however often the scenario is started again.
CreditsPredateReveal == \A t \in Teams, x \in ExpectedIds :
    credits[<<t, x>>].source = "auto" => credits[<<t, x>>].at <= progress[t].revealed

\* Whatever was tagged, expected, removed, voided and completed since: every credit is for a
\* technique still expected, an automatic one for work from before the debrief and against
\* nobody's judgement.
CreditsAreDue == CreditsAreExpected /\ CreditsPredateReveal /\ VoidsStand

\* A credit is locked: its points, time and origin never change; it can only be voided
\* or deleted with its team.
CreditsAreLocked == [][\A p \in Pairs :
    credits[p] # NoCredit /\ credits'[p] # credits[p] => credits'[p] = NoCredit]_vars

\* A team never gets to try more techniques than the largest budget there has been:
\* un-tagging gives nothing back.
BudgetHolds == \A t \in Teams : Cardinality(EverTagged(t)) <= peak

===============================================================================
