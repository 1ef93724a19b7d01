----------------------------- MODULE TtpScoringProofs -----------------------------
(***************************************************************************)
(* Safety theorems about TtpScoring and what Debrief shows of it, for      *)
(* every number of teams, expectations, entries and score rows, every      *)
(* catalog of techniques and every budget.                                 *)
(***************************************************************************)
EXTENDS Debrief, FiniteSetTheorems, WellFoundedInduction, TLAPS

Expectation == [tech : Techniques, points : Points, active : BOOLEAN]
ScoreRow    == [source : {"ttp", "manual"}, team : Teams, points : Points]
OnProgress  == [status : {"active", "paused", "completed"}, revealed : Times \cup {Never}]

\* What is on record lies in the past, on a scenario its team has begun; the expected techniques differ
\* from each other; a credit is voided for its expectation only once that was removed, or by judgement.
TagsAreOfTheRange == \A g \in tags : progress[g.team] # Unassigned /\ g.at <= now
TagsAreOfEntries == \A g \in tags : entries[g.entry] # NoEntry /\ entries[g.entry].team = g.team
AutoIsPast == \A p \in Pairs : credits[p].source = "auto" => credits[p].at <= now
LiveDiffer == \A x, y \in Live : expected[x].tech = expected[y].tech => x = y
VoidsAreOfRows == \A v \in voids :
    expected[v[2]] # NoExpectation /\ (v[3] = "removed" => v[2] \notin Live)

\* a technique is credited, or a credit for it was voided, or there is nothing to credit it for
Settled(t, x) == Credited(t, x) \/ VoidedFor(t, x) \/ Evidence(t, expected[x].tech, tags) = {}
AllSettled == \A t \in OnRange \ owed, x \in Live : Settled(t, x)

ScoringInv ==
    /\ TypeOK /\ ScoresPairCredits /\ CreditsAreDue /\ AllSettled
    /\ TagsAreOfTheRange /\ TagsAreOfEntries /\ AutoIsPast /\ LiveDiffer /\ VoidsAreOfRows

BudgetInv == BudgetHolds /\ Budget <= peak

-------------------------------------------------------------------------------
(* Rows                                                                     *)

LEMMA RowsAreRows ==
    /\ \A r \in Expectation : r # NoExpectation
    /\ \A r \in Credit : r # NoCredit /\ r.source # "none"
    /\ \A r \in ScoreRow : r # NoScore
    /\ \A r \in OnProgress : r # Unassigned
<1>1. \A r \in Expectation : r # NoExpectation
  BY DEF Expectation, NoExpectation
<1>2. \A r \in Credit : r.source # "none"
  BY DEF Credit
<1>3. \A r \in ScoreRow : r.source # "none"
  BY DEF ScoreRow
<1>4. \A r \in OnProgress : r.status # "none"
  BY DEF OnProgress
<1>5. QED  BY <1>1, <1>2, <1>3, <1>4 DEF NoCredit, NoScore, Unassigned

LEMMA RowTypes ==
    ASSUME TypeOK
    PROVE  /\ expected \in [ExpectedIds -> Expectation \cup {NoExpectation}]
           /\ scores \in [ScoreIds -> ScoreRow \cup {NoScore}]
           /\ progress \in [Teams -> OnProgress \cup {Unassigned}]
BY DEF TypeOK, Expectation, ScoreRow, OnProgress

LEMMA RowsOfExpectations ==
    ASSUME NEW exp \in [ExpectedIds -> Expectation \cup {NoExpectation}], NEW x \in LiveIn(exp)
    PROVE  x \in ExpectedIds /\ exp[x] \in Expectation /\ exp[x].points \in Points /\ exp[x].active
BY DEF LiveIn, Expectation

LEMMA RowsOfCredits ==
    ASSUME TypeOK, NEW p \in Pairs
    PROVE  /\ credits[p] # NoCredit <=> credits[p] \in Credit
           /\ credits[p].source = "auto" => credits[p] # NoCredit
           /\ credits[p] # NoCredit => credits[p].score \in ScoreIds
BY RowsAreRows DEF TypeOK, NoCredit, Credit

\* A non-empty set of numbers has a first one: among the sets of smaller numbers, one is minimal.
LEMMA FirstTime ==
    ASSUME NEW T \in SUBSET Times, T # {}
    PROVE  \E x \in T : \A y \in T : x <= y
<1> DEFINE Below(i) == {k \in Times : k < i}
           A == {Below(i) : i \in T}
<1>1. IsFiniteSet(Times)
  BY BoundsAreNatural, FS_Interval DEF Times
<1>2. FiniteSubsetsOf(Times) = SUBSET Times
  BY <1>1, FS_FiniteSubsetsOfFinite
<1>3. IsWellFoundedOn(StrictSubsetOrdering(Times), SUBSET Times)
  BY <1>2, FS_StrictSubsetOrderingWellFounded
<1>4. A \subseteq SUBSET Times /\ A # {}
  OBVIOUS
<1>5. PICK a \in A : \A b \in A : ~ (<<b, a>> \in StrictSubsetOrdering(Times))
  <2> HIDE DEF A
  <2>1. QED  BY <1>3, <1>4, WFMin
<1>6. PICK x \in T : a = Below(x)
  BY <1>5
<1>7. ASSUME NEW y \in T, ~(x <= y)  PROVE FALSE
  <2>1. x \in Int /\ y \in Int /\ y < x /\ y \in Times
    BY <1>7, BoundsAreNatural DEF Times
  <2>2. Below(y) \subseteq Below(x) /\ y \in Below(x) /\ y \notin Below(y)
    BY <2>1, BoundsAreNatural DEF Times
  <2>3. <<Below(y), Below(x)>> \in StrictSubsetOrdering(Times)
    BY <2>2 DEF StrictSubsetOrdering
  <2>4. QED  BY <1>5, <1>6, <2>3
<1>8. QED  BY <1>6, <1>7

\* the first tag of a set has a time
LEMMA EarliestIsOfATag ==
    ASSUME NEW S \in SUBSET Tag, S # {}
    PROVE  \E g \in S : Earliest(S) = g.at
<1> DEFINE T == {g.at : g \in S}
<1>1. T \in SUBSET Times /\ T # {}
  BY DEF Tag
<1>2. \E at \in T : \A n \in T : at <= n
  <2> HIDE DEF T
  <2>1. QED  BY <1>1, FirstTime
<1>3. \E at \in T : \A g \in S : at <= g.at
  BY <1>2
<1>4. Earliest(S) \in T
  BY <1>3 DEF Earliest
<1>5. QED  BY <1>4

-------------------------------------------------------------------------------
(* A reconcile                                                              *)

\* the credit and the score row given for a pair
NewCredit(p, exp, tgs, s) ==
    [source |-> "auto", at |-> Earliest(Evidence(p[1], exp[p[2]].tech, tgs)), points |-> exp[p[2]].points, score |-> s]
NewScore(p, exp) == [source |-> "ttp", team |-> p[1], points |-> exp[p[2]].points]

LEMMA ReconcileFacts ==
    ASSUME TypeOK, ScoresPairCredits, NEW R \in SUBSET Teams,
           NEW exp \in [ExpectedIds -> Expectation \cup {NoExpectation}], NEW tgs \in SUBSET Tag,
           Reconcile(R, exp, tgs)
    PROVE  /\ credits' \in [Pairs -> Credit \cup {NoCredit}]
           /\ scores' \in [ScoreIds -> ScoreRow \cup {NoScore}]
           /\ ScoresPairCredits'
           /\ \A p \in Pairs : \/ credits'[p] = credits[p]
                               \/ /\ p[1] \in R /\ p[2] \in DueIn(p[1], exp, tgs)
                                  /\ \E g \in Evidence(p[1], exp[p[2]].tech, tgs) : credits'[p].at = g.at
           /\ \A p \in Pairs : p[1] \in R /\ p[2] \in DueIn(p[1], exp, tgs) => credits'[p] # NoCredit
           /\ \A p \in Pairs : credits[p] # NoCredit => credits'[p] = credits[p]
<1> DEFINE new == {p \in Pairs : p[1] \in R /\ p[2] \in DueIn(p[1], exp, tgs)}
           CreditOf(p, s) == NewCredit(p, exp, tgs, s)
           ScoreOf(p) == NewScore(p, exp)
<1>1. PICK f \in [new -> ScoreIds] :
        /\ NextRows(f, new)
        /\ credits' = [p \in Pairs |-> IF p \in new THEN CreditOf(p, f[p]) ELSE credits[p]]
        /\ scores' = [s \in ScoreIds |-> IF \E p \in new : f[p] = s
                      THEN ScoreOf(CHOOSE p \in new : f[p] = s) ELSE scores[s]]
  BY Zenon DEF Reconcile, NewCredit, NewScore
<1>2. \A p \in new : /\ p \in Pairs /\ p[1] \in Teams /\ p[2] \in LiveIn(exp)
                     /\ credits[p] = NoCredit
                     /\ Evidence(p[1], exp[p[2]].tech, tgs) # {}
                     /\ Evidence(p[1], exp[p[2]].tech, tgs) \in SUBSET tgs
  <2>1. \A p \in Pairs : p[1] \in Teams /\ p = <<p[1], p[2]>>
    BY DEF Pairs
  <2>2. QED  BY <2>1 DEF DueIn, Credited, Evidence
<1>3. \A p \in new : \E g \in Evidence(p[1], exp[p[2]].tech, tgs) :
        Earliest(Evidence(p[1], exp[p[2]].tech, tgs)) = g.at
  BY <1>2, EarliestIsOfATag
<1>4. \A p \in new, s \in ScoreIds :
        /\ CreditOf(p, s) \in Credit
        /\ CreditOf(p, s).score = s /\ CreditOf(p, s).points = exp[p[2]].points
        /\ \E g \in Evidence(p[1], exp[p[2]].tech, tgs) : CreditOf(p, s).at = g.at
  <2> SUFFICES ASSUME NEW p \in new, NEW s \in ScoreIds
      PROVE /\ CreditOf(p, s) \in Credit
            /\ CreditOf(p, s).score = s /\ CreditOf(p, s).points = exp[p[2]].points
            /\ \E g \in Evidence(p[1], exp[p[2]].tech, tgs) : CreditOf(p, s).at = g.at
    OBVIOUS
  <2>1. exp[p[2]].points \in Points
    BY <1>2, RowsOfExpectations
  <2>2. PICK g \in tgs : g \in Evidence(p[1], exp[p[2]].tech, tgs) /\ CreditOf(p, s).at = g.at
    BY <1>2, <1>3 DEF NewCredit
  <2>3. g.at \in Times
    BY DEF Tag
  <2>4. QED  BY <2>1, <2>2, <2>3 DEF NewCredit, Credit
<1>5. \A p \in new : /\ ScoreOf(p) \in ScoreRow
                     /\ ScoreOf(p) = [source |-> "ttp", team |-> p[1], points |-> exp[p[2]].points]
                     /\ ScoreOf(p).source = "ttp"
  BY <1>2, RowsOfExpectations DEF NewScore, ScoreRow
<1>6. /\ \A p, q \in new : f[p] = f[q] => p = q
      /\ \A p \in new : f[p] \in ScoreIds /\ f[p] \notin ScoreRows
  BY <1>1, BoundsAreNatural DEF NextRows, ScoreRows, ScoreIds
<1>7. \A p \in new : scores'[f[p]] = ScoreOf(p)
  BY <1>1, <1>6
<1>8. \A s \in ScoreRows : scores'[s] = scores[s]
  BY <1>1, <1>6 DEF ScoreRows
<1>9. \A p \in Pairs : credits'[p] = IF p \in new THEN CreditOf(p, f[p]) ELSE credits[p]
  BY <1>1
<1>10. \A s \in ScoreIds : \/ \E p \in new : f[p] = s /\ scores'[s] = ScoreOf(p)
                           \/ scores'[s] = scores[s] /\ ~ \E p \in new : f[p] = s
  BY <1>1, <1>6
<1> HIDE DEF new, CreditOf, ScoreOf
<1>11. credits' \in [Pairs -> Credit \cup {NoCredit}]
  <2>1. credits \in [Pairs -> Credit \cup {NoCredit}]
    BY DEF TypeOK
  <2>2. \A p \in new : CreditOf(p, f[p]) \in Credit
    BY <1>4, <1>6
  <2>3. QED  BY <1>1, <2>1, <2>2
<1>12. scores' \in [ScoreIds -> ScoreRow \cup {NoScore}]
  <2>1. scores \in [ScoreIds -> ScoreRow \cup {NoScore}]
    BY RowTypes
  <2>2. \A s \in ScoreIds : scores'[s] \in ScoreRow \cup {NoScore}
    BY <1>10, <1>5, <2>1
  <2>3. QED  BY <1>1, <2>2
<1>13. \A p \in Pairs : credits'[p] # NoCredit =>
         scores'[credits'[p].score] = [source |-> "ttp", team |-> p[1], points |-> credits'[p].points]
  <2> SUFFICES ASSUME NEW p \in Pairs, credits'[p] # NoCredit
      PROVE scores'[credits'[p].score] = [source |-> "ttp", team |-> p[1], points |-> credits'[p].points]
    OBVIOUS
  <2>1. CASE p \in new
    BY <2>1, <1>4, <1>5, <1>6, <1>7, <1>9
  <2>2. CASE p \notin new
    <3>1. credits'[p] = credits[p]
      BY <2>2, <1>9
    <3>2. /\ credits[p].score \in ScoreIds
          /\ scores[credits[p].score] = [source |-> "ttp", team |-> p[1], points |-> credits[p].points]
      BY <3>1, RowsOfCredits DEF ScoresPairCredits
    <3>3. credits[p].score \in ScoreRows
      BY <3>2 DEF ScoreRows, NoScore
    <3>4. QED  BY <3>1, <3>2, <3>3, <1>8
  <2>3. QED  BY <2>1, <2>2
<1>14. \A p \in Pairs : credits[p] # NoCredit => credits[p].score \in ScoreRows
  <2> SUFFICES ASSUME NEW p \in Pairs, credits[p] # NoCredit  PROVE credits[p].score \in ScoreRows
    OBVIOUS
  <2>1. credits[p].score \in ScoreIds
    BY RowsOfCredits
  <2>2. scores[credits[p].score] = [source |-> "ttp", team |-> p[1], points |-> credits[p].points]
    BY DEF ScoresPairCredits
  <2>3. scores[credits[p].score].source = "ttp"
    BY <2>2
  <2>4. QED  BY <2>1, <2>3 DEF ScoreRows, NoScore
<1>15. \A p, q \in Pairs : credits'[p] # NoCredit /\ credits'[q] # NoCredit
                            /\ credits'[p].score = credits'[q].score => p = q
  <2> SUFFICES ASSUME NEW p \in Pairs, NEW q \in Pairs, credits'[p] # NoCredit, credits'[q] # NoCredit,
                      credits'[p].score = credits'[q].score, p # q
      PROVE FALSE
    OBVIOUS
  <2>1. \A r \in {p, q} : \/ r \in new /\ credits'[r].score = f[r] /\ f[r] \notin ScoreRows
                          \/ r \notin new /\ credits'[r] = credits[r] /\ credits[r].score \in ScoreRows
    BY <1>4, <1>6, <1>9, <1>14
  <2>2. CASE p \in new /\ q \in new
    BY <2>1, <2>2, <1>6
  <2>3. CASE p \notin new /\ q \notin new
    BY <2>1, <2>3 DEF ScoresPairCredits
  <2>4. QED  BY <2>1, <2>2, <2>3
<1>16. \A s \in ScoreIds : scores'[s].source = "ttp" => \E p \in Pairs : credits'[p] # NoCredit /\ credits'[p].score = s
  <2> SUFFICES ASSUME NEW s \in ScoreIds, scores'[s].source = "ttp"
      PROVE \E p \in Pairs : credits'[p] # NoCredit /\ credits'[p].score = s
    OBVIOUS
  <2>1. CASE \E p \in new : f[p] = s
    BY <2>1, <1>2, <1>4, <1>9, RowsAreRows
  <2>2. CASE scores'[s] = scores[s]
    <3>1. PICK p \in Pairs : credits[p] # NoCredit /\ credits[p].score = s
      BY <2>2 DEF ScoresPairCredits
    <3>2. QED  BY <3>1, <1>2, <1>9
  <2>3. QED  BY <2>1, <2>2, <1>10
<1>17. ScoresPairCredits'
  BY <1>13, <1>15, <1>16 DEF ScoresPairCredits
<1>18. \A p \in Pairs : p[1] \in R /\ p[2] \in DueIn(p[1], exp, tgs) <=> p \in new
  BY DEF new
<1>19. \A p \in new : credits'[p] # NoCredit /\ \E g \in Evidence(p[1], exp[p[2]].tech, tgs) : credits'[p].at = g.at
  BY <1>2, <1>4, <1>6, <1>9, RowsAreRows
<1>20. QED  BY <1>2, <1>9, <1>11, <1>12, <1>17, <1>18, <1>19

-------------------------------------------------------------------------------
(* What a handler that ends in a reconcile keeps                            *)

LEMMA MissesAreSettled ==
    /\ MissesAreMisses <=> AllSettled
    /\ MissesAreMisses' <=> AllSettled'
BY DEF MissesAreMisses, AllSettled, Settled, ExpectedResult

\* expectations are only added, and tags of teams that are not reconciled stay
Grows(R) ==
    /\ \A x \in ExpectedIds : expected[x] # NoExpectation => expected'[x] = expected[x]
    /\ \A t \in OnRange \ R :
         /\ LiveIn(expected') \subseteq Live
         /\ \A g \in tags' : g.team = t => g \in tags

LEMMA ReconciledStep ==
    ASSUME ScoringInv, NEW R \in SUBSET Teams, ReconcileOrDie(R, expected', tags'), Grows(R),
           expected' \in [ExpectedIds -> Expectation \cup {NoExpectation}], tags' \in SUBSET Tag,
           UNCHANGED <<voids, progress, now>>, TagsAreOfTheRange', LiveDiffer'
    PROVE  /\ credits' \in [Pairs -> Credit \cup {NoCredit}]
           /\ scores' \in [ScoreIds -> ScoreRow \cup {NoScore}]
           /\ owed' \in SUBSET Teams
           /\ ScoresPairCredits' /\ CreditsAreDue' /\ AllSettled' /\ AutoIsPast' /\ VoidsAreOfRows'
<1> USE DEF ScoringInv
<1>1. PICK done \in SUBSET R : /\ Reconcile(done, expected', tags')
                               /\ owed' = (owed \cup R) \ done
  BY DEF ReconcileOrDie
<1>2. /\ credits' \in [Pairs -> Credit \cup {NoCredit}]
      /\ scores' \in [ScoreIds -> ScoreRow \cup {NoScore}]
      /\ ScoresPairCredits'
      /\ \A p \in Pairs : \/ credits'[p] = credits[p]
                          \/ /\ p[1] \in done /\ p[2] \in DueIn(p[1], expected', tags')
                             /\ \E g \in Evidence(p[1], expected'[p[2]].tech, tags') : credits'[p].at = g.at
      /\ \A p \in Pairs : p[1] \in done /\ p[2] \in DueIn(p[1], expected', tags') => credits'[p] # NoCredit
      /\ \A p \in Pairs : credits[p] # NoCredit => credits'[p] = credits[p]
  <2>1. done \in SUBSET Teams
    OBVIOUS
  <2>2. QED  BY <1>1, <2>1, ReconcileFacts
<1>3. owed' \in SUBSET Teams
  BY <1>1 DEF TypeOK
<1>4. \A x \in Live : x \in Live' /\ expected'[x] = expected[x]
  BY DEF Live, LiveIn, Grows
<1>5. VoidsAreOfRows'
  <2> SUFFICES ASSUME NEW v \in voids
      PROVE expected'[v[2]] # NoExpectation /\ (v[3] = "removed" => v[2] \notin Live')
    BY DEF VoidsAreOfRows
  <2>1. v[2] \in ExpectedIds
    BY DEF TypeOK
  <2>2. expected[v[2]] # NoExpectation /\ (v[3] = "removed" => v[2] \notin Live)
    BY DEF VoidsAreOfRows
  <2>3. expected'[v[2]] = expected[v[2]]
    BY <2>1, <2>2 DEF Grows
  <2>4. QED  BY <2>1, <2>2, <2>3 DEF Live, LiveIn
<1>6. CreditsAreExpected'
  <2> SUFFICES ASSUME NEW p \in Pairs, credits'[p] # NoCredit  PROVE p[2] \in Live'
    BY DEF CreditsAreExpected
  <2>1. CASE credits'[p] = credits[p]
    BY <2>1, <1>4 DEF CreditsAreDue, CreditsAreExpected
  <2>2. CASE p[2] \in DueIn(p[1], expected', tags')
    BY <2>2 DEF DueIn, Live
  <2>3. QED  BY <2>1, <2>2, <1>2
<1>7. ASSUME NEW t \in Teams, NEW x \in ExpectedIds, credits'[<<t, x>>].source = "auto"
      PROVE /\ credits'[<<t, x>>].at <= progress[t].revealed /\ credits'[<<t, x>>].at <= now
            /\ \A y \in ExpectedIds : <<t, y, "judged">> \in voids => expected'[x].tech # expected'[y].tech
  <2> DEFINE p == <<t, x>>
  <2>1. p \in Pairs /\ p[1] = t /\ p[2] = x
    BY DEF Pairs
  <2>2. CASE credits'[p] = credits[p]
    <3>1. credits[p].source = "auto" /\ credits[p] # NoCredit
      BY <1>7, <2>1, <2>2 DEF NoCredit
    <3>2. credits[p].at <= progress[t].revealed /\ credits[p].at <= now
      BY <3>1, <2>1 DEF CreditsAreDue, CreditsPredateReveal, AutoIsPast
    <3>3. x \in Live
      BY <3>1, <2>1 DEF CreditsAreDue, CreditsAreExpected
    <3>4. expected'[x] = expected[x]
      BY <3>3, <1>4
    <3>5. ASSUME NEW y \in ExpectedIds, <<t, y, "judged">> \in voids
          PROVE expected'[x].tech # expected'[y].tech
      <4>1. expected[y] # NoExpectation
        BY <3>5 DEF VoidsAreOfRows
      <4>2. expected'[y] = expected[y]
        BY <4>1 DEF Grows
      <4>3. expected[x].tech # expected[y].tech
        BY <3>1, <3>5 DEF CreditsAreDue, VoidsStand
      <4>4. QED  BY <3>4, <4>2, <4>3
    <3>6. QED  BY <2>2, <3>2, <3>5
  <2>3. CASE /\ x \in DueIn(t, expected', tags')
             /\ \E g \in Evidence(t, expected'[x].tech, tags') : credits'[p].at = g.at
    <3>1. PICK g \in tags' : /\ credits'[p].at = g.at /\ g.at < progress[t].revealed
      BY <2>3 DEF Evidence
    <3>2. g.at \in Times /\ g.at <= now
      BY <3>1 DEF Tag, TagsAreOfTheRange
    <3>3. progress[t].revealed \in Int \/ progress[t].revealed = Never
      BY BoundsAreNatural DEF TypeOK, Times, Never, Unassigned
    <3>4. credits'[p].at <= progress[t].revealed /\ credits'[p].at <= now
      BY <3>1, <3>2, <3>3, BoundsAreNatural DEF Times, Never
    <3>5. \A v \in voids : v[1] = t /\ v[3] = "judged" => expected'[v[2]].tech # expected'[x].tech
      BY <2>3 DEF DueIn
    <3>6. QED  BY <3>4, <3>5
  <2>4. QED  BY <2>1, <2>2, <2>3, <1>2
<1>8. CreditsAreDue'
  <2>1. CreditsPredateReveal'
    BY <1>7 DEF CreditsPredateReveal
  <2>2. VoidsStand'
    BY <1>7 DEF VoidsStand
  <2>3. QED  BY <1>6, <2>1, <2>2 DEF CreditsAreDue
<1>9. AutoIsPast'
  <2>1. \A p \in Pairs : p = <<p[1], p[2]>> /\ p[1] \in Teams /\ p[2] \in ExpectedIds
    BY DEF Pairs
  <2>2. QED  BY <1>7, <2>1 DEF AutoIsPast
<1>10. AllSettled'
  <2> SUFFICES ASSUME NEW t \in OnRange, t \notin owed', NEW x \in Live'
      PROVE Settled(t, x)'
    BY DEF AllSettled, OnRange
  <2>0. t \in Teams /\ x \in ExpectedIds /\ x \in LiveIn(expected')
    BY DEF OnRange, Live, LiveIn
  <2>1. CASE t \in done
    <3>1. <<t, x>> \in Pairs
      BY <2>0 DEF Pairs
    <3>2. CASE x \in DueIn(t, expected', tags')
      BY <2>1, <3>1, <3>2, <1>2 DEF Settled, Credited
    <3>3. CASE Credited(t, x)
      BY <3>1, <3>3, <1>2 DEF Settled, Credited
    <3>4. CASE Evidence(t, expected'[x].tech, tags') = {}
      BY <3>4 DEF Settled, Evidence
    <3>5. ASSUME NEW v \in voids, v[1] = t, v[2] = x  PROVE VoidedFor(t, x)'
      <4>1. v[3] # "removed"
        BY <3>5, <1>5 DEF VoidsAreOfRows
      <4>2. v[3] \in {"judged", "removed"}
        BY DEF TypeOK
      <4>3. QED  BY <3>5, <4>1, <4>2 DEF VoidedFor
    <3>6. ASSUME NEW v \in voids, v[1] = t, v[3] = "judged", expected'[v[2]].tech = expected'[x].tech
          PROVE VoidedFor(t, x)'
      BY <3>6 DEF VoidedFor
    <3>7. QED  BY <2>0, <3>2, <3>3, <3>4, <3>5, <3>6 DEF DueIn, Settled
  <2>2. CASE t \notin done
    <3>1. t \notin owed /\ t \in OnRange \ R
      BY <1>1, <2>2
    <3>2. x \in Live /\ expected'[x] = expected[x]
      BY <2>0, <3>1, <1>4 DEF Grows
    <3>3. Settled(t, x)
      BY <3>1, <3>2 DEF AllSettled
    <3>4. CASE Credited(t, x)
      BY <2>0, <3>4, <1>2 DEF Settled, Credited, Pairs
    <3>5. CASE VoidedFor(t, x)
      <4>1. PICK v \in voids : v[1] = t /\ v[3] = "judged" /\ expected[v[2]].tech = expected[x].tech
        BY <3>5 DEF VoidedFor
      <4>2. v[2] \in ExpectedIds /\ expected[v[2]] # NoExpectation
        BY DEF TypeOK, VoidsAreOfRows
      <4>3. expected'[v[2]] = expected[v[2]]
        BY <4>2 DEF Grows
      <4>4. QED  BY <3>2, <4>1, <4>3 DEF Settled, VoidedFor
    <3>6. CASE Evidence(t, expected[x].tech, tags) = {}
      <4>1. \A g \in tags' : g.team = t => g \in tags
        BY <3>1 DEF Grows
      <4>2. Evidence(t, expected[x].tech, tags)' = {}
        BY <3>6, <4>1, <3>2 DEF Evidence
      <4>3. QED  BY <4>2, <3>2 DEF Settled
    <3>7. QED  BY <3>3, <3>4, <3>5, <3>6 DEF Settled
  <2>3. QED  BY <2>1, <2>2
<1>11. QED  BY <1>2, <1>3, <1>5, <1>8, <1>9, <1>10

-------------------------------------------------------------------------------
(* Students                                                                 *)

LEMMA NewTagsType ==
    ASSUME TypeOK, NEW t \in Teams, NEW e \in EntryIds, NEW techs \in SUBSET Techniques
    PROVE  NewTags(t, e, techs) \in SUBSET Tag
<1>1. \A k \in Techniques : [team |-> t, entry |-> e, tech |-> k, at |-> now, active |-> TRUE] \in Tag
  BY DEF Tag, TypeOK
<1>2. QED  BY <1>1 DEF NewTags

LEMMA NewTagsAreNew ==
    ASSUME NEW t, NEW e, NEW techs
    PROVE  \A g \in NewTags(t, e, techs) : g.team = t /\ g.entry = e /\ g.at = now
BY DEF NewTags

LEMMA RetaggedType ==
    ASSUME TypeOK, TagsAreOfEntries, TagsAreOfTheRange,
           NEW t \in Teams, NEW e \in EntryIds, entries[e].team = t,
           NEW techs \in SUBSET Techniques
    PROVE  /\ Retagged(t, e, techs) \in SUBSET Tag
           /\ \A g \in Retagged(t, e, techs) :
                \/ g \in tags
                \/ g.team = t /\ g.entry = e /\ g.at <= now
<1> DEFINE Kept(g) == IF g.entry = e /\ g.active /\ g.tech \notin techs THEN [g EXCEPT !.active = FALSE] ELSE g
<1>1. \A g \in Tag : 
        Kept(g) \in Tag /\ (Kept(g) = g \/ /\ Kept(g).team = g.team /\ Kept(g).at = g.at
                                           /\ Kept(g).entry = e /\ g.entry = e)
  BY DEF Tag
<1>2. tags \in SUBSET Tag
  BY DEF TypeOK
<1>3. techs \ ActiveTechs(e) \in SUBSET Techniques
  OBVIOUS
<1>4. Retagged(t, e, techs) = {Kept(g) : g \in tags} \cup NewTags(t, e, techs \ ActiveTechs(e))
  BY DEF Retagged
<1> HIDE DEF Kept
<1>5. \A g \in tags : g.at <= now /\ (g.entry = e => g.team = t)
  BY DEF TagsAreOfEntries, TagsAreOfTheRange
<1>6. \A g \in NewTags(t, e, techs \ ActiveTechs(e)) : g.team = t /\ g.entry = e /\ g.at = now /\ now <= now
  BY BoundsAreNatural DEF NewTags, TypeOK, Times
<1>7. \A g \in tags : \/ Kept(g) \in tags
                      \/ Kept(g).team = t /\ Kept(g).entry = e /\ Kept(g).at <= now
  BY <1>1, <1>2, <1>5
<1>8. {Kept(g) : g \in tags} \in SUBSET Tag
  BY <1>1, <1>2
<1>9. NewTags(t, e, techs \ ActiveTechs(e)) \in SUBSET Tag
  BY <1>3, NewTagsType
<1>10. QED
  BY <1>4, <1>6, <1>7, <1>8, <1>9

LEMMA WritersAreOnRange ==
    ASSUME TypeOK, NEW t \in Teams, MayWrite(t)
    PROVE  t \in OnRange
BY DEF MayWrite, OnRange, Unassigned

LEMMA AddEntryStep ==
    ASSUME ScoringInv, NEW t \in Teams, NEW e \in EntryIds, NEW techs \in SUBSET Techniques,
           AddEntry(t, e, techs)
    PROVE  ScoringInv'
<1> USE DEF ScoringInv
<1> DEFINE R == IF techs = {} THEN {} ELSE {t}
<1>1. /\ tags' = tags \cup NewTags(t, e, techs) /\ UNCHANGED <<expected, voids, progress, now, peak>>
      /\ entries' = [entries EXCEPT ![e] = [team |-> t, at |-> now]] /\ entries[e] = NoEntry
      /\ ReconcileOrDie(R, expected', tags') /\ R \in SUBSET Teams /\ t \in OnRange
  BY WritersAreOnRange DEF AddEntry
<1>2. tags' \in SUBSET Tag
  BY <1>1, NewTagsType DEF TypeOK
<1>3. Grows(R)
  BY <1>1, NewTagsAreNew DEF Grows, Live, NewTags
<1>4. TagsAreOfTheRange'
  <2>1. progress[t] # Unassigned /\ now \in Nat
    BY <1>1, BoundsAreNatural DEF OnRange, TypeOK, Times
  <2>2. QED  BY <1>1, <2>1, NewTagsAreNew DEF TagsAreOfTheRange
<1>4a. TagsAreOfEntries'
  <2>1. \A g \in tags : g.entry \in EntryIds
    BY DEF TypeOK, Tag
  <2>2. entries[e] = NoEntry /\ entries'[e] # NoEntry /\ entries'[e].team = t
    <3>1. entries' = [entries EXCEPT ![e] = [team |-> t, at |-> now]] /\ DOMAIN entries = EntryIds
      BY <1>1 DEF TypeOK
    <3>2. entries'[e] = [team |-> t, at |-> now] /\ DOMAIN [team |-> t, at |-> now] # DOMAIN NoEntry
      BY <3>1 DEF NoEntry
    <3>3. QED  BY <1>1, <3>2
  <2>3. \A g \in tags : g.entry # e
    BY <2>2 DEF TagsAreOfEntries
  <2>4. QED  BY <1>1, <2>1, <2>2, <2>3, NewTagsAreNew DEF TagsAreOfEntries, TypeOK
<1>5. LiveDiffer'
  BY <1>1 DEF LiveDiffer, Live
<1>6. expected' \in [ExpectedIds -> Expectation \cup {NoExpectation}]
  BY <1>1, RowTypes
<1> HIDE DEF R
<1>7. /\ credits' \in [Pairs -> Credit \cup {NoCredit}]
      /\ scores' \in [ScoreIds -> ScoreRow \cup {NoScore}]
      /\ owed' \in SUBSET Teams
      /\ ScoresPairCredits' /\ CreditsAreDue' /\ AllSettled' /\ AutoIsPast' /\ VoidsAreOfRows'
  BY <1>1, <1>2, <1>3, <1>4, <1>5, <1>6, ReconciledStep
<1>8. entries' \in [EntryIds -> [team : Teams, at : Times] \cup {NoEntry}]
  BY <1>1 DEF TypeOK
<1>9. TypeOK'
  BY <1>1, <1>2, <1>6, <1>7, <1>8 DEF TypeOK, Expectation, ScoreRow
<1>10. QED  BY <1>4, <1>4a, <1>5, <1>7, <1>9

LEMMA SetTagsStep ==
    ASSUME ScoringInv, NEW t \in Teams, NEW e \in EntryIds, NEW techs \in SUBSET Techniques,
           SetTags(t, e, techs)
    PROVE  ScoringInv'
<1> USE DEF ScoringInv
<1>1. /\ tags' = Retagged(t, e, techs) /\ UNCHANGED <<expected, entries, voids, progress, now, peak>>
      /\ ReconcileOrDie({t}, expected', tags') /\ t \in OnRange /\ entries[e] # NoEntry /\ entries[e].team = t
  BY WritersAreOnRange DEF SetTags
<1>2. /\ tags' \in SUBSET Tag
      /\ \A g \in tags' : g \in tags \/ (g.team = t /\ g.entry = e /\ g.at <= now)
  BY <1>1, RetaggedType
<1>3. TagsAreOfTheRange' /\ TagsAreOfEntries'
  BY <1>1, <1>2 DEF TagsAreOfTheRange, TagsAreOfEntries, OnRange
<1>4. LiveDiffer'
  BY <1>1 DEF LiveDiffer, Live
<1>5. expected' \in [ExpectedIds -> Expectation \cup {NoExpectation}]
  BY <1>1, RowTypes
<1>6. Grows({t})
  BY <1>1, <1>2 DEF Grows, Live
<1>7. /\ credits' \in [Pairs -> Credit \cup {NoCredit}]
      /\ scores' \in [ScoreIds -> ScoreRow \cup {NoScore}]
      /\ owed' \in SUBSET Teams
      /\ ScoresPairCredits' /\ CreditsAreDue' /\ AllSettled' /\ AutoIsPast' /\ VoidsAreOfRows'
  BY <1>1, <1>2, <1>3, <1>4, <1>5, <1>6, ReconciledStep
<1>8. TypeOK'
  BY <1>1, <1>2, <1>5, <1>7 DEF TypeOK, Expectation, ScoreRow
<1>9. QED  BY <1>3, <1>4, <1>7, <1>8

-------------------------------------------------------------------------------
(* The list of expected techniques                                          *)

LEMMA AddExpectationStep ==
    ASSUME ScoringInv, NEW x \in ExpectedIds, NEW tech \in Techniques, NEW pts \in Points,
           AddExpectation(x, tech, pts), peak' \in Nat
    PROVE  ScoringInv'
<1> USE DEF ScoringInv
<1> DEFINE row == [tech |-> tech, points |-> pts, active |-> TRUE]
<1>1. /\ expected[x] = NoExpectation /\ (\A y \in Live : expected[y].tech # tech)
      /\ expected' = [expected EXCEPT ![x] = row]
      /\ ReconcileOrDie(OnRange, expected', tags')
      /\ UNCHANGED <<entries, tags, voids, progress, now>>
  BY DEF AddExpectation
<1>2. row \in Expectation /\ row.active /\ row.tech = tech
  BY DEF Expectation
<1> HIDE DEF row
<1>3. expected \in [ExpectedIds -> Expectation \cup {NoExpectation}]
  BY RowTypes
<1>4. expected' \in [ExpectedIds -> Expectation \cup {NoExpectation}]
  BY <1>1, <1>2, <1>3
<1>5. /\ expected'[x] = row
      /\ \A y \in ExpectedIds : y # x => expected'[y] = expected[y]
  BY <1>1, <1>3
<1>6. tags' \in SUBSET Tag /\ OnRange \in SUBSET Teams
  BY <1>1 DEF TypeOK, OnRange
<1>7. Grows(OnRange)
  BY <1>1, <1>5 DEF Grows
<1>8. TagsAreOfTheRange' /\ TagsAreOfEntries'
  BY <1>1 DEF TagsAreOfTheRange, TagsAreOfEntries
<1>9. LiveDiffer'
  <2> SUFFICES ASSUME NEW y \in Live', NEW z \in Live', expected'[y].tech = expected'[z].tech, y # z
      PROVE FALSE
    BY DEF LiveDiffer
  <2>1. \A u \in Live' : u # x => u \in Live /\ expected'[u] = expected[u]
    BY <1>5 DEF Live, LiveIn
  <2>2. QED  BY <2>1, <1>1, <1>2, <1>5 DEF LiveDiffer
<1>10. /\ credits' \in [Pairs -> Credit \cup {NoCredit}]
       /\ scores' \in [ScoreIds -> ScoreRow \cup {NoScore}]
       /\ owed' \in SUBSET Teams
       /\ ScoresPairCredits' /\ CreditsAreDue' /\ AllSettled' /\ AutoIsPast' /\ VoidsAreOfRows'
  BY <1>1, <1>4, <1>6, <1>7, <1>8, <1>9, ReconciledStep
<1>11. TypeOK'
  BY <1>1, <1>4, <1>6, <1>10 DEF TypeOK, Expectation, ScoreRow
<1>12. QED  BY <1>8, <1>9, <1>10, <1>11

LEMMA EditPointsStep ==
    ASSUME ScoringInv, NEW x \in ExpectedIds, NEW pts \in Points, EditPoints(x, pts)
    PROVE  ScoringInv'
<1> USE DEF ScoringInv
<1>1. /\ x \in Live /\ expected' = [expected EXCEPT ![x].points = pts]
      /\ UNCHANGED <<entries, tags, credits, voids, scores, progress, now, owed, peak>>
  BY DEF EditPoints
<1>2. expected \in [ExpectedIds -> Expectation \cup {NoExpectation}] /\ expected[x] \in Expectation
  BY <1>1, RowTypes DEF Live, LiveIn
<1>3. [expected[x] EXCEPT !.points = pts] \in Expectation
  BY <1>2 DEF Expectation
<1>4. /\ expected'[x] \in Expectation
      /\ expected'[x].tech = expected[x].tech /\ expected'[x].active = expected[x].active
      /\ \A y \in ExpectedIds : y # x => expected'[y] = expected[y]
  BY <1>1, <1>2, <1>3 DEF Expectation
<1>5. expected' \in [ExpectedIds -> Expectation \cup {NoExpectation}]
  BY <1>1, <1>2, <1>3
<1>6. Live' = Live
  BY <1>1, <1>4, RowsAreRows DEF Live, LiveIn
<1>7. \A y \in ExpectedIds : /\ expected'[y].tech = expected[y].tech
                             /\ expected'[y] # NoExpectation <=> expected[y] # NoExpectation
  BY <1>1, <1>2, <1>4, RowsAreRows
<1>8. TypeOK'
  BY <1>1, <1>5 DEF TypeOK, Expectation
<1>9. ScoresPairCredits'
  BY <1>1 DEF ScoresPairCredits
<1>10. CreditsAreDue'
  BY <1>1, <1>6, <1>7 DEF CreditsAreDue, CreditsAreExpected, CreditsPredateReveal, VoidsStand
<1>11. AllSettled'
  <2> SUFFICES ASSUME NEW t \in OnRange \ owed, NEW y \in Live, Settled(t, y)  PROVE Settled(t, y)'
    BY <1>1, <1>6 DEF AllSettled, OnRange
  <2>1. y \in ExpectedIds /\ \A v \in voids : v[2] \in ExpectedIds
    BY DEF Live, LiveIn, TypeOK
  <2>2. VoidedFor(t, y)' <=> VoidedFor(t, y)
    BY <1>1, <1>7, <2>1 DEF VoidedFor
  <2>3. Evidence(t, expected[y].tech, tags)' = Evidence(t, expected[y].tech, tags)
    BY <1>1, <1>7, <2>1 DEF Evidence
  <2>4. Credited(t, y)' <=> Credited(t, y)
    BY <1>1 DEF Credited
  <2>5. QED  BY <2>2, <2>3, <2>4 DEF Settled
<1>12. TagsAreOfTheRange' /\ TagsAreOfEntries' /\ AutoIsPast'
  BY <1>1 DEF TagsAreOfTheRange, TagsAreOfEntries, AutoIsPast
<1>13. LiveDiffer'
  BY <1>6, <1>7 DEF LiveDiffer, Live, LiveIn
<1>14. VoidsAreOfRows'
  BY <1>1, <1>6, <1>7 DEF VoidsAreOfRows, TypeOK
<1>15. QED  BY <1>8, <1>9, <1>10, <1>11, <1>12, <1>13, <1>14

-------------------------------------------------------------------------------
(* Voids                                                                    *)

LEMMA VoidFacts ==
    ASSUME TypeOK, ScoresPairCredits, NEW P \in SUBSET {p \in Pairs : credits[p] # NoCredit},
           NEW reason \in {"judged", "removed"}, Void(P, reason)
    PROVE  /\ credits' \in [Pairs -> Credit \cup {NoCredit}]
           /\ scores' \in [ScoreIds -> ScoreRow \cup {NoScore}]
           /\ voids' \in SUBSET (Teams \X ExpectedIds \X {"judged", "removed"})
           /\ \A p \in Pairs : credits'[p] = IF p \in P THEN NoCredit ELSE credits[p]
           /\ ScoresPairCredits'
<1>1. \A p \in Pairs : credits'[p] = IF p \in P THEN NoCredit ELSE credits[p]
  BY DEF Void
<1>2. \A s \in ScoreIds : scores'[s] = IF \E p \in P : credits[p].score = s THEN NoScore ELSE scores[s]
  BY DEF Void
<1>3. credits \in [Pairs -> Credit \cup {NoCredit}] /\ scores \in [ScoreIds -> ScoreRow \cup {NoScore}]
  BY RowTypes DEF TypeOK
<1>4. credits' \in [Pairs -> Credit \cup {NoCredit}] /\ scores' \in [ScoreIds -> ScoreRow \cup {NoScore}]
  BY <1>3 DEF Void
<1>5. voids' \in SUBSET (Teams \X ExpectedIds \X {"judged", "removed"})
  <2>1. \A p \in P : <<p[1], p[2], reason>> \in Teams \X ExpectedIds \X {"judged", "removed"}
    BY DEF Pairs
  <2>2. QED  BY <2>1 DEF Void, TypeOK
<1>6. \A p \in Pairs : credits'[p] # NoCredit =>
         /\ p \notin P /\ credits'[p] = credits[p] /\ credits[p].score \in ScoreIds
         /\ scores'[credits[p].score] = scores[credits[p].score]
  <2> SUFFICES ASSUME NEW p \in Pairs, credits'[p] # NoCredit
      PROVE /\ p \notin P /\ credits'[p] = credits[p] /\ credits[p].score \in ScoreIds
            /\ scores'[credits[p].score] = scores[credits[p].score]
    OBVIOUS
  <2>1. p \notin P /\ credits'[p] = credits[p] /\ credits[p].score \in ScoreIds
    BY <1>1, RowsOfCredits
  <2>2. ~ \E q \in P : credits[q].score = credits[p].score
    BY <2>1 DEF ScoresPairCredits
  <2>3. QED  BY <1>2, <2>1, <2>2
<1>7. \A p \in Pairs : credits'[p] # NoCredit =>
         scores'[credits'[p].score] = [source |-> "ttp", team |-> p[1], points |-> credits'[p].points]
  <2> SUFFICES ASSUME NEW p \in Pairs, credits'[p] # NoCredit
      PROVE scores'[credits'[p].score] = [source |-> "ttp", team |-> p[1], points |-> credits'[p].points]
    OBVIOUS
  <2>1. scores[credits[p].score] = [source |-> "ttp", team |-> p[1], points |-> credits[p].points]
    BY <1>6 DEF ScoresPairCredits
  <2>2. QED  BY <2>1, <1>6
<1>8. \A s \in ScoreIds : scores'[s].source = "ttp" => \E p \in Pairs : credits'[p] # NoCredit /\ credits'[p].score = s
  <2> SUFFICES ASSUME NEW s \in ScoreIds, scores'[s].source = "ttp"
      PROVE \E p \in Pairs : credits'[p] # NoCredit /\ credits'[p].score = s
    OBVIOUS
  <2>1. scores'[s] = scores[s] /\ ~ \E p \in P : credits[p].score = s
    BY <1>2 DEF NoScore
  <2>2. PICK p \in Pairs : credits[p] # NoCredit /\ credits[p].score = s
    BY <2>1 DEF ScoresPairCredits
  <2>3. QED  BY <1>1, <2>1, <2>2
<1>9. \A p, q \in Pairs : credits'[p] # NoCredit /\ credits'[q] # NoCredit
                            /\ credits'[p].score = credits'[q].score => p = q
  BY <1>6 DEF ScoresPairCredits
<1>10. ScoresPairCredits'
  BY <1>7, <1>8, <1>9 DEF ScoresPairCredits
<1>11. QED  BY <1>1, <1>4, <1>5, <1>10

LEMMA RemoveExpectationStep ==
    ASSUME ScoringInv, NEW x \in ExpectedIds, NEW voidDetections \in BOOLEAN,
           RemoveExpectation(x, voidDetections)
    PROVE  ScoringInv'
<1> USE DEF ScoringInv
<1>1. /\ x \in Live /\ expected' = [expected EXCEPT ![x].active = FALSE]
      /\ Void(CreditsOf(x), "removed")
      /\ UNCHANGED <<entries, tags, progress, now, owed, peak>>
  BY DEF RemoveExpectation
<1>2. CreditsOf(x) \in SUBSET {p \in Pairs : credits[p] # NoCredit} /\ \A p \in CreditsOf(x) : p[2] = x
  BY DEF CreditsOf
<1>3. /\ credits' \in [Pairs -> Credit \cup {NoCredit}]
      /\ scores' \in [ScoreIds -> ScoreRow \cup {NoScore}]
      /\ voids' \in SUBSET (Teams \X ExpectedIds \X {"judged", "removed"})
      /\ \A p \in Pairs : credits'[p] = IF p \in CreditsOf(x) THEN NoCredit ELSE credits[p]
      /\ ScoresPairCredits'
  BY <1>1, <1>2, VoidFacts
<1>4. expected \in [ExpectedIds -> Expectation \cup {NoExpectation}] /\ expected[x] \in Expectation
  BY <1>1, RowTypes DEF Live, LiveIn
<1>5. [expected[x] EXCEPT !.active = FALSE] \in Expectation
  BY <1>4 DEF Expectation
<1>6. /\ expected'[x] \in Expectation
      /\ expected'[x].tech = expected[x].tech /\ ~expected'[x].active
      /\ \A y \in ExpectedIds : y # x => expected'[y] = expected[y]
  BY <1>1, <1>4, <1>5 DEF Expectation
<1>7. expected' \in [ExpectedIds -> Expectation \cup {NoExpectation}]
  BY <1>1, <1>4, <1>5
<1>8. Live' = Live \ {x}
  BY <1>6 DEF Live, LiveIn
<1>9. \A y \in ExpectedIds : /\ expected'[y].tech = expected[y].tech
                             /\ expected'[y] # NoExpectation <=> expected[y] # NoExpectation
  BY <1>1, <1>4, <1>6, RowsAreRows
<1>10. TypeOK'
  BY <1>1, <1>3, <1>7 DEF TypeOK, Expectation, ScoreRow
<1>11. \A v \in voids' : \/ v \in voids
                         \/ v[2] = x /\ v[3] = "removed"
  BY <1>1, <1>2 DEF Void
<1>12. \A p \in Pairs : credits'[p] # NoCredit => credits'[p] = credits[p] /\ p[2] # x
  BY <1>3 DEF CreditsOf
<1>13. CreditsAreDue'
  <2>1. CreditsAreExpected'
    BY <1>8, <1>12 DEF CreditsAreDue, CreditsAreExpected
  <2>2. \A p \in Pairs : credits'[p].source = "auto" => credits'[p] = credits[p]
    BY <1>12 DEF NoCredit
  <2>3. CreditsPredateReveal'
    BY <1>1, <2>2 DEF CreditsAreDue, CreditsPredateReveal, Pairs
  <2>4. \A t \in Teams, y \in ExpectedIds : <<t, y, "judged">> \in voids' => <<t, y, "judged">> \in voids
    BY <1>11
  <2>5. VoidsStand'
    BY <1>9, <2>2, <2>4 DEF CreditsAreDue, VoidsStand, Pairs
  <2>6. QED  BY <2>1, <2>3, <2>5 DEF CreditsAreDue
<1>14. AllSettled'
  <2> SUFFICES ASSUME NEW t \in OnRange \ owed, NEW y \in Live, y # x, Settled(t, y)  PROVE Settled(t, y)'
    BY <1>1, <1>8 DEF AllSettled, OnRange
  <2>1. y \in ExpectedIds /\ t \in Teams /\ \A v \in voids : v[2] \in ExpectedIds
    BY DEF Live, LiveIn, TypeOK, OnRange
  <2>2. CASE VoidedFor(t, y)
    <3>1. voids \subseteq voids'
      BY <1>1 DEF Void
    <3>2. VoidedFor(t, y)'
      BY <1>9, <2>1, <2>2, <3>1 DEF VoidedFor
    <3>3. QED  BY <3>2 DEF Settled
  <2>3. CASE Evidence(t, expected[y].tech, tags) = {}
    <3>1. Evidence(t, expected[y].tech, tags)' = {}
      BY <1>1, <1>9, <2>1, <2>3 DEF Evidence
    <3>2. QED  BY <3>1 DEF Settled
  <2>4. CASE Credited(t, y)
    <3>1. <<t, y>> \in Pairs /\ <<t, y>> \notin CreditsOf(x)
      BY <2>1, <1>2 DEF Pairs
    <3>2. QED  BY <2>4, <3>1, <1>3 DEF Settled, Credited
  <2>5. QED  BY <2>2, <2>3, <2>4 DEF Settled
<1>15. TagsAreOfTheRange' /\ TagsAreOfEntries'
  BY <1>1 DEF TagsAreOfTheRange, TagsAreOfEntries
<1>16. AutoIsPast'
  BY <1>1, <1>12 DEF AutoIsPast, NoCredit
<1>17. LiveDiffer'
  BY <1>8, <1>9 DEF LiveDiffer, Live, LiveIn
<1>18. VoidsAreOfRows'
  <2>1. expected[x] # NoExpectation
    BY <1>4, RowsAreRows
  <2>2. QED  BY <1>3, <1>8, <1>9, <1>11, <2>1 DEF VoidsAreOfRows, TypeOK
<1>19. QED  BY <1>3, <1>10, <1>13, <1>14, <1>15, <1>16, <1>17, <1>18

LEMMA VoidDetectionStep ==
    ASSUME ScoringInv, NEW t \in Teams, NEW x \in ExpectedIds, VoidDetection(t, x)
    PROVE  ScoringInv'
<1> USE DEF ScoringInv
<1>1. /\ Credited(t, x) /\ Void({<<t, x>>}, "judged")
      /\ UNCHANGED <<expected, entries, tags, progress, now, owed, peak>>
  BY DEF VoidDetection
<1>2. <<t, x>> \in Pairs /\ {<<t, x>>} \in SUBSET {p \in Pairs : credits[p] # NoCredit}
  BY <1>1 DEF Credited, Pairs
<1>3. /\ credits' \in [Pairs -> Credit \cup {NoCredit}]
      /\ scores' \in [ScoreIds -> ScoreRow \cup {NoScore}]
      /\ voids' \in SUBSET (Teams \X ExpectedIds \X {"judged", "removed"})
      /\ \A p \in Pairs : credits'[p] = IF p \in {<<t, x>>} THEN NoCredit ELSE credits[p]
      /\ ScoresPairCredits'
  BY <1>1, <1>2, VoidFacts
<1>4. x \in Live
  BY <1>1, <1>2 DEF CreditsAreDue, CreditsAreExpected, Credited
<1>5. voids' = voids \cup {<<t, x, "judged">>}
  BY <1>1 DEF Void
<1>6. TypeOK'
  BY <1>1, <1>3 DEF TypeOK, ScoreRow
<1>7. \A p \in Pairs : credits'[p] # NoCredit => credits'[p] = credits[p] /\ p # <<t, x>>
  BY <1>3
<1>8. CreditsAreDue'
  <2>1. CreditsAreExpected'
    BY <1>1, <1>7 DEF CreditsAreDue, CreditsAreExpected, Live
  <2>2. \A p \in Pairs : credits'[p].source = "auto" => credits'[p] = credits[p] /\ p # <<t, x>> /\ p[2] \in Live
    BY <1>7 DEF NoCredit, CreditsAreDue, CreditsAreExpected
  <2>3. CreditsPredateReveal'
    BY <1>1, <2>2 DEF CreditsAreDue, CreditsPredateReveal, Pairs
  <2>4. VoidsStand'
    <3> SUFFICES ASSUME NEW u \in Teams, NEW y \in ExpectedIds, NEW z \in ExpectedIds,
                        credits'[<<u, y>>].source = "auto", <<u, z, "judged">> \in voids'
        PROVE expected'[y].tech # expected'[z].tech
      BY DEF VoidsStand
    <3>1. credits'[<<u, y>>] = credits[<<u, y>>] /\ <<u, y>> # <<t, x>> /\ y \in Live
      BY <2>2 DEF Pairs
    <3>2. CASE <<u, z, "judged">> \in voids
      BY <1>1, <3>1, <3>2 DEF CreditsAreDue, VoidsStand
    <3>3. CASE u = t /\ z = x
      BY <1>1, <1>4, <3>1, <3>3 DEF LiveDiffer
    <3>4. QED  BY <1>5, <3>2, <3>3
  <2>5. QED  BY <2>1, <2>3, <2>4 DEF CreditsAreDue
<1>9. AllSettled'
  <2> SUFFICES ASSUME NEW u \in OnRange \ owed, NEW y \in Live, Settled(u, y)  PROVE Settled(u, y)'
    BY <1>1 DEF AllSettled, OnRange, Live
  <2>1. y \in ExpectedIds /\ u \in Teams /\ voids \subseteq voids'
    BY <1>5 DEF Live, LiveIn, OnRange
  <2>2. CASE VoidedFor(u, y)
    BY <1>1, <2>1, <2>2 DEF VoidedFor, Settled
  <2>3. CASE Evidence(u, expected[y].tech, tags) = {}
    <3>1. Evidence(u, expected[y].tech, tags)' = {}
      BY <1>1, <2>3 DEF Evidence
    <3>2. QED  BY <3>1 DEF Settled
  <2>4. CASE Credited(u, y)
    <3>1. CASE u = t /\ y = x
      <4>1. <<t, x, "judged">> \in voids'
        BY <1>5
      <4>2. VoidedFor(u, y)'
        BY <1>1, <3>1, <4>1 DEF VoidedFor
      <4>3. QED  BY <4>2 DEF Settled
    <3>2. CASE ~(u = t /\ y = x)
      BY <1>3, <2>1, <2>4, <3>2 DEF Settled, Credited, Pairs
    <3>3. QED  BY <3>1, <3>2
  <2>5. QED  BY <2>2, <2>3, <2>4 DEF Settled
<1>10. TagsAreOfTheRange' /\ TagsAreOfEntries' /\ LiveDiffer'
  BY <1>1 DEF TagsAreOfTheRange, TagsAreOfEntries, LiveDiffer, Live
<1>11. AutoIsPast'
  BY <1>1, <1>7 DEF AutoIsPast, NoCredit
<1>12. VoidsAreOfRows'
  <2>1. expected[x] # NoExpectation
    BY <1>4 DEF Live, LiveIn
  <2>2. QED  BY <1>1, <1>5, <2>1 DEF VoidsAreOfRows, Live
<1>13. QED  BY <1>3, <1>6, <1>8, <1>9, <1>10, <1>11, <1>12

-------------------------------------------------------------------------------
(* Credits and points by hand                                               *)

LEMMA ManualCreditStep ==
    ASSUME ScoringInv, NEW t \in Teams, NEW x \in ExpectedIds, NEW e \in EntryIds, NEW s \in ScoreIds,
           ManualCredit(t, x, e, s)
    PROVE  ScoringInv'
<1> USE DEF ScoringInv
<1> DEFINE row == [source |-> "instructor", at |-> entries[e].at, points |-> expected[x].points, score |-> s]
           new == [source |-> "ttp", team |-> t, points |-> expected[x].points]
           q == <<t, x>>
<1>1. /\ x \in Live /\ entries[e] # NoEntry /\ ~Credited(t, x) /\ NextRow(s)
      /\ credits' = [credits EXCEPT ![q] = row] /\ scores' = [scores EXCEPT ![s] = new]
      /\ UNCHANGED <<expected, entries, tags, voids, progress, now, owed, peak>>
  BY DEF ManualCredit
<1>2. q \in Pairs /\ q[1] = t /\ q[2] = x /\ expected[x].points \in Points /\ entries[e].at \in Times
  BY <1>1, RowTypes, RowsOfExpectations DEF Pairs, Live, TypeOK
<1>3. /\ row \in Credit /\ row.source = "instructor" /\ row.score = s /\ row.points = expected[x].points
      /\ new \in ScoreRow /\ new.source = "ttp"
  BY <1>2 DEF Credit, ScoreRow
<1>4. credits \in [Pairs -> Credit \cup {NoCredit}] /\ scores \in [ScoreIds -> ScoreRow \cup {NoScore}]
  BY RowTypes DEF TypeOK
<1>5. credits' \in [Pairs -> Credit \cup {NoCredit}] /\ scores' \in [ScoreIds -> ScoreRow \cup {NoScore}]
  BY <1>1, <1>3, <1>4
<1>6. /\ credits'[q] = row /\ credits[q] = NoCredit
      /\ \A p \in Pairs : p # q => credits'[p] = credits[p]
      /\ scores'[s] = new /\ s \notin ScoreRows
      /\ \A r \in ScoreIds : r # s => scores'[r] = scores[r]
  BY <1>1, <1>2, <1>4, BoundsAreNatural DEF Credited, NextRow, ScoreRows, ScoreIds
<1>6a. \A p \in Pairs : credits[p] # NoCredit => credits[p].score \in ScoreIds \ {s}
  <2> SUFFICES ASSUME NEW p \in Pairs, credits[p] # NoCredit, credits[p].score = s  PROVE FALSE
    BY RowsOfCredits
  <2>1. scores[s] = [source |-> "ttp", team |-> p[1], points |-> credits[p].points]
    BY DEF ScoresPairCredits
  <2>2. scores[s].source = "ttp"
    BY <2>1
  <2>3. QED  BY <1>6, <2>2 DEF ScoreRows, NoScore
<1>7. ScoresPairCredits'
  <2>1. \A p \in Pairs : credits'[p] # NoCredit =>
         scores'[credits'[p].score] = [source |-> "ttp", team |-> p[1], points |-> credits'[p].points]
    <3> SUFFICES ASSUME NEW p \in Pairs, credits'[p] # NoCredit
        PROVE scores'[credits'[p].score] = [source |-> "ttp", team |-> p[1], points |-> credits'[p].points]
      OBVIOUS
    <3>1. CASE p = q
      BY <1>2, <1>3, <1>6, <3>1
    <3>2. CASE p # q
      <4>1. scores[credits[p].score] = [source |-> "ttp", team |-> p[1], points |-> credits[p].points]
        BY <1>6, <3>2 DEF ScoresPairCredits
      <4>2. QED  BY <1>6, <1>6a, <3>2, <4>1
    <3>3. QED  BY <3>1, <3>2
  <2>2. \A p, r \in Pairs : credits'[p] # NoCredit /\ credits'[r] # NoCredit
                            /\ credits'[p].score = credits'[r].score => p = r
    <3> HIDE DEF row, q
    <3>1. QED  BY <1>3, <1>6, <1>6a DEF ScoresPairCredits
  <2>3. ASSUME NEW r \in ScoreIds, scores'[r].source = "ttp"
        PROVE \E p \in Pairs : credits'[p] # NoCredit /\ credits'[p].score = r
    <3>1. CASE r = s
      BY <1>2, <1>3, <1>6, <3>1, RowsAreRows
    <3>2. CASE r # s
      <4>1. PICK p \in Pairs : credits[p] # NoCredit /\ credits[p].score = r
        BY <1>6, <2>3, <3>2 DEF ScoresPairCredits
      <4>2. QED  BY <1>6, <4>1
    <3>3. QED  BY <3>1, <3>2
  <2>4. QED  BY <2>1, <2>2, <2>3 DEF ScoresPairCredits
<1>8. TypeOK'
  BY <1>1, <1>5 DEF TypeOK, ScoreRow
<1>9. \A p \in Pairs : credits'[p].source = "auto" => credits'[p] = credits[p]
  BY <1>3, <1>6
<1>10. CreditsAreDue'
  <2>1. CreditsAreExpected'
    BY <1>1, <1>2, <1>6 DEF CreditsAreDue, CreditsAreExpected, Live
  <2>2. CreditsPredateReveal'
    BY <1>1, <1>9 DEF CreditsAreDue, CreditsPredateReveal, Pairs
  <2>3. VoidsStand'
    BY <1>1, <1>9 DEF CreditsAreDue, VoidsStand, Pairs
  <2>4. QED  BY <2>1, <2>2, <2>3 DEF CreditsAreDue
<1>11. AllSettled'
  <2> SUFFICES ASSUME NEW u \in OnRange \ owed, NEW y \in Live, Settled(u, y)  PROVE Settled(u, y)'
    BY <1>1 DEF AllSettled, OnRange, Live
  <2>1. <<u, y>> \in Pairs
    BY DEF Live, LiveIn, OnRange, Pairs
  <2>2. Credited(u, y) => Credited(u, y)'
    BY <1>3, <1>6, <2>1, RowsAreRows DEF Credited
  <2>3. Evidence(u, expected[y].tech, tags)' = Evidence(u, expected[y].tech, tags)
    BY <1>1 DEF Evidence
  <2>4. VoidedFor(u, y)' <=> VoidedFor(u, y)
    BY <1>1 DEF VoidedFor
  <2>5. QED  BY <2>2, <2>3, <2>4 DEF Settled
<1>12. TagsAreOfTheRange' /\ TagsAreOfEntries' /\ LiveDiffer' /\ VoidsAreOfRows'
  BY <1>1 DEF TagsAreOfTheRange, TagsAreOfEntries, LiveDiffer, VoidsAreOfRows, Live
<1>13. AutoIsPast'
  BY <1>1, <1>9 DEF AutoIsPast
<1>14. QED  BY <1>7, <1>8, <1>10, <1>11, <1>12, <1>13

\* Nothing but score rows and the clock of a team changes.
LEMMA SettledKept ==
    ASSUME ScoringInv, UNCHANGED <<expected, tags, credits, voids, owed>>,
           \A t \in OnRange' : t \in OnRange \/ \A g \in tags : g.team # t,
           \A t \in OnRange' \cap OnRange : \A g \in tags : g.team = t /\ g.at < progress'[t].revealed
                                                              => g.at < progress[t].revealed
    PROVE  AllSettled'
<1> USE DEF ScoringInv
<1> SUFFICES ASSUME NEW t \in OnRange', t \notin owed, NEW x \in Live  PROVE Settled(t, x)'
  BY DEF AllSettled, Live
<1>1. CASE t \in OnRange
  <2>1. Settled(t, x)
    BY <1>1 DEF AllSettled
  <2>2. Evidence(t, expected[x].tech, tags)' \subseteq Evidence(t, expected[x].tech, tags)
    BY <1>1 DEF Evidence
  <2>3. QED  BY <2>1, <2>2 DEF Settled, Credited, VoidedFor
<1>2. CASE \A g \in tags : g.team # t
  <2>1. Evidence(t, expected[x].tech, tags)' = {}
    BY <1>2 DEF Evidence
  <2>2. QED  BY <2>1 DEF Settled
<1>3. QED  BY <1>1, <1>2

LEMMA AwardPointsStep ==
    ASSUME ScoringInv, NEW t \in Teams, NEW pts \in Points, NEW s \in ScoreIds, AwardPoints(t, pts, s)
    PROVE  ScoringInv'
<1> USE DEF ScoringInv
<1> DEFINE new == [source |-> "manual", team |-> t, points |-> pts]
<1>1. /\ NextRow(s) /\ scores' = [scores EXCEPT ![s] = new]
      /\ UNCHANGED <<expected, entries, tags, credits, voids, progress, now, owed, peak>>
  BY DEF AwardPoints
<1>2. new \in ScoreRow /\ new.source # "ttp" /\ scores \in [ScoreIds -> ScoreRow \cup {NoScore}]
  BY RowTypes DEF ScoreRow
<1>3. scores' \in [ScoreIds -> ScoreRow \cup {NoScore}] /\ scores'[s] = new
      /\ \A r \in ScoreIds : r # s => scores'[r] = scores[r]
  BY <1>1, <1>2
<1> HIDE DEF new
<1>4. s \notin ScoreRows
  BY <1>1, BoundsAreNatural DEF NextRow, ScoreRows, ScoreIds
<1>5. TypeOK'
  BY <1>1, <1>3 DEF TypeOK, ScoreRow
<1>6. ScoresPairCredits'
  <2>1. ASSUME NEW p \in Pairs, credits[p] # NoCredit
        PROVE scores'[credits[p].score] = [source |-> "ttp", team |-> p[1], points |-> credits[p].points]
    <3>1. /\ scores[credits[p].score] = [source |-> "ttp", team |-> p[1], points |-> credits[p].points]
          /\ credits[p].score \in ScoreIds
      BY <2>1, RowsOfCredits DEF ScoresPairCredits
    <3>2. credits[p].score \in ScoreRows
      BY <3>1 DEF ScoreRows, NoScore
    <3>3. QED  BY <1>3, <1>4, <3>1, <3>2
  <2>2. \A r \in ScoreIds : scores'[r].source = "ttp" => scores'[r] = scores[r]
    BY <1>2, <1>3
  <2>3. \A r \in ScoreIds : scores'[r].source = "ttp" => \E p \in Pairs : credits[p] # NoCredit /\ credits[p].score = r
    BY <2>2 DEF ScoresPairCredits
  <2>4. QED  BY <1>1, <2>1, <2>3 DEF ScoresPairCredits
<1>7. CreditsAreDue' /\ AutoIsPast'
  BY <1>1 DEF CreditsAreDue, CreditsAreExpected, CreditsPredateReveal, VoidsStand, AutoIsPast, Live
<1>8. AllSettled'
  BY <1>1, SettledKept DEF OnRange
<1>9. TagsAreOfTheRange' /\ TagsAreOfEntries' /\ LiveDiffer' /\ VoidsAreOfRows'
  BY <1>1 DEF TagsAreOfTheRange, TagsAreOfEntries, LiveDiffer, VoidsAreOfRows, Live
<1>10. QED  BY <1>5, <1>6, <1>7, <1>8, <1>9

-------------------------------------------------------------------------------
(* Progress, the clock and deletions                                        *)

LEMMA ProgressStep ==
    ASSUME ScoringInv, NEW t \in Teams, StartScenario(t) \/ PauseScenario(t) \/ CompleteScenario(t)
    PROVE  ScoringInv'
<1> USE DEF ScoringInv
<1>1. progress \in [Teams -> OnProgress \cup {Unassigned}] /\ now \in Times
  BY RowTypes DEF TypeOK
<1>2. progress[t].revealed \in Times \cup {Never}
  BY <1>1 DEF OnProgress, Unassigned
<1>3. PICK status \in {"active", "paused", "completed"}, revealed \in Times \cup {Never} :
        /\ progress' = [progress EXCEPT ![t] = [status |-> status, revealed |-> revealed]]
        /\ revealed = progress[t].revealed \/ (progress[t].revealed = Never /\ revealed = now)
  <2>1. CASE StartScenario(t)
    BY <1>2, <2>1 DEF StartScenario
  <2>2. CASE PauseScenario(t)
    <3>1. progress[t] \in OnProgress
      BY <1>1, <2>2 DEF PauseScenario, Unassigned
    <3>2. [progress[t] EXCEPT !.status = "paused"] = [status |-> "paused", revealed |-> progress[t].revealed]
      BY <3>1 DEF OnProgress
    <3>3. QED  BY <1>2, <2>2, <3>2 DEF PauseScenario
  <2>3. CASE CompleteScenario(t)
    BY <1>1, <1>2, <2>3 DEF CompleteScenario
  <2>4. QED  BY <2>1, <2>2, <2>3
<1>4. UNCHANGED <<expected, entries, tags, credits, voids, scores, now, owed, peak>>
  BY DEF StartScenario, PauseScenario, CompleteScenario
<1>5. /\ progress'[t] = [status |-> status, revealed |-> revealed] /\ progress'[t] \in OnProgress
      /\ progress'[t].revealed = revealed
      /\ \A u \in Teams : u # t => progress'[u] = progress[u]
      /\ progress' \in [Teams -> OnProgress \cup {Unassigned}]
  BY <1>1, <1>3 DEF OnProgress
<1>6. TypeOK'
  BY <1>4, <1>5 DEF TypeOK, OnProgress
<1>7. ScoresPairCredits' /\ AutoIsPast' /\ TagsAreOfEntries' /\ LiveDiffer' /\ VoidsAreOfRows'
  BY <1>4 DEF ScoresPairCredits, AutoIsPast, TagsAreOfEntries, LiveDiffer, VoidsAreOfRows, Live
<1>8. TagsAreOfTheRange'
  BY <1>4, <1>5, RowsAreRows DEF TagsAreOfTheRange, TypeOK, Tag
<1>9. CreditsAreDue'
  <2>1. ASSUME NEW u \in Teams, NEW x \in ExpectedIds, credits[<<u, x>>].source = "auto"
        PROVE credits[<<u, x>>].at <= progress'[u].revealed
    <3>1. credits[<<u, x>>].at <= progress[u].revealed /\ credits[<<u, x>>].at <= now
      BY <2>1 DEF CreditsAreDue, CreditsPredateReveal, AutoIsPast, Pairs
    <3>2. QED  BY <1>3, <1>5, <3>1
  <2>2. CreditsPredateReveal'
    BY <1>4, <2>1 DEF CreditsPredateReveal
  <2>3. CreditsAreExpected' /\ VoidsStand'
    BY <1>4 DEF CreditsAreDue, CreditsAreExpected, VoidsStand, Live
  <2>4. QED  BY <2>2, <2>3 DEF CreditsAreDue
<1>10. AllSettled'
  <2>1. ASSUME NEW u \in OnRange'  PROVE u \in OnRange \/ \A g \in tags : g.team # u
    BY DEF OnRange, TagsAreOfTheRange
  <2>2. ASSUME NEW u \in OnRange' \cap OnRange, NEW g \in tags, g.team = u, g.at < progress'[u].revealed
        PROVE g.at < progress[u].revealed
    <3>1. CASE progress'[u].revealed = progress[u].revealed
      BY <2>2, <3>1
    <3>2. CASE progress[u].revealed = Never
      <4>1. g.at \in Times
        BY DEF TypeOK, Tag
      <4>2. QED  BY <3>2, <4>1, BoundsAreNatural DEF Times, Never
    <3>3. QED  BY <1>3, <1>5, <3>1, <3>2 DEF OnRange
  <2>3. QED  BY <1>4, <2>1, <2>2, SettledKept
<1>11. QED  BY <1>6, <1>7, <1>8, <1>9, <1>10

LEMMA TickStep ==
    ASSUME ScoringInv, Tick
    PROVE  ScoringInv'
<1> USE DEF ScoringInv
<1>1. /\ now' = now + 1 /\ now' \in Times /\ now \in Times
      /\ UNCHANGED <<expected, entries, tags, credits, voids, scores, progress, owed, peak>>
  BY BoundsAreNatural DEF Tick, TypeOK, Times
<1>2. TypeOK'
  BY <1>1 DEF TypeOK
<1>3. ScoresPairCredits' /\ CreditsAreDue' /\ TagsAreOfEntries' /\ LiveDiffer' /\ VoidsAreOfRows'
  BY <1>1 DEF ScoresPairCredits, CreditsAreDue, CreditsAreExpected, CreditsPredateReveal, VoidsStand,
              TagsAreOfEntries, LiveDiffer, VoidsAreOfRows, Live
<1>4. TagsAreOfTheRange'
  <2>1. \A g \in tags : g.at \in Times
    BY DEF TypeOK, Tag
  <2>2. QED  BY <1>1, <2>1, BoundsAreNatural DEF TagsAreOfTheRange, Times
<1>5. AutoIsPast'
  <2>1. \A p \in Pairs : credits[p].source = "auto" => credits[p].at \in Times
    BY DEF TypeOK, Credit, NoCredit
  <2>2. QED  BY <1>1, <2>1, BoundsAreNatural DEF AutoIsPast, Times
<1>6. AllSettled'
  BY <1>1, SettledKept DEF OnRange
<1>7. QED  BY <1>2, <1>3, <1>4, <1>5, <1>6

LEMMA DeleteTeamsStep ==
    ASSUME ScoringInv, NEW G \in SUBSET Teams, DeleteTeams(G)
    PROVE  ScoringInv'
<1> USE DEF ScoringInv
<1>1. /\ tags' = {g \in tags : g.team \notin G}
      /\ \A e \in EntryIds : entries'[e] = IF entries[e] # NoEntry /\ entries[e].team \in G THEN NoEntry ELSE entries[e]
      /\ \A p \in Pairs : credits'[p] = IF p[1] \in G THEN NoCredit ELSE credits[p]
      /\ voids' = {v \in voids : v[1] \notin G}
      /\ \A s \in ScoreIds : scores'[s] = IF scores[s] # NoScore /\ scores[s].team \in G THEN NoScore ELSE scores[s]
      /\ \A t \in Teams : progress'[t] = IF t \in G THEN Unassigned ELSE progress[t]
      /\ owed' = owed \ G
      /\ UNCHANGED <<expected, now, peak>>
  BY DEF DeleteTeams
<1>2. TypeOK'
  BY DEF TypeOK, DeleteTeams
<1>3. \A p \in Pairs : credits'[p] # NoCredit => credits'[p] = credits[p] /\ p[1] \notin G
  BY <1>1
<1>4. \A p \in Pairs : credits'[p].source = "auto" => credits'[p] = credits[p] /\ p[1] \notin G
  BY <1>3 DEF NoCredit
<1>5. ScoresPairCredits'
  <2>1. ASSUME NEW p \in Pairs, credits'[p] # NoCredit
        PROVE scores'[credits'[p].score] = [source |-> "ttp", team |-> p[1], points |-> credits'[p].points]
    <3>1. credits'[p] = credits[p] /\ p[1] \notin G /\ credits[p].score \in ScoreIds
      BY <1>3, <2>1, RowsOfCredits
    <3>2. scores[credits[p].score] = [source |-> "ttp", team |-> p[1], points |-> credits[p].points]
      BY <2>1, <3>1 DEF ScoresPairCredits
    <3>3. scores[credits[p].score].team = p[1]
      BY <3>2
    <3>4. QED  BY <1>1, <3>1, <3>2, <3>3
  <2>2. ASSUME NEW s \in ScoreIds, scores'[s].source = "ttp"
        PROVE \E p \in Pairs : credits'[p] # NoCredit /\ credits'[p].score = s
    <3>1. scores'[s] = scores[s] /\ scores[s].team \notin G
      BY <1>1, <2>2 DEF NoScore
    <3>2. PICK p \in Pairs : credits[p] # NoCredit /\ credits[p].score = s
      BY <2>2, <3>1 DEF ScoresPairCredits
    <3>3. scores[s] = [source |-> "ttp", team |-> p[1], points |-> credits[p].points]
      BY <3>2 DEF ScoresPairCredits
    <3>4. p[1] \notin G
      BY <3>1, <3>3
    <3>5. QED  BY <1>1, <3>2, <3>4
  <2>3. \A p, q \in Pairs : credits'[p] # NoCredit /\ credits'[q] # NoCredit
                            /\ credits'[p].score = credits'[q].score => p = q
    BY <1>3 DEF ScoresPairCredits
  <2>4. QED  BY <2>1, <2>2, <2>3 DEF ScoresPairCredits
<1>6. CreditsAreDue'
  <2>1. CreditsAreExpected'
    BY <1>1, <1>3 DEF CreditsAreDue, CreditsAreExpected, Live
  <2>2. \A t \in Teams, x \in ExpectedIds : <<t, x>> \in Pairs /\ <<t, x>>[1] = t
    BY DEF Pairs
  <2>3. CreditsPredateReveal'
    BY <1>1, <1>4, <2>2 DEF CreditsAreDue, CreditsPredateReveal
  <2>4. VoidsStand'
    BY <1>1, <1>4, <2>2 DEF CreditsAreDue, VoidsStand
  <2>5. QED  BY <2>1, <2>3, <2>4 DEF CreditsAreDue
<1>7. AllSettled'
  <2> SUFFICES ASSUME NEW t \in OnRange', t \notin owed', NEW x \in Live  PROVE Settled(t, x)'
    BY <1>1 DEF AllSettled, Live
  <2>1. t \in Teams /\ t \notin G /\ progress'[t] = progress[t] /\ t \in OnRange \ owed /\ <<t, x>> \in Pairs
    BY <1>1 DEF OnRange, Live, LiveIn, Pairs
  <2>2. Settled(t, x)
    BY <2>1 DEF AllSettled
  <2>3. CASE Credited(t, x)
    BY <1>1, <2>1, <2>3 DEF Settled, Credited
  <2>4. CASE VoidedFor(t, x)
    BY <1>1, <2>1, <2>4 DEF Settled, VoidedFor
  <2>5. CASE Evidence(t, expected[x].tech, tags) = {}
    <3>1. Evidence(t, expected[x].tech, tags)' = {}
      BY <1>1, <2>1, <2>5 DEF Evidence
    <3>2. QED  BY <3>1 DEF Settled
  <2>6. QED  BY <2>2, <2>3, <2>4, <2>5 DEF Settled
<1>8. TagsAreOfTheRange' /\ TagsAreOfEntries'
  <2>1. \A g \in tags : g.team \in Teams /\ g.entry \in EntryIds
    BY DEF TypeOK, Tag
  <2>2. QED  BY <1>1, <2>1 DEF TagsAreOfTheRange, TagsAreOfEntries
<1>9. AutoIsPast'
  BY <1>1, <1>4 DEF AutoIsPast
<1>10. LiveDiffer' /\ VoidsAreOfRows'
  BY <1>1 DEF LiveDiffer, VoidsAreOfRows, Live
<1>11. QED  BY <1>2, <1>5, <1>6, <1>7, <1>8, <1>9, <1>10

-------------------------------------------------------------------------------
(* The technique budget                                                     *)

LEMMA ProductsGrow == \A a, b, k \in Nat : a <= b => a * k <= b * k /\ a * k \in Nat /\ k * a \in Nat /\ k * a <= k * b
<1> SUFFICES ASSUME NEW a \in Nat, NEW b \in Nat, NEW k \in Nat, a <= b
    PROVE a * k <= b * k /\ a * k \in Nat /\ k * a \in Nat /\ k * a <= k * b
  OBVIOUS
<1>1. (b - a) * k >= 0 /\ a * k >= 0
  OBVIOUS
<1>2. (b - a) * k = b * k - a * k
  OBVIOUS
<1>3. k * a = a * k /\ k * b = b * k
  OBVIOUS
<1>4. QED  BY <1>1, <1>2, <1>3

LEMMA QuotientsGrow ==
    ASSUME NEW a \in Nat, NEW b \in Nat, NEW k \in Nat \ {0}, a <= b
    PROVE  a \div k \in Nat /\ a \div k <= b \div k
<1> DEFINE p == a \div k
           q == b \div k
<1>1. p \in Nat /\ q \in Nat
  OBVIOUS
<1>2. a = k * p + (a % k) /\ a % k \in 0..(k - 1) /\ b = k * q + (b % k) /\ b % k \in 0..(k - 1)
  OBVIOUS
<1> HIDE DEF p, q
<1>3. ASSUME q + 1 <= p PROVE FALSE
  <2>1. k * (q + 1) <= k * p
    BY <1>1, <1>3, ProductsGrow
  <2>2. k * (q + 1) = k * q + k
    BY <1>1
  <2>3. k * p \in Int /\ k * q \in Int
    BY <1>1
  <2>4. QED  BY <1>1, <1>2, <2>1, <2>2, <2>3
<1>4. p <= q
  BY <1>1, <1>3
<1>5. QED  BY <1>1, <1>4 DEF p, q

\* More expected techniques never make a smaller budget.
LEMMA BudgetGrows ==
    ASSUME NEW m \in Nat, NEW n \in Nat, m <= n
    PROVE  TechniqueBudget(m) \in Nat /\ TechniqueBudget(m) <= TechniqueBudget(n)
<1> DEFINE Top(k) == BudgetFactor * k + BudgetTier - 1
           Tiers(k) == Top(k) \div BudgetTier
<1>1. Top(m) \in Nat /\ Top(n) \in Nat /\ Top(m) <= Top(n)
  <2>1. BudgetFactor * m \in Nat /\ BudgetFactor * m <= BudgetFactor * n /\ BudgetFactor * n \in Nat
    BY ProductsGrow, BudgetIsPositive
  <2>2. QED  BY <2>1, BudgetIsPositive
<1> HIDE DEF Top
<1>2. Tiers(m) \in Nat /\ Tiers(n) \in Nat /\ Tiers(m) <= Tiers(n)
  BY <1>1, QuotientsGrow, BudgetIsPositive
<1>3. \A k \in Nat : TechniqueBudget(k) = IF Tiers(k) = 0 THEN BudgetTier ELSE Tiers(k) * BudgetTier
  BY DEF TechniqueBudget, Top
<1> HIDE DEF Tiers
<1>4. Tiers(m) * BudgetTier \in Nat /\ Tiers(m) * BudgetTier <= Tiers(n) * BudgetTier
  BY <1>2, ProductsGrow, BudgetIsPositive
<1>5. CASE Tiers(n) = 0
  BY <1>2, <1>3, <1>5, BudgetIsPositive
<1>6. CASE Tiers(n) # 0
  <2>1. 1 * BudgetTier <= Tiers(n) * BudgetTier
    BY <1>2, <1>6, ProductsGrow, BudgetIsPositive
  <2>2. QED  BY <1>2, <1>3, <1>4, <1>6, <2>1, BudgetIsPositive
<1>7. QED  BY <1>5, <1>6

LEMMA LiveIsFinite ==
    /\ IsFiniteSet(Live) /\ Cardinality(Live) \in Nat
    /\ IsFiniteSet(Live') /\ Cardinality(Live') \in Nat
<1>1. IsFiniteSet(ExpectedIds)
  BY BoundsAreNatural, FS_Interval DEF ExpectedIds
<1>2. Live \in SUBSET ExpectedIds /\ Live' \in SUBSET ExpectedIds
  BY DEF Live, LiveIn
<1>3. QED  BY <1>1, <1>2, FS_Subset, FS_CardinalityType

LEMMA AddExpectationPeak ==
    ASSUME TypeOK, NEW x \in ExpectedIds, NEW tech \in Techniques, NEW pts \in Points, AddExpectation(x, tech, pts)
    PROVE  peak' \in Nat /\ peak <= peak' /\ TechniqueBudget(Cardinality(Live) + 1) <= peak'
<1>1. TechniqueBudget(Cardinality(Live) + 1) \in Nat
  BY LiveIsFinite, BudgetGrows
<1>2. peak \in Nat
  BY DEF TypeOK
<1>3. QED  BY <1>1, <1>2 DEF AddExpectation, Larger

-------------------------------------------------------------------------------
(* The invariant                                                            *)

LEMMA ScoringStart == Init => ScoringInv
<1> SUFFICES ASSUME Init  PROVE ScoringInv
  OBVIOUS
<1> USE DEF Init
<1>1. TechniqueBudget(0) \in Nat
  BY BudgetGrows
<1>2. TypeOK
  BY <1>1, BoundsAreNatural DEF TypeOK, Times
<1>3. ScoresPairCredits
  BY DEF ScoresPairCredits, NoScore
<1>4. CreditsAreDue
  BY DEF CreditsAreDue, CreditsAreExpected, CreditsPredateReveal, VoidsStand, NoCredit, Pairs
<1>5. OnRange = {} /\ Live = {}
  BY DEF OnRange, Live, LiveIn
<1>6. QED
  BY <1>2, <1>3, <1>4, <1>5 DEF ScoringInv, AllSettled, TagsAreOfTheRange, TagsAreOfEntries, AutoIsPast,
     LiveDiffer, VoidsAreOfRows, NoCredit

LEMMA ScoringStep == ScoringInv /\ [Next]_vars => ScoringInv'
<1> SUFFICES ASSUME ScoringInv, [Next]_vars  PROVE ScoringInv'
  OBVIOUS
<1>1. CASE Students
  BY <1>1, AddEntryStep, SetTagsStep DEF Students
<1>2. CASE Expecting
  <2>1. ASSUME NEW x \in ExpectedIds, NEW tech \in Techniques, NEW pts \in Points, AddExpectation(x, tech, pts)
        PROVE ScoringInv'
    BY <2>1, AddExpectationPeak, AddExpectationStep DEF ScoringInv
  <2>2. QED  BY <1>2, <2>1, EditPointsStep, RemoveExpectationStep DEF Expecting
<1>3. CASE Overriding
  BY <1>3, VoidDetectionStep, ManualCreditStep, AwardPointsStep DEF Overriding
<1>4. CASE Progressing
  BY <1>4, ProgressStep DEF Progressing
<1>5. CASE Deleting
  <2>1. PICK G \in SUBSET Teams : DeleteTeams(G)
    BY <1>5 DEF Deleting
  <2>2. QED  BY <2>1, DeleteTeamsStep
<1>6. CASE Tick
  BY <1>6, TickStep
<1>7. CASE UNCHANGED vars
  <2> USE <1>7 DEF vars
  <2>1. TypeOK'
    BY DEF ScoringInv, TypeOK
  <2>2. ScoresPairCredits' /\ CreditsAreDue'
    BY DEF ScoringInv, ScoresPairCredits, CreditsAreDue, CreditsAreExpected, CreditsPredateReveal, VoidsStand, Live
  <2>3. AllSettled'
    BY SettledKept DEF OnRange
  <2>4. TagsAreOfTheRange' /\ TagsAreOfEntries' /\ AutoIsPast' /\ LiveDiffer' /\ VoidsAreOfRows'
    BY DEF ScoringInv, TagsAreOfTheRange, TagsAreOfEntries, AutoIsPast, LiveDiffer, VoidsAreOfRows, Live
  <2>5. QED  BY <2>1, <2>2, <2>3, <2>4 DEF ScoringInv
<1>8. QED  BY <1>1, <1>2, <1>3, <1>4, <1>5, <1>6, <1>7 DEF Next

\* Type correctness: every table holds rows of its columns, whatever students, instructors, the clock and
\* a process that dies between a write and its reconcile do.
THEOREM TypeCorrect == Spec => []TypeOK
<1>1. ScoringInv => TypeOK
  BY DEF ScoringInv
<1>2. QED  BY ScoringStart, ScoringStep, <1>1, PTL DEF Spec

\* Points and credits never drift apart (ttpScoring): every credit keeps a score row of its own and every
\* ATT&CK score row a credit, through voids, deletions and rowids that are given again.
THEOREM ScoresStayPaired == Spec => []ScoresPairCredits
<1>1. ScoringInv => ScoresPairCredits
  BY DEF ScoringInv
<1>2. QED  BY ScoringStart, ScoringStep, <1>1, PTL DEF Spec

\* Every credit is due (reconcileTeamTtps): its technique is still expected, and if it was given
\* automatically, for work from before the team's debrief and against nobody's judgement.
THEOREM CreditsStayDue == Spec => []CreditsAreDue
<1>1. ScoringInv => CreditsAreDue
  BY DEF ScoringInv
<1>2. QED  BY ScoringStart, ScoringStep, <1>1, PTL DEF Spec

\* A technique the report calls missed was missed (buildTeamTtpReport): an expected technique without a
\* credit has no tag from before the debrief, or a void that the report shows, or a reconcile the process
\* did not live to make.
THEOREM MissesAreReal == Spec => []MissesAreMisses
<1>1. ScoringInv => MissesAreMisses
  BY MissesAreSettled DEF ScoringInv
<1>2. QED  BY ScoringStart, ScoringStep, <1>1, PTL DEF Spec

\* A tag on the timeline is shown as credited exactly if the report counts a technique it satisfies
\* (tagsByEntry and buildTeamTtpReport ask the tables separately).
THEOREM ChipsAreRight == Spec => []ChipsAgree
<1>1. ScoringInv => ChipsAgree
  <2> SUFFICES ASSUME ScoringInv, NEW t \in OnRange, NEW e \in EntryIds, NEW chip \in TagsByEntry(t, e)
      PROVE chip.credited = \E x \in Live : BuildRangeTtpReport[t].expected[x].detected
                                             /\ Matches(chip.technique, expected[x].tech)
    BY DEF ChipsAgree
  <2>1. \A x \in Live : BuildRangeTtpReport[t].expected[x].detected = Credited(t, x)
    BY DEF BuildRangeTtpReport, BuildTeamTtpReport, ExpectedResult
  <2>2. chip.credited = \E x \in ExpectedIds : Credited(t, x) /\ Matches(chip.technique, expected[x].tech)
    <3>1. PICK g \in tags : chip = [technique |-> g.tech,
                 credited |-> \E x \in ExpectedIds : Credited(t, x) /\ Matches(g.tech, expected[x].tech)]
      BY Zenon DEF TagsByEntry
    <3>2. chip.technique = g.tech
      BY <3>1
    <3>3. chip.credited = \E x \in ExpectedIds : Credited(t, x) /\ Matches(g.tech, expected[x].tech)
      BY <3>1
    <3>4. QED  BY <3>2, <3>3
  <2>3. \A x \in ExpectedIds : Credited(t, x) => x \in Live
    BY DEF ScoringInv, CreditsAreDue, CreditsAreExpected, Credited, Pairs, OnRange
  <2>4. Live \subseteq ExpectedIds
    BY DEF Live, LiveIn
  <2>5. QED  BY <2>1, <2>2, <2>3, <2>4
<1>2. QED  BY ScoringStart, ScoringStep, <1>1, PTL DEF Spec

-------------------------------------------------------------------------------
(* How many techniques a team has tried                                     *)

LEMMA TriedAreFinite ==
    ASSUME TypeOK, NEW t
    PROVE  /\ EverTagged(t) \in SUBSET Techniques /\ IsFiniteSet(EverTagged(t))
           /\ Cardinality(EverTagged(t)) \in Nat
<1>1. EverTagged(t) \in SUBSET Techniques
  BY DEF EverTagged, TypeOK, Tag
<1>2. QED  BY <1>1, CatalogIsFinite, FS_Subset, FS_CardinalityType

\* Whoever writes tags has asked whether they are within the budget.
LEMMA TaggingKeepsBudget ==
    ASSUME TypeOK, BudgetInv, NEW t \in Teams, NEW add \in SUBSET Techniques, WithinBudget(t, add),
           \A u \in Teams : EverTagged(u)' \subseteq EverTagged(u) \cup (IF u = t THEN add ELSE {}),
           UNCHANGED <<expected, peak>>
    PROVE  BudgetInv'
<1>1. Budget' = Budget
  BY DEF Budget, Live
<1>2. Budget \in Nat /\ peak \in Nat
  BY LiveIsFinite, BudgetGrows DEF Budget, TypeOK
<1>3. ASSUME NEW u \in Teams  PROVE Cardinality(EverTagged(u)') <= peak
  <2>1. IsFiniteSet(EverTagged(u)) /\ EverTagged(u) \in SUBSET Techniques /\ Cardinality(EverTagged(u)) <= peak
    BY TriedAreFinite DEF BudgetInv, BudgetHolds
  <2>2. CASE u = t /\ add # {}
    <3>1. Cardinality(EverTagged(t) \cup add) <= peak
      <4>1. EverTagged(t) \cup add \in SUBSET Techniques
        BY <2>1, <2>2
      <4>2. Cardinality(EverTagged(t) \cup add) \in Nat
        BY <4>1, CatalogIsFinite, FS_Subset, FS_CardinalityType
      <4>3. Cardinality(EverTagged(t) \cup add) <= Budget /\ Budget <= peak
        BY <2>2 DEF WithinBudget, BudgetInv
      <4>4. QED  BY <4>2, <4>3, <1>2
    <3>2. IsFiniteSet(EverTagged(t) \cup add) /\ EverTagged(t)' \in SUBSET (EverTagged(t) \cup add)
      <4>1. EverTagged(t) \cup add \in SUBSET Techniques
        BY <2>1, <2>2
      <4>2. QED  BY <4>1, CatalogIsFinite, FS_Subset
    <3>3. /\ Cardinality(EverTagged(t)') <= Cardinality(EverTagged(t) \cup add)
          /\ Cardinality(EverTagged(t)') \in Nat /\ Cardinality(EverTagged(t) \cup add) \in Nat
      BY <3>2, FS_Subset, FS_CardinalityType
    <3>4. QED  BY <2>2, <3>1, <3>3, <1>2
  <2>3. CASE ~(u = t /\ add # {})
    <3>1. EverTagged(u)' \in SUBSET EverTagged(u)
      BY <2>3
    <3>2. /\ Cardinality(EverTagged(u)') <= Cardinality(EverTagged(u))
          /\ Cardinality(EverTagged(u)') \in Nat /\ Cardinality(EverTagged(u)) \in Nat
      BY <2>1, <3>1, FS_Subset, FS_CardinalityType
    <3>3. QED  BY <2>1, <3>2, <1>2
  <2>4. QED  BY <2>2, <2>3
<1>4. QED  BY <1>1, <1>3 DEF BudgetInv, BudgetHolds

LEMMA RetaggingKeepsTechniques ==
    ASSUME NEW t, NEW e, NEW techs, tags' = Retagged(t, e, techs), NEW u
    PROVE  EverTagged(u)' \subseteq EverTagged(u) \cup (IF u = t THEN techs \ ActiveTechs(e) ELSE {})
<1> DEFINE Kept(g) == IF g.entry = e /\ g.active /\ g.tech \notin techs THEN [g EXCEPT !.active = FALSE] ELSE g
           added == techs \ ActiveTechs(e)
<1>1. \A g : Kept(g).team = g.team /\ Kept(g).tech = g.tech
  OBVIOUS
<1>2. \A g \in NewTags(t, e, added) : g.team = t /\ g.tech \in added
  BY DEF NewTags
<1>3. tags' = {Kept(g) : g \in tags} \cup NewTags(t, e, added)
  BY DEF Retagged
<1> HIDE DEF Kept, added
<1>4. \A h \in tags' : (\E g \in tags : h = Kept(g)) \/ h \in NewTags(t, e, added)
  BY <1>3
<1>5. EverTagged(u)' \subseteq EverTagged(u) \cup (IF u = t THEN added ELSE {})
  BY <1>1, <1>2, <1>4 DEF EverTagged
<1>6. QED  BY <1>5 DEF added

\* A step that tags nothing new, and after which no more is expected than before.
LEMMA BudgetKept ==
    ASSUME TypeOK, BudgetInv, tags' \subseteq tags, Live' \subseteq Live, peak' = peak
    PROVE  BudgetInv'
<1>1. ASSUME NEW t \in Teams  PROVE Cardinality(EverTagged(t)') <= peak
  <2>1. EverTagged(t)' \in SUBSET EverTagged(t)
    BY DEF EverTagged
  <2>2. /\ Cardinality(EverTagged(t)') <= Cardinality(EverTagged(t)) /\ Cardinality(EverTagged(t)) <= peak
        /\ Cardinality(EverTagged(t)') \in Nat /\ Cardinality(EverTagged(t)) \in Nat /\ peak \in Nat
    BY <2>1, TriedAreFinite, FS_Subset, FS_CardinalityType DEF BudgetInv, BudgetHolds, TypeOK
  <2>3. QED  BY <2>2
<1>2. Budget' <= peak
  <2>1. Cardinality(Live') <= Cardinality(Live) /\ Cardinality(Live') \in Nat /\ Cardinality(Live) \in Nat
    BY LiveIsFinite, FS_Subset
  <2>2. Budget \in Nat /\ Budget' \in Nat /\ Budget' <= Budget
    BY <2>1, BudgetGrows DEF Budget
  <2>3. QED  BY <2>2 DEF BudgetInv, TypeOK
<1>3. QED  BY <1>1, <1>2 DEF BudgetInv, BudgetHolds

LEMMA AddExpectationBudget ==
    ASSUME TypeOK, BudgetInv, NEW x \in ExpectedIds, NEW tech \in Techniques, NEW pts \in Points,
           AddExpectation(x, tech, pts)
    PROVE  BudgetInv'
<1>1. peak' \in Nat /\ peak \in Nat /\ peak <= peak' /\ TechniqueBudget(Cardinality(Live) + 1) <= peak'
  BY AddExpectationPeak DEF TypeOK
<1>2. tags' = tags /\ expected[x] = NoExpectation /\ expected' = [expected EXCEPT ![x] = [tech |-> tech, points |-> pts, active |-> TRUE]]
  BY DEF AddExpectation
<1>3. Live' = Live \cup {x} /\ x \notin Live
  <2>1. /\ expected'[x] = [tech |-> tech, points |-> pts, active |-> TRUE]
        /\ \A y \in ExpectedIds : y # x => expected'[y] = expected[y]
    BY <1>2 DEF TypeOK
  <2>2. expected'[x] \in Expectation /\ expected'[x].active
    BY <2>1 DEF Expectation
  <2>3. QED  BY <1>2, <2>1, <2>2, RowsAreRows DEF Live, LiveIn
<1>4. Budget' = TechniqueBudget(Cardinality(Live) + 1)
  BY <1>3, LiveIsFinite, FS_AddElement DEF Budget
<1>5. ASSUME NEW t \in Teams  PROVE Cardinality(EverTagged(t)') <= peak'
  <2>1. EverTagged(t)' = EverTagged(t) /\ Cardinality(EverTagged(t)) \in Nat /\ Cardinality(EverTagged(t)) <= peak
    BY <1>2, TriedAreFinite DEF EverTagged, BudgetInv, BudgetHolds
  <2>2. QED  BY <1>1, <2>1
<1>6. QED  BY <1>1, <1>4, <1>5 DEF BudgetInv, BudgetHolds

LEMMA BudgetStart == Init => BudgetInv
<1> SUFFICES ASSUME Init  PROVE BudgetInv
  OBVIOUS
<1>1. Live = {} /\ \A t \in Teams : EverTagged(t) = {}
  BY DEF Init, Live, LiveIn, EverTagged
<1>2. Cardinality({}) = 0 /\ TechniqueBudget(0) \in Nat
  BY FS_EmptySet, BudgetGrows
<1>3. Budget <= peak
  BY <1>1, <1>2 DEF Init, Budget
<1>4. \A t \in Teams : Cardinality(EverTagged(t)) <= peak
  BY <1>1, <1>2 DEF Init
<1>5. QED  BY <1>3, <1>4 DEF BudgetInv, BudgetHolds

LEMMA BudgetStep == TypeOK /\ BudgetInv /\ [Next]_vars => BudgetInv'
<1> SUFFICES ASSUME TypeOK, BudgetInv, [Next]_vars  PROVE BudgetInv'
  OBVIOUS
<1>1. ASSUME NEW t \in Teams, NEW e \in EntryIds, NEW techs \in SUBSET Techniques, AddEntry(t, e, techs)
      PROVE BudgetInv'
  <2>1. WithinBudget(t, techs) /\ tags' = tags \cup NewTags(t, e, techs) /\ UNCHANGED <<expected, peak>>
    BY <1>1 DEF AddEntry
  <2>2. \A u \in Teams : EverTagged(u)' \subseteq EverTagged(u) \cup (IF u = t THEN techs ELSE {})
    BY <2>1 DEF EverTagged, NewTags
  <2>3. QED  BY <2>1, <2>2, TaggingKeepsBudget
<1>2. ASSUME NEW t \in Teams, NEW e \in EntryIds, NEW techs \in SUBSET Techniques, SetTags(t, e, techs)
      PROVE BudgetInv'
  <2>1. /\ WithinBudget(t, techs \ ActiveTechs(e)) /\ tags' = Retagged(t, e, techs)
        /\ UNCHANGED <<expected, peak>>
    BY <1>2 DEF SetTags
  <2>2. \A u \in Teams : EverTagged(u)' \subseteq EverTagged(u) \cup (IF u = t THEN techs \ ActiveTechs(e) ELSE {})
    BY <2>1, RetaggingKeepsTechniques
  <2>3. techs \ ActiveTechs(e) \in SUBSET Techniques
    OBVIOUS
  <2>4. QED  BY <2>1, <2>2, <2>3, TaggingKeepsBudget
<1>3. ASSUME NEW x \in ExpectedIds, NEW pts \in Points, EditPoints(x, pts)
      PROVE BudgetInv'
  <2>1. tags' = tags /\ peak' = peak /\ x \in Live /\ expected' = [expected EXCEPT ![x].points = pts]
    BY <1>3 DEF EditPoints
  <2>2. Live' \subseteq Live
    BY <2>1 DEF Live, LiveIn
  <2>3. QED  BY <2>1, <2>2, BudgetKept
<1>4. ASSUME NEW x \in ExpectedIds, NEW voidDetections \in BOOLEAN, RemoveExpectation(x, voidDetections)
      PROVE BudgetInv'
  <2>1. tags' = tags /\ peak' = peak /\ x \in Live /\ expected' = [expected EXCEPT ![x].active = FALSE]
    BY <1>4 DEF RemoveExpectation
  <2>2. Live' \subseteq Live
    BY <2>1 DEF Live, LiveIn
  <2>3. QED  BY <2>1, <2>2, BudgetKept
<1>5. CASE Overriding
  <2>1. UNCHANGED <<tags, expected, peak>>
    BY <1>5 DEF Overriding, VoidDetection, ManualCredit, AwardPoints
  <2>2. QED  BY <2>1, BudgetKept DEF Live
<1>6. CASE Progressing
  <2>1. UNCHANGED <<tags, expected, peak>>
    BY <1>6 DEF Progressing, StartScenario, PauseScenario, CompleteScenario
  <2>2. QED  BY <2>1, BudgetKept DEF Live
<1>7. CASE Deleting
  <2>1. tags' \subseteq tags /\ UNCHANGED <<expected, peak>>
    BY <1>7 DEF Deleting, DeleteTeams
  <2>2. QED  BY <2>1, BudgetKept DEF Live
<1>8. CASE Tick \/ UNCHANGED vars
  <2>1. UNCHANGED <<tags, expected, peak>>
    BY <1>8 DEF Tick, vars
  <2>2. QED  BY <2>1, BudgetKept DEF Live
<1>9. QED
  BY <1>1, <1>2, <1>3, <1>4, <1>5, <1>6, <1>7, <1>8, AddExpectationBudget DEF Next, Students, Expecting

\* A team never gets to try more techniques than the largest budget there has been (setEntryTtps): removed
\* tags are counted too, a new budget follows the number of expected techniques.
THEOREM BudgetAlwaysHolds == Spec => []BudgetHolds
<1>1. Init => ScoringInv /\ BudgetInv
  BY ScoringStart, BudgetStart
<1>2. ScoringInv /\ BudgetInv /\ [Next]_vars => (ScoringInv /\ BudgetInv)'
  BY ScoringStep, BudgetStep DEF ScoringInv
<1>3. BudgetInv => BudgetHolds
  BY DEF BudgetInv
<1>4. QED  BY <1>1, <1>2, <1>3, PTL DEF Spec

-------------------------------------------------------------------------------
(* Credits do not change                                                    *)

\* A credit is locked (ttp_detections): its points, time and origin never change; it can only be voided
\* or deleted with its team, whatever else is edited, tagged, completed or reconciled meanwhile.
THEOREM CreditsStayLocked == Spec => CreditsAreLocked
<1>1. ASSUME ScoringInv, [Next]_vars
      PROVE  \A p \in Pairs : credits[p] # NoCredit /\ credits'[p] # credits[p] => credits'[p] = NoCredit
  <2> DEFINE Locked == \A p \in Pairs : credits[p] # NoCredit /\ credits'[p] # credits[p] => credits'[p] = NoCredit
  <2>1. ASSUME NEW R \in SUBSET Teams, NEW exp \in [ExpectedIds -> Expectation \cup {NoExpectation}],
               NEW tgs \in SUBSET Tag, ReconcileOrDie(R, exp, tgs)
        PROVE Locked
    <3>1. PICK done \in SUBSET Teams : Reconcile(done, exp, tgs)
      BY <2>1 DEF ReconcileOrDie
    <3>2. QED  BY <3>1, <1>1, ReconcileFacts DEF ScoringInv
  <2>2. expected \in [ExpectedIds -> Expectation \cup {NoExpectation}] /\ tags \in SUBSET Tag
    BY <1>1, RowTypes DEF ScoringInv, TypeOK
  <2>3. CASE Students
    <3>1. expected' \in [ExpectedIds -> Expectation \cup {NoExpectation}] /\ tags' \in SUBSET Tag
      BY <1>1, ScoringStep, <2>3, <2>2, AddEntryStep, SetTagsStep DEF ScoringInv, TypeOK, Students, AddEntry, SetTags
    <3>2. QED  BY <2>1, <2>2, <2>3, <3>1 DEF Students, AddEntry, SetTags
  <2>4. ASSUME NEW x \in ExpectedIds, NEW tech \in Techniques, NEW pts \in Points, AddExpectation(x, tech, pts)
        PROVE Locked
    <3>1. expected' \in [ExpectedIds -> Expectation \cup {NoExpectation}]
      <4>1. [tech |-> tech, points |-> pts, active |-> TRUE] \in Expectation
        BY DEF Expectation
      <4>2. QED  BY <2>2, <2>4, <4>1 DEF AddExpectation
    <3>2. OnRange \in SUBSET Teams
      BY DEF OnRange
    <3>3. QED  BY <2>1, <2>2, <2>4, <3>1, <3>2 DEF AddExpectation
  <2>5. ASSUME NEW P, NEW reason, Void(P, reason)  PROVE Locked
    BY <2>5 DEF Void
  <2>6. CASE Expecting
    BY <2>4, <2>5, <2>6 DEF Expecting, EditPoints, RemoveExpectation
  <2>7. CASE Overriding
    <3>1. ASSUME NEW t \in Teams, NEW x \in ExpectedIds, NEW e \in EntryIds, NEW s \in ScoreIds, ManualCredit(t, x, e, s)
          PROVE Locked
      BY <1>1, <3>1 DEF ManualCredit, Credited, ScoringInv, TypeOK
    <3>2. QED  BY <2>5, <2>7, <3>1 DEF Overriding, VoidDetection, AwardPoints
  <2>8. CASE Progressing \/ Tick \/ UNCHANGED vars
    BY <2>8 DEF Progressing, StartScenario, PauseScenario, CompleteScenario, Tick, vars
  <2>9. CASE Deleting
    BY <2>9 DEF Deleting, DeleteTeams
  <2>10. QED  BY <1>1, <2>3, <2>6, <2>7, <2>8, <2>9 DEF Next
<1>2. QED  BY ScoringStart, ScoringStep, <1>1, PTL DEF Spec, CreditsAreLocked

===============================================================================
