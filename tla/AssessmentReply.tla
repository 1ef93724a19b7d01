------------------------------ MODULE AssessmentReply ------------------------------
(***************************************************************************)
(* The deterministic checks on a reply of the assessment agent             *)
(* (services/ai/assessmentValidation, assessmentSafetyChecks and           *)
(* parseEnvelope of assessmentContract). They never judge: they drop what  *)
(* cannot be true of the records that were sent, recompute the arithmetic  *)
(* and raise flags.                                                        *)
(*                                                                         *)
(* A reply is a record:                                                    *)
(*   search     the agent used File Search at least once                   *)
(*   shape      "envelope", "garbage" (not JSON, or not the schema) or     *)
(*              "foreign" (a contract version the server does not know)    *)
(*   cut        stopped at the output cap                                  *)
(*   contract   "2" or "3"                                                 *)
(*   mode       "live" or "final"                                          *)
(*   items      judged items, each [judgement, evidence]                   *)
(*   score      criterion -> awarded points (final)                        *)
(*   total      the agent's own total (final)                              *)
(*   points     entry -> suggested points (live)                           *)
(*   comments   entries the student-safe text comments on (live)           *)
(*   mentions   techniques named in student-safe text                      *)
(*   words      words of the reference used in student-safe text           *)
(*   listed     records the agent says it ignored as instructions          *)
(*   cries      a warning of the agent speaks of ignored instructions      *)
(* What was asked is a record too: mode, records (of which entries), the   *)
(* techniques expected and tagged, the words the team wrote or was given,  *)
(* and the records with instruction-like text.                             *)
(***************************************************************************)
EXTENDS Integers, Sequences, FiniteSets, Functions

CONSTANTS
    Rubric,        \* DEFAULT_RUBRIC: criterion -> its points
    ParentOf(_)    \* a sub-technique's technique; a technique's own id

Claims == {"correct", "partial", "hypothesis"}

SumOf(f) == FoldFunction(+, 0, f)

\* every way to give points within the rubric, whose own points add up to 100
ScoreSheets == {s \in [DOMAIN Rubric -> 0..100] : \A k \in DOMAIN Rubric : s[k] <= Rubric[k]}

ASSUME RubricAddsUp ==
    /\ \A k \in DOMAIN Rubric : Rubric[k] \in 0..100
    /\ \A s \in ScoreSheets : SumOf(s) \in 0..100

Clamp(n, top) == IF n < 0 THEN 0 ELSE IF n > top THEN top ELSE n

\* Math.round of n / m
Rounded(n, m) == (2 * n + m) \div (2 * m)

-------------------------------------------------------------------------------
(* Evidence                                                                 *)

\* checkEvidence: only records of this snapshot
CheckedEvidence(evidence, asked) == evidence \cap asked.records

\* flagSupport: the judgement stays, an item without evidence is marked
Supported(item, asked) ==
    LET kept == CheckedEvidence(item.evidence, asked)
    IN [judgement |-> item.judgement, evidence |-> kept,
        unsupported |-> item.judgement \in Claims /\ kept = {}]

-------------------------------------------------------------------------------
(* Student-safe text                                                        *)

\* findLeakedTechniqueIds: an answer, or the technique it belongs to, that the team has not found
Leaked(mentions, asked) ==
    LET sensitive == asked.expected \cup {ParentOf(t) : t \in asked.expected}
        found     == asked.tagged \cup {ParentOf(t) : t \in asked.tagged}
    IN {t \in mentions : t \in sensitive /\ t \notin asked.tagged /\ ~(t = ParentOf(t) /\ t \in found)}

\* findLeakedReferenceTerms
LeakedTerms(words, asked) == words \ asked.words

-------------------------------------------------------------------------------
(* The score of a final assessment                                          *)

Awarded(score) == [k \in DOMAIN Rubric |-> Clamp(score[k], Rubric[k])]

\* Mutant: the agent's own total is kept.
Total_AsGiven(reply) == reply.total

\* the sum wins over the agent's total
Total(reply) == SumOf(Awarded(reply.score))

Count(items, judgements) == Cardinality({i \in DOMAIN items : items[i].judgement \in judgements})

\* anchoredIdentificationPoints, doubled weights: correct 2, partial and hypothesis 1
Anchored(items, top) ==
    LET assessable == Len(items) - Count(items, {"insufficient_information"})
        weight     == 2 * Count(items, {"correct"}) + Count(items, {"partial", "hypothesis"})
    IN Rounded(top * weight, 2 * assessable)

Tolerance(top) == LET tenth == Rounded(top, 10) IN IF tenth < 2 THEN 2 ELSE tenth

\* contract 3 only, and only when a stage can be assessed
OffTheAnchor(reply) ==
    /\ reply.contract = "3"
    /\ Count(reply.items, {"insufficient_information"}) < Len(reply.items)
    /\ LET top == Rubric["identification"]
           gap == Awarded(reply.score)["identification"] - Anchored(reply.items, top)
       IN gap > Tolerance(top) \/ -gap > Tolerance(top)

-------------------------------------------------------------------------------
(* validateAssessment                                                       *)

\* why a reply is not an answer at all, in the order the checks are made
Faults(reply, asked) ==
    <<[bad |-> ~reply.search,                                             code |-> "ai_no_retrieval"],
      [bad |-> reply.shape = "garbage",                                   code |-> "invalid_response"],
      [bad |-> reply.shape = "foreign",                                   code |-> "contract_mismatch"],
      [bad |-> reply.mode # asked.mode,                                   code |-> "invalid_response"],
      [bad |-> asked.mode = "final" /\ DOMAIN reply.score # DOMAIN Rubric, code |-> "rubric_mismatch"]>>

Faulty(reply, asked) == \E i \in DOMAIN Faults(reply, asked) : Faults(reply, asked)[i].bad

ErrorCode(reply, asked) ==
    LET faults == SelectSeq(Faults(reply, asked), LAMBDA f : f.bad) IN Head(faults).code

\* a reply cut off at the cap is retried as a malformed one, which it is
Retryable(reply, asked) == ErrorCode(reply, asked) # "contract_mismatch"

\* what a failure is reported as
ReportedCode(reply, asked) ==
    IF reply.cut /\ ErrorCode(reply, asked) = "invalid_response" THEN "ai_output_runaway"
    ELSE ErrorCode(reply, asked)

\* the instruction-like records: the server's own scan and the agent's list
Instructions(reply, asked) == (asked.suspicious \cap asked.records) \cup CheckedEvidence(reply.listed, asked)

ValidFinal(reply, asked) ==
    [mode |-> "final",
     items |-> [i \in DOMAIN reply.items |-> Supported(reply.items[i], asked)],
     score |-> Awarded(reply.score), total |-> Total(reply),
     points |-> <<>>, comments |-> {}, mentions |-> reply.mentions,
     adjusted |-> Awarded(reply.score) # reply.score \/ Total(reply) # reply.total,
     leak |-> Leaked(reply.mentions, asked) # {} \/ LeakedTerms(reply.words, asked) # {},
     instructions |-> Instructions(reply, asked),
     falseAlarm |-> reply.cries /\ Instructions(reply, asked) = {},
     offAnchor |-> OffTheAnchor(reply)]

\* suggestedEntryScores: 1..100 points for an entry of this snapshot
KeptPoints(reply, asked) ==
    Restrict(reply.points, {e \in DOMAIN reply.points : e \in asked.entries /\ reply.points[e] \in 1..100})

ValidLive(reply, asked) ==
    [mode |-> "live",
     items |-> [i \in DOMAIN reply.items |-> Supported(reply.items[i], asked)],
     score |-> <<>>, total |-> 0,
     points |-> KeptPoints(reply, asked), comments |-> reply.comments \cap asked.entries,
     mentions |-> reply.mentions,
     adjusted |-> FALSE,
     leak |-> Leaked(reply.mentions, asked) # {} \/ LeakedTerms(reply.words, asked) # {},
     instructions |-> Instructions(reply, asked),
     falseAlarm |-> reply.cries /\ Instructions(reply, asked) = {},
     offAnchor |-> FALSE]

Validated(reply, asked) == IF asked.mode = "final" THEN ValidFinal(reply, asked) ELSE ValidLive(reply, asked)

-------------------------------------------------------------------------------
(* What a stored result must be, whatever the agent said                    *)

\* Every reference is to a record that was sent, a claim without any is marked, the points fit the
\* rubric and add up to the total, suggestions are for entries of the team, and a text that names an
\* answer the team has not found carries the warning.
Sound(result, asked) ==
    /\ \A i \in DOMAIN result.items :
           /\ result.items[i].evidence \subseteq asked.records
           /\ result.items[i].judgement \in Claims /\ result.items[i].evidence = {} => result.items[i].unsupported
    /\ asked.mode = "final" =>
           /\ DOMAIN result.score = DOMAIN Rubric
           /\ \A k \in DOMAIN Rubric : result.score[k] \in 0..Rubric[k]
           /\ result.total = SumOf(result.score) /\ result.total \in 0..100
    /\ asked.mode = "live" =>
           /\ DOMAIN result.points \cup result.comments \subseteq asked.entries
           /\ \A e \in DOMAIN result.points : result.points[e] \in 1..100
    /\ \A t \in asked.expected \ asked.tagged :
           t \in result.mentions /\ (\A u \in asked.tagged : ParentOf(u) # t) => result.leak
    /\ result.mode = asked.mode
=====================================================================================
