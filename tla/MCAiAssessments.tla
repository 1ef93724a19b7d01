------------------------------ MODULE MCAiAssessments ------------------------------
(* A small instance of AiAssessments: two criteria, a technique T1.1 of T1. *)
(* A behaviour keeps to one of three scenes: one session whose work and     *)
(* results change in every way, one that is paused, resumed, completed and  *)
(* commented on, or a batch of sessions.                                    *)
EXTENDS AiBatch, TLC

CONSTANTS t1, t2, w1, w2

VARIABLE scene

MCRubric == "identification" :> 60 @@ "clarity" :> 40
MCParentOf(t) == IF t = "T1.1" THEN "T1" ELSE t
MCExpected == {"T1.1", "T2"}

MCContent(w) ==
    IF w = "blank" THEN [records |-> {}, entries |-> {}, tagged |-> {}, words |-> {}, suspicious |-> {}]
    ELSE [records |-> {"e1", "n1"}, entries |-> {"e1"}, tagged |-> IF w = "tagged" THEN {"T2"} ELSE {},
          words |-> {"macro"}, suspicious |-> {"n1"}]

Good == [search |-> TRUE, shape |-> "envelope", cut |-> FALSE, contract |-> "3", mode |-> "final",
         items |-> <<[judgement |-> "correct", evidence |-> {"e1", "e9"}],
                     [judgement |-> "incorrect", evidence |-> {}]>>,
         score |-> "identification" :> 70 @@ "clarity" :> -5, total |-> 65,
         points |-> <<>>, comments |-> {}, mentions |-> {"T1", "T2"}, words |-> {"macro"},
         listed |-> {}, cries |-> TRUE]

\* points out of bounds, a record of nobody, an answer's technique; then the ways a reply is refused
MCReplies ==
    {Good,
     [Good EXCEPT !.search = FALSE, !.shape = "garbage", !.cut = TRUE],
     [Good EXCEPT !.shape = "foreign"],
     [Good EXCEPT !.score = "clarity" :> 40],
     [Good EXCEPT !.mode = "live", !.score = <<>>, !.total = 0,
                  !.points = "e1" :> 5 @@ "e2" :> 500, !.comments = {"e1", "e2"}]}

SceneInit ==
    /\ BatchInit
    /\ \/ AskInit /\ scene \in {"one session", "its times"}
       \/ /\ standing = [t \in Teams |-> [status |-> "active", started |-> 1, completed |-> Never]]
          /\ work = [t \in Teams |-> Blank] /\ moment = 1
          /\ rows = [i \in RowIds |-> NoRow] /\ calls = {} /\ posted = {} /\ asked = <<>>
          /\ scene = "a batch"

OneSession ==
    /\ AskNext /\ UNCHANGED batch
    /\ \A t \in Teams \ {t1} : standing'[t] = NoSession
    /\ Len(asked') <= 2

\* its work is changed; it is started, and then completed or commented on once
OneWork == OneSession /\ moment' <= 2 /\ (t1 \in Sessions => standing'[t1].status # "paused" /\ ~BeginSession(t1))

\* it moves on twice; the work is one and the same, the agent answers well or not at all
ItsTimes ==
    /\ \/ BeginSession(t1) \/ PauseSession(t1) \/ CompleteSession(t1) \/ DeleteTeam(t1) \/ Document(t1, "tagged")
       \/ \E force \in BOOLEAN : RequestAssessment(t1, "final", force)
       \/ \E i \in RowIds : AddFeedback(t1, i)
       \/ \E p \in posted : DeleteFeedback(p)
       \/ \E j \in calls : CallFails(j) \/ Reply(j, Good)
       \/ RestartServer
    /\ Len(asked') <= 2
    /\ UNCHANGED batch

\* one batch, and what happens on the server meanwhile: somebody else asks for one assessment of t1
OneBatch ==
    \/ BatchNext /\ (begun' => begun \/ items = [t \in Teams |-> Absent])
    \/ /\ \/ \E m \in Modes : RequestAssessment(t1, m, TRUE) /\ \A n \in DOMAIN asked : ~asked[n].forced
          \/ DeleteTeam(t1)
          \/ \E j \in calls : CallFails(j) \/ Reply(j, Good)
          \/ RestartServer
       /\ UNCHANGED batch

SpecScenes ==
    /\ SceneInit
    /\ [][/\ \/ scene = "one session" /\ OneWork
             \/ scene = "its times" /\ ItsTimes
             \/ scene = "a batch" /\ OneBatch
          /\ UNCHANGED scene]_<<allVars, scene>>
    /\ \A n \in 1..MaxRequest : WF_askVars(AnswerTo(n))
    /\ BatchFairness
=====================================================================================
