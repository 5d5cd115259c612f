-------------------------- MODULE RunActionsProofs --------------------------
(***************************************************************************)
(* Proofs about RunActions, for any calls, any manifest and any number of  *)
(* attempts.  One invariant carries everything: a row that SUCCEEDED has   *)
(* its receipt and its effect, and an attempt past Slack's acceptance has  *)
(* its message in Slack even though its row may not say so yet.            *)
(***************************************************************************)
EXTENDS RunActions, TLAPS

RowIsTrue ==
  \A c \in Call : row[c] = "SUCCEEDED" => external[c] /\ c \in posted \cup noted

AcceptedIsPosted ==
  \A c \in Call, k \in Try : pc[c][k] \in {"accepted", "outside"} => c \in posted

AInv == /\ ATypeOK /\ RowIsTrue /\ AcceptedIsPosted
        /\ AnswerIsTrue /\ SucceededMeansActed

-----------------------------------------------------------------------------
\* An attempt that goes to a place keeps the type of pc.
LEMMA GoTypes ==
  ASSUME ATypeOK, NEW c \in Call, NEW k \in Try, NEW there \in Place,
         Go(c, k, there)
  PROVE  pc' \in [Call -> [Try -> Place]]
BY DEF ATypeOK, Go

LEMMA Places ==
  /\ Over \subseteq Place
  /\ {"begun", "planned", "claimed", "prepared", "posting", "accepted",
      "outside", "failing", "ok", "threw"} \subseteq Place
BY DEF Place, Over

\* Every step of an attempt keeps the types.
LEMMA AttemptTypes ==
  ASSUME ATypeOK, NEW c \in Call, NEW k \in Try,
         \/ Begin(c, k) \/ Plan(c, k) \/ ClaimAction(c, k) \/ WriteActivity(c, k)
         \/ Prepare(c, k) \/ Hold(c, k) \/ SlackAccepts(c, k)
         \/ SlackRejects(c, k) \/ KeepReceipt(c, k) \/ RecordOutside(c, k)
         \/ FailAction(c, k) \/ AttemptDies(c, k)
  PROVE  ATypeOK'
<1>1. PICK there \in Place : Go(c, k, there)
  BY Places, Zenon
     DEF Begin, Plan, ClaimAction, WriteActivity, Prepare, Hold, SlackAccepts,
         SlackRejects, KeepReceipt, RecordOutside, FailAction, AttemptDies, Over
<1>2. pc' \in [Call -> [Try -> Place]]
  BY <1>1, GoTypes
<1>3. CASE Begin(c, k) \/ Prepare(c, k) \/ Hold(c, k) \/ SlackRejects(c, k)
             \/ AttemptDies(c, k)
  BY <1>2, <1>3
     DEF Begin, Prepare, Hold, SlackRejects, AttemptDies, ATypeOK, Rows, World,
         Ending
<1>4. CASE Plan(c, k) \/ FailAction(c, k)
  <2>1. \/ row' = [row EXCEPT ![c] = IF row[c] = "none" THEN "PLANNED" ELSE row[c]]
        \/ row' = [row EXCEPT ![c] = IF Holds(c, k) THEN "FAILED" ELSE row[c]]
    BY <1>4 DEF Plan, FailAction
  <2>2. row' \in [Call -> Status]
    BY <2>1 DEF ATypeOK, Status
  <2>. QED
    BY <1>2, <1>4, <2>2 DEF Plan, FailAction, ATypeOK, World, Ending
<1>5. CASE ClaimAction(c, k)
  <2>1. k \in 0..MaxTries
    BY ActionsAssumption DEF Try
  <2>2. CASE MayClaim(c)
    <3>1. /\ row' = [row EXCEPT ![c] = "RUNNING"]
          /\ holder' = [holder EXCEPT ![c] = k]
          /\ leased' = [leased EXCEPT ![c] = TRUE]
          /\ UNCHANGED <<Ending, external, World>>
      BY <1>5, <2>2 DEF ClaimAction
    <3>. QED
      BY <1>2, <2>1, <3>1 DEF ATypeOK, World, Ending, Status
  <2>3. CASE ~MayClaim(c)
    BY <1>2, <1>5, <2>3 DEF ClaimAction, ATypeOK, World, Ending
  <2>. QED
    BY <2>2, <2>3
<1>6. CASE WriteActivity(c, k)
  <2>1. CASE row' # row \/ noted' # noted \/ external' # external
    <3>1. /\ noted' = noted \cup {c}
          /\ row' = [row EXCEPT ![c] = "SUCCEEDED"]
          /\ external' = [external EXCEPT ![c] = TRUE]
          /\ UNCHANGED <<Ending, holder, leased, refused, posted>>
      BY <1>6, <2>1 DEF WriteActivity
    <3>. QED
      BY <1>2, <3>1 DEF ATypeOK, Ending, Status
  <2>2. CASE UNCHANGED <<row, noted, external>>
    BY <1>2, <1>6, <2>2 DEF WriteActivity, ATypeOK, Ending
  <2>. QED
    BY <2>1, <2>2
<1>7. CASE SlackAccepts(c, k)
  BY <1>2, <1>7 DEF SlackAccepts, ATypeOK, Rows, Ending
<1>8. CASE KeepReceipt(c, k)
  <2>1. CASE Holds(c, k)
    <3>1. /\ row' = [row EXCEPT ![c] = "SUCCEEDED"]
          /\ external' = [external EXCEPT ![c] = TRUE]
          /\ UNCHANGED <<Ending, holder, leased, World>>
      BY <1>8, <2>1 DEF KeepReceipt
    <3>. QED
      BY <1>2, <3>1 DEF ATypeOK, World, Ending, Status
  <2>2. CASE ~Holds(c, k)
    BY <1>2, <1>8, <2>2 DEF KeepReceipt, ATypeOK, World, Ending
  <2>. QED
    BY <2>1, <2>2
<1>9. CASE RecordOutside(c, k)
  <2>1. (external[c] \/ row[c] # "SUCCEEDED") \in BOOLEAN
    OBVIOUS
  <2>2. external' \in [Call -> BOOLEAN]
    BY <1>9, <2>1 DEF RecordOutside, ATypeOK
  <2>. QED
    BY <1>2, <1>9, <2>2 DEF RecordOutside, ATypeOK, World, Ending
<1>. QED
  BY <1>3, <1>4, <1>5, <1>6, <1>7, <1>8, <1>9

\* What happens to the run keeps the types too.
LEMMA RunTypes ==
  ASSUME ATypeOK, RunChanges \/ \E c \in Call : ActionLeaseExpires(c)
  PROVE  ATypeOK'
<1> USE ActionsAssumption DEF ATypeOK, Rows, World, Ending
<1>1. CASE StageResult
  BY <1>1 DEF StageResult
<1>2. CASE SessionCompletes
  BY <1>2 DEF SessionCompletes
<1>3. CASE FinishRun
  <2>1. refused' \subseteq Declared
    BY <1>3 DEF FinishRun
  <2>2. run' \in {"SUCCEEDED", "FAILED"} /\ staged' \in BOOLEAN
    BY <1>3 DEF FinishRun
  <2>. QED
    BY <1>3, <2>1, <2>2 DEF FinishRun
<1>4. CASE FailRun
  BY <1>4 DEF FailRun
<1>5. CASE CancelRun
  <2>1. row' = [c \in Call |-> IF row[c] \in {"PLANNED", "RUNNING"}
                              THEN "CANCELLED" ELSE row[c]]
    BY <1>5 DEF CancelRun
  <2>2. row' \in [Call -> Status]
    BY <2>1 DEF Status
  <2>. QED
    BY <1>5, <2>2 DEF CancelRun
<1>6. CASE CancelRunOnly
  BY <1>6 DEF CancelRunOnly
<1>7. CASE Requeue
  BY <1>7 DEF Requeue
<1>8. CASE Restart
  BY <1>8 DEF Restart
<1>9. CASE \E c \in Call : ActionLeaseExpires(c)
  BY <1>9 DEF ActionLeaseExpires
<1>. QED
  BY <1>1, <1>2, <1>3, <1>4, <1>5, <1>6, <1>7, <1>8, <1>9 DEF RunChanges

LEMMA TypeStep == ATypeOK /\ [ANext]_avars => ATypeOK'
<1> SUFFICES ASSUME ATypeOK, [ANext]_avars PROVE ATypeOK'
    OBVIOUS
<1>1. CASE Attempting
  BY <1>1, AttemptTypes DEF Attempting
<1>2. CASE RunChanges \/ \E c \in Call : ActionLeaseExpires(c)
  BY <1>2, RunTypes
<1>3. CASE UNCHANGED avars
  BY <1>3 DEF avars, ATypeOK
<1>. QED
  BY <1>1, <1>2, <1>3 DEF ANext

-----------------------------------------------------------------------------
\* A row that was performed stays performed, and so does its effect.
Kept ==
  /\ \A d \in Call : row[d] = "SUCCEEDED" => row'[d] = "SUCCEEDED"
  /\ \A d \in Call : external[d] => external'[d]
  /\ posted \subseteq posted' /\ noted \subseteq noted'

\* A row that becomes performed has its receipt and its effect.
Earned ==
  \A d \in Call : row'[d] = "SUCCEEDED" =>
    row[d] = "SUCCEEDED" \/ (external'[d] /\ d \in posted' \cup noted')

\* An attempt goes where its row and its message let it.
LEMMA GoTruth ==
  ASSUME ATypeOK, RowIsTrue, AcceptedIsPosted, AnswerIsTrue, Kept, Earned,
         NEW c \in Call, NEW k \in Try, NEW there \in Place, Go(c, k, there),
         there = "ok" => row'[c] = "SUCCEEDED",
         there \in {"accepted", "outside"} => c \in posted'
  PROVE  RowIsTrue' /\ AcceptedIsPosted' /\ AnswerIsTrue'
<1>1. \A d \in Call, j \in Try :
        pc'[d][j] = IF d = c /\ j = k THEN there ELSE pc[d][j]
  BY DEF Go, ATypeOK
<1>2. RowIsTrue'
  BY DEF RowIsTrue, Kept, Earned
<1>3. AcceptedIsPosted'
  BY <1>1 DEF AcceptedIsPosted, Kept
<1>4. AnswerIsTrue'
  BY <1>1, <1>2 DEF AnswerIsTrue, Kept, RowIsTrue
<1>. QED
  BY <1>2, <1>3, <1>4

\* What an attempt does keeps rows true to the world, and answers to the rows.
LEMMA AttemptTruth ==
  ASSUME ATypeOK, RowIsTrue, AcceptedIsPosted, AnswerIsTrue,
         NEW c \in Call, NEW k \in Try,
         \/ Begin(c, k) \/ Plan(c, k) \/ ClaimAction(c, k) \/ WriteActivity(c, k)
         \/ Prepare(c, k) \/ Hold(c, k) \/ SlackAccepts(c, k)
         \/ SlackRejects(c, k) \/ KeepReceipt(c, k) \/ RecordOutside(c, k)
         \/ FailAction(c, k) \/ AttemptDies(c, k)
  PROVE  RowIsTrue' /\ AcceptedIsPosted' /\ AnswerIsTrue' /\ Kept
<1>1. CASE Begin(c, k)
  <2>1. PICK there \in {"ok", "threw", "begun"} :
          Go(c, k, there) /\ (there = "ok" => row[c] = "SUCCEEDED")
    BY <1>1 DEF Begin
  <2>2. Kept /\ Earned /\ row' = row
    BY <1>1 DEF Begin, Rows, World, Kept, Earned
  <2>. QED
    BY <2>1, <2>2, GoTruth, Places
<1>2. CASE Plan(c, k)
  <2>1. PICK there \in {"ok", "planned"} :
          Go(c, k, there) /\ (there = "ok" => row[c] = "SUCCEEDED")
    BY <1>2 DEF Plan
  <2>2. Kept /\ Earned
    BY <1>2 DEF Plan, World, Kept, Earned, ATypeOK
  <2>. QED
    BY <2>1, <2>2, GoTruth, Places DEF Kept
<1>3. CASE ClaimAction(c, k)
  <2>1. PICK there \in {"ok", "threw", "claimed"} :
          Go(c, k, there) /\ (there = "ok" => row[c] = "SUCCEEDED")
    BY <1>3 DEF ClaimAction
  <2>2. Kept /\ Earned
    <3>1. CASE MayClaim(c)
      <4>1. row[c] # "SUCCEEDED" /\ row' = [row EXCEPT ![c] = "RUNNING"]
        BY <1>3, <3>1 DEF ClaimAction, MayClaim
      <4>. QED
        BY <1>3, <4>1 DEF ClaimAction, World, Kept, Earned, ATypeOK
    <3>2. CASE ~MayClaim(c)
      BY <1>3, <3>2 DEF ClaimAction, World, Kept, Earned
    <3>. QED
      BY <3>1, <3>2
  <2>. QED
    BY <2>1, <2>2, GoTruth, Places DEF Kept
<1>4. CASE WriteActivity(c, k)
  <2>1. CASE ~(Go(c, k, "failing") /\ UNCHANGED <<noted, row, external>>)
    <3>1. /\ noted' = noted \cup {c} /\ posted' = posted
          /\ row' = [row EXCEPT ![c] = "SUCCEEDED"]
          /\ external' = [external EXCEPT ![c] = TRUE]
          /\ Go(c, k, "ok")
      BY <1>4, <2>1 DEF WriteActivity
    <3>2. Kept /\ Earned /\ row'[c] = "SUCCEEDED"
      BY <3>1 DEF Kept, Earned, ATypeOK
    <3>. QED
      BY <3>1, <3>2, GoTruth, Places
  <2>2. CASE Go(c, k, "failing") /\ UNCHANGED <<noted, row, external>>
    <3>1. Go(c, k, "failing") /\ Kept /\ Earned
      BY <1>4, <2>2 DEF WriteActivity, Kept, Earned
    <3>. QED
      BY <3>1, GoTruth, Places
  <2>. QED
    BY <1>4, <2>1, <2>2 DEF WriteActivity
<1>5. CASE Prepare(c, k) \/ Hold(c, k) \/ SlackRejects(c, k) \/ AttemptDies(c, k)
  <2>1. PICK there \in {"prepared", "posting", "failing", "dead"} : Go(c, k, there)
    BY <1>5, Zenon DEF Prepare, Hold, SlackRejects, AttemptDies
  <2>2. Kept /\ Earned
    BY <1>5
       DEF Prepare, Hold, SlackRejects, AttemptDies, Rows, World, Kept, Earned
  <2>. QED
    BY <2>1, <2>2, GoTruth, Places DEF Over
<1>6. CASE SlackAccepts(c, k)
  <2>1. PICK there \in {"accepted", "failing"} : Go(c, k, there)
    BY <1>6 DEF SlackAccepts
  <2>2. Kept /\ Earned /\ c \in posted'
    BY <1>6 DEF SlackAccepts, Rows, Kept, Earned
  <2>. QED
    BY <2>1, <2>2, GoTruth, Places
<1>7. CASE KeepReceipt(c, k)
  <2>1. c \in posted
    BY <1>7 DEF KeepReceipt, At, AcceptedIsPosted
  <2>2. CASE Holds(c, k)
    <3>1. /\ row' = [row EXCEPT ![c] = "SUCCEEDED"]
          /\ external' = [external EXCEPT ![c] = TRUE]
          /\ Go(c, k, "ok") /\ UNCHANGED World
      BY <1>7, <2>2 DEF KeepReceipt
    <3>2. Kept /\ Earned /\ row'[c] = "SUCCEEDED"
      BY <2>1, <3>1 DEF Kept, Earned, ATypeOK, World
    <3>. QED
      BY <3>1, <3>2, GoTruth, Places
  <2>3. CASE ~Holds(c, k)
    <3>1. Go(c, k, "outside") /\ Kept /\ Earned
      BY <1>7, <2>3 DEF KeepReceipt, Kept, Earned, World
    <3>. QED
      BY <2>1, <3>1, GoTruth, Places DEF Kept
  <2>. QED
    BY <2>2, <2>3
<1>8. CASE RecordOutside(c, k)
  <2>1. /\ \A d \in Call : external[d] => external'[d]
        /\ row' = row /\ Go(c, k, "failing") /\ UNCHANGED World
    BY <1>8 DEF RecordOutside, ATypeOK
  <2>2. Kept /\ Earned
    BY <2>1 DEF Kept, Earned, World
  <2>. QED
    BY <2>1, <2>2, GoTruth, Places
<1>9. CASE FailAction(c, k)
  <2>1. Kept /\ Earned /\ Go(c, k, "threw")
    <3>1. row' = [row EXCEPT ![c] = IF Holds(c, k) THEN "FAILED" ELSE row[c]]
      BY <1>9 DEF FailAction
    <3>2. Holds(c, k) => row[c] # "SUCCEEDED"
      BY DEF Holds
    <3>. QED
      BY <1>9, <3>1, <3>2 DEF FailAction, Kept, Earned, World, ATypeOK
  <2>. QED
    BY <2>1, GoTruth, Places
<1>. QED
  BY <1>1, <1>2, <1>3, <1>4, <1>5, <1>6, <1>7, <1>8, <1>9

\* What happens to the run writes no effect and performs no row, and a run that
\* finishes well has asked the rows.
LEMMA RunTruth ==
  ASSUME ATypeOK, RowIsTrue, AcceptedIsPosted, AnswerIsTrue, SucceededMeansActed,
         RunChanges \/ \E c \in Call : ActionLeaseExpires(c)
  PROVE  RowIsTrue' /\ AcceptedIsPosted' /\ AnswerIsTrue' /\ SucceededMeansActed'
<1>1. /\ UNCHANGED <<external, posted, noted, pc>>
      /\ \A c \in Call : row'[c] = "SUCCEEDED" <=> row[c] = "SUCCEEDED"
  BY DEF RunChanges, StageResult, SessionCompletes, FinishRun, FailRun, CancelRun,
         CancelRunOnly, Requeue, Restart, ActionLeaseExpires, Rows, World, ATypeOK
<1>2. RowIsTrue' /\ AcceptedIsPosted' /\ AnswerIsTrue'
  BY <1>1 DEF RowIsTrue, AcceptedIsPosted, AnswerIsTrue
<1>3. CASE run' # "SUCCEEDED"
  BY <1>2, <1>3 DEF SucceededMeansActed
<1>4. CASE run' = "SUCCEEDED" /\ run = "SUCCEEDED"
  <2>1. staged' = staged
    BY <1>4 DEF RunChanges, StageResult, SessionCompletes, FinishRun, FailRun, CancelRun,
                CancelRunOnly, Requeue, Restart, ActionLeaseExpires, Ending
  <2>. QED
    BY <1>1, <1>2, <1>4, <2>1 DEF SucceededMeansActed
<1>5. CASE run' = "SUCCEEDED" /\ run # "SUCCEEDED"
  <2>1. FinishRun
    BY <1>5 DEF RunChanges, StageResult, SessionCompletes, FailRun, CancelRun,
                CancelRunOnly, Requeue, Restart, ActionLeaseExpires, Ending
  <2>2. CASE closing = "nothing"
    BY <1>2, <1>5, <2>1, <2>2 DEF FinishRun, SucceededMeansActed
  <2>3. CASE \A t \in Declared : Performed(t)
    BY <1>1, <1>2, <2>3 DEF Performed, RowIsTrue, SucceededMeansActed
  <2>. QED
    BY <1>5, <2>1, <2>2, <2>3 DEF FinishRun
<1>. QED
  BY <1>2, <1>3, <1>4, <1>5

LEMMA ActionsStep == AInv /\ [ANext]_avars => AInv'
<1> SUFFICES ASSUME AInv, [ANext]_avars PROVE AInv'
    OBVIOUS
<1>1. ATypeOK'
  BY TypeStep DEF AInv
<1>2. CASE Attempting
  <2>1. RowIsTrue' /\ AcceptedIsPosted' /\ AnswerIsTrue' /\ Kept
    BY <1>2, AttemptTruth DEF AInv, Attempting
  <2>2. UNCHANGED Ending
    BY <1>2 DEF Attempting, Begin, Plan, ClaimAction, WriteActivity, Prepare,
                Hold, SlackAccepts, SlackRejects, KeepReceipt, RecordOutside,
                FailAction, AttemptDies
  <2>3. SucceededMeansActed'
    BY <2>1, <2>2 DEF AInv, SucceededMeansActed, Kept, Ending
  <2>. QED
    BY <1>1, <2>1, <2>3 DEF AInv
<1>3. CASE RunChanges \/ \E c \in Call : ActionLeaseExpires(c)
  BY <1>1, <1>3, RunTruth DEF AInv
<1>4. CASE UNCHANGED avars
  BY <1>1, <1>4
     DEF avars, AInv, RowIsTrue, AcceptedIsPosted, AnswerIsTrue, SucceededMeansActed
<1>. QED
  BY <1>2, <1>3, <1>4 DEF ANext

LEMMA ActionsInit == AInit => AInv
<1> SUFFICES ASSUME AInit PROVE AInv
    OBVIOUS
<1>1. 0 \in 0..MaxTries /\ "none" \in Status /\ "idle" \in Place
  BY ActionsAssumption DEF Status, Place
<1>2. ATypeOK
  BY <1>1 DEF AInit, ATypeOK
<1>3. RowIsTrue /\ AcceptedIsPosted /\ AnswerIsTrue /\ SucceededMeansActed
  BY DEF AInit, RowIsTrue, AcceptedIsPosted, AnswerIsTrue, SucceededMeansActed
<1>. QED
  BY <1>2, <1>3 DEF AInv

\* THEOREM: every reachable state of a run's actions has the types ATypeOK lists.
THEOREM ActionTypesHold == ASpec => []ATypeOK
<1>1. AInv => ATypeOK
  BY DEF AInv
<1>. QED
  BY <1>1, ActionsInit, ActionsStep, PTL DEF ASpec

\* THEOREM: a tool call that reports its action done, its own or a replay's, has
\* the message in Slack or the activity in the CRM, and a row that says so.
THEOREM AnswersAreTrue == ASpec => []AnswerIsTrue
<1>1. AInv => AnswerIsTrue
  BY DEF AInv
<1>. QED
  BY <1>1, ActionsInit, ActionsStep, PTL DEF ASpec

\* THEOREM: a run that SUCCEEDED performed every action its manifest declares, or
\* reports that none was needed.
THEOREM SuccessMeansAction == ASpec => []SucceededMeansActed
<1>1. AInv => SucceededMeansActed
  BY DEF AInv
<1>. QED
  BY <1>1, ActionsInit, ActionsStep, PTL DEF ASpec

-----------------------------------------------------------------------------
(* Settled actions stay settled.                                           *)

\* Only a cancelled run has cancelled rows, and it never runs again: that is
\* what lets WriteActivity write a row without asking who holds it.
CancelledWithRun == \A c \in Call : row[c] = "CANCELLED" => run = "CANCELLED"

Stays == \A c \in Call : row[c] \in {"CANCELLED", "SUCCEEDED"} => row'[c] = row[c]

LEMMA StaysStep ==
  ATypeOK /\ CancelledWithRun /\ [ANext]_avars => Stays /\ CancelledWithRun'
<1> SUFFICES ASSUME ATypeOK, CancelledWithRun, [ANext]_avars
             PROVE  Stays /\ CancelledWithRun'
    OBVIOUS
<1> USE DEF ATypeOK, CancelledWithRun, Stays
<1>1. ASSUME UNCHANGED row, run' = run \/ run # "CANCELLED"
      PROVE  Stays /\ CancelledWithRun'
  BY <1>1
<1>2. ASSUME NEW c \in Call, NEW s \in Status \ {"CANCELLED"}, run' = run,
             row' = [row EXCEPT ![c] = s],
             row[c] \notin {"CANCELLED", "SUCCEEDED"} \/ s = row[c]
      PROVE  Stays /\ CancelledWithRun'
  BY <1>2
<1>3. CASE Attempting
  <2>1. PICK c \in Call, k \in Try :
          \/ Begin(c, k) \/ Plan(c, k) \/ ClaimAction(c, k) \/ WriteActivity(c, k)
          \/ Prepare(c, k) \/ Hold(c, k) \/ SlackAccepts(c, k)
          \/ SlackRejects(c, k) \/ KeepReceipt(c, k) \/ RecordOutside(c, k)
          \/ FailAction(c, k) \/ AttemptDies(c, k)
    BY <1>3, Zenon DEF Attempting
  <2>2. run' = run
    BY <2>1 DEF Begin, Plan, ClaimAction, WriteActivity, Prepare, Hold,
                SlackAccepts, SlackRejects, KeepReceipt, RecordOutside, FailAction,
                AttemptDies, Ending
  <2>3. CASE row' = row
    BY <1>1, <2>2, <2>3
  <2>4. CASE Plan(c, k)
    BY <2>4, <2>2 DEF Plan
  <2>5. CASE ClaimAction(c, k) /\ MayClaim(c)
    BY <2>5, <2>2 DEF ClaimAction, MayClaim
  <2>6. CASE WriteActivity(c, k) /\ run = "RUNNING"
    BY <2>6, <2>2 DEF WriteActivity
  <2>7. CASE (KeepReceipt(c, k) \/ FailAction(c, k)) /\ Holds(c, k)
    BY <2>7, <2>2 DEF KeepReceipt, FailAction, Holds
  <2>8. CASE FailAction(c, k) /\ ~Holds(c, k)
    BY <2>8, <2>2 DEF FailAction
  <2>. QED
    BY <2>1, <2>3, <2>4, <2>5, <2>6, <2>7, <2>8
       DEF Begin, ClaimAction, WriteActivity, Prepare, Hold, SlackAccepts,
           SlackRejects, KeepReceipt, RecordOutside, AttemptDies, Rows
<1>4. CASE RunChanges
  <2>1. CASE CancelRun
    BY <2>1 DEF CancelRun
  <2>2. CASE ~CancelRun
    BY <1>1, <1>4, <2>2
       DEF RunChanges, StageResult, SessionCompletes, FinishRun, FailRun,
           CancelRunOnly, Requeue, Restart, Rows
  <2>. QED
    BY <2>1, <2>2
<1>5. CASE \E c \in Call : ActionLeaseExpires(c)
  BY <1>1, <1>5 DEF ActionLeaseExpires, Ending
<1>6. CASE UNCHANGED avars
  BY <1>1, <1>6 DEF avars
<1>. QED
  BY <1>3, <1>4, <1>5, <1>6 DEF ANext

\* THEOREM: a cancelled action stays cancelled and a performed one performed,
\* whatever attempts are still on their way.
THEOREM SettledActionsStay == ASpec => SettledActionStays
<1>1. AInit => CancelledWithRun
  BY DEF AInit, CancelledWithRun
<1>2. Stays => [\A c \in Call : row[c] \in {"CANCELLED", "SUCCEEDED"}
                                  => row'[c] = row[c]]_avars
  BY DEF Stays
<1>. QED
  BY <1>1, <1>2, StaysStep, ActionTypesHold, AnswersAreTrue, PTL DEF ASpec, SettledActionStays
-----------------------------------------------------------------------------
(* Receipts.                                                               *)

\* Attempt k at call c leaves what Slack answered behind: it had it, and has
\* not died.
Leaves(c, k) == /\ pc[c][k] \in {"accepted", "outside"}
                /\ pc'[c][k] \notin {"accepted", "outside", "dead"}

\* Only the attempt that steps can leave its receipt, and it leaves it in the
\* row: KeepReceipt by the claim, RecordOutside without it.  A row that was
\* performed already has a receipt (RowIsTrue).
LEMMA ReceiptStep ==
  ASSUME AInv, [ANext]_avars, NEW c \in Call, NEW k \in Try, Leaves(c, k)
  PROVE  external'[c]
<1> USE DEF AInv, ATypeOK
<1>1. pc' # pc
  BY DEF Leaves
<1>2. Attempting
  BY <1>1 DEF ANext, avars, RunChanges, StageResult, SessionCompletes, FinishRun, FailRun,
              CancelRun, CancelRunOnly, Requeue, Restart, ActionLeaseExpires
<1>3. PICK d \in Call, j \in Try :
        \/ Begin(d, j) \/ Plan(d, j) \/ ClaimAction(d, j) \/ WriteActivity(d, j)
        \/ Prepare(d, j) \/ Hold(d, j) \/ SlackAccepts(d, j)
        \/ SlackRejects(d, j) \/ KeepReceipt(d, j) \/ RecordOutside(d, j)
        \/ FailAction(d, j) \/ AttemptDies(d, j)
  BY <1>2, Zenon DEF Attempting
<1>4. PICK there \in Place : Go(d, j, there)
  BY <1>3, Places, Zenon
     DEF Begin, Plan, ClaimAction, WriteActivity, Prepare, Hold, SlackAccepts,
         SlackRejects, KeepReceipt, RecordOutside, FailAction, AttemptDies, Over
<1>5. d = c /\ j = k
  BY <1>4 DEF Leaves, Go
<1>6. pc'[c][k] = there
  BY <1>4, <1>5 DEF Go
<1>7. CASE KeepReceipt(c, k)
  <2>1. CASE Holds(c, k)
    BY <1>7, <2>1 DEF KeepReceipt
  <2>2. CASE ~Holds(c, k)
    BY <1>7, <2>2 DEF KeepReceipt, Go, Leaves
  <2>. QED
    BY <2>1, <2>2
<1>8. CASE RecordOutside(c, k)
  <2>1. external'[c] = (external[c] \/ row[c] # "SUCCEEDED")
    BY <1>8 DEF RecordOutside
  <2>. QED
    BY <2>1 DEF RowIsTrue
<1>9. CASE AttemptDies(c, k)
  BY <1>9 DEF AttemptDies, Go, Leaves
<1>. QED
  BY <1>3, <1>5, <1>7, <1>8, <1>9
     DEF Leaves, At, Begin, Plan, ClaimAction, WriteActivity, Prepare, Hold,
         SlackAccepts, SlackRejects, FailAction

\* THEOREM: a message Slack accepted is never without its receipt because a
\* claim was lost: the attempt goes on only when the row carries it.
THEOREM ReceiptsKept == ASpec => ReceiptKept
<1>1. AInv /\ [ANext]_avars =>
        [\A c \in Call, k \in Try :
           /\ pc[c][k] \in {"accepted", "outside"}
           /\ pc'[c][k] \notin {"accepted", "outside", "dead"}
           => external'[c]]_avars
  BY ReceiptStep DEF Leaves
<1>. QED
  BY <1>1, ActionsInit, ActionsStep, PTL DEF ASpec, ReceiptKept
=============================================================================
