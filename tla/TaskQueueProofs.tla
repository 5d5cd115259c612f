-------------------------- MODULE TaskQueueProofs --------------------------
(***************************************************************************)
(* Proofs about TaskQueue, for every table of tasks and every MaxAttempts. *)
(*                                                                         *)
(* The safety properties follow from one inductive invariant.  It adds to  *)
(* the type what claimDue and the clock maintain between them: attempts    *)
(* are handed out in order, and an attempt that is in progress without a   *)
(* live lease of its own was there when a lease ran out.                   *)
(***************************************************************************)
EXTENDS TaskQueue, TLAPS

AttemptsInOrder ==
  \A t \in Task, k \in Attempt : phase[t][k] # "none" <=> k <= attempts[t]

UncoveredOverran ==
  \A t \in Task, k \in Attempt :
    phase[t][k] \in Active /\ (k < attempts[t] \/ lease[t] # "live")
      => <<t, k>> \in overran

QInv == TypeOK /\ OneFinisher /\ AttemptsInOrder /\ UncoveredOverran

-----------------------------------------------------------------------------
\* What a step may do with the rows: create one, claim one, retire some, complete
\* one, or leave all of them as they are.
LEMMA RowSteps ==
  ASSUME [Next]_vars
  PROVE  \/ \E t \in Task : CreateRow(t, TRUE) \/ CreateRow(t, FALSE)
         \/ \E t \in Task : ClaimDue(t)
         \/ RetireExhausted
         \/ \E t \in Task, k \in Attempt : Complete(t, k)
         \/ UNCHANGED <<st, outcome, attempts, finisher>>
<1>1. CASE Queueing
  BY <1>1 DEF Queueing, Enqueue, EnqueueEvent, BackfillCreate, BackfillLook
<1>2. CASE Sweeping
  BY <1>2 DEF Sweeping
<1>3. CASE Clock
  BY <1>3 DEF Clock, DueDateComes, LeaseExpires
<1>4. CASE Working
  <2>1. ASSUME NEW t \in Task, NEW k \in Attempt,
               Start(t, k) \/ Abandon(t, k) \/ BookLook(t, k) \/ BookMove(t, k)
        PROVE  UNCHANGED <<st, outcome, attempts, finisher>>
    BY <2>1 DEF Start, Abandon, BookLook, BookMove
  <2>2. ASSUME NEW t \in Task, NEW k \in Attempt, NEW r \in Task, BookCreate(t, k, r)
        PROVE  CreateRow(r, FALSE)
    BY <2>2 DEF BookCreate
  <2>. QED
    BY <1>4, <2>1, <2>2 DEF Working
<1>5. CASE UNCHANGED vars
  BY <1>5 DEF vars
<1>. QED
  BY <1>1, <1>2, <1>3, <1>4, <1>5 DEF Next

\* Every action keeps the types: no attempt beyond the cap is ever counted,
\* and every row keeps to its three states.
LEMMA TypeStep == TypeOK /\ [Next]_vars => TypeOK'
<1> SUFFICES ASSUME TypeOK, [Next]_vars PROVE TypeOK'
    OBVIOUS
<1> USE QueueAssumption DEF TypeOK, Attempt, Work, Phase
<1>1. ASSUME NEW t \in Task, Enqueue(t) PROVE TypeOK'
  BY <1>1 DEF Enqueue, CreateRow
<1>2. ASSUME NEW t \in Task, EnqueueEvent(t) PROVE TypeOK'
  BY <1>2 DEF EnqueueEvent, CreateRow
<1>3. ASSUME NEW t \in Task, BackfillCreate(t) PROVE TypeOK'
  BY <1>3 DEF BackfillCreate, CreateRow
<1>4. ASSUME NEW kind \in Kind, NEW subject \in Subject,
             BackfillLook(kind, subject)
      PROVE  TypeOK'
  BY <1>4 DEF BackfillLook
<1>5. CASE RetireExhausted
  BY <1>5 DEF RetireExhausted
<1>6. ASSUME NEW t \in Task, ClaimDue(t) PROVE TypeOK'
  BY <1>6 DEF ClaimDue, Claimable
<1>7. ASSUME NEW t \in Task, DueDateComes(t) PROVE TypeOK'
  BY <1>7 DEF DueDateComes
<1>8. ASSUME NEW t \in Task, LeaseExpires(t) PROVE TypeOK'
  BY <1>8 DEF LeaseExpires
<1>9. ASSUME NEW t \in Task, NEW k \in Attempt, Start(t, k) PROVE TypeOK'
  BY <1>9 DEF Start
<1>10. ASSUME NEW t \in Task, NEW k \in Attempt, Complete(t, k) PROVE TypeOK'
  <2>1. k \in 0..MaxAttempts
    OBVIOUS
  <2>2. CASE st[t] = "open"
    <3>1. /\ st' = [st EXCEPT ![t] = "finished"]
          /\ outcome' = [outcome EXCEPT ![t] = "ran"]
          /\ finisher' = [finisher EXCEPT ![t] = finisher[t] \cup {k}]
      BY <1>10, <2>2 DEF Complete, CompleteTask
    <3>2. finisher' \in [Task -> SUBSET (0..MaxAttempts)]
      BY <2>1, <3>1
    <3>. QED
      BY <1>10, <3>1, <3>2 DEF Complete
  <2>3. CASE st[t] # "open"
    BY <1>10, <2>3 DEF Complete, CompleteTask
  <2>. QED
    BY <2>2, <2>3
<1>11. ASSUME NEW t \in Task, NEW k \in Attempt, Abandon(t, k) PROVE TypeOK'
  BY <1>11 DEF Abandon
<1>12. ASSUME NEW t \in Task, NEW k \in Attempt, BookLook(t, k) PROVE TypeOK'
  BY <1>12 DEF BookLook, OpenRows
<1>13. ASSUME NEW t \in Task, NEW k \in Attempt, BookMove(t, k) PROVE TypeOK'
  BY <1>13 DEF BookMove
<1>14. ASSUME NEW t \in Task, NEW k \in Attempt, NEW r \in Task,
              BookCreate(t, k, r)
       PROVE  TypeOK'
  BY <1>14 DEF BookCreate, CreateRow
<1>15. CASE UNCHANGED vars
  BY <1>15 DEF vars
<1>. QED
  BY <1>1, <1>2, <1>3, <1>4, <1>5, <1>6, <1>7, <1>8, <1>9, <1>10, <1>11,
     <1>12, <1>13, <1>14, <1>15
     DEF Next, Queueing, Sweeping, Clock, Working

\* THEOREM: every reachable state of the queue has the types TypeOK lists.
THEOREM TypeCorrect == Spec => []TypeOK
<1>1. Init => TypeOK
  BY QueueAssumption DEF Init, TypeOK, Attempt, Work, Phase
<1>. QED
  BY <1>1, TypeStep, PTL DEF Spec

-----------------------------------------------------------------------------
\* Who may be told that a row is finished, step by step: only CompleteTask and
\* RetireExhausted finish rows, and both only rows that are open.
LEMMA FinisherStep == TypeOK /\ OneFinisher /\ [Next]_vars => OneFinisher'
<1> SUFFICES ASSUME TypeOK, OneFinisher, [Next]_vars PROVE OneFinisher'
    OBVIOUS
<1> USE DEF TypeOK, OneFinisher
<1>1. ASSUME NEW t \in Task, CreateRow(t, TRUE) \/ CreateRow(t, FALSE)
      PROVE  OneFinisher'
  <2>1. /\ st[t] = "absent" /\ st' = [st EXCEPT ![t] = "open"]
        /\ finisher' = finisher
    BY <1>1 DEF CreateRow
  <2>. QED
    BY <2>1
<1>2. CASE RetireExhausted
  <2> SUFFICES ASSUME NEW t \in Task
               PROVE  /\ (finisher'[t] # {}) <=> (st'[t] = "finished")
                      /\ \A a, b \in finisher'[t] : a = b
      OBVIOUS
  <2>1. CASE t \in Exhausted
    <3>1. finisher[t] = {} /\ finisher'[t] = {0} /\ st'[t] = "finished"
      BY <1>2, <2>1 DEF RetireExhausted, Exhausted
    <3>. QED
      BY <3>1
  <2>2. CASE t \notin Exhausted
    BY <1>2, <2>2 DEF RetireExhausted
  <2>. QED
    BY <2>1, <2>2
<1>3. ASSUME NEW t \in Task, NEW k \in Attempt, Complete(t, k)
      PROVE  OneFinisher'
  <2>1. CASE st[t] = "open"
    <3>1. /\ st' = [st EXCEPT ![t] = "finished"]
          /\ finisher' = [finisher EXCEPT ![t] = {k}]
      BY <1>3, <2>1 DEF Complete, CompleteTask
    <3>. QED
      BY <3>1
  <2>2. CASE st[t] # "open"
    BY <1>3, <2>2 DEF Complete, CompleteTask
  <2>. QED
    BY <2>1, <2>2
<1>4. CASE UNCHANGED <<st, finisher>>
  BY <1>4
<1>. QED
  BY <1>1, <1>2, <1>3, <1>4, RowSteps DEF ClaimDue

-----------------------------------------------------------------------------
\* Attempts are handed out in order and never taken back.
LEMMA OrderStep == TypeOK /\ AttemptsInOrder /\ [Next]_vars => AttemptsInOrder'
<1> SUFFICES ASSUME TypeOK, AttemptsInOrder, [Next]_vars
             PROVE  AttemptsInOrder'
    OBVIOUS
<1> USE QueueAssumption DEF TypeOK, AttemptsInOrder, Attempt, Phase
<1>1. ASSUME NEW t \in Task, ClaimDue(t) PROVE AttemptsInOrder'
  BY <1>1 DEF ClaimDue, Claimable
<1>2. ASSUME NEW t \in Task, NEW k \in Attempt, NEW p \in Phase \ {"none"},
             phase[t][k] # "none", phase' = [phase EXCEPT ![t][k] = p],
             UNCHANGED attempts
      PROVE  AttemptsInOrder'
  BY <1>2
<1>3. ASSUME NEW t \in Task, NEW k \in Attempt,
             Start(t, k) \/ Complete(t, k) \/ Abandon(t, k) \/ BookLook(t, k)
               \/ BookMove(t, k) \/ \E r \in Task : BookCreate(t, k, r)
      PROVE  AttemptsInOrder'
  BY <1>3, <1>2 DEF Start, Complete, Abandon, BookLook, BookMove, BookCreate,
                    CreateRow, Active, Turn
<1>4. CASE UNCHANGED <<phase, attempts>>
  BY <1>4
<1>. QED
  BY <1>1, <1>3, <1>4
     DEF Next, Queueing, Sweeping, Clock, Working, Enqueue, EnqueueEvent,
         BackfillCreate, BackfillLook, CreateRow, RetireExhausted,
         DueDateComes, LeaseExpires, vars

\* An attempt in progress whose lease is not running saw a lease run out.
LEMMA CoverStep ==
  TypeOK /\ AttemptsInOrder /\ UncoveredOverran /\ [Next]_vars
    => UncoveredOverran'
<1> SUFFICES ASSUME TypeOK, AttemptsInOrder, UncoveredOverran, [Next]_vars
             PROVE  UncoveredOverran'
    OBVIOUS
<1> USE QueueAssumption
    DEF TypeOK, AttemptsInOrder, UncoveredOverran, Attempt, Phase, Active
<1>1. ASSUME NEW t \in Task, ClaimDue(t) PROVE UncoveredOverran'
  BY <1>1 DEF ClaimDue, Claimable
<1>2. ASSUME NEW t \in Task, LeaseExpires(t) PROVE UncoveredOverran'
  BY <1>2 DEF LeaseExpires, Work
<1>3. ASSUME NEW t \in Task, NEW k \in Attempt, NEW p \in Phase,
             phase[t][k] \in Active, phase' = [phase EXCEPT ![t][k] = p],
             UNCHANGED <<attempts, lease, overran>>
      PROVE  UncoveredOverran'
  BY <1>3
<1>4. ASSUME NEW t \in Task, NEW k \in Attempt,
             Start(t, k) \/ Complete(t, k) \/ Abandon(t, k) \/ BookLook(t, k)
               \/ BookMove(t, k) \/ \E r \in Task : BookCreate(t, k, r)
      PROVE  UncoveredOverran'
  BY <1>4, <1>3 DEF Start, Complete, Abandon, BookLook, BookMove, BookCreate,
                    CreateRow, Turn
<1>5. CASE UNCHANGED <<phase, attempts, lease, overran>>
  BY <1>5
<1>. QED
  BY <1>1, <1>2, <1>4, <1>5
     DEF Next, Queueing, Sweeping, Clock, Working, Enqueue, EnqueueEvent,
         BackfillCreate, BackfillLook, CreateRow, RetireExhausted,
         DueDateComes, vars

-----------------------------------------------------------------------------
LEMMA QInvBegins == Init => QInv
BY QueueAssumption DEF Init, QInv, TypeOK, OneFinisher, AttemptsInOrder,
                       UncoveredOverran, Attempt, Work, Phase, Active

LEMMA QInvHolds == Spec => []QInv
<1>1. QInv /\ [Next]_vars => QInv'
  BY TypeStep, FinisherStep, OrderStep, CoverStep DEF QInv
<1>. QED
  BY <1>1, QInvBegins, PTL DEF Spec

\* THEOREM: however completions and retirements race, one caller at most is
\* told that it finished a row, and only when the row is finished.
THEOREM OneFinisherHolds == Spec => []OneFinisher
<1>1. QInv => OneFinisher
  BY DEF QInv
<1>. QED
  BY <1>1, QInvHolds, PTL

\* THEOREM: two attempts at one row are in progress together only when the
\* earlier one outlived its lease.
THEOREM OverlapOnlyAfterLeaseHolds == Spec => []OverlapOnlyAfterLease
<1>1. QInv => OverlapOnlyAfterLease
  <2> SUFFICES ASSUME QInv, NEW t \in Task, NEW j \in Attempt, NEW k \in Attempt,
                      j < k, phase[t][j] \in Active, phase[t][k] # "none"
               PROVE  <<t, j>> \in overran
      BY DEF OverlapOnlyAfterLease
  <2>1. j < attempts[t]
    BY QueueAssumption DEF QInv, TypeOK, AttemptsInOrder, Attempt
  <2>. QED
    BY <2>1 DEF QInv, UncoveredOverran
<1>. QED
  BY <1>1, QInvHolds, PTL

\* What a row is finished with is final, and so is who was told.
LEMMA FinalStep ==
  ASSUME TypeOK, [Next]_vars, NEW t \in Task, st[t] = "finished"
  PROVE  st'[t] = "finished" /\ outcome'[t] = outcome[t] /\ finisher[t] \subseteq finisher'[t]
<1> USE DEF TypeOK
<1>1. ASSUME NEW u \in Task, CreateRow(u, TRUE) \/ CreateRow(u, FALSE)
      PROVE  st'[t] = "finished" /\ UNCHANGED <<outcome, finisher>>
  BY <1>1 DEF CreateRow
<1>2. CASE RetireExhausted
  BY <1>2, t \notin Exhausted DEF RetireExhausted, Exhausted
<1>3. ASSUME NEW u \in Task, NEW k \in Attempt, Complete(u, k)
      PROVE  st'[t] = "finished" /\ outcome'[t] = outcome[t] /\ finisher'[t] = finisher[t]
  BY <1>3 DEF Complete, CompleteTask
<1>4. CASE UNCHANGED <<st, outcome, finisher>>
  BY <1>4
<1>. QED
  BY <1>1, <1>2, <1>3, <1>4, RowSteps DEF ClaimDue

\* THEOREM: a finished row stays finished, for the reason first given.
THEOREM FinishedIsFinalHolds == Spec => FinishedIsFinal
<1>1. TypeOK /\ [Next]_vars =>
        [\A t \in Task : st[t] = "finished" =>
           st'[t] = "finished" /\ outcome'[t] = outcome[t]]_vars
  BY FinalStep
<1>. QED
  BY <1>1, TypeCorrect, PTL DEF Spec, FinishedIsFinal

\* A row that is not finished has no outcome, and one that is absent no attempt.
UnfinishedRows ==
  \A t \in Task :
    /\ st[t] # "finished" => outcome[t] = "none"
    /\ st[t] = "absent" => \A k \in Attempt : phase[t][k] = "none"

LEMMA UnfinishedStep == TypeOK /\ UnfinishedRows /\ [Next]_vars => UnfinishedRows'
<1> SUFFICES ASSUME TypeOK, UnfinishedRows, [Next]_vars PROVE UnfinishedRows'
  OBVIOUS
<1> USE DEF TypeOK, UnfinishedRows
<1>1. ASSUME NEW t \in Task, CreateRow(t, TRUE) \/ CreateRow(t, FALSE), UNCHANGED phase
      PROVE  UnfinishedRows'
  BY <1>1 DEF CreateRow
<1>2. CASE RetireExhausted
  BY <1>2 DEF RetireExhausted, Exhausted
<1>3. ASSUME NEW t \in Task, ClaimDue(t) PROVE UnfinishedRows'
  BY <1>3 DEF ClaimDue, Claimable
<1>4. ASSUME NEW t \in Task, NEW k \in Attempt, NEW p, phase[t][k] # "none",
             phase' = [phase EXCEPT ![t][k] = p],
             \/ UNCHANGED <<st, outcome>>
             \/ \E r \in Task : CreateRow(r, FALSE)
             \/ st' = [st EXCEPT ![t] = "finished"] /\ outcome' = [outcome EXCEPT ![t] = "ran"]
      PROVE  UnfinishedRows'
  BY <1>4 DEF CreateRow
<1>5. ASSUME NEW t \in Task, NEW k \in Attempt,
             Start(t, k) \/ Complete(t, k) \/ Abandon(t, k) \/ BookLook(t, k)
               \/ BookMove(t, k) \/ \E r \in Task : BookCreate(t, k, r)
      PROVE  UnfinishedRows'
  <2>1. phase[t][k] # "none"
    BY <1>5 DEF Start, Complete, Abandon, BookLook, BookMove, BookCreate, Active, Turn
  <2>2. PICK p : phase' = [phase EXCEPT ![t][k] = p]
    BY <1>5 DEF Start, Complete, Abandon, BookLook, BookMove, BookCreate
  <2>3. \/ UNCHANGED <<st, outcome>>
        \/ \E r \in Task : CreateRow(r, FALSE)
        \/ st' = [st EXCEPT ![t] = "finished"] /\ outcome' = [outcome EXCEPT ![t] = "ran"]
    BY <1>5 DEF Start, Complete, CompleteTask, Abandon, BookLook, BookMove, BookCreate
  <2>. QED
    BY <1>4, <2>1, <2>2, <2>3 DEF CreateRow
<1>6. CASE UNCHANGED <<st, outcome, phase>>
  BY <1>6
<1>. QED
  BY <1>1, <1>2, <1>3, <1>5, <1>6
     DEF Next, Queueing, Sweeping, Clock, Working, Enqueue, EnqueueEvent,
         BackfillCreate, BackfillLook, DueDateComes, LeaseExpires, vars

\* A row that may be retired has used exactly the attempts it is allowed.
LEMMA ExhaustedCount ==
  ASSUME TypeOK, NEW t \in Task, attempts[t] >= MaxAttempts
  PROVE  attempts[t] = MaxAttempts
<1>1. attempts[t] \in 0..MaxAttempts /\ MaxAttempts \in Nat
  BY QueueAssumption DEF TypeOK
<1>2. ASSUME NEW a \in 0..MaxAttempts, a >= MaxAttempts PROVE a = MaxAttempts
  BY <1>1, <1>2
<1>. QED
  BY <1>1, <1>2

\* THEOREM: retirement takes no row from an attempt whose lease still runs.
THEOREM RetireWaitsForLeaseHolds == Spec => RetireWaitsForLease
<1>1. QInv /\ [Next]_vars =>
        [\A t \in Task : outcome[t] # "retired" /\ outcome'[t] = "retired" =>
           /\ attempts[t] = MaxAttempts
           /\ \A k \in Attempt : phase[t][k] \in Active => <<t, k>> \in overran
        ]_vars
  <2> SUFFICES ASSUME QInv, Next, NEW t \in Task,
                      outcome[t] # "retired", outcome'[t] = "retired"
               PROVE  /\ attempts[t] = MaxAttempts
                      /\ \A k \in Attempt :
                           phase[t][k] \in Active => <<t, k>> \in overran
      BY DEF vars
  <2> USE DEF QInv, TypeOK
  <2>1. CASE RetireExhausted
    <3>1. t \in Exhausted
      BY <2>1 DEF RetireExhausted
    <3>2. attempts[t] >= MaxAttempts /\ lease[t] # "live"
      BY <3>1 DEF Exhausted
    <3>3. attempts[t] = MaxAttempts
      BY <3>2, ExhaustedCount, QueueAssumption
    <3>. QED
      BY <3>2, <3>3 DEF UncoveredOverran
  <2>2. ASSUME NEW u \in Task, NEW k \in Attempt, Complete(u, k) PROVE FALSE
    BY <2>2 DEF Complete, CompleteTask
  <2>3. CASE UNCHANGED outcome
    BY <2>3
  <2>. QED
    BY <2>1, <2>2, <2>3, RowSteps DEF CreateRow, ClaimDue
<1>. QED
  BY <1>1, QInvHolds, PTL DEF Spec, RetireWaitsForLease

-----------------------------------------------------------------------------
\* THEOREM: the queue implements TaskDelivery: every task is handed out at most
\* MaxAttempts times and closed once, and how it was closed can be believed.
THEOREM ImplementsDelivery == Spec => DeliversTasks
<1>1. Init => Delivery!DInit
  BY DEF Init, Delivery!DInit
<1>2. QInv /\ [Next]_vars => [Delivery!DNext]_Delivery!dvars
  <2> SUFFICES ASSUME QInv, [Next]_vars
               PROVE  Delivery!DNext \/ UNCHANGED Delivery!dvars
      OBVIOUS
  <2> USE QueueAssumption DEF QInv, TypeOK, Delivery!DNext, Delivery!dvars
  <2>1. ASSUME NEW t \in Task, CreateRow(t, TRUE) \/ CreateRow(t, FALSE)
        PROVE  Delivery!DNext
    <3>1. Delivery!Post(t)
      BY <2>1 DEF CreateRow, Delivery!Post
    <3>. QED
      BY <3>1
  <2>2. ASSUME NEW t \in Task, ClaimDue(t) PROVE Delivery!DNext
    BY <2>2 DEF ClaimDue, Claimable, Delivery!HandOut
  <2>3. CASE RetireExhausted
    <3>1. Exhausted \in SUBSET Task
      BY DEF Exhausted
    <3>2. Delivery!GiveUp(Exhausted)
      BY <2>3, ExhaustedCount
         DEF RetireExhausted, Exhausted, Delivery!GiveUp
    <3>3. \E S \in SUBSET Task : Delivery!GiveUp(S)
      BY <3>1, <3>2, Zenon
    <3>. QED
      BY <3>3
  <2>4. ASSUME NEW t \in Task, NEW k \in Attempt, Complete(t, k)
        PROVE  Delivery!DNext \/ UNCHANGED Delivery!dvars
    <3>1. attempts[t] > 0
      BY <2>4 DEF Complete, Turn, AttemptsInOrder, Attempt
    <3>. QED
      BY <2>4, <3>1 DEF Complete, CompleteTask, Delivery!CloseRan
  <2>5. CASE UNCHANGED <<st, outcome, attempts>>
    BY <2>5
  <2>. QED
    BY <2>1, <2>2, <2>3, <2>4, <2>5, RowSteps
<1>. QED
  BY <1>1, <1>2, QInvHolds, PTL DEF Spec, DeliversTasks, Delivery!DSpec
=============================================================================
