------------------------------ MODULE TaskQueue ------------------------------
(***************************************************************************)
(* The AgentTask queue of apps/agent/agent/lib/tasks.ts and the two lanes  *)
(* of lib/dispatch.ts that drain it.                                       *)
(*                                                                         *)
(* A row of the table is an element of Task; its kind and the record it    *)
(* is about never change, so they are functions of the row.  A claim gives *)
(* a row to one more attempt, and the attempt <<t, k>> then lives on its   *)
(* own: a direct handler inside the sweep, or a turn of an eve session     *)
(* that any process may finish, at any time, long after its lease ran out. *)
(*                                                                         *)
(* Simplifications.                                                        *)
(*  - Time is not a number.  A lease is live until it expires, a due date  *)
(*    lies ahead until it comes due, and either may happen at any moment.  *)
(*  - claimDue takes a batch in priority order and skips locked rows.  Any *)
(*    row may be locked by a concurrent statement, so which due row is     *)
(*    claimed next is left open and a batch is a sequence of claims.       *)
(*  - sessionId, reason, payload and budget are left out.                  *)
(***************************************************************************)
EXTENDS Naturals, FiniteSets

CONSTANTS
  Task,         \* ids the rows of the table may have
  Subject,      \* contacts and companies
  NoSubject,    \* the subject of a row that names neither
  Kind,         \* the kinds of task
  DirectKinds,  \* kinds the dispatcher runs itself, without a session
  EventKinds,   \* kinds that are queued without looking for an open row
  BackfillKinds, \* kinds a backfill queues in bulk
  RecheckKind,  \* the kind schedule_recheck books
  KindOf,       \* the kind of each row
  SubjectOf,    \* the subject of each row
  MaxAttempts,  \* MAX_ATTEMPTS
  NoTask

ASSUME QueueAssumption ==
  /\ MaxAttempts \in Nat \ {0}
  /\ NoSubject \notin Subject
  /\ NoTask \notin Task
  /\ DirectKinds \subseteq Kind
  /\ EventKinds \subseteq Kind
  /\ BackfillKinds \subseteq Kind
  /\ RecheckKind \in Kind \ DirectKinds
  /\ KindOf \in [Task -> Kind]
  /\ SubjectOf \in [Task -> Subject \cup {NoSubject}]

VARIABLES
  st,        \* st[t]: is the row absent, open (finishedAt null) or finished
  outcome,   \* outcome[t]: what finished it
  due,       \* due[t]: dueAt <= now
  lease,     \* lease[t]: leasedUntil against now
  attempts,  \* attempts[t]
  phase,     \* phase[t][k]: how far attempt k of row t has come
  target,    \* target[t][k]: the open row scheduleTask found, while it books
  creating,  \* <<kind, subject>> pairs a backfill found free and will create
  overran,   \* history: attempts that were in progress when a lease expired
  finisher,  \* history: who was told that it finished the row, 0 = retirement
  booked     \* history: rows holding a booking whose date has not come

vars == <<st, outcome, due, lease, attempts, phase, target, creating,
          overran, finisher, booked>>

Attempt == 1..MaxAttempts
Work == Task \X Attempt
Phase == {"none", "claimed", "running", "booking", "booked", "over"}
Active == {"claimed", "running", "booking", "booked"}
Turn == {"running", "booking", "booked"}
Direct(t) == KindOf[t] \in DirectKinds

\* Open rows with the same kind and subject: what a queuer looks for first.
OpenRows(kind, subject) ==
  {t \in Task : st[t] = "open" /\ KindOf[t] = kind /\ SubjectOf[t] = subject}

Init ==
  /\ st = [t \in Task |-> "absent"]
  /\ outcome = [t \in Task |-> "none"]
  /\ due = [t \in Task |-> FALSE]
  /\ lease = [t \in Task |-> "none"]
  /\ attempts = [t \in Task |-> 0]
  /\ phase = [t \in Task |-> [k \in Attempt |-> "none"]]
  /\ target = [t \in Task |-> [k \in Attempt |-> NoTask]]
  /\ creating = {}
  /\ overran = {}
  /\ finisher = [t \in Task |-> {}]
  /\ booked = {}

-----------------------------------------------------------------------------
(* Writing rows.                                                           *)

CreateRow(t, isDue) ==
  /\ st[t] = "absent"
  /\ st' = [st EXCEPT ![t] = "open"]
  /\ due' = [due EXCEPT ![t] = isDue]
  /\ UNCHANGED <<outcome, lease, attempts, overran, finisher>>

\* AgentTriggerService.enqueue: the search and the insert run under one
\* advisory lock, so nothing queues the same work between them.
Enqueue(t) ==
  /\ OpenRows(KindOf[t], SubjectOf[t]) = {}
  /\ CreateRow(t, TRUE)
  /\ UNCHANGED <<phase, target, creating, booked>>

\* createEventTask: every CRM event is a row of its own.
EnqueueEvent(t) ==
  /\ KindOf[t] \in EventKinds
  /\ CreateRow(t, TRUE)
  /\ UNCHANGED <<phase, target, creating, booked>>

\* backfill and fieldBackfill look first and insert later, with no lock.
BackfillLook(kind, subject) ==
  /\ kind \in BackfillKinds
  /\ OpenRows(kind, subject) = {}
  /\ creating' = creating \cup {<<kind, subject>>}
  /\ UNCHANGED <<st, outcome, due, lease, attempts, phase, target, overran,
                 finisher, booked>>

BackfillCreate(t) ==
  /\ <<KindOf[t], SubjectOf[t]>> \in creating
  /\ CreateRow(t, TRUE)
  /\ creating' = creating \ {<<KindOf[t], SubjectOf[t]>>}
  /\ UNCHANGED <<phase, target, booked>>

-----------------------------------------------------------------------------
(* Leases.  Nothing reads the dates of a finished row again, so they stop. *)

DueDateComes(t) ==
  /\ st[t] = "open" /\ ~due[t]
  /\ due' = [due EXCEPT ![t] = TRUE]
  /\ booked' = booked \ {t}
  /\ UNCHANGED <<st, outcome, lease, attempts, phase, target, creating,
                 overran, finisher>>

LeaseExpires(t) ==
  /\ st[t] = "open" /\ lease[t] = "live"
  /\ lease' = [lease EXCEPT ![t] = "expired"]
  /\ overran' = overran \cup
       {w \in Work : w[1] = t /\ phase[t][w[2]] \in Active}
  /\ UNCHANGED <<st, outcome, due, attempts, phase, target, creating,
                 finisher, booked>>

Claimable(t) ==
  /\ st[t] = "open"
  /\ due[t]
  /\ lease[t] # "live"
  /\ attempts[t] < MaxAttempts

\* claimDue: one UPDATE leases the row and counts the attempt.
ClaimDue(t) ==
  /\ Claimable(t)
  /\ lease' = [lease EXCEPT ![t] = "live"]
  /\ attempts' = [attempts EXCEPT ![t] = @ + 1]
  /\ phase' = [phase EXCEPT ![t][attempts[t] + 1] = "claimed"]
  /\ UNCHANGED <<st, outcome, due, target, creating, overran, finisher,
                 booked>>

\* Mutants of Exhausted: no lease test, one attempt early, NULL leases only.
ExhaustedLeased == {t \in Task : st[t] = "open" /\ attempts[t] >= MaxAttempts}
ExhaustedEarly ==
  {t \in Task : st[t] = "open" /\ attempts[t] > 0 /\ lease[t] # "live"}
ExhaustedUnleased == {t \in Task : /\ st[t] = "open"
                                   /\ attempts[t] >= MaxAttempts
                                   /\ lease[t] = "none"}

Exhausted == {t \in Task : /\ st[t] = "open"
                           /\ attempts[t] >= MaxAttempts
                           /\ lease[t] # "live"}

\* retireExhausted: one UPDATE finishes every exhausted row and returns them.
RetireExhausted ==
  /\ Exhausted # {}
  /\ st' = [t \in Task |-> IF t \in Exhausted THEN "finished" ELSE st[t]]
  /\ outcome' = [t \in Task |->
                   IF t \in Exhausted THEN "retired" ELSE outcome[t]]
  /\ finisher' = [t \in Task |->
                   IF t \in Exhausted THEN finisher[t] \cup {0}
                   ELSE finisher[t]]
  /\ UNCHANGED <<due, lease, attempts, phase, target, creating, overran,
                 booked>>

-----------------------------------------------------------------------------
(* What becomes of an attempt.                                             *)

\* The handler is called, or markRunning committed and the message is on its
\* way to the session.
Start(t, k) ==
  /\ phase[t][k] = "claimed"
  /\ phase' = [phase EXCEPT ![t][k] = "running"]
  /\ UNCHANGED <<st, outcome, due, lease, attempts, target, creating,
                 overran, finisher, booked>>

\* completeTask writes only where finishedAt is null, and answers the subject
\* only to the caller whose write that was.
CompleteTask(t, who) ==
  IF st[t] = "open"
  THEN /\ st' = [st EXCEPT ![t] = "finished"]
       /\ outcome' = [outcome EXCEPT ![t] = "ran"]
       /\ finisher' = [finisher EXCEPT ![t] = @ \cup {who}]
  ELSE UNCHANGED <<st, outcome, finisher>>

\* handleDirect returned, or the session parked (session.waiting).
Complete(t, k) ==
  /\ phase[t][k] \in Turn \ {"booking"}
  /\ CompleteTask(t, k)
  /\ phase' = [phase EXCEPT ![t][k] = "over"]
  /\ UNCHANGED <<due, lease, attempts, target, creating, overran, booked>>

\* The attempt ends and the row stays open: a retryable brand lookup, a
\* handler that threw, a lane that was aborted, a send that was rejected or
\* never landed, a failed turn, a process that died.
Abandon(t, k) ==
  /\ phase[t][k] \in Active
  /\ phase' = [phase EXCEPT ![t][k] = "over"]
  /\ target' = [target EXCEPT ![t][k] = NoTask]
  /\ UNCHANGED <<st, outcome, due, lease, attempts, creating, overran,
                 finisher, booked>>

\* schedule_recheck, called by a research turn (at most once in a turn here).
\* scheduleTask searches for an open row of the kind and subject...
BookLook(t, k) ==
  /\ ~Direct(t) /\ phase[t][k] = "running"
  /\ SubjectOf[t] \in Subject
  /\ phase' = [phase EXCEPT ![t][k] = "booking"]
  /\ LET found == OpenRows(RecheckKind, SubjectOf[t])
     IN \E r \in IF found = {} THEN {NoTask} ELSE found :
          target' = [target EXCEPT ![t][k] = r]
  /\ UNCHANGED <<st, outcome, due, lease, attempts, creating, overran,
                 finisher, booked>>

\* ... and then moves the row it found, whatever became of it meanwhile ...
BookMove(t, k) ==
  /\ phase[t][k] = "booking" /\ target[t][k] # NoTask
  /\ due' = [due EXCEPT ![target[t][k]] = FALSE]
  /\ booked' = booked \cup {target[t][k]}
  /\ phase' = [phase EXCEPT ![t][k] = "booked"]
  /\ target' = [target EXCEPT ![t][k] = NoTask]
  /\ UNCHANGED <<st, outcome, lease, attempts, creating, overran, finisher>>

\* ... or creates one.
BookCreate(t, k, r) ==
  /\ phase[t][k] = "booking" /\ target[t][k] = NoTask
  /\ KindOf[r] = RecheckKind /\ SubjectOf[r] = SubjectOf[t]
  /\ CreateRow(r, FALSE)
  /\ booked' = booked \cup {r}
  /\ phase' = [phase EXCEPT ![t][k] = "booked"]
  /\ UNCHANGED <<target, creating>>

-----------------------------------------------------------------------------
Queueing ==
  \/ \E t \in Task : Enqueue(t) \/ EnqueueEvent(t) \/ BackfillCreate(t)
  \/ \E kind \in Kind, subject \in Subject : BackfillLook(kind, subject)

Sweeping == RetireExhausted \/ \E t \in Task : ClaimDue(t)

Clock == \E t \in Task : DueDateComes(t) \/ LeaseExpires(t)

Working ==
  \E t \in Task, k \in Attempt :
    \/ Start(t, k) \/ Complete(t, k) \/ Abandon(t, k)
    \/ BookLook(t, k) \/ BookMove(t, k)
    \/ \E r \in Task : BookCreate(t, k, r)

Next == Queueing \/ Sweeping \/ Clock \/ Working

Spec == Init /\ [][Next]_vars

\* The cron job sweeps every minute and clocks advance.  Nothing is assumed
\* of the attempts: a handler or a session may hang or die.
Fairness ==
  /\ WF_vars(RetireExhausted)
  /\ \A t \in Task : /\ WF_vars(ClaimDue(t))
                     /\ WF_vars(DueDateComes(t))
                     /\ WF_vars(LeaseExpires(t))

FairSpec == Spec /\ Fairness
-----------------------------------------------------------------------------
TypeOK ==
  /\ st \in [Task -> {"absent", "open", "finished"}]
  /\ outcome \in [Task -> {"none", "ran", "retired"}]
  /\ due \in [Task -> BOOLEAN]
  /\ lease \in [Task -> {"none", "live", "expired"}]
  /\ attempts \in [Task -> 0..MaxAttempts]
  /\ phase \in [Task -> [Attempt -> Phase]]
  /\ target \in [Task -> [Attempt -> Task \cup {NoTask}]]
  /\ creating \subseteq Kind \X Subject
  /\ overran \subseteq Work
  /\ finisher \in [Task -> SUBSET (0..MaxAttempts)]
  /\ booked \subseteq Task

\* Exactly one caller is told that it finished a row, however many attempts
\* and retirements race to finish it: completeTask and retireExhausted both
\* answer only the write that found finishedAt null, and what is settled on
\* the record afterwards hangs on that answer.
OneFinisher ==
  \A t \in Task :
    /\ (finisher[t] # {}) <=> (st[t] = "finished")
    /\ \A a, b \in finisher[t] : a = b

\* Two attempts at one row are in progress together only when the earlier one
\* outlived its lease: claimDue leaves a live lease alone.
OverlapOnlyAfterLease ==
  \A t \in Task : \A j, k \in Attempt :
    (j < k /\ phase[t][j] \in Active /\ phase[t][k] # "none")
      => <<t, j>> \in overran

\* A finished row stays finished, for the reason first given: a turn that
\* parks after retirement, or a second one, rewrites nothing.
FinishedIsFinal ==
  [][\A t \in Task : st[t] = "finished" =>
       st'[t] = "finished" /\ outcome'[t] = outcome[t]]_vars

\* retireExhausted never takes a row from an attempt whose lease still runs,
\* the last allowed attempt included.
RetireWaitsForLease ==
  [][\A t \in Task : outcome[t] # "retired" /\ outcome'[t] = "retired" =>
       /\ attempts[t] = MaxAttempts
       /\ \A k \in Attempt : phase[t][k] \in Active => <<t, k>> \in overran
    ]_vars

\* What scheduleTask answers, that the recheck is booked: until its date the
\* booking sits on an open row.
BookingIsKept == \A t \in booked : st[t] = "open"

\* Every queued row is finished in the end though no handler or session ever
\* answers: leases run out, attempts are counted, and the count is bounded.
EveryTaskFinishes == \A t \in Task : st[t] = "open" ~> st[t] = "finished"

\* The queue keeps the promise of TaskDelivery.
Delivery == INSTANCE TaskDelivery
              WITH Limit <- MaxAttempts, state <- st, given <- attempts,
                   answer <- outcome
DeliversTasks == Delivery!DSpec
=============================================================================
