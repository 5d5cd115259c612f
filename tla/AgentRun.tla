------------------------------ MODULE AgentRun ------------------------------
(***************************************************************************)
(* The runs of deployed team agents: rows of agentRun, the sweep and the   *)
(* route that deliver them to eve sessions (custom-agent-dispatch.ts), the *)
(* hook and the channel events those sessions send back (hooks/audit.ts,   *)
(* channels/crm.ts), and the people who start, stop, pause and delete      *)
(* (agent-runs.service.ts, agent-definitions.service.ts).                  *)
(*                                                                         *)
(* Every transaction that changes a run locks its row first, so each is    *)
(* one action.  What is not atomic is what lies between transactions: the  *)
(* send to eve, whose answer may come late, never, or after the session it *)
(* opened has spoken; reads a sweep acts on later; the run row inserted    *)
(* for an event after the agent was seen to be live.                       *)
(*                                                                         *)
(* Simplifications.  startedAt is an age against the two limits that read  *)
(* it, kept while the run is RUNNING: nothing reads it later.  A session   *)
(* opened by the k-th delivery of a run is session k.  A session's other   *)
(* events are one "step".  WAITING_FOR_APPROVAL is written by nothing, so  *)
(* it is not a status here.                                                *)
(***************************************************************************)
EXTENDS Naturals, FiniteSets

CONSTANTS
  Run,         \* ids the rows may have; a row's id stands for its
               \* idempotency key
  Agent,       \* deployed agents
  AgentOf,     \* the agent of each run
  StartedBy,   \* what starts each run: a person, a schedule or an event
  MaxSends,    \* bound: deliveries each run gets
  Stepping     \* bound: runs whose sessions report their steps

ASSUME RunAssumption ==
  /\ MaxSends \in [Run -> Nat]
  /\ AgentOf \in [Run -> Agent]
  /\ StartedBy \in [Run -> {"person", "schedule", "event"}]
  /\ Stepping \subseteq Run

VARIABLES
  agentStatus, \* agentStatus[a]: status of the agentDefinition row
  status,      \* status[r]: "none" before the row exists
  session,     \* session[r]: sessionId, 0 = NULL
  age,         \* age[r]: startedAt, against the delivery lease and the timeout
  seq,         \* seq[r]: nextEventSequence
  log,         \* log[r]: agentRunEvent rows, as <<sequence, id>>
  sends,       \* sends[r]: deliveries so far
  answer,      \* answer[r][k]: "awaited" while delivery k's sender waits
  sess,        \* sess[r][k]: the session that delivery opened
  inserting,   \* event runs whose agent was seen to be live
  blocked,     \* runs a sweep found to miss a dependency
  byClaim      \* history: runs whose RUNNING was written by a claim

rvars == <<agentStatus, status, session, age, seq, log, sends, answer, sess,
           inserting, blocked, byClaim>>

Send == UNION {1..MaxSends[r] : r \in Run}
Terminal == {"SUCCEEDED", "FAILED", "CANCELLED"}
Active == {"QUEUED", "RUNNING"}
AgentStatus == {"LIVE", "PAUSED", "ARCHIVED", "DELETED"}
RunsOf(a) == {r \in Run : AgentOf[r] = a}
Live(r) == agentStatus[AgentOf[r]] = "LIVE"

TerminalId == {<<s, 0>> : s \in {"completed", "failed", "cancelled"}}
EventId == {<<"queued", 0>>} \cup TerminalId
             \cup ({"recovered", "started", "step"} \X Send)

RInit ==
  /\ agentStatus = [a \in Agent |-> "LIVE"]
  /\ status = [r \in Run |-> "none"]
  /\ session = [r \in Run |-> 0]
  /\ age = [r \in Run |-> "null"]
  /\ seq = [r \in Run |-> 0]
  /\ log = [r \in Run |-> {}]
  /\ sends = [r \in Run |-> 0]
  /\ answer = [r \in Run |-> [k \in Send |-> "none"]]
  /\ sess = [r \in Run |-> [k \in Send |-> "none"]]
  /\ inserting = {} /\ blocked = {} /\ byClaim = {}

-----------------------------------------------------------------------------
(* Writing a run.                                                          *)

\* The next event of a run, under the lock on its row.
Log(r, id) ==
  /\ seq' = [seq EXCEPT ![r] = @ + 1]
  /\ log' = [log EXCEPT ![r] = @ \cup {<<seq[r] + 1, id>>}]

\* QUEUED or a terminal status.
Leave(r, s) ==
  /\ status' = [status EXCEPT ![r] = s]
  /\ age' = [age EXCEPT ![r] = "null"]
  /\ byClaim' = byClaim \ {r}

\* Mutant of Settle: the last terminal status wins.
SettleAgain(r, s, id) == Leave(r, s) /\ Log(r, id)

\* failRun, cancelRun, finishRun and the API's cancelRun: the first terminal
\* status wins, and brings the terminal event with it.
Settle(r, s, id) ==
  IF status[r] \in Terminal
  THEN UNCHANGED <<status, age, seq, log, byClaim>>
  ELSE Leave(r, s) /\ Log(r, id)

Fail(r) == Settle(r, "FAILED", <<"failed", 0>>)
Cancel(r) == Settle(r, "CANCELLED", <<"cancelled", 0>>)

Create(r) ==
  /\ status[r] = "none"
  /\ Leave(r, "QUEUED")
  /\ log' = [log EXCEPT ![r] = {<<0, <<"queued", 0>>>>}]
  /\ UNCHANGED <<agentStatus, session, seq, sends, answer, sess, blocked>>

-----------------------------------------------------------------------------
(* Queueing.                                                               *)

\* runNow and retryRun lock the agent and refuse while a run of it is active.
QueueByPerson(r) ==
  /\ StartedBy[r] = "person" /\ Live(r)
  /\ \A q \in RunsOf(AgentOf[r]) : status[q] \notin Active
  /\ Create(r)
  /\ UNCHANGED inserting

\* queueDueAgentRuns locks the agent and does not look at its runs.
QueueDue(r) ==
  /\ StartedBy[r] = "schedule" /\ Live(r)
  /\ Create(r)
  /\ UNCHANGED inserting

\* queueEventAgentRuns sees a live agent, without a lock on it...
EventLook(r) ==
  /\ StartedBy[r] = "event" /\ status[r] = "none" /\ Live(r)
  /\ inserting' = inserting \cup {r}
  /\ UNCHANGED <<agentStatus, status, session, age, seq, log, sends, answer,
                 sess, blocked, byClaim>>

\* ... and inserts the run.
EventInsert(r) ==
  /\ r \in inserting
  /\ inserting' = inserting \ {r}
  /\ Create(r)

-----------------------------------------------------------------------------
(* Delivery.                                                               *)

\* Mutant of Claim: the agent's other runs are not looked at.
ClaimAlongside(r) ==
  /\ Live(r) /\ status[r] = "QUEUED"
  /\ sends[r] < MaxSends[r]
  /\ status' = [status EXCEPT ![r] = "RUNNING"]
  /\ byClaim' = byClaim \cup {r}
  /\ age' = [age EXCEPT ![r] = "fresh"]
  /\ sends' = [sends EXCEPT ![r] = @ + 1]
  /\ answer' = [answer EXCEPT ![r][sends[r] + 1] = "awaited"]
  /\ UNCHANGED <<agentStatus, session, seq, log, sess, inserting, blocked>>

\* dispatchAgentRun, up to the send: under the lock on the agent, a queued run
\* is claimed if no other run of the agent is running.
Claim(r) ==
  /\ Live(r) /\ status[r] = "QUEUED"
  /\ \A q \in RunsOf(AgentOf[r]) \ {r} : status[q] # "RUNNING"
  /\ sends[r] < MaxSends[r]
  /\ status' = [status EXCEPT ![r] = "RUNNING"]
  /\ byClaim' = byClaim \cup {r}
  /\ age' = [age EXCEPT ![r] = "fresh"]
  /\ sends' = [sends EXCEPT ![r] = @ + 1]
  /\ answer' = [answer EXCEPT ![r][sends[r] + 1] = "awaited"]
  /\ UNCHANGED <<agentStatus, session, seq, log, sess, inserting, blocked>>

\* eve opens the session, whether or not the dispatcher is still there.
SessionOpens(r, k) ==
  /\ answer[r][k] # "none" /\ sess[r][k] = "none"
  /\ sess' = [sess EXCEPT ![r][k] = "open"]
  /\ UNCHANGED <<agentStatus, status, session, age, seq, log, sends, answer,
                 inserting, blocked, byClaim>>

\* The send answered: the session id is written if the run is still RUNNING.
Linked(r, k) ==
  /\ answer[r][k] = "awaited" /\ sess[r][k] # "none"
  /\ answer' = [answer EXCEPT ![r][k] = "over"]
  /\ session' = IF status[r] = "RUNNING" THEN [session EXCEPT ![r] = k]
                ELSE session
  /\ UNCHANGED <<agentStatus, status, age, seq, log, sends, sess, inserting,
                 blocked, byClaim>>

\* The send threw, which does not say that no session was opened.
SendFails(r, k) ==
  /\ answer[r][k] = "awaited"
  /\ answer' = [answer EXCEPT ![r][k] = "over"]
  /\ Fail(r)
  /\ UNCHANGED <<agentStatus, session, sends, sess, inserting, blocked>>

\* The dispatching process dies, or its request outlives it.
SenderDies(r, k) ==
  /\ answer[r][k] = "awaited"
  /\ answer' = [answer EXCEPT ![r][k] = "over"]
  /\ UNCHANGED <<agentStatus, status, session, age, seq, log, sends, sess,
                 inserting, blocked, byClaim>>

\* pendingAgentRunIds finds a queued run with a dependency missing, ...
FindBlocked(r) ==
  /\ status[r] = "QUEUED" /\ Live(r)
  /\ \A q \in RunsOf(AgentOf[r]) : status[q] # "RUNNING"
  /\ blocked' = blocked \cup {r}
  /\ UNCHANGED <<agentStatus, status, session, age, seq, log, sends, answer,
                 sess, inserting, byClaim>>

\* ... and fails it, by now perhaps dispatched by another sweep.
FailBlocked(r) ==
  /\ r \in blocked
  /\ blocked' = blocked \ {r}
  /\ Fail(r)
  /\ UNCHANGED <<agentStatus, session, sends, answer, sess, inserting>>

Ages(r) ==
  /\ status[r] = "RUNNING" /\ age[r] # "overrun"
  /\ age' = [age EXCEPT ![r] = IF @ = "fresh" THEN "stale" ELSE "overrun"]
  /\ UNCHANGED <<agentStatus, status, session, seq, log, sends, answer, sess,
                 inserting, blocked, byClaim>>

\* Mutant of TimeOut: only the runs of live agents are timed out.
TimeOutLive(r) ==
  /\ Live(r)
  /\ status[r] = "RUNNING" /\ session[r] # 0 /\ age[r] = "overrun"
  /\ Fail(r)
  /\ UNCHANGED <<agentStatus, session, sends, answer, sess, inserting, blocked>>

\* recoverAgentRuns: a delivery that never got a session is queued again, or
\* cancelled if the agent is gone.
Recover(r) ==
  /\ status[r] = "RUNNING" /\ session[r] = 0 /\ age[r] # "fresh"
  /\ IF agentStatus[AgentOf[r]] \in {"LIVE", "PAUSED"}
     THEN Leave(r, "QUEUED") /\ Log(r, <<"recovered", sends[r]>>)
     ELSE Cancel(r)
  /\ UNCHANGED <<agentStatus, session, sends, answer, sess, inserting, blocked>>

\* timeOutOverrunningRuns: a run with a session gets twenty minutes.
TimeOut(r) ==
  /\ status[r] = "RUNNING" /\ session[r] # 0 /\ age[r] = "overrun"
  /\ Fail(r)
  /\ UNCHANGED <<agentStatus, session, sends, answer, sess, inserting,
                 blocked>>

-----------------------------------------------------------------------------
(* What a session sends back.  Its events may be delivered more than once. *)

HasEvent(r, id) == \E e \in log[r] : e[2] = id

\* persistRunEvent for session.started of the root session.
HookStarted(r, k) ==
  /\ sess[r][k] = "open"
  /\ status[r] \notin Terminal /\ ~HasEvent(r, <<"started", k>>)
  /\ Log(r, <<"started", k>>)
  /\ status' = [status EXCEPT ![r] = "RUNNING"]
  /\ session' = [session EXCEPT ![r] = k]
  /\ age' = [age EXCEPT ![r] = IF @ = "null" THEN "fresh" ELSE @]
  /\ UNCHANGED <<agentStatus, sends, answer, sess, inserting, blocked, byClaim>>

\* Mutant of HookStep: an event delivered again is appended again.
HookStepAgain(r, k) ==
  /\ r \in Stepping /\ sess[r][k] = "open"
  /\ status[r] \notin Terminal
  /\ Log(r, <<"step", k>>)
  /\ UNCHANGED <<agentStatus, status, session, age, sends, answer, sess,
                 inserting, blocked, byClaim>>

\* persistRunEvent for any other event.
HookStep(r, k) ==
  /\ r \in Stepping /\ sess[r][k] = "open"
  /\ status[r] \notin Terminal /\ ~HasEvent(r, <<"step", k>>)
  /\ Log(r, <<"step", k>>)
  /\ UNCHANGED <<agentStatus, status, session, age, sends, answer, sess,
                 inserting, blocked, byClaim>>

\* session.completed reads the status before it finishes the run.
SessionCompletes(r, k) ==
  /\ sess[r][k] = "open"
  /\ sess' = [sess EXCEPT ![r][k] =
                IF status[r] = "RUNNING" THEN "finishing" ELSE "over"]
  /\ UNCHANGED <<agentStatus, status, session, age, seq, log, sends, answer,
                 inserting, blocked, byClaim>>

\* finishRun: SUCCEEDED, or FAILED when a required action was not performed.
\* A run it no longer finds RUNNING makes it throw, and failRun follows.
FinishRun(r, k) ==
  /\ sess[r][k] = "finishing"
  /\ sess' = [sess EXCEPT ![r][k] = "over"]
  /\ \/ status[r] = "RUNNING" /\ Settle(r, "SUCCEEDED", <<"completed", 0>>)
     \/ Fail(r)
  /\ UNCHANGED <<agentStatus, session, sends, answer, inserting, blocked>>

\* turn.failed and session.failed fail the run; the session may go on.
SessionFails(r, k) ==
  /\ sess[r][k] = "open"
  /\ \E after \in {"open", "over"} : sess' = [sess EXCEPT ![r][k] = after]
  /\ Fail(r)
  /\ UNCHANGED <<agentStatus, session, sends, answer, inserting, blocked>>

\* turn.cancelled.
TurnCancelled(r, k) ==
  /\ sess[r][k] = "open"
  /\ sess' = [sess EXCEPT ![r][k] = "over"]
  /\ Cancel(r)
  /\ UNCHANGED <<agentStatus, session, sends, answer, inserting, blocked>>

-----------------------------------------------------------------------------
(* People.                                                                 *)

\* AgentRunsService.cancelRun.
Stop(r) ==
  /\ status[r] \in Active
  /\ Cancel(r)
  /\ UNCHANGED <<agentStatus, session, sends, answer, sess, inserting,
                 blocked>>

\* pause, resume, archive, restore.
ChangeStatus(a, from, to) ==
  /\ agentStatus[a] \in from
  /\ agentStatus' = [agentStatus EXCEPT ![a] = to]
  /\ UNCHANGED <<status, session, age, seq, log, sends, answer, sess,
                 inserting, blocked, byClaim>>

\* Runs a deletion cancels: the queued and those without a session.
Cancellable(a) == {r \in RunsOf(a) : \/ status[r] = "QUEUED"
                                     \/ status[r] = "RUNNING" /\ session[r] = 0}

Remove(a) ==
  /\ agentStatus[a] # "DELETED"
  /\ agentStatus' = [agentStatus EXCEPT ![a] = "DELETED"]
  /\ LET S == Cancellable(a)
     IN /\ status' = [r \in Run |-> IF r \in S THEN "CANCELLED" ELSE status[r]]
        /\ seq' = [r \in Run |-> IF r \in S THEN seq[r] + 1 ELSE seq[r]]
        /\ log' = [r \in Run |->
             IF r \in S
             THEN log[r] \cup {<<seq[r] + 1, <<"cancelled", 0>>>>}
             ELSE log[r]]
        /\ age' = [r \in Run |-> IF r \in S THEN "null" ELSE age[r]]
        /\ byClaim' = byClaim \ S
  /\ UNCHANGED <<session, sends, answer, sess, inserting, blocked>>

-----------------------------------------------------------------------------
Queueing ==
  \E r \in Run : QueueByPerson(r) \/ QueueDue(r) \/ EventLook(r)
                   \/ EventInsert(r)

Delivering ==
  \E r \in Run :
    \/ Claim(r) \/ FindBlocked(r) \/ FailBlocked(r)
    \/ Ages(r) \/ Recover(r) \/ TimeOut(r)
    \/ \E k \in Send : SessionOpens(r, k) \/ Linked(r, k) \/ SendFails(r, k)
                         \/ SenderDies(r, k)

Answering ==
  \E r \in Run, k \in Send :
    \/ HookStarted(r, k) \/ HookStep(r, k) \/ SessionCompletes(r, k)
    \/ FinishRun(r, k) \/ SessionFails(r, k) \/ TurnCancelled(r, k)

Managing ==
  \/ \E r \in Run : Stop(r)
  \/ \E a \in Agent :
       \/ ChangeStatus(a, {"LIVE"}, "PAUSED")
       \/ ChangeStatus(a, {"PAUSED"}, "LIVE")
       \/ ChangeStatus(a, {"LIVE", "PAUSED"}, "ARCHIVED")
       \/ ChangeStatus(a, {"ARCHIVED"}, "PAUSED")
       \/ Remove(a)

RNext == Queueing \/ Delivering \/ Answering \/ Managing

RSpec == RInit /\ [][RNext]_rvars

\* The cron sweep runs every minute and time passes.  Sessions, senders and
\* people promise nothing.
RFairness ==
  \A r \in Run : WF_rvars(Ages(r)) /\ WF_rvars(Recover(r)) /\ WF_rvars(TimeOut(r))

RFairSpec == RSpec /\ RFairness
-----------------------------------------------------------------------------
RTypeOK ==
  /\ agentStatus \in [Agent -> AgentStatus]
  /\ status \in [Run -> {"none"} \cup Active \cup Terminal]
  /\ session \in [Run -> {0} \cup Send]
  /\ age \in [Run -> {"null", "fresh", "stale", "overrun"}]
  /\ seq \in [Run -> Nat]
  /\ log \in [Run -> SUBSET (Nat \X EventId)]
  /\ sends \in [Run -> {0} \cup Send]
  /\ answer \in [Run -> [Send -> {"none", "awaited", "over"}]]
  /\ sess \in [Run -> [Send -> {"none", "open", "finishing", "over"}]]
  /\ inserting \subseteq Run /\ blocked \subseteq Run /\ byClaim \subseteq Run

\* The log of a run is whole: its numbers run from 0 to nextEventSequence, no
\* event is there twice although hooks, sweeps and people all append, and a
\* terminal event is there exactly when the run has ended, as its last entry.
LogIsWhole ==
  \A r \in Run : status[r] # "none" =>
    /\ {e[1] : e \in log[r]} = 0..seq[r]
    /\ \A d, e \in log[r] : d[1] = e[1] \/ d[2] = e[2] => d = e
    /\ \A e \in log[r] : e[2] \in TerminalId => e[1] = seq[r]
    /\ (status[r] \in Terminal) <=> (\E e \in log[r] : e[2] \in TerminalId)

\* Of the runs of an agent at most one is RUNNING because a dispatcher claimed
\* it, however many sweeps and routes dispatch at once.
OneDispatched ==
  \A a \in Agent : \A q, r \in RunsOf(a) \cap byClaim :
    status[q] = "RUNNING" /\ status[r] = "RUNNING" => q = r

\* An agent has one active turn: what the dispatcher's claim is for.
OneRunning ==
  \A a \in Agent : \A q, r \in RunsOf(a) :
    status[q] = "RUNNING" /\ status[r] = "RUNNING" => q = r

\* No run reads RUNNING forever, whatever became of its dispatcher and its
\* session: the sweep recovers it or times it out.
NoRunHangs == \A r \in Run : []<>(status[r] # "RUNNING")

\* Runs keep the promise of RunLedger.
Ledger == INSTANCE RunLedger
            WITH Outcome <- Terminal, last <- seq,
                 state <- [r \in Run |-> IF status[r] = "none" THEN "absent"
                                         ELSE IF status[r] \in Active THEN "open"
                                         ELSE status[r]]
KeepsLedger == Ledger!LSpec
=============================================================================
