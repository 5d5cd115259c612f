-------------------------- MODULE SweepDispatcher --------------------------
(***************************************************************************)
(* When a sweep of the task queue runs: drainAll and dispatchHealth of     *)
(* apps/agent/agent/lib/dispatch.ts, collapsing of lib/pool.ts, the cron   *)
(* job and the API's pokes that call drainAll.  What a sweep does to the   *)
(* rows is TaskQueue; that sweeps keep coming, which TaskQueue and         *)
(* AgentRun take as fairness, is shown here.                               *)
(*                                                                         *)
(* All of it is memory of one agent process, lost when the process dies;   *)
(* only the queued rows are shared.  JavaScript runs one callback at a     *)
(* time, so a callback and the promise reactions it triggers are one       *)
(* action: a sweep that ends starts the one that was folded into it.       *)
(*                                                                         *)
(* A sweep is raced against its timeout.  One that loses is abandoned: it  *)
(* sits in unsettledSweeps until it settles or until a grace period is     *)
(* over, and while the set is full no other sweep starts.                  *)
(***************************************************************************)
EXTENDS Naturals

CONSTANTS
  Process,      \* agent processes on one database
  MaxAbandoned, \* DISPATCH.sweep.maxAbandoned
  MaxForgotten  \* bound: forgotten sweeps told apart in one process

ASSUME SweepAssumption == MaxAbandoned \in Nat \ {0} /\ MaxForgotten \in Nat

VARIABLES
  active,     \* processes with a sweep in its race (collapsing's active)
  trailing,   \* processes with a call folded into their next sweep
  unsettled,  \* unsettled[p]: size of unsettledSweeps
  forgotten,  \* forgotten[p]: abandoned sweeps given up on and still running
  queue,      \* "waiting" while rows are queued that no sweep has started since
  owed        \* history: processes that owe their last call a sweep

wvars == <<active, trailing, unsettled, forgotten, queue, owed>>

WInit ==
  /\ active = {} /\ trailing = {}
  /\ unsettled = [p \in Process |-> 0]
  /\ forgotten = [p \in Process |-> 0]
  /\ queue = "seen" /\ owed = {}

Racing(p) == IF p \in active THEN 1 ELSE 0

-----------------------------------------------------------------------------
(* Calls.                                                                  *)

\* A row is queued; the poke that should follow may not land.
QueueWork ==
  /\ queue' = "waiting"
  /\ UNCHANGED <<active, trailing, unsettled, forgotten, owed>>

\* Mutant of Begin: abandoned sweeps are not counted.
BeginStacked(p, abandoned) ==
  /\ active' = active \cup {p}
  /\ queue' = "seen"
  /\ owed' = owed \ {p}

\* The body of drainAll up to its first await, with that many abandoned
\* sweeps unsettled: it refuses, or starts a sweep that sees every row queued
\* so far.
Begin(p, abandoned) ==
  /\ IF abandoned >= MaxAbandoned
     THEN active' = active \ {p} /\ UNCHANGED queue
     ELSE active' = active \cup {p} /\ queue' = "seen"
  /\ owed' = owed \ {p}

\* drainAll is called, by the cron job, a poke or the API's heartbeat: while a
\* sweep is under way the call is folded into the next one ...
CallDuring(p) ==
  /\ p \in active
  /\ trailing' = trailing \cup {p}
  /\ owed' = owed \cup {p}
  /\ UNCHANGED <<active, unsettled, forgotten, queue>>

\* ... and otherwise runs.
CallIdle(p) ==
  /\ p \notin active
  /\ Begin(p, unsettled[p])
  /\ UNCHANGED <<trailing, unsettled, forgotten>>

-----------------------------------------------------------------------------
(* The race.                                                               *)

\* Mutant of CatchUp: the folded call is dropped.
CatchUpNever(p, abandoned) ==
  /\ trailing' = trailing \ {p}
  /\ active' = active \ {p}
  /\ UNCHANGED <<queue, owed>>

\* The rest of collapsing: the call that was folded in runs at once, whether
\* the sweep before it failed or not.
CatchUp(p, abandoned) ==
  /\ trailing' = trailing \ {p}
  /\ IF p \in trailing
     THEN Begin(p, abandoned)
     ELSE active' = active \ {p} /\ UNCHANGED <<queue, owed>>

\* The sweep wins its race: its lanes are done, or one of them threw.
SweepEnds(p) ==
  /\ p \in active
  /\ CatchUp(p, unsettled[p])
  /\ UNCHANGED <<unsettled, forgotten>>

\* The timer wins: the sweep is abandoned and drainAll throws.
SweepTimesOut(p) ==
  /\ p \in active
  /\ unsettled' = [unsettled EXCEPT ![p] = @ + 1]
  /\ CatchUp(p, unsettled[p] + 1)
  /\ UNCHANGED forgotten

-----------------------------------------------------------------------------
(* Abandoned sweeps.                                                       *)

AbandonedSettles(p) ==
  /\ unsettled[p] > 0
  /\ unsettled' = [unsettled EXCEPT ![p] = @ - 1]
  /\ UNCHANGED <<active, trailing, forgotten, queue, owed>>

\* Mutant of Forget: the set keeps a sweep until it settles.
ForgetNever(p) == FALSE /\ UNCHANGED wvars

\* abandonGraceMs is over.
Forget(p) ==
  /\ unsettled[p] > 0
  /\ unsettled' = [unsettled EXCEPT ![p] = @ - 1]
  /\ forgotten' = [forgotten EXCEPT
                     ![p] = IF @ < MaxForgotten THEN @ + 1 ELSE @]
  /\ UNCHANGED <<active, trailing, queue, owed>>

ForgottenSettles(p) ==
  /\ forgotten[p] > 0
  /\ forgotten' = [forgotten EXCEPT ![p] = @ - 1]
  /\ UNCHANGED <<active, trailing, unsettled, queue, owed>>

\* The process dies and comes back with empty memory.
ProcessRestarts(p) ==
  /\ active' = active \ {p}
  /\ trailing' = trailing \ {p}
  /\ unsettled' = [unsettled EXCEPT ![p] = 0]
  /\ forgotten' = [forgotten EXCEPT ![p] = 0]
  /\ owed' = owed \ {p}
  /\ UNCHANGED queue

-----------------------------------------------------------------------------
WNext ==
  \/ QueueWork
  \/ \E p \in Process :
       \/ CallDuring(p) \/ CallIdle(p) \/ SweepEnds(p) \/ SweepTimesOut(p)
       \/ AbandonedSettles(p) \/ Forget(p) \/ ForgottenSettles(p)
       \/ ProcessRestarts(p)

WSpec == WInit /\ [][WNext]_wvars

-----------------------------------------------------------------------------
WTypeOK ==
  /\ active \subseteq Process
  /\ trailing \subseteq Process
  /\ unsettled \in [Process -> 0..MaxAbandoned]
  /\ forgotten \in [Process -> 0..MaxForgotten]
  /\ queue \in {"seen", "waiting"}
  /\ owed \subseteq Process

\* Sweeps of one process do not pile up on stuck work: a sweep that races and
\* the abandoned ones it knows of are never more than maxAbandoned.
NotStacked == \A p \in Process : unsettled[p] + Racing(p) <= MaxAbandoned

\* A call that arrives while a sweep is under way is not lost, however that
\* sweep ends: it stays folded until the race is over, and then a sweep that
\* started after it ran or the abandoned ones forbade it.
CallIsFolded == owed \subseteq active \cap trailing

\* Work that is queued is swept, though pokes are lost, sweeps hang forever,
\* are abandoned and forgotten, and processes restart.
QueuedWorkIsSwept == queue = "waiting" ~> queue = "seen"
=============================================================================
