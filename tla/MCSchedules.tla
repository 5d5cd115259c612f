------------------------------ MODULE MCSchedules ------------------------------
(* What cron jobs, timers and expiry drive, side by side: the queue of     *)
(* tasks, the sweeps of the dispatcher, the blanks that sweep fills, the   *)
(* cached tracking configuration, the retention of visits.  These parts    *)
(* share no state, so a behaviour is one of one part, the others at rest.  *)
EXTENDS MCTaskQueue, SweepDispatcher, FactLedger, TrackingConfig, TrackingRetention

CONSTANTS one, two, a, b, blank, sweeper, rep

VARIABLE part
allvars == <<part, mcvars, wvars, fvars, cvars, dvars>>

AtRest(p) ==
  /\ p # "queue" => rows = {research, recheck1}
  /\ p # "facts" => column = blank /\ status = [f \in Fact |-> "none"]
  /\ p # "config" => setting = 0 /\ home = [q \in Request |-> one]

AllInit ==
  /\ part \in {"queue", "sweeps", "facts", "config", "retention"} /\ AtRest(part)
  /\ MCInit /\ WInit /\ FInit /\ CInit /\ DInit

Queue(A) == part = "queue" /\ A /\ UNCHANGED <<part, rows, wvars, fvars, cvars, dvars>>
Sweeps(A) == part = "sweeps" /\ A /\ UNCHANGED <<part, mcvars, fvars, cvars, dvars>>
Facts(A) == part = "facts" /\ A /\ UNCHANGED <<part, mcvars, wvars, cvars, dvars>>
Configs(A) == part = "config" /\ A /\ UNCHANGED <<part, mcvars, wvars, fvars, dvars>>
Retains(A) == part = "retention" /\ A /\ UNCHANGED <<part, mcvars, wvars, fvars, cvars>>

AllNext == Queue(MCNext) \/ Sweeps(WNext) \/ Facts(FNext) \/ Configs(CNext) \/ Retains(DNext)

\* Cron calls the dispatcher every minute, clocks advance, and the two timers of
\* a sweep fire: no sweep, handler or session need ever answer, and no poke land.
AllSpec ==
  /\ AllInit /\ [][AllNext]_allvars
  /\ WF_allvars(Queue(RetireExhausted))
  /\ \A t \in Task : WF_allvars(Queue(ClaimDue(t))) /\ WF_allvars(Queue(DueDateComes(t)))
                     /\ WF_allvars(Queue(LeaseExpires(t)))
  /\ \A p \in Process : WF_allvars(Sweeps(CallIdle(p))) /\ WF_allvars(Sweeps(SweepTimesOut(p)))
                        /\ WF_allvars(Sweeps(Forget(p)))
  /\ WF_allvars(Facts(BlankSweep)) /\ \A w \in Writer : WF_allvars(Facts(Ending(w)))
  /\ WF_allvars(Configs(Expire)) /\ \A q \in Request : WF_allvars(Configs(Proceed(q)))

\* The variables of all parts have their types.
SchedulesTypeOK == TypeOK /\ WTypeOK /\ FTypeOK /\ CTypeOK /\ DTypeOK
=============================================================================
