--------------------------- MODULE TrackingRetention ---------------------------
(***************************************************************************)
(* Page views are kept as events for a number of days, then rolled up into *)
(* a count per day and deleted in batches.  The nightly job may be called  *)
(* twice at once, stop at its pass limit, or die after any statement.      *)
(*                                                                         *)
(* One host and path.  Time is counted in half days, the first half of day *)
(* d being 2d; an event is dated when the browser says, up to a day back.  *)
(* Left out: distinct visitors, and the deletion of visitors and counters. *)
(***************************************************************************)
EXTENDS Naturals, FiniteSets

CONSTANTS
  Keep,     \* EVENT_RETENTION_DAYS
  MaxDay,   \* bound: days that pass
  MaxView,  \* bound: page views of half a day
  BusyHalf, \* bound: half days with page views, from the first
  Sweep,    \* calls of the job at once
  MaxDeath  \* bound: calls that die

\* Events are dated at most one day back, so the window is longer than that.
ASSUME RetentionAssumption ==
  /\ Keep \in Nat /\ Keep > 1 /\ MaxDay \in Nat /\ MaxDeath \in Nat /\ {MaxView, BusyHalf} \subseteq Nat \ {0}

VARIABLES
  now,     \* the half day it is
  views,   \* views[h]: page_view events of half day h
  total,   \* history: total[h]: how many there ever were
  daily,   \* daily[d]: trackedPageDaily.views
  before,  \* before[w]: the cutoff a sweep computed
  step,    \* step[w]: "idle", "rolling", "deleting", or "deleted" one batch
  deaths   \* calls that died

dvars == <<now, views, total, daily, before, step, deaths>>

Day == 0..MaxDay
Half == 0..(2 * MaxDay + 1)
DayOf(h) == h \div 2

DInit ==
  /\ now = 0
  /\ views = [h \in Half |-> 0] /\ total = views
  /\ daily = [d \in Day |-> 0]
  /\ before = [w \in Sweep |-> 0] /\ step = [w \in Sweep |-> "idle"]
  /\ deaths = 0

HalfDayPasses ==
  /\ now < 2 * MaxDay + 1 /\ now' = now + 1
  /\ UNCHANGED <<views, total, daily, before, step, deaths>>

\* events: occurredAt is what the browser says, between a day ago and now.
View(h) ==
  /\ h < BusyHalf /\ h <= now /\ now <= h + 2 /\ total[h] < MaxView
  /\ views' = [views EXCEPT ![h] = @ + 1]
  /\ total' = [total EXCEPT ![h] = @ + 1]
  /\ UNCHANGED <<now, daily, before, step, deaths>>

\* Mutant of Cutoff: a number of days before now, to the hour.
CutoffToTheHour(t) == IF t < 2 * Keep THEN 0 ELSE t - 2 * Keep

\* startOfDay of the same
Cutoff(t) == IF t < 2 * Keep THEN 0 ELSE 2 * DayOf(t - 2 * Keep)

BeginSweep(w) ==
  /\ step[w] = "idle"
  /\ before' = [before EXCEPT ![w] = Cutoff(now)]
  /\ step' = [step EXCEPT ![w] = "rolling"]
  /\ UNCHANGED <<now, views, total, daily, deaths>>

Counted(d, cutoff) ==
  (IF 2 * d < cutoff THEN views[2 * d] ELSE 0)
    + (IF 2 * d + 1 < cutoff THEN views[2 * d + 1] ELSE 0)

\* GREATEST
Rolled(d, n) == IF n > daily[d] THEN n ELSE daily[d]

Roll(w) ==
  /\ step[w] = "rolling"
  /\ daily' = [d \in Day |-> Rolled(d, Counted(d, before[w]))]
  /\ step' = [step EXCEPT ![w] = "deleting"]
  /\ UNCHANGED <<now, views, total, before, deaths>>

Old(w) == {h \in Half : h < before[w] /\ views[h] > 0}

\* A batch is any number of old events, in any order: here one by one.
DeleteBatch(w) ==
  /\ step[w] \in {"deleting", "deleted"}
  /\ \E h \in Old(w) : views' = [views EXCEPT ![h] = @ - 1]
  /\ step' = [step EXCEPT ![w] = "deleted"]
  /\ UNCHANGED <<now, total, daily, before, deaths>>

\* Nothing old is left, or the pass limit is reached.
End(w) ==
  /\ step[w] = "deleted" \/ (step[w] = "deleting" /\ Old(w) = {})
  /\ step' = [step EXCEPT ![w] = "idle"]
  /\ UNCHANGED <<now, views, total, daily, before, deaths>>

SweepDies(w) ==
  /\ step[w] # "idle" /\ deaths < MaxDeath
  /\ deaths' = deaths + 1
  /\ step' = [step EXCEPT ![w] = "idle"]
  /\ UNCHANGED <<now, views, total, daily, before>>

DNext ==
  \/ HalfDayPasses
  \/ \E h \in Half : View(h)
  \/ \E w \in Sweep : BeginSweep(w) \/ Roll(w) \/ DeleteBatch(w) \/ End(w) \/ SweepDies(w)

DSpec == DInit /\ [][DNext]_dvars

\* What is fair: days pass, the job runs every night, and it goes on.
Nightly(w) == BeginSweep(w) \/ Roll(w) \/ DeleteBatch(w) \/ End(w)

-----------------------------------------------------------------------------
(* Properties.                                                             *)

\* Every variable has its type.
DTypeOK ==
  /\ now \in Half
  /\ views \in [Half -> 0..MaxView] /\ total \in [Half -> 0..MaxView]
  /\ daily \in [Day -> 0..(2 * MaxView)]
  /\ before \in [Sweep -> Half] /\ step \in [Sweep -> {"idle", "rolling", "deleting", "deleted"}]
  /\ deaths \in 0..MaxDeath

TotalOf(d) == total[2 * d] + total[2 * d + 1]
ViewsOf(d) == views[2 * d] + views[2 * d + 1]

\* As soon as one event of a day is deleted, the day's count is its true one,
\* however the sweeps overlap, stop halfway and run again (docs/tracking.md,
\* "Roll whole days or do not roll").
DaysAreWhole == \A d \in Day : ViewsOf(d) < TotalOf(d) => daily[d] = TotalOf(d)
=============================================================================
