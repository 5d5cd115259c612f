---------------------------- MODULE MCTaskQueue ----------------------------
(* Small tables for TaskQueue.  Each row is named for its kind.            *)
EXTENDS TaskQueue

CONSTANTS research, recheck1, recheck2, brand, event, contact

MCKindOf == [t \in Task |->
  CASE t \in {recheck1, recheck2} -> "recheck"
    [] t = research -> "identify"
    [] t = brand -> "brand"
    [] t = event -> "agent-event"]

MCSubjectOf == [t \in Task |-> IF t = event THEN NoSubject ELSE contact]

VARIABLE rows
mcvars == <<vars, rows>>

\* A behaviour has two rows, so that each kind meets another.
MCNext == Next /\ rows' = rows /\ \A t \in Task \ rows : st'[t] = "absent"

MCInit ==
  Init /\ rows \in {r \in {{research, recheck1}, {recheck1, event}, {recheck1, recheck2}} : r \subseteq Task}

MCSpec == MCInit /\ [][MCNext]_mcvars /\ Fairness
=============================================================================
