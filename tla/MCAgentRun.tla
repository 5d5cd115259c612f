----------------------------- MODULE MCAgentRun -----------------------------
(* One agent and its runs: two that a person and an event start, delivered *)
(* once, or one of the schedule, delivered twice.                          *)
EXTENDS AgentRun

CONSTANTS r1, r2, r3, agent

MCAgentOf == [r \in Run |-> agent]
Started == [r \in Run |-> CASE r = r1 -> "person" [] r = r2 -> "event" [] r = r3 -> "schedule"]
Scheduled == [r \in Run |-> "schedule"]
Sends == [r \in Run |-> IF r = r3 THEN 2 ELSE 1]

VARIABLE runs
mcvars == <<rvars, runs>>

\* The runs there are in a behaviour.
MCNext == RNext /\ runs' = runs /\ \A r \in Run \ runs : status[r]' = "none" /\ r \notin inserting'

MCInit == RInit /\ runs \in {s \in {{r1, r2}, {r3}} : s \subseteq Run}

MCSpec == MCInit /\ [][MCNext]_mcvars /\ RFairness
=============================================================================
