---------------------------- MODULE TaskDelivery ----------------------------
(***************************************************************************)
(* What the AgentTask queue promises whoever queues work, without leases,  *)
(* sweeps or clocks: a posted task is handed out at most Limit times, it   *)
(* is closed once, and the way it was closed can be believed.  "ran" means *)
(* that it was handed out, "retired" that no handout is left.              *)
(***************************************************************************)
EXTENDS Naturals

CONSTANTS Task, Limit

VARIABLES state,  \* "absent", "open" or "finished"
          given,  \* how often the task was handed out
          answer  \* "none", "ran" or "retired"

dvars == <<state, given, answer>>

DInit ==
  /\ state = [t \in Task |-> "absent"]
  /\ given = [t \in Task |-> 0]
  /\ answer = [t \in Task |-> "none"]

Post(t) ==
  /\ state[t] = "absent"
  /\ state' = [state EXCEPT ![t] = "open"]
  /\ UNCHANGED <<given, answer>>

HandOut(t) ==
  /\ state[t] = "open" /\ given[t] < Limit
  /\ given' = [given EXCEPT ![t] = @ + 1]
  /\ UNCHANGED <<state, answer>>

\* Whoever was handed the task closes it.
CloseRan(t) ==
  /\ state[t] = "open" /\ given[t] > 0
  /\ state' = [state EXCEPT ![t] = "finished"]
  /\ answer' = [answer EXCEPT ![t] = "ran"]
  /\ UNCHANGED given

\* Tasks nobody closed in Limit handouts are given up, several at a time.
GiveUp(S) ==
  /\ \A t \in S : state[t] = "open" /\ given[t] = Limit
  /\ state' = [t \in Task |-> IF t \in S THEN "finished" ELSE state[t]]
  /\ answer' = [t \in Task |-> IF t \in S THEN "retired" ELSE answer[t]]
  /\ UNCHANGED given

DNext ==
  \/ \E t \in Task : Post(t) \/ HandOut(t) \/ CloseRan(t)
  \/ \E S \in SUBSET Task : GiveUp(S)

DSpec == DInit /\ [][DNext]_dvars
=============================================================================
