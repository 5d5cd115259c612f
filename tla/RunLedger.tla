----------------------------- MODULE RunLedger -----------------------------
(***************************************************************************)
(* What the history of an agent's runs promises its readers, without the   *)
(* processes that write it: a run is opened once, its log grows one entry  *)
(* at a time, and it is closed once, by the last entry of the log.  Runs   *)
(* may be closed together, when their agent is deleted.                    *)
(***************************************************************************)
EXTENDS Naturals

CONSTANTS Run, Outcome

VARIABLES state,  \* "absent", "open" or an outcome
          last    \* number of the last entry in the log

lvars == <<state, last>>

LInit == state = [r \in Run |-> "absent"] /\ last = [r \in Run |-> 0]

Open(r) ==
  /\ state[r] = "absent"
  /\ state' = [state EXCEPT ![r] = "open"]
  /\ UNCHANGED last

Note(r) ==
  /\ state[r] = "open"
  /\ last' = [last EXCEPT ![r] = @ + 1]
  /\ UNCHANGED state

Close(S, outcome) ==
  /\ \A r \in S : state[r] = "open"
  /\ state' = [r \in Run |-> IF r \in S THEN outcome ELSE state[r]]
  /\ last' = [r \in Run |-> IF r \in S THEN last[r] + 1 ELSE last[r]]

LNext ==
  \/ \E r \in Run : Open(r) \/ Note(r)
  \/ \E S \in SUBSET Run, outcome \in Outcome : Close(S, outcome)

LSpec == LInit /\ [][LNext]_lvars
=============================================================================
