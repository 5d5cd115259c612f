----------------------------- MODULE RunActions -----------------------------
(***************************************************************************)
(* What one agent run does to the world: the agentAction rows its tool     *)
(* calls claim (run-runtime.ts), the CRM activity and the Slack message    *)
(* they stand for, and the end of the run that asks the rows whether the   *)
(* declared actions were performed.                                        *)
(*                                                                         *)
(* eve replays a tool call under the same call id, so several attempts at  *)
(* one call may be in progress at once; each row update below is one       *)
(* statement, and an attempt goes on between them while the run is         *)
(* cancelled, fails, is queued again or finishes.                          *)
(*                                                                         *)
(* Simplifications.  A claim is known by its claimedAt, here the number of *)
(* the attempt.  A row's summary, errors and hash are left out: a replay   *)
(* carries the request it replays.  Slack drops a repeated client_msg_id,  *)
(* and the id is stored with the row, so a call has one message at most.   *)
(***************************************************************************)
EXTENDS Naturals, FiniteSets

CONSTANTS
  Call,         \* ids of the tool calls
  ActionType,   \* type of each call: "slack" or "activity"
  Declared,     \* types the manifest declares, other than the summary
  MayDoNothing, \* the trigger type lets the run end with no action
  MaxTries      \* bound: attempts a call gets

ASSUME ActionsAssumption ==
  /\ MaxTries \in Nat \ {0}
  /\ Declared \subseteq {"slack", "activity"}
  /\ ActionType \in [Call -> Declared]   \* other calls are refused at the door
  /\ MayDoNothing \in BOOLEAN

VARIABLES
  run,      \* status of the agentRun row
  staged,   \* result: whether it reports that no action was needed
  closing,  \* what session.completed read: "no", or the result it read
  row,      \* row[c]: status of the agentAction row, "none" before it exists
  holder,   \* holder[c]: startedAt, the attempt that claimed the row, 0 = NULL
  leased,   \* leased[c]: the claim is younger than the action lease
  external, \* external[c]: externalId is set
  refused,  \* declared types finishRun wrote a failed row for
  posted,   \* calls whose message Slack accepted
  noted,    \* calls whose activity is in the CRM
  pc        \* pc[c][k]: where attempt k at call c stands

avars == <<run, staged, closing, row, holder, leased, external, refused,
           posted, noted, pc>>

Try == 1..MaxTries
Over == {"ok", "threw", "dead"}
Place == Over \cup {"idle", "begun", "planned", "claimed", "prepared", "posting",
                    "accepted", "outside", "failing"}
Status == {"none", "PLANNED", "RUNNING", "SUCCEEDED", "FAILED", "CANCELLED"}

AInit ==
  /\ run = "RUNNING" /\ staged = FALSE /\ closing = "no"
  /\ row = [c \in Call |-> "none"]
  /\ holder = [c \in Call |-> 0]
  /\ leased = [c \in Call |-> FALSE]
  /\ external = [c \in Call |-> FALSE]
  /\ refused = {} /\ posted = {} /\ noted = {}
  /\ pc = [c \in Call |-> [k \in Try |-> "idle"]]

-----------------------------------------------------------------------------
(* An attempt at a call.                                                   *)

At(c, k, here) == pc[c][k] = here
Go(c, k, there) == pc' = [pc EXCEPT ![c][k] = there]
Rows == <<row, holder, leased, external>>
World == <<refused, posted, noted>>
Ending == <<run, staged, closing>>

Holds(c, k) == row[c] = "RUNNING" /\ holder[c] = k

\* findRunAction and the look at the run, before anything is written.
Begin(c, k) ==
  /\ At(c, k, "idle") /\ (k > 1 => pc[c][k - 1] # "idle")
  /\ Go(c, k, IF row[c] = "SUCCEEDED" THEN "ok"
              ELSE IF run # "RUNNING" THEN "threw"
              ELSE "begun")
  /\ UNCHANGED <<Ending, Rows, World>>

\* claimRunAction creates the row, or finds that a replay did.
Plan(c, k) ==
  /\ At(c, k, "begun")
  /\ row' = [row EXCEPT ![c] = IF @ = "none" THEN "PLANNED" ELSE @]
  /\ Go(c, k, IF row[c] = "SUCCEEDED" THEN "ok" ELSE "planned")
  /\ UNCHANGED <<Ending, holder, leased, external, World>>

MayClaim(c) ==
  row[c] \in {"PLANNED", "FAILED"} \/ (row[c] = "RUNNING" /\ ~leased[c])

\* ... and claims it.
ClaimAction(c, k) ==
  /\ At(c, k, "planned")
  /\ IF MayClaim(c)
     THEN /\ row' = [row EXCEPT ![c] = "RUNNING"]
          /\ holder' = [holder EXCEPT ![c] = k]
          /\ leased' = [leased EXCEPT ![c] = TRUE]
          /\ Go(c, k, "claimed")
     ELSE /\ Go(c, k, IF row[c] = "SUCCEEDED" THEN "ok" ELSE "threw")
          /\ UNCHANGED <<row, holder, leased>>
  /\ UNCHANGED <<Ending, external, World>>

\* createRunActivity: the activity and the row in one transaction, under the
\* lock on the run, or neither when the run is over or a statement fails.  The row
\* is not asked who holds it.
WriteActivity(c, k) ==
  /\ At(c, k, "claimed") /\ ActionType[c] = "activity"
  /\ \/ /\ run = "RUNNING"
        /\ noted' = noted \cup {c}
        /\ row' = [row EXCEPT ![c] = "SUCCEEDED"]
        /\ external' = [external EXCEPT ![c] = TRUE]
        /\ Go(c, k, "ok")
     \/ Go(c, k, "failing") /\ UNCHANGED <<noted, row, external>>
  /\ UNCHANGED <<Ending, holder, leased, refused, posted>>

\* assertRunActive, the access token and the channel.
Prepare(c, k) ==
  /\ At(c, k, "claimed") /\ ActionType[c] = "slack"
  /\ \/ run = "RUNNING" /\ Go(c, k, "prepared")
     \/ Go(c, k, "failing")
  /\ UNCHANGED <<Ending, Rows, World>>

\* holdRunActionClaim: the last look before the post.
Hold(c, k) ==
  /\ At(c, k, "prepared")
  /\ Go(c, k, IF run = "RUNNING" /\ Holds(c, k) THEN "posting" ELSE "failing")
  /\ UNCHANGED <<Ending, Rows, World>>

\* Slack accepts the message; its answer arrives, or is lost.
SlackAccepts(c, k) ==
  /\ At(c, k, "posting")
  /\ posted' = posted \cup {c}
  /\ Go(c, k, "accepted") \/ Go(c, k, "failing")
  /\ UNCHANGED <<Ending, Rows, refused, noted>>

SlackRejects(c, k) ==
  /\ At(c, k, "posting")
  /\ Go(c, k, "failing")
  /\ UNCHANGED <<Ending, Rows, World>>

\* Mutant of KeepReceipt: the receipt goes to the row whoever holds it.
KeepReceiptAnyway(c, k) ==
  /\ At(c, k, "accepted")
  /\ IF row[c] = "RUNNING"
     THEN /\ row' = [row EXCEPT ![c] = "SUCCEEDED"]
          /\ external' = [external EXCEPT ![c] = TRUE]
     ELSE UNCHANGED <<row, external>>
  /\ Go(c, k, "ok")
  /\ UNCHANGED <<Ending, holder, leased, World>>

\* The receipt is written by the attempt that still holds the claim.
KeepReceipt(c, k) ==
  /\ At(c, k, "accepted")
  /\ IF Holds(c, k)
     THEN /\ row' = [row EXCEPT ![c] = "SUCCEEDED"]
          /\ external' = [external EXCEPT ![c] = TRUE]
          /\ Go(c, k, "ok")
     ELSE Go(c, k, "outside") /\ UNCHANGED <<row, external>>
  /\ UNCHANGED <<Ending, holder, leased, World>>

\* Mutant of RecordOutside: only a cancelled action is told.
RecordOutsideCancelled(c, k) ==
  /\ At(c, k, "outside")
  /\ external' = [external EXCEPT ![c] = @ \/ row[c] = "CANCELLED"]
  /\ Go(c, k, "failing")
  /\ UNCHANGED <<Ending, row, holder, leased, World>>

\* recordDeliveryOutsideClaim.
RecordOutside(c, k) ==
  /\ At(c, k, "outside")
  /\ external' = [external EXCEPT ![c] = @ \/ row[c] # "SUCCEEDED"]
  /\ Go(c, k, "failing")
  /\ UNCHANGED <<Ending, row, holder, leased, World>>

\* failRunAction: only the holder's failure is written.
FailAction(c, k) ==
  /\ At(c, k, "failing")
  /\ row' = [row EXCEPT ![c] = IF Holds(c, k) THEN "FAILED" ELSE @]
  /\ Go(c, k, "threw")
  /\ UNCHANGED <<Ending, holder, leased, external, World>>

\* The process dies; eve may replay the call.
AttemptDies(c, k) ==
  /\ pc[c][k] \notin Over \cup {"idle"}
  /\ Go(c, k, "dead")
  /\ UNCHANGED <<Ending, Rows, World>>

ActionLeaseExpires(c) ==
  /\ row[c] = "RUNNING" /\ leased[c]
  /\ leased' = [leased EXCEPT ![c] = FALSE]
  /\ UNCHANGED <<Ending, row, holder, external, World, pc>>

-----------------------------------------------------------------------------
(* The run.                                                                *)

\* stageRunResult
StageResult ==
  /\ run = "RUNNING"
  /\ \E nothing \in BOOLEAN :
       /\ nothing => MayDoNothing \/ Declared = {}
       /\ staged' = nothing
  /\ UNCHANGED <<run, closing, Rows, World, pc>>

\* session.completed reads the run and its result...
SessionCompletes ==
  /\ run = "RUNNING" /\ closing = "no"
  /\ closing' = IF staged THEN "nothing" ELSE "result"
  /\ UNCHANGED <<run, staged, Rows, World, pc>>

\* Mutant of Performed: a row that exists is taken for an action performed.
PerformedAnyhow(t) == \E c \in Call : ActionType[c] = t /\ row[c] # "none"

Performed(t) == \E c \in Call : ActionType[c] = t /\ row[c] = "SUCCEEDED"
Recorded(t) == t \in refused \/ \E c \in Call : ActionType[c] = t /\ row[c] # "none"

\* ... and finishRun asks the rows for each declared type.  The first type
\* that was not performed fails the run, with a row to show for it.
FinishRun ==
  /\ closing # "no" /\ run = "RUNNING"
  /\ closing' = "no"
  /\ \/ /\ closing = "nothing" \/ (\A t \in Declared : Performed(t))
        /\ run' = "SUCCEEDED" /\ staged' = (closing = "nothing")
        /\ UNCHANGED refused
     \/ /\ closing # "nothing"
        /\ \E t \in Declared :
             /\ ~Performed(t)
             /\ refused' = IF Recorded(t) THEN refused ELSE refused \cup {t}
        /\ run' = "FAILED"
        /\ UNCHANGED staged
  /\ UNCHANGED <<Rows, posted, noted, pc>>

\* finishRun throws when the run is not RUNNING any more, and so does the step
\* of a session whose run someone failed.
FailRun ==
  /\ run \in {"QUEUED", "RUNNING"}
  /\ run' = "FAILED"
  /\ UNCHANGED <<staged, closing, Rows, World, pc>>

\* cancelRun, by a person or by turn.cancelled, takes the open rows with it.
CancelRun ==
  /\ run \in {"QUEUED", "RUNNING"}
  /\ run' = "CANCELLED"
  /\ row' = [c \in Call |-> IF row[c] \in {"PLANNED", "RUNNING"}
                            THEN "CANCELLED" ELSE row[c]]
  /\ UNCHANGED <<staged, closing, holder, leased, external, World, pc>>

\* A deletion, or a recovery that finds the agent gone, cancels the run alone.
CancelRunOnly ==
  /\ run \in {"QUEUED", "RUNNING"}
  /\ run' = "CANCELLED"
  /\ UNCHANGED <<staged, closing, Rows, World, pc>>

\* Recovery queues a run whose session was never linked, and it starts again.
Requeue ==
  /\ run = "RUNNING" /\ run' = "QUEUED"
  /\ UNCHANGED <<staged, closing, Rows, World, pc>>
Restart ==
  /\ run = "QUEUED" /\ run' = "RUNNING"
  /\ UNCHANGED <<staged, closing, Rows, World, pc>>

-----------------------------------------------------------------------------
Attempting ==
  \E c \in Call, k \in Try :
    \/ Begin(c, k) \/ Plan(c, k) \/ ClaimAction(c, k) \/ WriteActivity(c, k)
    \/ Prepare(c, k) \/ Hold(c, k) \/ SlackAccepts(c, k) \/ SlackRejects(c, k)
    \/ KeepReceipt(c, k) \/ RecordOutside(c, k) \/ FailAction(c, k)
    \/ AttemptDies(c, k)

RunChanges == StageResult \/ SessionCompletes \/ FinishRun \/ FailRun \/ CancelRun
                \/ CancelRunOnly \/ Requeue \/ Restart

ANext == Attempting \/ RunChanges \/ \E c \in Call : ActionLeaseExpires(c)

ASpec == AInit /\ [][ANext]_avars
-----------------------------------------------------------------------------
ATypeOK ==
  /\ run \in {"QUEUED", "RUNNING", "SUCCEEDED", "FAILED", "CANCELLED"}
  /\ staged \in BOOLEAN /\ closing \in {"no", "result", "nothing"}
  /\ row \in [Call -> Status]
  /\ holder \in [Call -> 0..MaxTries]
  /\ leased \in [Call -> BOOLEAN] /\ external \in [Call -> BOOLEAN]
  /\ refused \subseteq Declared /\ posted \subseteq Call /\ noted \subseteq Call
  /\ pc \in [Call -> [Try -> Place]]

\* What a tool call answers is true: an attempt that reports its action done,
\* its own or a replay's, has the message in Slack or the activity in the CRM,
\* and the row says so.
AnswerIsTrue ==
  \A c \in Call : (\E k \in Try : pc[c][k] = "ok") =>
    row[c] = "SUCCEEDED" /\ external[c] /\ c \in posted \cup noted

\* A run that SUCCEEDED performed every action its manifest declares, or reports,
\* as its trigger allows, that none was needed.
SucceededMeansActed ==
  run = "SUCCEEDED" =>
    staged \/ \A t \in Declared : \E c \in posted \cup noted : ActionType[c] = t

\* A receipt is not lost: an attempt that saw Slack accept its message does not
\* go on, short of dying, before the row carries the message's id, whatever
\* became of its claim and whoever holds it now.
ReceiptKept ==
  [][\A c \in Call, k \in Try :
       /\ pc[c][k] \in {"accepted", "outside"}
       /\ pc'[c][k] \notin {"accepted", "outside", "dead"}
       => external'[c]]_avars

\* A cancelled action stays cancelled, and a performed one performed: no attempt
\* still on its way claims, fails or completes the row again.
SettledActionStays ==
  [][\A c \in Call : row[c] \in {"CANCELLED", "SUCCEEDED"} => row'[c] = row[c]]_avars
=============================================================================
