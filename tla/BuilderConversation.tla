-------------------------- MODULE BuilderConversation --------------------------
(***************************************************************************)
(* One conversation with the agent builder: the messages a member submits  *)
(* through the API, the dispatcher that sends them to the session one at a *)
(* time, the session that answers, and the hooks that write its events     *)
(* back to the conversation's row.                                         *)
(*                                                                         *)
(* The row's continuationToken is the turnstile.  A message may be claimed *)
(* when the token is there, the claim takes it away, and whatever ends the *)
(* turn puts it back: a parked or failed turn, a failed send, an expired   *)
(* lease, a question.  Each of these is a transaction of its own, so they  *)
(* run in any order.                                                       *)
(*                                                                         *)
(* A message is its place in the order of creation, a question the place   *)
(* of its event in the session.  The session is eve's, outside src/: it    *)
(* takes a message from the line it accepted them in, and it may answer a  *)
(* send that has ended in failure, or never.                               *)
(***************************************************************************)
EXTENDS Naturals, Sequences

CONSTANTS
  MaxMsg,       \* bound: messages of the conversation
  MaxAttempts,  \* DISPATCH.builder.maxAttempts
  MaxTries,     \* bound: claims of one message
  MaxInbox,     \* bound: messages the session holds in its line
  MaxQuestion   \* bound: questions the session asks

ASSUME BuilderAssumption ==
  /\ {MaxMsg, MaxAttempts, MaxTries, MaxInbox} \subseteq Nat \ {0}
  /\ MaxQuestion \in Nat

VARIABLES
  conv,      \* "none", "open" or "removed"
  linked,    \* sessionId is set
  free,      \* continuationToken is set
  question,  \* pendingInputRequest, 0 = NULL
  recorded,  \* questions with an agentEvent row
  status,    \* status[m]: the submission's status, "none" before it exists
  attempts,  \* attempts[m]: attemptCount
  answers,   \* answers[m]: inputRequestId, 0 = NULL
  pc,        \* pc[m][k]: where the k-th delivery of m stands
  inbox,     \* messages the session accepted and has not begun
  heard,     \* messages the session ever accepted
  alive,     \* the session has started and not ended
  turn,      \* what the session does: "idle", "receiving" or "running"
  about,     \* the message of its turn, 0 = none
  asked,     \* questions asked so far
  underway   \* questions whose event has not reached the channel

row == <<linked, free, question, recorded>>
list == <<status, attempts, answers>>
session == <<inbox, heard, alive, turn, about, asked, underway>>
bvars == <<conv, row, list, pc, session>>

Msg == 1..MaxMsg
Try == 1..MaxTries
Question == 1..MaxQuestion
Status == {"none", "PENDING", "SENDING", "ACCEPTED", "FAILED"}

BInit ==
  /\ conv = "none"
  /\ linked = FALSE /\ free = FALSE /\ question = 0 /\ recorded = {}
  /\ status = [m \in Msg |-> "none"]
  /\ attempts = [m \in Msg |-> 0]
  /\ answers = [m \in Msg |-> 0]
  /\ pc = [m \in Msg |-> [k \in Try |-> "idle"]]
  /\ inbox = <<>> /\ heard = {} /\ alive = FALSE
  /\ turn = "idle" /\ about = 0 /\ asked = 0 /\ underway = {}

-----------------------------------------------------------------------------
(* The API.                                                                *)

Submitted == {m \in Msg : status[m] # "none"}
Answered(q) == \E m \in Msg : answers[m] = q

\* The row of a new submission; q is the question it answers.  A call with a
\* clientRequestId that is there already replays it and changes nothing.
Insert(q) ==
  /\ \E m \in Msg \ Submitted :
       /\ \A n \in Msg : n < m => n \in Submitted
       /\ status' = [status EXCEPT ![m] = "PENDING"]
       /\ answers' = [answers EXCEPT ![m] = q]
  /\ UNCHANGED <<row, attempts, pc, session>>

CreateBuilder ==
  /\ conv = "none" /\ conv' = "open"
  /\ Insert(0)

SubmitBuilder == Insert(0) /\ UNCHANGED conv

\* answerBuilderQuestion looks at the conversation and then inserts the answer
\* in a transaction that looks at nothing again, so a question that was pending
\* some time ago is answered too; the unique index on (conversationId,
\* inputRequestId) refuses a second answer.
AnswerQuestion(q) ==
  /\ q \in recorded /\ ~Answered(q)
  /\ Insert(q)
  /\ UNCHANGED conv

\* remove: the rows go with the conversation.  The deliveries and the session
\* go on, but every update of theirs is of a row that is gone: none is kept.
Remove ==
  /\ conv' = "removed"
  /\ linked' = FALSE /\ free' = FALSE /\ question' = 0 /\ recorded' = {}
  /\ status' = [m \in Msg |-> "none"]
  /\ attempts' = [m \in Msg |-> 0]
  /\ answers' = [m \in Msg |-> 0]
  /\ pc' = [m \in Msg |-> [k \in Try |-> "idle"]]
  /\ inbox' = <<>> /\ heard' = {} /\ alive' = FALSE
  /\ turn' = "idle" /\ about' = 0 /\ asked' = 0 /\ underway' = {}

-----------------------------------------------------------------------------
(* The dispatcher.  A delivery that takes no further step is one whose send *)
(* hangs, or whose process was restarted.                                   *)

At(m, k, here) == pc[m][k] = here
Go(m, k, there) == pc' = [pc EXCEPT ![m][k] = there]

\* Mutant of Claimable: a message that is being sent holds nothing up.
ClaimableDuringSend(m) ==
  /\ status[m] = "PENDING" /\ (linked => free)
  /\ \A n \in Msg : n < m => status[n] # "PENDING"

\* pendingBuilderSubmissionIds, and the same looked at again under the lock.
Claimable(m) ==
  /\ status[m] = "PENDING" /\ (linked => free)
  /\ \A n \in Msg : status[n] # "SENDING"
  /\ \A n \in Msg : n < m => status[n] # "PENDING"

Claim(m) ==
  /\ Claimable(m) /\ attempts[m] < MaxTries
  /\ status' = [status EXCEPT ![m] = "SENDING"]
  /\ attempts' = [attempts EXCEPT ![m] = @ + 1]
  /\ free' = FALSE
  /\ Go(m, attempts[m] + 1, "sending")
  /\ UNCHANGED <<conv, linked, question, recorded, answers, session>>

\* The send reaches the session.
Send(m, k) ==
  /\ At(m, k, "sending") /\ Len(inbox) < MaxInbox
  /\ inbox' = Append(inbox, m)
  /\ heard' = heard \cup {m}
  /\ Go(m, k, "sent")
  /\ UNCHANGED <<conv, row, list, alive, turn, about, asked, underway>>

\* The transaction after a send that returned; the submission may have been
\* recovered, sent again or accepted meanwhile.
RecordAccepted(m, k) ==
  /\ At(m, k, "sent")
  /\ Go(m, k, "over")
  /\ status' = [status EXCEPT ![m] = "ACCEPTED"]
  /\ linked' = TRUE /\ question' = 0
  /\ UNCHANGED <<conv, free, recorded, attempts, answers, session>>

Verdict(k) == IF k < MaxAttempts THEN "PENDING" ELSE "FAILED"

\* The catch.  The send threw, or its answer was lost, or that transaction
\* failed; it goes by the attemptCount its own claim read.
RecordFailed(m, k) ==
  /\ At(m, k, "sending") \/ At(m, k, "sent")
  /\ Go(m, k, "over")
  /\ status' = [status EXCEPT ![m] = Verdict(k)]
  /\ free' = TRUE
  /\ UNCHANGED <<conv, linked, question, recorded, attempts, answers, session>>

\* Mutant of Recover: the conversation does not get its token back.
RecoverNoToken(m) ==
  /\ status[m] = "SENDING"
  /\ status' = [status EXCEPT ![m] = Verdict(attempts[m])]
  /\ UNCHANGED <<conv, row, attempts, answers, pc, session>>

\* recoverBuilderSubmissions, once sentAt is older than the lease: by the
\* count the row has.
Recover(m) ==
  /\ status[m] = "SENDING"
  /\ status' = [status EXCEPT ![m] = Verdict(attempts[m])]
  /\ free' = TRUE
  /\ UNCHANGED <<conv, linked, question, recorded, attempts, answers, pc, session>>

-----------------------------------------------------------------------------
(* The session, and what its events do to the row.  The audit hook catches *)
(* its own errors, so what it writes may be lost.                          *)

\* session.started, of a session that was not there.
BeginTurn ==
  /\ turn = "idle" /\ inbox # <<>>
  /\ turn' = "receiving" /\ alive' = TRUE
  /\ about' = Head(inbox) /\ inbox' = Tail(inbox)
  /\ \/ ~alive /\ linked' = TRUE /\ free' = FALSE
     \/ UNCHANGED <<linked, free>>
  /\ UNCHANGED <<conv, question, recorded, list, pc, heard, asked, underway>>

\* message.received, whatever the submission's status is by now.
MessageReceived ==
  /\ turn = "receiving" /\ turn' = "running"
  /\ \/ status' = [status EXCEPT ![about] = "ACCEPTED"] /\ question' = 0
     \/ UNCHANGED <<status, question>>
  /\ UNCHANGED <<conv, linked, free, recorded, attempts, answers, pc, inbox,
                 heard, alive, about, asked, underway>>

Ask ==
  /\ turn = "running" /\ asked < MaxQuestion
  /\ asked' = asked + 1
  /\ underway' = underway \cup {asked + 1}
  /\ UNCHANGED <<conv, row, list, pc, inbox, heard, alive, turn, about>>

\* Mutant of Supersedes: a delayed question is taken as it comes.
SupersedesAnyway(q) == TRUE

Supersedes(q) == \A r \in recorded : q > r

\* input.requested reaches the channel, in time or after the session has gone
\* on.  A replay finds the question's event and changes nothing.
InputRequested(q) ==
  /\ q \in underway /\ underway' = underway \ {q}
  /\ IF linked /\ Supersedes(q)
     THEN /\ recorded' = recorded \cup {q}
          /\ free' = TRUE /\ question' = q
     ELSE UNCHANGED <<recorded, free, question>>
  /\ UNCHANGED <<conv, linked, list, pc, inbox, heard, alive, turn, about, asked>>

EndTurn ==
  /\ turn = "running" /\ turn' = "idle" /\ about' = 0
  /\ free' = TRUE

\* session.waiting: the turn is over, or parked on a question.
SessionWaiting ==
  /\ EndTurn
  /\ UNCHANGED <<conv, linked, question, recorded, list, pc, inbox, heard, alive,
                 asked, underway>>

\* turn.failed and turn.cancelled; session.failed does the same to the row.
TurnFailed ==
  /\ EndTurn
  /\ question' = 0 /\ alive' \in BOOLEAN
  /\ UNCHANGED <<conv, linked, recorded, list, pc, inbox, heard, asked, underway>>

SessionCompleted ==
  /\ turn = "idle" /\ alive /\ alive' = FALSE
  /\ question' = 0
  /\ UNCHANGED <<conv, linked, free, recorded, list, pc, inbox, heard, turn,
                 about, asked, underway>>

Delivery(m, k) == Send(m, k) \/ RecordAccepted(m, k) \/ RecordFailed(m, k)

SessionStep ==
  \/ BeginTurn \/ MessageReceived \/ Ask
  \/ \E q \in Question : InputRequested(q)
  \/ SessionWaiting \/ TurnFailed \/ SessionCompleted

BNext ==
  \/ CreateBuilder
  \/ /\ conv = "open"
     /\ \/ SubmitBuilder \/ Remove
        \/ \E q \in Question : AnswerQuestion(q)
        \/ \E m \in Msg : Claim(m) \/ Recover(m)
        \/ \E m \in Msg, k \in Try : Delivery(m, k)
        \/ SessionStep

Open(A) == conv = "open" /\ A

SweepMessages == \E m \in Msg : Claim(m) \/ Recover(m)

\* The cron sweep lists and recovers every minute, and time passes.  A delivery
\* may hang for ever or die with its process, and the session owes nothing.
BSpec == BInit /\ [][BNext]_bvars /\ WF_bvars(Open(SweepMessages))

-----------------------------------------------------------------------------
(* Properties.                                                             *)

\* Every variable has its type (schema.prisma, AgentConversation).  A message is
\* not claimed for ever, whatever sends hang, lapse or fail late: the attempts
\* that leases give back and those that late failures give back come to two
\* for each but the last (custom-agent-dispatch.ts:176-196, 661-695).
BTypeOK ==
  /\ conv \in {"none", "open", "removed"}
  /\ {linked, free, alive} \subseteq BOOLEAN
  /\ question \in 0..MaxQuestion /\ asked \in 0..MaxQuestion
  /\ recorded \subseteq Question /\ underway \subseteq Question
  /\ status \in [Msg -> Status]
  /\ attempts \in [Msg -> 0..(2 * MaxAttempts - 1)]
  /\ answers \in [Msg -> 0..MaxQuestion]
  /\ pc \in [Msg -> [Try -> {"idle", "sending", "sent", "over"}]]
  /\ inbox \in Seq(Msg) /\ heard \subseteq Msg
  /\ turn \in {"idle", "receiving", "running"} /\ about \in 0..MaxMsg

\* The session hears the messages of a conversation in the order they were
\* written; one is overtaken only after it was tried as often as the
\* dispatcher tries (custom-agent-dispatch.ts:72-93).
OvertakenWhenExhausted ==
  conv = "open" =>
    \A m \in heard, n \in Msg :
      n < m /\ n \notin heard => attempts[n] >= MaxAttempts

\* A question stays until the session goes on: it is replaced, a message is
\* received, or the turn or the session ends (docs/agent.md:284-286).
QuestionIsDurable ==
  [][question # 0 /\ question' = 0 =>
       turn' # turn \/ alive' # alive \/ conv' = "removed"]_bvars

Working ==
  /\ conv = "open"
  /\ \/ \E m \in Msg : status[m] \in {"PENDING", "SENDING"}
     \/ linked /\ ~free

\* The session has a message it accepted, or a turn it has not ended.
SessionOwes == inbox # <<>> \/ turn # "idle"

\* m was accepted, by a delivery or a message.received that came late, while its
\* last delivery is still on its way to the session, with the token.
AcceptedUnderWay == \E m \in Msg : status[m] = "ACCEPTED" /\ attempts[m] > 0 /\ At(m, attempts[m], "sending")

\* A conversation does not show "working" for ever (conversations.service.ts:146-150)
\* whatever deliveries hang or die: a member who stops writing gets every message
\* accepted or failed, and the composer back, unless the session itself does not
\* end its turn or the last delivery of an accepted message never ends.
ComesToRest == []<>(~Working \/ SessionOwes \/ AcceptedUnderWay)

\* The same of every conversation.  TLC refutes it: only a SENDING message is
\* recovered (custom-agent-dispatch.ts:661-664), so the token of an accepted one
\* stays away if its session, or its last delivery, ends without a word.
AlwaysComesToRest == []<>~Working
=============================================================================
