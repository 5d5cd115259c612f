------------------------------ MODULE MailboxSync ------------------------------
(***************************************************************************)
(* One mailbox and its row of the table mailboxSync: how a pass of the     *)
(* sync claims it, reads new mail from the cursor on, and settles.  Passes *)
(* come from the cron job, which claims the row under a lease, and from a  *)
(* rep's "Check now", which does not; several run at once, and a process   *)
(* may die in any of them.                                                 *)
(*                                                                         *)
(* Mail is numbered in the order in which it arrives.  The provider is     *)
(* Gmail, whose cursor is a history id, or Outlook, whose cursor is the    *)
(* time of the last message seen.  No two messages have one time, so the   *)
(* second that Outlook reads again is left out.  What storing a message    *)
(* does is MailThreads.                                                    *)
(*                                                                         *)
(* Outlook is asked for page after page.  Of Gmail's history a pass reads  *)
(* the first page only, and settles on the newest history id all the same: *)
(* the cursor passes what is on the later ones.  The history variable      *)
(* overlooked tells that mail from mail lost in any other way, of which    *)
(* there is none.                                                          *)
(***************************************************************************)
EXTENDS Integers, FiniteSets

CONSTANTS
  Pass,      \* passes of the sync under way
  None,      \* no cursor
  MaxMail,   \* bound: messages
  Batch,     \* MAX_MESSAGES_PER_TICK
  HistoryPage, \* maxResults of listHistory; a page may hold fewer
  MaxFault   \* bound: provider failures, errors, deaths and disconnects

ASSUME MailboxAssumption ==
  MaxMail \in Nat /\ {Batch, HistoryPage} \subseteq Nat \ {0} /\ MaxFault \in Nat

VARIABLES
  provider, \* "gmail" or "outlook"
  kept,     \* messages of somebody the CRM knows; the others are not stored
  arrived,  \* messages in the mailbox
  granted,  \* the account has the scope
  status,   \* mailboxSync.status, or "gone"
  lease,    \* retryAfter: "none", "held" while in the future, "over"
  cursor,   \* mailboxSync.cursor
  synced,   \* messages in the CRM
  passed,    \* history: messages of before the cursor, and those not given
  overlooked, \* history: messages on pages that the cursor passed unread
  fresh,    \* passes that know the updatedAt of the row
  knows,    \* passes that know the row's id
  step,     \* step[t]: where a pass stands
  claimed,  \* passes that claimed the row
  from,     \* from[t]: the cursor a pass started with
  head,     \* head[t]: the cursor it will settle on
  left,     \* left[t]: messages of its batch it has not read
  beyond,   \* beyond[t], history: unread mail that its head passes
  faults    \* of those, so far

row == <<status, lease, cursor>>
reading == <<from, head, left, beyond>>
unread == <<passed, overlooked>>
mailbox == <<provider, kept>>
mbvars == <<mailbox, arrived, granted, row, synced, unread, fresh, knows, step,
            claimed, reading, faults>>

Mail == 1..MaxMail
Cursor == 0..MaxMail

MbInit ==
  /\ provider \in {"gmail", "outlook"} /\ kept \in SUBSET Mail \ {{}}
  /\ arrived = 0 /\ granted = TRUE
  /\ status = "IDLE" /\ lease = "none" /\ cursor = None
  /\ synced = {} /\ passed = {} /\ overlooked = {}
  /\ fresh = {} /\ knows = {} /\ claimed = {}
  /\ step = [t \in Pass |-> "idle"]
  /\ from = [t \in Pass |-> None] /\ head = [t \in Pass |-> 0]
  /\ left = [t \in Pass |-> {}] /\ beyond = [t \in Pass |-> {}]
  /\ faults = 0

Polled == status \notin {"gone", "NEEDS_RECONNECT"}

\* dueWhere
Due == Polled /\ lease # "held"

Go(t, s) == step' = [step EXCEPT ![t] = s]
Fault == faults < MaxFault /\ faults' = faults + 1

\* An update of the row by its id, after which no updatedAt is current.
Write(t, st, ls, cur) ==
  /\ IF t \in knows THEN status' = st /\ lease' = ls /\ cursor' = cur ELSE UNCHANGED row
  /\ fresh' = IF t \in knows THEN {} ELSE fresh

\* The pass is over.
Leave(t) ==
  /\ Go(t, "idle")
  /\ claimed' = claimed \ {t} /\ knows' = knows \ {t}
  /\ from' = [from EXCEPT ![t] = None] /\ head' = [head EXCEPT ![t] = 0]
  /\ left' = [left EXCEPT ![t] = {}] /\ beyond' = [beyond EXCEPT ![t] = {}]

-----------------------------------------------------------------------------
(* runDue, syncNow.                                                        *)

\* The cron job lists the rows that are due ...
List(t) ==
  /\ step[t] = "idle" /\ Due
  /\ Go(t, "listed")
  /\ fresh' = fresh \cup {t} /\ knows' = knows \cup {t}
  /\ UNCHANGED <<mailbox, arrived, granted, row, synced, unread, claimed, reading, faults>>

MayClaim(t) == t \in fresh /\ Due

\* ... and claims each under a lease, unless somebody wrote it since.
ClaimRow(t) ==
  /\ step[t] = "listed"
  /\ IF MayClaim(t)
     THEN /\ Go(t, "begun") /\ claimed' = claimed \cup {t}
          /\ Write(t, "RUNNING", "held", cursor)
          /\ UNCHANGED <<knows, reading>>
     ELSE Leave(t) /\ fresh' = fresh \ {t} /\ UNCHANGED row
  /\ UNCHANGED <<mailbox, arrived, granted, synced, unread, faults>>

\* A rep asks for a sync; no claim is made.
SyncNow(t) ==
  /\ step[t] = "idle" /\ Go(t, "begun")
  /\ UNCHANGED <<mailbox, arrived, granted, row, synced, unread, fresh, knows, claimed, reading, faults>>

\* runOne reads the row again.
ReadRow(t) ==
  /\ step[t] = "begun"
  /\ IF status = "gone"
     THEN Leave(t)
     ELSE /\ Go(t, "reading") /\ knows' = knows \cup {t}
          /\ from' = [from EXCEPT ![t] = cursor]
          /\ UNCHANGED <<claimed, head, left, beyond>>
  /\ UNCHANGED <<mailbox, arrived, granted, row, synced, unread, fresh, faults>>

\* The lease of a pass that is skipped is released, if it took one.
NotConnected(t) ==
  /\ step[t] = "reading" /\ ~granted
  /\ Leave(t)
  /\ IF t \in claimed THEN Write(t, status, "none", cursor) ELSE UNCHANGED <<row, fresh>>
  /\ UNCHANGED <<mailbox, arrived, granted, synced, unread, faults>>

-----------------------------------------------------------------------------
(* sync: start and incremental.                                            *)

\* The mail since the cursor.
NewMail(t) == {m \in 1..arrived : m > from[t]}

\* The first n of them.
First(n, s) == {m \in s : Cardinality({k \in s : k < m}) < n}

\* What the pass sees of it: a page of n of Gmail's history, or all that Outlook has.
Listed(t, n) == IF provider = "gmail" THEN First(n, NewMail(t)) ELSE NewMail(t)

\* What of that is to be read: Gmail asks the CRM which it has.
Pending(t, n) == IF provider = "gmail" THEN Listed(t, n) \ synced ELSE Listed(t, n)

\* What this pass reads of it.
ToRead(t, n) == First(Batch, Pending(t, n))

\* Mutant of Reached: the cursor moves on although messages remain.
ReachedAlways(t, n) == arrived

\* The cursor after the batch.  Gmail's stays while messages of the page remain,
\* else it is the newest of the mailbox; Outlook's is the last message seen.
Reached(t, n) ==
  LET seen == ToRead(t, n) \cup {from[t]} IN
  IF provider = "gmail"
  THEN IF ToRead(t, n) = Pending(t, n) THEN arrived ELSE from[t]
  ELSE CHOOSE m \in seen : \A k \in seen : k <= m

\* What the cursor will pass and the pass has not seen.
Beyond(t, n) == {m \in NewMail(t) \ Listed(t, n) : m <= Reached(t, n)}

\* The token is good: markRunning, and the provider is asked.  Without a cursor
\* the pass starts from now.
ListMail(t) ==
  /\ step[t] = "reading" /\ granted
  /\ Write(t, "RUNNING", lease, cursor)
  /\ IF t \notin knows THEN Leave(t)
     ELSE /\ Go(t, "settling") /\ UNCHANGED <<knows, claimed, from>>
          /\ IF from[t] = None THEN head' = [head EXCEPT ![t] = arrived] /\ UNCHANGED <<left, beyond>>
             ELSE \E n \in 1..HistoryPage :
                    /\ left' = [left EXCEPT ![t] = ToRead(t, n)]
                    /\ head' = [head EXCEPT ![t] = Reached(t, n)]
                    /\ beyond' = [beyond EXCEPT ![t] = Beyond(t, n)]
  /\ UNCHANGED <<mailbox, arrived, granted, synced, unread, faults>>

\* The next message of the batch is read and, if it is to be kept, stored.
ReadMail(t) ==
  /\ step[t] = "settling"
  /\ \E m \in left[t] :
       /\ \A n \in left[t] : m <= n
       /\ left' = [left EXCEPT ![t] = @ \ {m}]
       /\ synced' = IF m \in kept THEN synced \cup {m} ELSE synced
  /\ UNCHANGED <<mailbox, arrived, granted, row, unread, fresh, knows, step, claimed, from, head, beyond, faults>>

\* Gmail does not give that one; the pass goes on without it.
SkipMail(t) ==
  /\ step[t] = "settling" /\ provider = "gmail" /\ Fault
  /\ \E m \in left[t] :
       /\ \A n \in left[t] : m <= n
       /\ left' = [left EXCEPT ![t] = @ \ {m}]
       /\ passed' = passed \cup {m}
  /\ UNCHANGED <<mailbox, arrived, granted, row, synced, overlooked, fresh, knows, step, claimed, from, head, beyond>>

\* settle: unconditional, whoever holds the lease by now.  What arrived before
\* the first cursor is not read, by design.
Settle(t) ==
  /\ step[t] = "settling" /\ left[t] = {}
  /\ Write(t, "RUNNING", "none", head[t])
  /\ passed' = IF from[t] = None /\ t \in knows THEN passed \cup 1..head[t] ELSE passed
  /\ overlooked' = IF t \in knows THEN overlooked \cup beyond[t] ELSE overlooked
  /\ Leave(t)
  /\ UNCHANGED <<mailbox, arrived, granted, synced, faults>>

-----------------------------------------------------------------------------
(* Failures.                                                               *)

\* The provider refuses, is rate limiting, fails, or no longer knows the
\* cursor; or something throws, which only runDue notes on the row.
Answer(t) ==
  \/ Write(t, "NEEDS_RECONNECT", "none", cursor)
  \/ Write(t, "IDLE", "held", cursor)
  \/ Write(t, "FAILED", "none", cursor)
  \/ from[t] # None /\ step[t] = "reading" /\ Write(t, "IDLE", "none", None)
  \/ t \notin claimed /\ UNCHANGED <<row, fresh>>

Fails(t) ==
  /\ \/ step[t] = "reading" /\ granted
     \/ step[t] = "settling" /\ provider = "outlook" /\ left[t] # {}
  /\ Fault /\ Leave(t) /\ Answer(t)
  /\ UNCHANGED <<mailbox, arrived, granted, synced, unread>>

\* Storing a message throws.
Throws(t) ==
  /\ step[t] = "settling" /\ left[t] # {} /\ Fault /\ Leave(t)
  /\ IF t \in claimed THEN Write(t, "FAILED", "none", cursor) ELSE UNCHANGED <<row, fresh>>
  /\ UNCHANGED <<mailbox, arrived, granted, synced, unread>>

Dies(t) ==
  /\ step[t] # "idle" /\ Fault /\ Leave(t)
  /\ fresh' = fresh \ {t}
  /\ UNCHANGED <<mailbox, arrived, granted, row, synced, unread>>

-----------------------------------------------------------------------------
(* The mailbox, the clock and the rep.                                     *)

Arrive ==
  /\ arrived < MaxMail /\ arrived' = arrived + 1
  /\ UNCHANGED <<mailbox, granted, row, synced, unread, fresh, knows, step, claimed, reading, faults>>

\* Mutant of LeaseRunsOut: a lease only its holder gives back.
LeaseStays == FALSE /\ UNCHANGED mbvars

LeaseRunsOut ==
  /\ lease = "held" /\ lease' = "over"
  /\ UNCHANGED <<mailbox, arrived, granted, status, cursor, synced, unread, fresh, knows, step, claimed, reading, faults>>

\* revoke: the row first, then the grant.
Disconnect ==
  /\ status # "gone" /\ granted /\ Fault
  /\ status' = "gone" /\ lease' = "none" /\ cursor' = None
  /\ fresh' = {} /\ knows' = {}
  /\ UNCHANGED <<mailbox, arrived, granted, synced, unread, step, claimed, reading>>

\* The second half of revoke, or a sign-in that leaves the scope out.
Ungrant ==
  /\ granted /\ Fault /\ granted' = FALSE
  /\ UNCHANGED <<mailbox, arrived, row, synced, unread, fresh, knows, step, claimed, reading>>

Grant ==
  /\ ~granted /\ granted' = TRUE
  /\ UNCHANGED <<mailbox, arrived, row, synced, unread, fresh, knows, step, claimed, reading, faults>>

\* onConnected, of a status query or of the cron job's reconcileAll.
Ensure ==
  /\ granted /\ status = "gone"
  /\ status' = "IDLE" /\ lease' = "none" /\ cursor' = None
  /\ UNCHANGED <<mailbox, arrived, granted, synced, unread, fresh, knows, step, claimed, reading, faults>>

\* What a pass does while nothing goes wrong.
Proceeds(t) ==
  \/ ClaimRow(t) \/ ReadRow(t) \/ NotConnected(t)
  \/ ListMail(t) \/ ReadMail(t) \/ Settle(t)

MbNext ==
  \/ \E t \in Pass : List(t) \/ SyncNow(t) \/ Proceeds(t) \/ SkipMail(t) \/ Fails(t) \/ Throws(t) \/ Dies(t)
  \/ Arrive \/ LeaseRunsOut \/ Disconnect \/ Ungrant \/ Grant \/ Ensure

MbSpec == MbInit /\ [][MbNext]_mbvars

-----------------------------------------------------------------------------
(* Properties.                                                             *)

\* Every variable has its type.
MbTypeOK ==
  /\ provider \in {"gmail", "outlook"} /\ kept \subseteq Mail
  /\ arrived \in Cursor /\ granted \in BOOLEAN
  /\ status \in {"gone", "IDLE", "RUNNING", "FAILED", "NEEDS_RECONNECT"}
  /\ lease \in {"none", "held", "over"} /\ cursor \in Cursor \cup {None}
  /\ synced \subseteq kept /\ passed \subseteq Mail /\ overlooked \subseteq Mail
  /\ {fresh, knows, claimed} \subseteq SUBSET Pass
  /\ step \in [Pass -> {"idle", "listed", "begun", "reading", "settling"}]
  /\ from \in [Pass -> Cursor \cup {None}] /\ head \in [Pass -> Cursor]
  /\ left \in [Pass -> SUBSET Mail] /\ beyond \in [Pass -> SUBSET Mail]
  /\ faults \in 0..MaxFault

Excused == passed \cup overlooked

\* However passes overlap, fail, die and settle late, the cursor never passes
\* a message to be kept that is not in the CRM, but for those of before the
\* connection, those Gmail did not give, and those on a page of Gmail's history
\* after the first, which no pass asks for (gmail-sync.service.ts:131, 164-170).
OnlyLaterPagesAreLost ==
  /\ cursor # None => \A m \in kept : m <= cursor => m \in synced \cup Excused
  /\ overlooked # {} => provider = "gmail"

\* What docs/plan/gmail-calendar-plan.md:745 asks for, "at worst a window is
\* re-read".  TLC refutes it: two messages arrive, the page holds one, and the
\* cursor moves past the other.
NoMailIsLost == cursor # None => \A m \in kept : m <= cursor => m \in synced \cup passed

\* Within the batch of a pass there is room for a message that is kept.
Crowded ==
  /\ provider = "gmail" /\ cursor # None
  /\ Cardinality({n \in 1..arrived : n > cursor /\ n \notin kept}) >= Batch

Missing == {m \in kept : m <= arrived /\ m \notin synced \cup Excused}

\* Again and again every message to be kept that has arrived is in the CRM, but
\* for those on a later page of Gmail's history, unless the connection has ended
\* or messages that are not kept fill the batch: passes fail and die in the
\* middle, and a lease of a dead one runs out.
MailArrives == []<>(Missing = {} \/ ~Polled \/ ~granted \/ cursor = None \/ Crowded)
=============================================================================
