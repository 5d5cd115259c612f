----------------------------- MODULE SlackInventory -----------------------------
(***************************************************************************)
(* The channels of the connected Slack, as the CRM keeps them: rows that   *)
(* an inventory writes, which a task of the queue runs, that joining and   *)
(* creating a channel correct, and that go with the connection.            *)
(*                                                                         *)
(* Nothing tells the CRM what happens in Slack, and every writer reads     *)
(* Slack some time before it writes: an inventory may write what it read   *)
(* for a connection that was replaced meanwhile.  A channel is what the    *)
(* bot has of it: "public" and "hidden" (private) ones it is outside of,   *)
(* "joined" and "inside" ones it is in.  Left out: names, counts, the date *)
(* an invitation was asked for, archived channels (as absent), which       *)
(* members match, and the pages of a list, which are read at once.         *)
(***************************************************************************)
EXTENDS Naturals, FiniteSetsExt

CONSTANTS
  Team,      \* Slack workspaces
  Ids,       \* numbers of channels in each of them
  Nil,       \* no team, no row
  Attempt,   \* attempts at the inventory that run at once
  Errand,    \* joins and creations that run at once
  MaxLink,   \* bound: connections made
  MaxEvent   \* bound: connections, ends of one, changes in Slack, errands, failures

ASSUME InventoryAssumption ==
  /\ MaxLink \in Nat \ {0} /\ MaxEvent \in Nat
  /\ Nil \notin Team /\ Attempt \cap Errand = {}

VARIABLES
  slack,     \* slack[c]: what channel c is
  accounts,  \* connections with an account row
  team,      \* team[k]: the workspace of connection k, Nil before it is made
  linking,   \* linking[k]: where the sign-in that makes it stands
  grant,     \* the team of slackWorkspaceGrant
  cached,    \* cached[c]: the row of c
  wanted,    \* a slack-people-match task is unfinished
  serving,   \* attempts at that task
  throttled, \* such a task was created in the last throttleMs
  fresh,     \* a row was written in the last staleMs
  at,        \* at[p]: where an attempt or an errand stands
  bot,       \* bot[p]: the team of the token it read
  found,     \* found[a]: the channels an attempt listed
  chan,      \* chan[j]: the channel of an errand
  live,      \* live[j]: what it found the channel to be
  events     \* how many there were

Channel == Team \X Ids
Kind == {"public", "joined", "hidden", "inside"}
Link == 1..MaxLink
Proc == Attempt \cup Errand
Unlisted == [c \in Channel |-> "absent"]

link == <<accounts, team, linking, grant>>
queue == <<wanted, serving, throttled>>
procs == <<at, bot, found, chan, live>>
ivars == <<slack, link, cached, queue, fresh, procs, events>>

\* Nothing is connected, or the first sign-in has replaced what there was.
IInit ==
  /\ slack \in [Channel -> Kind \cup {"absent"}]
  /\ \E t \in Team \cup {Nil} :
       /\ accounts = IF t = Nil THEN {} ELSE {1}
       /\ team = [k \in Link |-> IF k = 1 THEN t ELSE Nil]
       /\ linking = [k \in Link |-> IF k = 1 /\ t # Nil THEN "replaced" ELSE "none"]
       /\ grant \in {t, Nil}
  /\ cached = [c \in Channel |-> Nil]
  /\ wanted = FALSE /\ serving = {} /\ throttled = FALSE /\ fresh = FALSE
  /\ at = [p \in Proc |-> "idle"] /\ bot = [p \in Proc |-> Nil]
  /\ found = [a \in Attempt |-> Unlisted]
  /\ chan = [j \in Errand |-> Nil] /\ live = [j \in Errand |-> "absent"]
  /\ events = 0

Counts == events < MaxEvent /\ events' = events + 1

-----------------------------------------------------------------------------
(* Slack.                                                                  *)

\* Somebody makes, opens, closes or archives a channel, or puts the bot in or out.
ChangeInSlack(c) ==
  /\ Counts
  /\ slack' \in {[slack EXCEPT ![c] = k] : k \in (Kind \cup {"absent"}) \ {slack[c]}}
  /\ UNCHANGED <<link, cached, queue, fresh, procs>>

Inside(k) == IF k = "public" THEN "joined" ELSE IF k = "hidden" THEN "inside" ELSE k
Outside(k) == IF k = "joined" THEN "public" ELSE IF k = "inside" THEN "hidden" ELSE k

\* What conversations.list shows to the bot of team b and to an installer of
\* team u, who is in every private channel; what only he sees, the bot is not in.
Seen(b, u) ==
  [c \in Channel |->
     IF c[1] = b /\ slack[c] # "hidden" THEN slack[c]
     ELSE IF c[1] = u THEN Outside(slack[c]) ELSE "absent"]

\* conversations.info: a channel it cannot see is taken for a private one.
Info(b, c) == IF c[1] = b /\ slack[c] # "absent" THEN slack[c] ELSE "hidden"

-----------------------------------------------------------------------------
(* The connection.                                                         *)

\* slackAccessToken: of the account written last.
Token == IF accounts = {} THEN Nil ELSE team[Max(accounts)]

\* The account is written, in a sign-in that goes on.
LinkSlack(k, t) ==
  /\ linking[k] = "none" /\ \A i \in 1..(k - 1) : linking[i] # "none"
  /\ Counts
  /\ accounts' = accounts \cup {k} /\ team' = [team EXCEPT ![k] = t]
  /\ linking' = [linking EXCEPT ![k] = "written"]
  /\ UNCHANGED <<slack, grant, cached, queue, fresh, procs>>

\* replaceSlackConnection: every other account goes.  Slack's answer gave a token
\* of the installer, or none, which leaves a grant of the same team, or did not
\* name him, which leaves any.
Replace(k) ==
  /\ linking[k] = "written" /\ linking' = [linking EXCEPT ![k] = "replaced"]
  /\ accounts' = accounts \cap {k}
  /\ grant' \in {team[k], IF grant = team[k] THEN grant ELSE Nil, grant}
  /\ UNCHANGED <<slack, team, cached, queue, fresh, procs, events>>

\* disconnect: one transaction.
Disconnect ==
  /\ accounts # {} /\ Counts
  /\ accounts' = {} /\ grant' = Nil
  /\ cached' = [c \in Channel |-> Nil] /\ fresh' = FALSE
  /\ UNCHANGED <<slack, team, linking, queue, procs>>

-----------------------------------------------------------------------------
(* The queue.  Two requests that file a task in the same instant, under    *)
(* locks of different names, are as one.                                   *)

NewTask == wanted' = TRUE /\ serving' = {} /\ throttled' = TRUE

\* queueSlackInventorySync: not if one is open, or was created of late.
QueueSync == IF wanted \/ throttled THEN UNCHANGED queue ELSE NewTask

QueueAfter(k) ==
  /\ linking[k] = "replaced" /\ linking' = [linking EXCEPT ![k] = "over"]
  /\ QueueSync
  /\ UNCHANGED <<slack, accounts, team, grant, cached, fresh, procs, events>>

SignInDies(k) ==
  /\ linking[k] \in {"written", "replaced"} /\ Counts
  /\ linking' = [linking EXCEPT ![k] = "over"]
  /\ UNCHANGED <<slack, accounts, team, grant, cached, queue, fresh, procs>>

\* refreshPeople, and status when matches are older than the connection.
RequestSync ==
  /\ accounts # {} /\ ~wanted /\ NewTask
  /\ UNCHANGED <<slack, link, cached, fresh, procs, events>>

\* The builder looks at its connections, and no row is younger than staleMs.
RequestStale ==
  /\ accounts # {} /\ ~fresh /\ ~wanted /\ QueueSync
  /\ UNCHANGED <<slack, link, cached, fresh, procs, events>>

\* throttleMs after the last task, and staleMs after the last write.
ThrottleEnds ==
  /\ throttled /\ throttled' = FALSE
  /\ UNCHANGED <<slack, link, cached, wanted, serving, fresh, procs, events>>

RowsAge ==
  /\ fresh /\ fresh' = FALSE
  /\ UNCHANGED <<slack, link, cached, queue, procs, events>>

-----------------------------------------------------------------------------
(* The inventory, attempt a of its task.  An attempt that outlives its     *)
(* lease, which counts, runs beside the next one.                          *)

GoTo(p, s) == at' = [at EXCEPT ![p] = s]

\* Process p is over, and forgets what it read.
Ends(p) ==
  /\ GoTo(p, "idle") /\ bot' = [bot EXCEPT ![p] = Nil]
  /\ found' = [a \in Attempt |-> IF a = p THEN Unlisted ELSE found[a]]
  /\ chan' = [j \in Errand |-> IF j = p THEN Nil ELSE chan[j]]
  /\ live' = [j \in Errand |-> IF j = p THEN "absent" ELSE live[j]]

Goes(p, s) == GoTo(p, s) /\ UNCHANGED <<bot, found, chan, live>>

\* The task of attempt a is finished.
Done(a) == IF a \in serving THEN wanted' = FALSE /\ serving' = {} ELSE UNCHANGED <<wanted, serving>>

\* Any attempt that is not at work will do, they are alike.
BeginInventory ==
  /\ wanted /\ \E b \in Attempt : at[b] = "idle"
  /\ IF \A b \in Attempt : at[b] = "idle" THEN UNCHANGED events ELSE Counts
  /\ LET a == CHOOSE b \in Attempt : at[b] = "idle" IN
     IF Token = Nil
     THEN wanted' = FALSE /\ serving' = {} /\ UNCHANGED <<at, bot>>
     ELSE /\ GoTo(a, "listing") /\ bot' = [bot EXCEPT ![a] = Token]
          /\ serving' = serving \cup {a} /\ UNCHANGED wanted
  /\ UNCHANGED <<slack, link, cached, throttled, fresh, found, chan, live>>

\* visibleChannels: that the installer's list fails is not an error.
ListChannels(a) ==
  /\ at[a] = "listing" /\ GoTo(a, "writing")
  /\ \/ found' = [found EXCEPT ![a] = Seen(bot[a], grant)] /\ UNCHANGED events
     \/ found' = [found EXCEPT ![a] = Seen(bot[a], Nil)] /\ Counts
  /\ UNCHANGED <<slack, link, cached, queue, fresh, bot, chan, live>>

\* Mutant of Retired: a row that was not listed stays as it is.
RetiredNever(c) == cached[c]

\* A row that was not listed is no longer available.
Retired(c) == IF cached[c] = Nil THEN Nil ELSE [cached[c] EXCEPT !.on = FALSE]

\* Mutant of Locks: there is no account to look for.
LocksNothing == TRUE

\* persistSlackChannels looks for an account, and holds it until it commits.
Locks == accounts # {}

Persist(a) ==
  /\ at[a] = "writing" /\ Ends(a) /\ Done(a)
  /\ IF Locks
     THEN /\ cached' = [c \in Channel |-> IF found[a][c] = "absent" THEN Retired(c)
                                          ELSE [kind |-> found[a][c], on |-> TRUE]]
          /\ fresh' = (fresh \/ \E c \in Channel : cached'[c] # Nil)
     ELSE UNCHANGED <<cached, fresh>>
  /\ UNCHANGED <<slack, link, throttled, events>>

\* It throws or dies, and its task is tried again, or for the last time.
AttemptFails(a) ==
  /\ at[a] # "idle" /\ Ends(a) /\ Counts
  /\ Done(a) \/ UNCHANGED <<wanted, serving>>
  /\ UNCHANGED <<slack, link, cached, throttled, fresh>>

-----------------------------------------------------------------------------
(* Joining and creating a channel, errand j.                               *)

\* A task of the API, of a channel that has a row.
AskToJoin(j, c) ==
  /\ at[j] = "idle" /\ cached[c] # Nil /\ Counts
  /\ GoTo(j, "looking") /\ chan' = [chan EXCEPT ![j] = c]
  /\ UNCHANGED <<slack, link, cached, queue, fresh, bot, found, live>>

\* classifyChannel reads the row and the channel; if it cannot, the row stands.
LookAt(j) ==
  /\ at[j] = "looking"
  /\ IF cached[chan[j]] = Nil \/ Token = Nil
     THEN Ends(j) /\ UNCHANGED events
     ELSE LET says == cached[chan[j]].kind IN
          /\ bot' = [bot EXCEPT ![j] = Token]
          /\ \/ live' = [live EXCEPT ![j] = Info(Token, chan[j])] /\ UNCHANGED events
             \/ live' = [live EXCEPT ![j] = says] /\ Counts
          /\ GoTo(j, IF live'[j] = says THEN "entering" ELSE "correcting")
          /\ UNCHANGED <<found, chan>>
  /\ UNCHANGED <<slack, link, cached, queue, fresh>>

\* ... and corrects a row that said otherwise, if it is there, and wants a new
\* inventory.
Correct(j) ==
  /\ at[j] = "correcting" /\ Goes(j, "entering") /\ QueueSync
  /\ IF cached[chan[j]] = Nil THEN UNCHANGED <<cached, fresh>>
     ELSE cached' = [cached EXCEPT ![chan[j]].kind = live[j]] /\ fresh' = TRUE
  /\ UNCHANGED <<slack, link, events>>

\* The bot joins a public channel, the installer invites it into a private one.
Admitted(j) ==
  LET c == chan[j] IN
  /\ c[1] = bot[j]
  /\ \/ live[j] = "public" /\ slack[c] \in {"public", "joined"}
     \/ live[j] = "hidden" /\ grant = bot[j] /\ slack[c] # "absent"

\* A bot that is inside has nothing more to do.
Enter(j) ==
  /\ at[j] = "entering"
  /\ IF Admitted(j)
     THEN slack' = [slack EXCEPT ![chan[j]] = Inside(@)] /\ Goes(j, "noting")
     ELSE UNCHANGED slack /\ Ends(j)
  /\ UNCHANGED <<link, cached, queue, fresh, events>>

\* The row says that the bot is in; one that is gone stays gone.
Note(j) ==
  /\ at[j] = "noting" /\ Ends(j)
  /\ IF cached[chan[j]] = Nil THEN UNCHANGED <<cached, fresh>>
     ELSE /\ cached' = [cached EXCEPT ![chan[j]] = [kind |-> Inside(@.kind), on |-> TRUE]]
          /\ fresh' = TRUE
  /\ UNCHANGED <<slack, link, queue, events>>

\* createSlackChannel: by the installer, who must do it if it is private; a
\* public one without him by the bot, which is in it then.
MakeChannel(j, c) ==
  /\ at[j] = "idle" /\ slack[c] = "absent" /\ Counts
  /\ \E kind \in {"public", "hidden"} :
       LET by == IF grant # Nil \/ kind = "hidden" THEN grant ELSE Token IN
       /\ by = c[1]
       /\ live' = [live EXCEPT ![j] = IF grant = Nil THEN "joined" ELSE kind]
  /\ slack' = [slack EXCEPT ![c] = live'[j]]
  /\ chan' = [chan EXCEPT ![j] = c] /\ GoTo(j, "made")
  /\ UNCHANGED <<link, cached, queue, fresh, bot, found>>

\* Its row is written, whatever became of the connection; a row that is there
\* keeps whether the bot is in.
NoteMade(j) ==
  LET c == chan[j]
      was == cached[c]
      member == IF was = Nil THEN live[j] = "joined" ELSE was.kind \in {"joined", "inside"}
  IN
  /\ at[j] = "made"
  /\ IF live[j] = "joined" THEN Ends(j) ELSE Goes(j, "looking")
  /\ cached' = [cached EXCEPT ![c] =
       [kind |-> IF member THEN Inside(Outside(live[j])) ELSE Outside(live[j]), on |-> TRUE]]
  /\ fresh' = TRUE
  /\ UNCHANGED <<slack, link, queue, events>>

ErrandDies(j) ==
  /\ at[j] # "idle" /\ Ends(j) /\ Counts
  /\ UNCHANGED <<slack, link, cached, queue, fresh>>

LinkStep(k) == Replace(k) \/ QueueAfter(k)
AttemptStep(a) == ListChannels(a) \/ Persist(a)
ErrandStep(j) == LookAt(j) \/ Correct(j) \/ Enter(j) \/ Note(j) \/ NoteMade(j)

INext ==
  \/ \E c \in Channel : ChangeInSlack(c)
  \/ \E k \in Link : LinkStep(k) \/ SignInDies(k) \/ \E t \in Team : LinkSlack(k, t)
  \/ Disconnect \/ RequestSync \/ RequestStale \/ ThrottleEnds \/ RowsAge
  \/ BeginInventory \/ \E a \in Attempt : AttemptStep(a) \/ AttemptFails(a)
  \/ \E j \in Errand : ErrandStep(j) \/ ErrandDies(j)
                     \/ \E c \in Channel : AskToJoin(j, c) \/ MakeChannel(j, c)

-----------------------------------------------------------------------------
ISpec == IInit /\ [][INext]_ivars

(* Properties.                                                             *)

Row == [kind : Kind, on : BOOLEAN]

\* Every variable has its type.
ITypeOK ==
  /\ slack \in [Channel -> Kind \cup {"absent"}]
  /\ accounts \subseteq Link
  /\ team \in [Link -> Team \cup {Nil}] /\ grant \in Team \cup {Nil}
  /\ linking \in [Link -> {"none", "written", "replaced", "over"}]
  /\ cached \in [Channel -> Row \cup {Nil}]
  /\ {wanted, throttled, fresh} \subseteq BOOLEAN /\ serving \subseteq Attempt
  /\ at \in [Proc -> {"idle", "listing", "writing", "looking", "correcting",
                      "entering", "noting", "made"}]
  /\ bot \in [Proc -> Team \cup {Nil}]
  /\ found \in [Attempt -> [Channel -> Kind \cup {"absent"}]]
  /\ chan \in [Errand -> Channel \cup {Nil}] /\ live \in [Errand -> Kind \cup {"absent"}]

\* An inventory or a join that read Slack before a disconnection does not bring
\* a channel back after it; only a creation under way may leave one
\* (apps/agent/test/slack-people.integration.spec.ts:225).
NotResurrected ==
  [][\A c \in Channel : accounts = {} /\ cached[c] = Nil /\ cached'[c] # Nil =>
       \E j \in Errand : at[j] = "made" /\ at'[j] # "made"]_ivars

Shows(c) == IF cached[c] = Nil \/ ~cached[c].on THEN "absent" ELSE cached[c].kind

\* Once Slack and the connection rest, the channels come to be what the tokens
\* of the connection show, though inventories overlap, fail, and write what
\* they read of a connection or a Slack that is no more (docs/connections.md:117).
InventoryConverges ==
  <>[](accounts # {} => \A c \in Channel : Shows(c) = Seen(Token, grant)[c])
=============================================================================
