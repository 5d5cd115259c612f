------------------------------ MODULE DealTimeline ------------------------------
(***************************************************************************)
(* The timeline of a company and of its deals: the activities, the stage a *)
(* deal is in and how it got there, and the column lastActivityAt of each  *)
(* record.  Requests move deals, write notes, delete deals and purge mail, *)
(* at once; the columns are written after the transaction, one by one.     *)
(*                                                                         *)
(* Left out: contacts, which have such a column too, reasons, due dates of *)
(* tasks, and the other fields of a deal.                                  *)
(***************************************************************************)
EXTENDS Naturals, FiniteSets

CONSTANTS
  Deal,
  TheCompany, \* the company of all of them
  Stage,      \* DealStage
  Closed,     \* CLOSED_STAGES
  Null,       \* NULL
  Request,    \* at work at once
  MaxWrite,   \* bound: activities and deletions
  MaxDeath    \* bound: requests that die after their transaction

ASSUME TimelineAssumption ==
  /\ TheCompany \notin Deal /\ Null \notin Deal \cup Stage \cup Request
  /\ Closed \subseteq Stage /\ {MaxWrite, MaxDeath} \subseteq Nat

VARIABLES
  stage,     \* stage[d]: where the deal is; Null once it is deleted
  born,      \* born[d]: the stage it was created in
  announced, \* announced[d]: the last event about it was deal.closed
  activity,  \* rows: when, on which deal or Null, and a change of stage
  stamp,     \* stamp[t]: lastActivityAt of a deal or the company, 0 for NULL
  locked,    \* locked[d]: the request that holds the row FOR UPDATE
  request,   \* request[r]: what it has yet to do
  clock, deaths,
  crossed    \* history: something was written while a recomputation was under way

tvars == <<stage, born, announced, activity, stamp, locked, request, clock, deaths, crossed>>

Target == Deal \cup {TheCompany}
Rest == [step |-> "rest"]
Recomputing(t) == \E r \in Request : request[r].step = "restamp" /\ t \in DOMAIN request[r].max

TInit ==
  /\ stage \in [Deal -> Stage] /\ born = stage
  /\ announced = [d \in Deal |-> stage[d] \in Closed]
  /\ activity = {} /\ stamp = [t \in Target |-> 0]
  /\ locked = [d \in Deal |-> Null] /\ request = [r \in Request |-> Rest]
  /\ clock = 0 /\ deaths = 0 /\ crossed = FALSE

Return(r) == request' = [request EXCEPT ![r] = Rest]
Targets(a) == {TheCompany} \cup ({a.deal} \ {Null})
Newest(A) == IF A = {} THEN 0 ELSE CHOOSE n \in {a.at : a \in A} : \A a \in A : a.at <= n

\* A row is inserted, and the columns are to be written.
Log(r, a) ==
  /\ clock < MaxWrite /\ clock' = clock + 1
  /\ activity' = activity \cup {a}
  /\ request' = [request EXCEPT ![r] = [step |-> "touch", at |-> a.at, left |-> Targets(a)]]
  /\ crossed' = (crossed \/ \E t \in Targets(a) : Recomputing(t))

-----------------------------------------------------------------------------
(* setStage, of one deal or of a selection, one after the other            *)

\* Mutant of LockDeal: the row is read without FOR UPDATE.
ReadDeal(r, d, to) ==
  /\ request[r] = Rest
  /\ stage[d] \notin {Null, to}
  /\ request' = [request EXCEPT ![r] = [step |-> "stage", deal |-> d, from |-> stage[d], to |-> to]]
  /\ UNCHANGED <<stage, born, announced, activity, stamp, locked, clock, deaths, crossed>>

\* The deal is read FOR UPDATE; one that is there already is left alone.
LockDeal(r, d, to) ==
  /\ request[r] = Rest /\ locked[d] = Null
  /\ stage[d] \notin {Null, to}
  /\ locked' = [locked EXCEPT ![d] = r]
  /\ request' = [request EXCEPT ![r] = [step |-> "stage", deal |-> d, from |-> stage[d], to |-> to]]
  /\ UNCHANGED <<stage, born, announced, activity, stamp, clock, deaths, crossed>>

\* Stage, activity and events are of one transaction.
CommitStage(r) ==
  LET d == request[r].deal
      from == request[r].from
      to == request[r].to
  IN
  /\ request[r].step = "stage" /\ stage[d] # Null
  /\ Log(r, [at |-> clock + 1, deal |-> d, from |-> from, to |-> to, mail |-> FALSE])
  /\ stage' = [stage EXCEPT ![d] = to]
  /\ announced' = [announced EXCEPT ![d] =
       IF from \notin Closed /\ to \in Closed THEN TRUE
       ELSE IF from \in Closed /\ to \notin Closed THEN FALSE ELSE @]
  /\ locked' = [locked EXCEPT ![d] = Null]
  /\ UNCHANGED <<born, stamp, deaths>>

\* The transaction fails.
RollBack(r) ==
  /\ request[r].step = "stage" /\ Return(r)
  /\ locked' = [d \in Deal |-> IF locked[d] = r THEN Null ELSE locked[d]]
  /\ UNCHANGED <<stage, born, announced, activity, stamp, clock, deaths, crossed>>

-----------------------------------------------------------------------------
(* The other writers of the timeline.                                      *)

\* activities.create, and a mail stored for the company
WriteNote(r) ==
  /\ request[r] = Rest
  /\ \E d \in {x \in Deal : stage[x] # Null} \cup {Null}, mail \in BOOLEAN :
       /\ mail => d = Null
       /\ Log(r, [at |-> clock + 1, deal |-> d, from |-> Null, to |-> Null, mail |-> mail])
  /\ UNCHANGED <<stage, born, announced, stamp, locked, deaths>>

\* Rows are gone, and these columns are to be computed anew.
Remove(r, A, T) ==
  /\ clock < MaxWrite /\ clock' = clock + 1
  /\ activity' = activity \ A
  /\ request' = [request EXCEPT ![r] = [step |-> "recompute", left |-> T]]
  /\ crossed' = (crossed \/ \E t \in T : Recomputing(t))

\* delete: the activities go with the deal.
DeleteDeal(r, d) ==
  LET its == {a \in activity : a.deal = d} IN
  /\ request[r] = Rest /\ stage[d] # Null /\ locked[d] = Null
  /\ Remove(r, its, UNION {Targets(a) : a \in its} \ {d})
  /\ stage' = [stage EXCEPT ![d] = Null]
  /\ stamp' = [stamp EXCEPT ![d] = 0]
  /\ UNCHANGED <<born, announced, locked, deaths>>

\* A mailbox is purged: recomputeAll afterwards.
PurgeMail(r) ==
  LET mails == {a \in activity : a.mail} IN
  /\ request[r] = Rest /\ mails # {}
  /\ Remove(r, mails, {TheCompany} \cup {d \in Deal : stage[d] # Null})
  /\ UNCHANGED <<stage, born, announced, stamp, locked, deaths>>

-----------------------------------------------------------------------------
(* lastActivityAt                                                          *)

Unlocked(t) == t \in Deal => locked[t] = Null

\* Mutant of Later: whoever comes last writes.
Always(t, at) == t \in Deal => stage[t] # Null

\* The row of touch's updateMany: it is there, and what it has is earlier.
Later(t, at) == (t \in Deal => stage[t] # Null) /\ stamp[t] < at

\* touch, of one record
Touch(r, t) ==
  LET at == request[r].at
      left == request[r].left \ {t}
  IN
  /\ request[r].step = "touch" /\ t \in request[r].left /\ Unlocked(t)
  /\ stamp' = [stamp EXCEPT ![t] = IF Later(t, at) THEN at ELSE @]
  /\ crossed' = (crossed \/ Recomputing(t))
  /\ request' = [request EXCEPT ![r] = IF left = {} THEN Rest ELSE [@ EXCEPT !.left = left]]
  /\ UNCHANGED <<stage, born, announced, activity, locked, clock, deaths>>

\* restamp: the statement's snapshot, ...
BeginRestamp(r) ==
  /\ request[r].step = "recompute"
  /\ request' = [request EXCEPT ![r] =
       [step |-> "restamp", max |-> [t \in @.left |-> Newest({a \in activity : t \in Targets(a)})]]]
  /\ UNCHANGED <<stage, born, announced, activity, stamp, locked, clock, deaths, crossed>>

\* ... and the rows it writes once it has them.
Restamp(r) ==
  LET max == request[r].max IN
  /\ request[r].step = "restamp" /\ \A t \in DOMAIN max : Unlocked(t)
  /\ stamp' = [t \in Target |->
       IF t \in DOMAIN max /\ (t \in Deal => stage[t] # Null) THEN max[t] ELSE stamp[t]]
  /\ crossed' = (crossed \/ \E x \in Request \ {r} : request[x].step = "restamp")
  /\ Return(r)
  /\ UNCHANGED <<stage, born, announced, activity, locked, clock, deaths>>

\* The process dies after the transaction, or a later statement fails.
Die(r) ==
  /\ request[r].step \in {"touch", "recompute", "restamp"} /\ deaths < MaxDeath
  /\ deaths' = deaths + 1 /\ Return(r)
  /\ UNCHANGED <<stage, born, announced, activity, stamp, locked, clock, crossed>>

TNext ==
  \E r \in Request :
    \/ \E d \in Deal : DeleteDeal(r, d) \/ \E to \in Stage : LockDeal(r, d, to)
    \/ \E t \in Target : Touch(r, t)
    \/ CommitStage(r) \/ RollBack(r) \/ WriteNote(r) \/ PurgeMail(r)
    \/ BeginRestamp(r) \/ Restamp(r) \/ Die(r)

TSpec == TInit /\ [][TNext]_tvars

-----------------------------------------------------------------------------
(* Properties.                                                             *)

\* Every variable has its type.
TTypeOK ==
  /\ stage \in [Deal -> Stage \cup {Null}] /\ born \in [Deal -> Stage]
  /\ announced \in [Deal -> BOOLEAN]
  /\ activity \subseteq [at : 1..MaxWrite, deal : Deal \cup {Null}, from : Stage \cup {Null},
                         to : Stage \cup {Null}, mail : BOOLEAN]
  /\ stamp \in [Target -> 0..MaxWrite] /\ locked \in [Deal -> Request \cup {Null}]
  /\ clock \in 0..MaxWrite /\ deaths \in 0..MaxDeath /\ crossed \in BOOLEAN

\* The changes of stage on a deal's timeline, in their order.
Changes(d) == {a \in activity : a.deal = d /\ a.to # Null}
Before(a) == {x \in Changes(a.deal) : x.at < a.at}
StageAt(d, A) == IF A = {} THEN born[d] ELSE (CHOOSE a \in A : a.at = Newest(A)).to

\* However requests move a deal at once, its timeline tells how it got from the
\* stage it was created in to the one it is in, each change from where the one
\* before had left it, and the events told last whether it is closed.
StageHistoryIsAChain ==
  \A d \in Deal : stage[d] # Null =>
    /\ \A a \in Changes(d) : a.from = StageAt(d, Before(a))
    /\ stage[d] = StageAt(d, Changes(d))
    /\ announced[d] <=> stage[d] \in Closed

Pending(t, at) ==
  \E r \in Request : request[r].step = "touch" /\ t \in request[r].left /\ request[r].at >= at

\* A record's lastActivityAt is no earlier than any activity on its timeline, or
\* will be when the request that wrote it has gone on: in whatever order requests
\* touch the column.  A request that dies leaves it behind, and so may a
\* recomputation that has looked before the activity was there.
StampIsNotBehind ==
  ~crossed /\ deaths = 0 =>
    \A a \in activity : \A t \in Targets(a) : stamp[t] >= a.at \/ Pending(t, a.at)
=============================================================================
