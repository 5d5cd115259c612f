-------------------------- MODULE EnrichmentStatus --------------------------
(***************************************************************************)
(* The research status a contact or company shows (enrichmentStatus), and  *)
(* everything that writes it while the task queue works: a rep asking for  *)
(* a fresh look, markRunning and settle of lib/enrichment.ts, the brand    *)
(* lookup that writes its own answer, and retirement.  Each action is an   *)
(* action of TaskQueue together with what it does to the record, or a step *)
(* on the record alone.                                                    *)
(*                                                                         *)
(* settle reads twice and then writes under the guard it computed, so a    *)
(* settlement in flight is a record of its own.  updatedAt and finishedAt  *)
(* are only ever compared with each other: endedAfter[s] is the set of     *)
(* rows that finished after the record s was last written.                 *)
(***************************************************************************)
EXTENDS TaskQueue

CONSTANTS
  RequestKinds, \* the kinds of task a request for a fresh look queues
  BrandKind,    \* the direct kind that looks a company's brand up
  Company,      \* the subjects that are companies
  MaxSettling   \* bound: settlements in flight at once

\* A request queues something; of the kinds without a session only the brand.
ASSUME RequestAssumption == RequestKinds # {} /\ RequestKinds \cap DirectKinds \subseteq {BrandKind}

VARIABLES
  status,      \* status[s]: enrichmentStatus
  endedAfter,  \* endedAfter[s]: rows with finishedAt > updatedAt of s
  settling,    \* settle calls in flight
  requesting,  \* <<subject, kind>> a request has yet to queue
  lookup,      \* lookup[t][k]: the brand lookup of an attempt in progress, at most one
  stale,       \* history: rows finished before the last request on s
  asked        \* history: records whose request found no task under way

svars == <<status, endedAfter, settling, requesting, lookup, stale, asked>>
allvars == <<vars, svars>>

Settlement == [task : Task, by : 0..MaxAttempts, to : {"COMPLETE", "FAILED"},
               guard : {"unread", "ended", "running", "orPending"}]

HasSubject(t) == SubjectOf[t] \in Subject

SInit ==
  /\ Init
  /\ status = [s \in Subject |-> "PENDING"]
  /\ endedAfter = [s \in Subject |-> {}]
  /\ settling = {} /\ requesting = {}
  /\ lookup = [t \in Task |-> [k \in Attempt |-> "none"]]
  /\ stale = [s \in Subject |-> {}]
  /\ asked = {}

\* A write of the record bumps updatedAt.
Write(s, value) ==
  /\ status' = [status EXCEPT ![s] = value]
  /\ endedAfter' = [endedAfter EXCEPT ![s] = {}]

\* The rows of S get a finishedAt later than every write so far.
Ended(S) ==
  endedAfter' = [s \in Subject |->
                   endedAfter[s] \cup {t \in S : SubjectOf[t] = s}]

\* A settle call starts, unless the row names no record.  COMPLETE needs no
\* reads: its guard is the status alone.
Settle(S, by, to) ==
  /\ Cardinality(settling) < MaxSettling
  /\ settling' = settling \cup
       [task : {t \in S : HasSubject(t)}, by : {by}, to : {to},
        guard : {IF to = "FAILED" THEN "unread" ELSE "running"}]

-----------------------------------------------------------------------------
(* A rep asks for a fresh look: the record first, then one enqueue a kind. *)

RequestLook(s) ==
  /\ \A r \in requesting : r[1] # s
  /\ Write(s, "PENDING")
  /\ requesting' = requesting \cup ({s} \X RequestKinds)
  /\ stale' = [stale EXCEPT ![s] =
                 {t \in Task : st[t] = "finished" /\ SubjectOf[t] = s}]
  /\ asked' = asked \cup {s}
  /\ UNCHANGED <<vars, settling, lookup>>

\* Somebody is at work on a row of the kind, or was until its lease ran out.
UnderWay(kind, s) == \E t \in OpenRows(kind, s), k \in Attempt : phase[t][k] \in Active

\* Mutant of RequestEnqueue: a row that is finished counts as open.
RequestEnqueueOnce(s, kind) ==
  /\ <<s, kind>> \in requesting
  /\ requesting' = requesting \ {<<s, kind>>}
  /\ \/ (\E t \in Task : KindOf[t] = kind /\ SubjectOf[t] = s /\ st[t] # "absent") /\ UNCHANGED vars
     \/ \E t \in Task : /\ KindOf[t] = kind /\ SubjectOf[t] = s
                        /\ Enqueue(t)
  /\ asked' = IF UnderWay(kind, s) THEN asked \ {s} ELSE asked
  /\ UNCHANGED <<status, endedAfter, settling, lookup, stale>>

RequestEnqueue(s, kind) ==
  /\ <<s, kind>> \in requesting
  /\ requesting' = requesting \ {<<s, kind>>}
  /\ \/ OpenRows(kind, s) # {} /\ UNCHANGED vars
     \/ \E t \in Task : /\ KindOf[t] = kind /\ SubjectOf[t] = s
                        /\ Enqueue(t)
  /\ asked' = IF UnderWay(kind, s) THEN asked \ {s} ELSE asked
  /\ UNCHANGED <<status, endedAfter, settling, lookup, stale>>

\* Every other write of the record: facts, edits, synced mail.
WriteOther(s) ==
  /\ endedAfter' = [endedAfter EXCEPT ![s] = {}]
  /\ UNCHANGED <<vars, status, settling, requesting, lookup, stale, asked>>

-----------------------------------------------------------------------------
(* Attempts.                                                               *)

\* beginResearch marks the record before it sends.
BeginResearch(t, k) ==
  /\ ~Direct(t) /\ Start(t, k)
  /\ IF HasSubject(t) THEN Write(SubjectOf[t], "RUNNING")
     ELSE UNCHANGED <<status, endedAfter>>
  /\ UNCHANGED <<settling, requesting, lookup, stale, asked>>

BeginDirect(t, k) ==
  /\ Direct(t) /\ Start(t, k)
  /\ UNCHANGED svars

\* runBrand, called by a brand task or by a turn about a company.  These
\* writes have no guard: brand.ts has a settle of its own.
CanLookUp(t, k) ==
  /\ SubjectOf[t] \in Company
  /\ KindOf[t] = BrandKind \/ ~Direct(t)
  /\ phase[t][k] = "running" /\ lookup[t][k] = "none"

\* There is nowhere to ask (no key), or nothing to ask for (no domain).
BrandNowhere(t, k) ==
  /\ CanLookUp(t, k)
  /\ Write(SubjectOf[t], "SKIPPED")
  /\ lookup' = [lookup EXCEPT ![t][k] = "answered"]
  /\ UNCHANGED <<vars, settling, requesting, stale, asked>>

\* RUNNING before the vendor is asked, whatever the status was...
BrandLook(t, k) ==
  /\ CanLookUp(t, k)
  /\ Write(SubjectOf[t], "RUNNING")
  /\ lookup' = [lookup EXCEPT ![t][k] = "asking"]
  /\ UNCHANGED <<vars, settling, requesting, stale, asked>>

\* ... and the answer after.
BrandAnswer(t, k) ==
  /\ lookup[t][k] = "asking" /\ phase[t][k] = "running"
  /\ \E answer \in {"SKIPPED", "FAILED", "COMPLETE"} :
       Write(SubjectOf[t], answer)
  /\ lookup' = [lookup EXCEPT ![t][k] = "answered"]
  /\ UNCHANGED <<vars, settling, requesting, stale, asked>>

\* With the attempt its lookup is over, and nothing tells how far it came.
LookupOver(t, k) == lookup' = [lookup EXCEPT ![t][k] = "none"]

\* completeTask, then settle COMPLETE for the caller that finished the row
\* of a session; a direct handler settles nothing when it succeeds.
Finish(t, k) ==
  /\ lookup[t][k] # "asking"
  /\ KindOf[t] = BrandKind => lookup[t][k] = "answered"
  /\ Complete(t, k)
  /\ IF st[t] = "open" THEN Ended({t}) ELSE UNCHANGED endedAfter
  /\ IF st[t] = "open" /\ ~Direct(t) THEN Settle({t}, k, "COMPLETE")
     ELSE UNCHANGED settling
  /\ LookupOver(t, k)
  /\ UNCHANGED <<status, requesting, stale, asked>>

\* The attempt dies without a word or leaves a retryable lookup open, or its
\* failure is settled on the record.
Drop(t, k) ==
  /\ Abandon(t, k)
  /\ \/ UNCHANGED settling
     \/ Settle({t}, k, "FAILED")
  /\ LookupOver(t, k)
  /\ UNCHANGED <<status, endedAfter, requesting, stale, asked>>

\* turn.failed: the row stays open and the session may still park.
TurnFails(t, k) ==
  /\ ~Direct(t) /\ phase[t][k] \in Turn
  /\ Settle({t}, k, "FAILED")
  /\ UNCHANGED <<vars, status, endedAfter, requesting, lookup, stale, asked>>

Book(t, k) ==
  /\ BookLook(t, k) \/ BookMove(t, k) \/ \E r \in Task : BookCreate(t, k, r)
  /\ UNCHANGED svars

RetireAbandoned ==
  /\ RetireExhausted
  /\ Ended(Exhausted)
  /\ Settle(Exhausted, 0, "FAILED")
  /\ UNCHANGED <<status, requesting, lookup, stale, asked>>

-----------------------------------------------------------------------------
(* settle, step by step.                                                   *)

Advance(m, guard) ==
  settling' = (settling \ {m}) \cup {[m EXCEPT !.guard = guard]}

\* taskEndedAt: a row that is still open settles a running record only.
ReadEnded(m) ==
  /\ m.guard = "unread"
  /\ Advance(m, IF st[m.task] = "finished" THEN "ended" ELSE "running")
  /\ UNCHANGED <<vars, status, endedAfter, requesting, lookup, stale, asked>>

\* hasOpenRequest: so does one whose record waits for another open row.
ReadOpenRequest(m) ==
  /\ m.guard = "ended"
  /\ Advance(m,
       IF \E t \in Task \ {m.task} :
            st[t] = "open" /\ SubjectOf[t] = SubjectOf[m.task]
       THEN "running" ELSE "orPending")
  /\ UNCHANGED <<vars, status, endedAfter, requesting, lookup, stale, asked>>

\* Mutant of Settleable: updatedAt is not compared with the row's end.
SettleableAnyTime(m) ==
  LET s == SubjectOf[m.task]
  IN status[s] = "RUNNING" \/ (m.guard = "orPending" /\ status[s] = "PENDING")

\* The guarded update: where RUNNING, or where PENDING and not written since
\* the row ended.
Settleable(m) ==
  LET s == SubjectOf[m.task]
  IN \/ status[s] = "RUNNING"
     \/ m.guard = "orPending" /\ status[s] = "PENDING"
          /\ m.task \in endedAfter[s]

SettleWrite(m) ==
  /\ m.guard \in {"running", "orPending"}
  /\ settling' = settling \ {m}
  /\ IF Settleable(m) THEN Write(SubjectOf[m.task], m.to)
     ELSE UNCHANGED <<status, endedAfter>>
  /\ UNCHANGED <<vars, requesting, lookup, stale, asked>>

\* The settling process dies, or its write throws and is swallowed.
SettleLost(m) ==
  /\ settling' = settling \ {m}
  /\ UNCHANGED <<vars, status, endedAfter, requesting, lookup, stale, asked>>

-----------------------------------------------------------------------------
SNext ==
  \/ \E s \in Subject : RequestLook(s) \/ WriteOther(s)
  \/ \E s \in Subject, kind \in RequestKinds : RequestEnqueue(s, kind)
  \/ (Queueing \/ Clock \/ \E t \in Task : ClaimDue(t)) /\ UNCHANGED svars
  \/ RetireAbandoned
  \/ \E t \in Task, k \in Attempt :
       \/ BeginResearch(t, k) \/ BeginDirect(t, k) \/ BrandNowhere(t, k)
       \/ BrandLook(t, k) \/ BrandAnswer(t, k) \/ Finish(t, k) \/ Drop(t, k)
       \/ TurnFails(t, k) \/ Book(t, k)
  \/ \E m \in settling :
       ReadEnded(m) \/ ReadOpenRequest(m) \/ SettleWrite(m) \/ SettleLost(m)

SSpec == SInit /\ [][SNext]_allvars

-----------------------------------------------------------------------------
STypeOK ==
  /\ TypeOK
  /\ status \in [Subject -> {"PENDING", "RUNNING", "COMPLETE", "FAILED",
                             "SKIPPED"}]
  /\ endedAfter \in [Subject -> SUBSET Task]
  /\ settling \subseteq Settlement
  /\ requesting \subseteq Subject \X RequestKinds
  /\ lookup \in [Task -> [Attempt -> {"none", "asking", "answered"}]]
  /\ asked \subseteq Subject
  /\ stale \in [Subject -> SUBSET Task]

\* A brand lookup of the record s gets its answer in this step.
LookupAnswers(s) ==
  \E t \in Task, k \in Attempt :
    /\ SubjectOf[t] = s
    /\ lookup[t][k] # "answered" /\ lookup'[t][k] = "answered"

\* The settlements of the record s that are over with this step.
Settled(s) == {m \in settling \ settling' : SubjectOf[m.task] = s}

\* What settles a record is entitled to, however late it runs.  A task that had
\* ended before a fresh request was made does not fail it: settle compares the
\* record's updatedAt with the row's finishedAt in the write itself.  A record
\* turns COMPLETE only for the caller whose completeTask finished the row as
\* "ran", not for a turn that parks on a row that another caller finished or that
\* was retired.  A brand lookup that answers may do both.
SettledByItsOwn ==
  [][\A s \in Subject : ~LookupAnswers(s) =>
       /\ status[s] = "PENDING" /\ status'[s] = "FAILED" =>
            \E m \in Settled(s) : m.task \notin stale[s]
       /\ status[s] # "COMPLETE" /\ status'[s] = "COMPLETE" =>
            \E m \in Settled(s) : outcome[m.task] = "ran" /\ m.by \in finisher[m.task]
    ]_allvars

\* What enrich answers, queued: true.  Once its enqueues are through, a record
\* it left PENDING has an open task of each kind it asks for, which will look at
\* it, unless the task found open was already under way
\* (contacts.service.ts:592-614).  (Records a task was retired on are left out:
\* there the settlement may be lost with the process.)
RequestIsQueued ==
  \A s \in asked :
    /\ status[s] = "PENDING" /\ (\A r \in requesting : r[1] # s)
    /\ \A t \in Task : SubjectOf[t] = s => outcome[t] # "retired"
    => \A kind \in RequestKinds : OpenRows(kind, s) # {}
=============================================================================
