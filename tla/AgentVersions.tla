----------------------------- MODULE AgentVersions -----------------------------
(***************************************************************************)
(* One team agent: its versions, the version that is current, the triggers *)
(* of each, and the runs the triggers queue.  Members draft with the       *)
(* builder, deploy, edit, pause, archive and delete through the API; the   *)
(* agent worker reads the triggers without a lock and queues later.        *)
(*                                                                         *)
(* The API locks the agent's row in every transaction below, so each is    *)
(* one action.  A version is its number, and a trigger row is known by the *)
(* draft it was created with: the schedule and the event trigger of a      *)
(* draft are enabled and moved together and share a row here.  Time is     *)
(* counted in slots of the schedule's interval.                            *)
(*                                                                         *)
(* Left out: names, manifests and files of a version, and the life of a    *)
(* run after it is queued (AgentRun).                                      *)
(***************************************************************************)
EXTENDS Naturals, FiniteSets

CONSTANTS
  MaxVersion, \* bound: versions of the agent
  MaxSlot,    \* bound: slots that pass
  Sweep,      \* sweeps of the schedule under way at once
  Listener,   \* event tasks worked on at once
  Event       \* agent-event tasks

ASSUME VersionsAssumption ==
  /\ MaxVersion \in Nat \ {0} /\ MaxSlot \in Nat \ {0}
  /\ Event \cap Nat = {}

VARIABLES
  standing,    \* agentDefinition.status, "none" before the first draft
  current,   \* currentVersionId, 0 = NULL
  vstatus,   \* vstatus[v]: "none", "READY" or "DEPLOYED"
  approved,  \* versions with approvedAt
  moved,     \* moved[t]: versionId of trigger t, 0 before it exists
  enabled,   \* triggers that are enabled
  due,       \* due[t]: slot of nextRunAt, 0 = NULL
  now,       \* the slot it is
  runs,      \* runs queued: [trigger, key, version], key a slot or a task
  sweep,     \* sweep[w]: a due trigger as sweep w read it
  listener   \* listener[w]: an event trigger as task worker w read it

versions == <<current, vstatus, approved>>
triggers == <<moved, enabled, due>>
workers == <<sweep, listener>>
vvars == <<standing, versions, triggers, now, runs, workers>>

Version == 1..MaxVersion
Trigger == Version
Slot == 1..MaxSlot
Made == {v \in Version : vstatus[v] # "none"}
Number == Cardinality(Made) + 1      \* nextVersionNumber

Nothing == [trigger |-> 0]
DueTrigger == [trigger : Trigger, version : Version, at : Slot, next : 1..(MaxSlot + 1)]
EventTrigger == [trigger : Trigger, version : Version, task : Event,
                 eligible : BOOLEAN]

VInit ==
  /\ standing = "none" /\ current = 0 /\ approved = {}
  /\ vstatus = [v \in Version |-> "none"]
  /\ moved = [t \in Trigger |-> 0] /\ enabled = {}
  /\ due = [t \in Trigger |-> 0]
  /\ now = 1 /\ runs = {}
  /\ sweep = [w \in Sweep |-> Nothing]
  /\ listener = [w \in Listener |-> Nothing]

-----------------------------------------------------------------------------
(* The builder and the API.                                                *)

\* Mutant of Drafted: a draft of a live agent replaces the version at once.
DraftedLive(at) ==
  /\ Number \in Version
  /\ vstatus' = [vstatus EXCEPT ![Number] = "READY"]
  /\ moved' = [moved EXCEPT ![Number] = Number]
  /\ due' = [due EXCEPT ![Number] = at]
  /\ enabled' = enabled \cup {t \in {Number} : standing = "LIVE"}

\* saveBuilderDraft: a READY version with triggers nobody enabled, the
\* schedule's first slot in the future.  A draft equal to the latest READY
\* version makes none.
Drafted(at) ==
  /\ Number \in Version
  /\ vstatus' = [vstatus EXCEPT ![Number] = "READY"]
  /\ moved' = [moved EXCEPT ![Number] = Number]
  /\ due' = [due EXCEPT ![Number] = at]
  /\ enabled' = enabled

SaveDraft ==
  /\ standing # "DELETED"
  /\ standing' = IF standing = "none" THEN "DRAFT" ELSE standing
  /\ \E at \in {0, now + 1} : at <= MaxSlot /\ Drafted(at)
  /\ UNCHANGED <<current, approved, now, runs, workers>>

Repointed(new) == [t \in Trigger |-> IF moved[t] = current THEN new ELSE moved[t]]

\* saveFile and revise: a copy of the current version with its standing, and
\* its triggers.
Edit ==
  /\ standing # "DELETED" /\ current # 0
  /\ Number \in Version
  /\ vstatus' = [vstatus EXCEPT ![Number] = vstatus[current]]
  /\ approved' = approved \cup {v \in {Number} : current \in approved}
  /\ moved' = Repointed(Number)
  /\ current' = Number
  /\ UNCHANGED <<standing, enabled, due, now, runs, workers>>

Heard(v) == {t \in Trigger : moved[t] = v}

Deploy(v) ==
  /\ standing \notin {"none", "DELETED"} /\ v \in Made
  /\ vstatus' = [u \in Version |-> IF u = v THEN "DEPLOYED"
                                   ELSE IF vstatus[u] = "DEPLOYED" THEN "READY"
                                   ELSE vstatus[u]]
  /\ approved' = approved \cup {v}
  /\ current' = v
  /\ standing' = "LIVE"
  /\ enabled' = Heard(v)
  /\ UNCHANGED <<moved, due, now, runs, workers>>

ChangeStatus(from, to) ==
  /\ standing \in from /\ standing' = to
  /\ UNCHANGED <<versions, triggers, now, runs, workers>>

Pause == ChangeStatus({"LIVE"}, "PAUSED")
Resume == ChangeStatus({"PAUSED"}, "LIVE")
Archive == ChangeStatus({"LIVE", "PAUSED"}, "ARCHIVED")
Restore == ChangeStatus({"ARCHIVED"}, "PAUSED")

\* remove; it cancels the runs it finds queued (AgentRun).
RemoveAgent ==
  /\ standing \notin {"none", "DELETED"}
  /\ standing' = "DELETED"
  /\ enabled' = {}
  /\ due' = [t \in Trigger |-> IF t \in enabled THEN 0 ELSE due[t]]
  /\ UNCHANGED <<versions, moved, now, runs, workers>>

-----------------------------------------------------------------------------
(* The worker.                                                             *)

Tick ==
  /\ now < MaxSlot /\ now' = now + 1
  /\ UNCHANGED <<standing, versions, triggers, runs, workers>>

\* upsert by idempotencyKey: what is there stays as it is.
Queue(t, key, v) ==
  runs' = IF \E r \in runs : r.trigger = t /\ r.key = key THEN runs
          ELSE runs \cup {[trigger |-> t, key |-> key, version |-> v]}

\* queueDueAgentRuns reads the due triggers of live agents; advance() skips
\* the slots that passed by then.
ReadDue(w, t) ==
  /\ standing = "LIVE" /\ t \in enabled
  /\ due[t] # 0 /\ due[t] <= now
  /\ sweep[w] = Nothing
  /\ sweep' = [sweep EXCEPT ![w] = [trigger |-> t, version |-> moved[t],
                                    at |-> due[t], next |-> now + 1]]
  /\ UNCHANGED <<standing, versions, triggers, now, runs, listener>>

\* Mutant of StillDue: the agent is looked at, the trigger is not.
StillDueLive(d) == standing = "LIVE"

StillDue(d) == standing = "LIVE" /\ d.trigger \in enabled /\ due[d.trigger] = d.at

\* Then, trigger by trigger under the lock on the agent, the slot is taken and
\* its run queued: with the version that was read.
QueueDue(w) ==
  /\ sweep[w] # Nothing /\ sweep' = [sweep EXCEPT ![w] = Nothing]
  /\ IF StillDue(sweep[w])
     THEN /\ due' = [due EXCEPT ![sweep[w].trigger] = sweep[w].next]
          /\ Queue(sweep[w].trigger, sweep[w].at, sweep[w].version)
     ELSE UNCHANGED <<due, runs>>
  /\ UNCHANGED <<standing, versions, moved, enabled, now, listener>>

\* queueEventAgentRuns reads the triggers of an event ...
ReadEvent(w, t, e) ==
  /\ standing = "LIVE" /\ t \in enabled
  /\ listener[w] = Nothing
  /\ listener' = [listener EXCEPT ![w] = [trigger |-> t, version |-> moved[t],
                                          task |-> e, eligible |-> FALSE]]
  /\ UNCHANGED <<standing, versions, triggers, now, runs, sweep>>

\* ... looks again at each ...
CheckEvent(w) ==
  /\ listener[w] # Nothing /\ ~listener[w].eligible
  /\ listener' = [listener EXCEPT ![w] =
       IF standing = "LIVE" /\ @.trigger \in enabled
       THEN [@ EXCEPT !.eligible = TRUE] ELSE Nothing]
  /\ UNCHANGED <<standing, versions, triggers, now, runs, sweep>>

\* ... and queues, with no lock on the agent.
QueueEvent(w) ==
  /\ listener[w] # Nothing /\ listener[w].eligible
  /\ Queue(listener[w].trigger, listener[w].task, listener[w].version)
  /\ listener' = [listener EXCEPT ![w] = Nothing]
  /\ UNCHANGED <<standing, versions, triggers, now, sweep>>

VNext ==
  \/ SaveDraft \/ Edit \/ (\E v \in Version : Deploy(v))
  \/ Pause \/ Resume \/ Archive \/ Restore \/ RemoveAgent
  \/ Tick
  \/ \E w \in Sweep : QueueDue(w) \/ \E t \in Trigger : ReadDue(w, t)
  \/ \E w \in Listener :
       \/ CheckEvent(w) \/ QueueEvent(w)
       \/ \E t \in Trigger, e \in Event : ReadEvent(w, t, e)

\* The cron job sweeps every minute: what is due is read and taken.
VSpec ==
  /\ VInit /\ [][VNext]_vvars
  /\ \A w \in Sweep : WF_vvars(QueueDue(w))
  /\ \A t \in Trigger : WF_vvars(\E w \in Sweep : ReadDue(w, t))

-----------------------------------------------------------------------------
(* Properties.                                                             *)

\* Every variable has its type (schema.prisma, AgentDefinition).
VTypeOK ==
  /\ standing \in {"none", "DRAFT", "LIVE", "PAUSED", "ARCHIVED", "DELETED"}
  /\ current \in {0} \cup Version
  /\ vstatus \in [Version -> {"none", "READY", "DEPLOYED"}]
  /\ approved \subseteq Version
  /\ moved \in [Trigger -> {0} \cup Version] /\ enabled \subseteq Trigger
  /\ due \in [Trigger -> 0..(MaxSlot + 1)]
  /\ now \in Slot
  /\ runs \subseteq [trigger : Trigger, key : Slot \cup Event, version : Version]
  /\ sweep \in [Sweep -> {Nothing} \cup DueTrigger]
  /\ listener \in [Listener -> {Nothing} \cup EventTrigger]

\* A run executes a version somebody deployed, whatever became of the trigger
\* between the moment a worker read it and the moment it queued the run
\* (docs/agent.md, "Deployment is the human approval boundary").
RunsAreApproved == \A r \in runs : r.version \in approved

IsDue(t) == standing = "LIVE" /\ t \in enabled /\ due[t] \in 1..now

TakenInOrder ==
  /\ \A r \in runs' \ runs : r.key \in Slot =>
       IsDue(r.trigger) /\ due[r.trigger] = r.key /\ due'[r.trigger] > r.key
  /\ \A t \in Trigger :
       IsDue(t) /\ standing' = "LIVE" /\ t \in enabled' /\ due'[t] # due[t]
         => \E r \in runs' : r.trigger = t /\ r.key = due[t]

\* A slot is taken once: a sweep that read the trigger before another sweep
\* moved it on, or before the trigger was switched off or the agent deleted,
\* queues nothing; and a slot that is due is not passed over without a run
\* (custom-agent-dispatch.ts:231-246).
SlotsAreTakenInOrder == [][TakenInOrder]_vvars

=============================================================================
