---------------------------- MODULE AgentsProofs ----------------------------
(***************************************************************************)
(* Proofs about how an agent comes to be: its versions and triggers        *)
(* (AgentVersions), the channels of Slack it may post to (SlackInventory)  *)
(* and the conversation that drafts it (BuilderConversation), for any      *)
(* number of versions, workers, channels, messages and failures.           *)
(***************************************************************************)
EXTENDS AgentVersions, SlackInventory, BuilderConversation, TLAPS, FiniteSetTheorems, WellFoundedInduction

(***************************************************************************)
(* Versions.  No worker holds a lock when it queues a run, so what makes   *)
(* its version an approved one must hold when the trigger is read and last *)
(* until then: an enabled trigger is of an approved version, and approval  *)
(* is never taken back.  That a new draft's trigger is not enabled by      *)
(* anybody before it is there rests on how versions are numbered.          *)
(***************************************************************************)

MadeInOrder == \E n \in 0..MaxVersion : Made = 1..n

CurrentIsMade == current # 0 => current \in Made

TriggersAreMade == \A t \in Trigger : moved[t] # 0 => t \in Made

EnabledAreApproved == \A t \in enabled : moved[t] \in approved

WorkersHoldApproved ==
  /\ \A w \in Sweep : sweep[w] # Nothing =>
       /\ sweep[w].version \in approved
       /\ sweep[w].at <= now /\ sweep[w].at < sweep[w].next
  /\ \A w \in Listener : listener[w] # Nothing => listener[w].version \in approved

VInv == /\ VTypeOK /\ MadeInOrder /\ CurrentIsMade /\ TriggersAreMade
        /\ EnabledAreApproved /\ WorkersHoldApproved /\ RunsAreApproved

-----------------------------------------------------------------------------
\* The number of a new version is the first that is not made.
LEMMA NextNumber ==
  ASSUME MadeInOrder
  PROVE  Number \in Nat \ {0} /\ Number \notin Made /\ Made = 1..(Number - 1)
<1>1. PICK n \in 0..MaxVersion : Made = 1..n
  BY DEF MadeInOrder
<1>2. n \in Nat
  BY VersionsAssumption
<1>3. Cardinality(1..n) = n
  BY <1>2, FS_Interval
<1>. QED
  BY <1>1, <1>2, <1>3 DEF Number

\* Queueing a run of a known trigger, key and version keeps the types, and adds
\* that run or nothing.
LEMMA QueueRun ==
  ASSUME VTypeOK, NEW t \in Trigger, NEW key \in Slot \cup Event,
         NEW v \in Version, Queue(t, key, v)
  PROVE  /\ runs' \subseteq [trigger : Trigger, key : Slot \cup Event, version : Version]
         /\ runs \subseteq runs'
         /\ \A r \in runs' \ runs : r = [trigger |-> t, key |-> key, version |-> v]
         /\ \E r \in runs' : r.trigger = t /\ r.key = key
<1>1. CASE \E r \in runs : r.trigger = t /\ r.key = key
  <2>1. runs' = runs
    BY <1>1 DEF Queue
  <2>. QED
    BY <1>1, <2>1 DEF VTypeOK
<1>2. CASE ~\E r \in runs : r.trigger = t /\ r.key = key
  <2>1. runs' = runs \cup {[trigger |-> t, key |-> key, version |-> v]}
    BY <1>2 DEF Queue
  <2>2. [trigger |-> t, key |-> key, version |-> v]
          \in [trigger : Trigger, key : Slot \cup Event, version : Version]
    OBVIOUS
  <2>3. [trigger |-> t, key |-> key, version |-> v] \in runs'
    BY <2>1
  <2>4. \E r \in runs' : r.trigger = t /\ r.key = key
    BY <2>3
  <2>5. runs' \subseteq [trigger : Trigger, key : Slot \cup Event, version : Version]
    BY <2>1, <2>2 DEF VTypeOK
  <2>. QED
    BY <2>1, <2>4, <2>5
<1>. QED
  BY <1>1, <1>2

\* What a sweep or a task worker holds has its fields.
LEMMA Held ==
  ASSUME VTypeOK
  PROVE  /\ \A w \in Sweep : sweep[w] # Nothing =>
              /\ sweep[w] \in DueTrigger
              /\ sweep[w].trigger \in Trigger /\ sweep[w].version \in Version
              /\ sweep[w].at \in Slot /\ sweep[w].next \in 1..(MaxSlot + 1)
         /\ \A w \in Listener : listener[w] # Nothing =>
              /\ listener[w] \in EventTrigger
              /\ listener[w].trigger \in Trigger /\ listener[w].version \in Version
              /\ listener[w].task \in Event
BY DEF VTypeOK, DueTrigger, EventTrigger

-----------------------------------------------------------------------------
\* The builder and the API keep the types ...
LEMMA ApiTypes ==
  ASSUME VTypeOK, MadeInOrder, CurrentIsMade,
         \/ SaveDraft \/ Edit \/ (\E v \in Version : Deploy(v))
         \/ Pause \/ Resume \/ Archive \/ Restore \/ RemoveAgent \/ Tick
  PROVE  VTypeOK'
<1> USE VersionsAssumption DEF VTypeOK, Version, Trigger, Slot
<1>1. CASE SaveDraft
  <2>1. PICK slot \in {0, now + 1} : slot <= MaxSlot /\ Drafted(slot)
    BY <1>1 DEF SaveDraft
  <2>2. slot \in 0..(MaxSlot + 1)
    BY <2>1
  <2>3. vstatus' \in [Version -> {"none", "READY", "DEPLOYED"}]
    BY <2>1 DEF Drafted
  <2>4. moved' \in [Trigger -> {0} \cup Version] /\ due' \in [Trigger -> 0..(MaxSlot + 1)]
    BY <2>1, <2>2 DEF Drafted
  <2>. QED
    BY <1>1, <2>1, <2>3, <2>4 DEF SaveDraft, Drafted, workers
<1>2. CASE Edit
  <2>1. current \in Version
    BY <1>2 DEF Edit
  <2>2. vstatus' \in [Version -> {"none", "READY", "DEPLOYED"}]
    BY <1>2, <2>1 DEF Edit
  <2>3. moved' \in [Trigger -> {0} \cup Version]
    BY <1>2 DEF Edit, Repointed
  <2>. QED
    BY <1>2, <2>2, <2>3 DEF Edit, workers
<1>3. CASE \E v \in Version : Deploy(v)
  BY <1>3 DEF Deploy, Heard, workers
<1>4. CASE Pause \/ Resume \/ Archive \/ Restore
  BY <1>4 DEF Pause, Resume, Archive, Restore, ChangeStatus, versions, triggers, workers
<1>5. CASE RemoveAgent
  BY <1>5 DEF RemoveAgent, versions, workers
<1>6. CASE Tick
  BY <1>6 DEF Tick, versions, triggers, workers
<1>. QED
  BY <1>1, <1>2, <1>3, <1>4, <1>5, <1>6

\* ... and so does the worker.
LEMMA WorkerTypes ==
  ASSUME VTypeOK,
         \/ \E w \in Sweep : QueueDue(w) \/ \E t \in Trigger : ReadDue(w, t)
         \/ \E w \in Listener :
              \/ CheckEvent(w) \/ QueueEvent(w)
              \/ \E t \in Trigger, e \in Event : ReadEvent(w, t, e),
         EnabledAreApproved
  PROVE  VTypeOK'
<1> USE VersionsAssumption DEF versions, triggers
<1>1. ASSUME NEW w \in Sweep, QueueDue(w) PROVE VTypeOK'
  <2>1. sweep' \in [Sweep -> {Nothing} \cup DueTrigger]
    BY <1>1 DEF QueueDue, VTypeOK
  <2>2. CASE StillDue(sweep[w])
    <3>1. /\ due' = [due EXCEPT ![sweep[w].trigger] = sweep[w].next]
          /\ Queue(sweep[w].trigger, sweep[w].at, sweep[w].version)
      BY <1>1, <2>2 DEF QueueDue
    <3>2. runs' \subseteq [trigger : Trigger, key : Slot \cup Event, version : Version]
      BY <1>1, <3>1, QueueRun, Held DEF QueueDue
    <3>3. due' \in [Trigger -> 0..(MaxSlot + 1)]
      BY <1>1, <3>1, Held DEF QueueDue, VTypeOK
    <3>. QED
      BY <1>1, <2>1, <3>2, <3>3 DEF QueueDue, VTypeOK
  <2>3. CASE ~StillDue(sweep[w])
    BY <1>1, <2>1, <2>3 DEF QueueDue, VTypeOK
  <2>. QED
    BY <2>2, <2>3
<1>2. ASSUME NEW w \in Sweep, NEW t \in Trigger, ReadDue(w, t) PROVE VTypeOK'
  <2>1. moved[t] \in Version
    BY <1>2 DEF ReadDue, EnabledAreApproved, VTypeOK
  <2>2. due[t] \in Slot /\ now + 1 \in 1..(MaxSlot + 1)
    BY <1>2 DEF ReadDue, VTypeOK, Slot
  <2>3. [trigger |-> t, version |-> moved[t], at |-> due[t], next |-> now + 1] \in DueTrigger
    BY <2>1, <2>2 DEF DueTrigger
  <2>. QED
    BY <1>2, <2>3 DEF ReadDue, VTypeOK
<1>3. ASSUME NEW w \in Listener, CheckEvent(w) PROVE VTypeOK'
  <2>1. [listener[w] EXCEPT !.eligible = TRUE] \in EventTrigger
    BY <1>3, Held DEF CheckEvent, EventTrigger
  <2>2. listener' \in [Listener -> {Nothing} \cup EventTrigger]
    BY <1>3, <2>1 DEF CheckEvent, VTypeOK
  <2>. QED
    BY <1>3, <2>2 DEF CheckEvent, VTypeOK
<1>4. ASSUME NEW w \in Listener, QueueEvent(w) PROVE VTypeOK'
  <2>1. runs' \subseteq [trigger : Trigger, key : Slot \cup Event, version : Version]
    BY <1>4, QueueRun, Held DEF QueueEvent
  <2>. QED
    BY <1>4, <2>1 DEF QueueEvent, VTypeOK
<1>5. ASSUME NEW w \in Listener, NEW t \in Trigger, NEW e \in Event,
             ReadEvent(w, t, e)
      PROVE  VTypeOK'
  <2>1. [trigger |-> t, version |-> moved[t], task |-> e, eligible |-> FALSE] \in EventTrigger
    BY <1>5 DEF ReadEvent, EnabledAreApproved, VTypeOK, EventTrigger
  <2>. QED
    BY <1>5, <2>1 DEF ReadEvent, VTypeOK
<1>. QED
  BY <1>1, <1>2, <1>3, <1>4, <1>5

-----------------------------------------------------------------------------
\* The API keeps what the versions, the triggers and the workers rest on.
LEMMA ApiStep ==
  ASSUME VInv,
         \/ SaveDraft \/ Edit \/ (\E v \in Version : Deploy(v))
         \/ Pause \/ Resume \/ Archive \/ Restore \/ RemoveAgent \/ Tick
  PROVE  VInv'
<1>0. VTypeOK'
  BY ApiTypes DEF VInv
<1> USE DEF VInv, VTypeOK, RunsAreApproved
<1>1. CASE SaveDraft
  <2>1. PICK slot \in {0, now + 1} : Drafted(slot)
    BY <1>1 DEF SaveDraft
  <2>2. Number \in Version /\ Number \notin Made /\ Made = 1..(Number - 1)
    BY <2>1, NextNumber DEF Drafted
  <2>3. Made' = Made \cup {Number}
    BY <2>1, <2>2 DEF Drafted, Made
  <2>4. MadeInOrder'
    <3>1. Made' = 1..Number /\ Number \in 0..MaxVersion
      BY <2>2, <2>3, VersionsAssumption DEF Version
    <3>. QED
      BY <3>1 DEF MadeInOrder
  <2>5. TriggersAreMade' /\ CurrentIsMade'
    BY <1>1, <2>1, <2>3 DEF SaveDraft, Drafted, TriggersAreMade, CurrentIsMade, Trigger
  <2>6. Number \notin enabled
    <3>1. \A t \in enabled : moved[t] # 0
      BY VersionsAssumption DEF EnabledAreApproved, Version
    <3>. QED
      BY <2>2, <3>1 DEF TriggersAreMade
  <2>7. EnabledAreApproved'
    BY <1>1, <2>1, <2>6 DEF SaveDraft, Drafted, EnabledAreApproved
  <2>8. WorkersHoldApproved' /\ RunsAreApproved'
    BY <1>1 DEF SaveDraft, workers, WorkersHoldApproved
  <2>. QED
    BY <1>0, <2>4, <2>5, <2>7, <2>8
<1>2. CASE Edit
  <2>1. current \in Made /\ Number \in Version
    BY <1>2 DEF Edit, CurrentIsMade
  <2>2. Number \notin Made /\ Made = 1..(Number - 1) /\ Number \in Nat
    BY NextNumber
  <2>3. Made' = Made \cup {Number}
    BY <1>2, <2>1 DEF Edit, Made
  <2>4. MadeInOrder'
    <3>1. Made' = 1..Number /\ Number \in 0..MaxVersion
      BY <2>1, <2>2, <2>3, VersionsAssumption DEF Version
    <3>. QED
      BY <3>1 DEF MadeInOrder
  <2>5. TriggersAreMade' /\ CurrentIsMade'
    BY <1>2, <2>1, <2>3 DEF Edit, Repointed, TriggersAreMade, CurrentIsMade
  <2>6. EnabledAreApproved'
    <3> SUFFICES ASSUME NEW t \in enabled PROVE moved'[t] \in approved'
      BY <1>2 DEF Edit, EnabledAreApproved
    <3>1. moved[t] \in approved
      BY DEF EnabledAreApproved
    <3>2. CASE moved[t] = current
      BY <1>2, <3>1, <3>2 DEF Edit, Repointed
    <3>3. CASE moved[t] # current
      BY <1>2, <3>1, <3>3 DEF Edit, Repointed
    <3>. QED
      BY <3>2, <3>3
  <2>7. WorkersHoldApproved' /\ RunsAreApproved'
    BY <1>2 DEF Edit, workers, WorkersHoldApproved
  <2>. QED
    BY <1>0, <2>4, <2>5, <2>6, <2>7
<1>3. ASSUME NEW v \in Version, Deploy(v) PROVE VInv'
  <2>1. Made' = Made
    BY <1>3 DEF Deploy, Made
  <2>2. MadeInOrder' /\ CurrentIsMade' /\ TriggersAreMade'
    BY <1>3, <2>1 DEF Deploy, MadeInOrder, CurrentIsMade, TriggersAreMade
  <2>3. EnabledAreApproved'
    BY <1>3 DEF Deploy, Heard, EnabledAreApproved
  <2>4. WorkersHoldApproved' /\ RunsAreApproved'
    BY <1>3 DEF Deploy, workers, WorkersHoldApproved
  <2>. QED
    BY <1>0, <2>2, <2>3, <2>4
<1>4. CASE Pause \/ Resume \/ Archive \/ Restore
  <2>1. UNCHANGED <<versions, triggers, now, runs, workers>>
    BY <1>4 DEF Pause, Resume, Archive, Restore, ChangeStatus
  <2>. QED
    BY <1>0, <2>1 DEF versions, triggers, workers, Made, MadeInOrder, CurrentIsMade,
         TriggersAreMade, EnabledAreApproved, WorkersHoldApproved
<1>5. CASE RemoveAgent
  BY <1>0, <1>5 DEF RemoveAgent, versions, workers, Made, MadeInOrder, CurrentIsMade,
       TriggersAreMade, EnabledAreApproved, WorkersHoldApproved
<1>6. CASE Tick
  <2>1. UNCHANGED <<versions, triggers, runs, workers>> /\ now' = now + 1
    BY <1>6 DEF Tick
  <2>2. WorkersHoldApproved'
    BY <2>1, Held DEF workers, versions, WorkersHoldApproved, Slot
  <2>. QED
    BY <1>0, <2>1, <2>2 DEF versions, triggers, Made, MadeInOrder, CurrentIsMade,
         TriggersAreMade, EnabledAreApproved
<1>. QED
  BY <1>1, <1>2, <1>3, <1>4, <1>5, <1>6

\* So do the workers, who queue a version that was approved when they read it.
LEMMA WorkerStep ==
  ASSUME VInv,
         \/ \E w \in Sweep : QueueDue(w) \/ \E t \in Trigger : ReadDue(w, t)
         \/ \E w \in Listener :
              \/ CheckEvent(w) \/ QueueEvent(w)
              \/ \E t \in Trigger, e \in Event : ReadEvent(w, t, e)
  PROVE  VInv'
<1>1. VTypeOK'
  BY WorkerTypes DEF VInv
<1>2. UNCHANGED <<standing, versions, moved, enabled, now>>
  BY DEF QueueDue, ReadDue, CheckEvent, QueueEvent, ReadEvent, triggers
<1>3. MadeInOrder' /\ CurrentIsMade' /\ TriggersAreMade' /\ EnabledAreApproved'
  BY <1>2 DEF VInv, versions, Made, MadeInOrder, CurrentIsMade, TriggersAreMade,
       EnabledAreApproved
<1>4. WorkersHoldApproved' /\ RunsAreApproved'
  <2> USE <1>2 DEF VInv, VTypeOK, versions, WorkersHoldApproved, RunsAreApproved
  <2>1. ASSUME NEW w \in Sweep, QueueDue(w)
        PROVE  WorkersHoldApproved' /\ RunsAreApproved'
    <3>1. CASE StillDue(sweep[w])
      <4>1. \A r \in runs' \ runs : r.version = sweep[w].version
        BY <2>1, <3>1, QueueRun, Held DEF QueueDue
      <4>. QED
        BY <2>1, <4>1 DEF QueueDue
    <3>2. CASE ~StillDue(sweep[w])
      BY <2>1, <3>2 DEF QueueDue
    <3>. QED
      BY <3>1, <3>2
  <2>2. ASSUME NEW w \in Sweep, NEW t \in Trigger, ReadDue(w, t)
        PROVE  WorkersHoldApproved' /\ RunsAreApproved'
    <3>1. sweep'[w] = [trigger |-> t, version |-> moved[t], at |-> due[t], next |-> now + 1]
      BY <2>2 DEF ReadDue
    <3>2. moved[t] \in approved /\ due[t] <= now /\ due[t] < now + 1
      BY <2>2, VersionsAssumption DEF ReadDue, EnabledAreApproved, Slot
    <3>3. \A x \in Sweep \ {w} : sweep'[x] = sweep[x]
      BY <2>2 DEF ReadDue
    <3>. QED
      BY <2>2, <3>1, <3>2, <3>3 DEF ReadDue
  <2>3. ASSUME NEW w \in Listener, CheckEvent(w)
        PROVE  WorkersHoldApproved' /\ RunsAreApproved'
    <3>1. listener'[w] # Nothing => listener'[w].version = listener[w].version
      BY <2>3, Held DEF CheckEvent, EventTrigger
    <3>. QED
      BY <2>3, <3>1 DEF CheckEvent
  <2>4. ASSUME NEW w \in Listener, QueueEvent(w)
        PROVE  WorkersHoldApproved' /\ RunsAreApproved'
    <3>1. \A r \in runs' \ runs : r.version = listener[w].version
      BY <2>4, QueueRun, Held DEF QueueEvent
    <3>. QED
      BY <2>4, <3>1 DEF QueueEvent
  <2>5. ASSUME NEW w \in Listener, NEW t \in Trigger, NEW e \in Event, ReadEvent(w, t, e)
        PROVE  WorkersHoldApproved' /\ RunsAreApproved'
    <3>1. moved[t] \in approved
      BY <2>5 DEF ReadEvent, EnabledAreApproved
    <3>. QED
      BY <2>5, <3>1 DEF ReadEvent
  <2>. QED
    BY <2>1, <2>2, <2>3, <2>4, <2>5
<1>. QED
  BY <1>1, <1>3, <1>4 DEF VInv

LEMMA VersionsStep == VInv /\ [VNext]_vvars => VInv'
<1> SUFFICES ASSUME VInv, [VNext]_vvars PROVE VInv'
    OBVIOUS
<1>1. CASE UNCHANGED vvars
  BY <1>1 DEF VInv, VTypeOK, vvars, versions, triggers, workers, Made, MadeInOrder,
       CurrentIsMade, TriggersAreMade, EnabledAreApproved, WorkersHoldApproved,
       RunsAreApproved
<1>. QED
  BY <1>1, ApiStep, WorkerStep DEF VNext

LEMMA VersionsInductive == VSpec => []VInv
<1>1. VInit => VInv
  <2> SUFFICES ASSUME VInit PROVE VInv
      OBVIOUS
  <2>1. VTypeOK
    BY VersionsAssumption DEF VInit, VTypeOK, Version, Trigger, Slot
  <2>2. Made = 1..0 /\ 0 \in 0..MaxVersion
    BY VersionsAssumption DEF VInit, Made, Version
  <2>. QED
    BY <2>1, <2>2 DEF VInit, VInv, MadeInOrder, CurrentIsMade, TriggersAreMade,
         EnabledAreApproved, WorkersHoldApproved, RunsAreApproved
<1>. QED
  BY <1>1, VersionsStep, PTL DEF VSpec

\* THEOREM: every reachable state of an agent's versions, triggers and workers
\* has the types that VTypeOK lists.
THEOREM VersionsTypeCorrect == VSpec => []VTypeOK
BY VersionsInductive, PTL DEF VInv

\* THEOREM: a run executes a version that somebody deployed, however many
\* versions, sweeps and event tasks there are, and whatever is deployed, edited,
\* paused or deleted between the read of a trigger and the run it queues.
THEOREM RunsApproved == VSpec => []RunsAreApproved
BY VersionsInductive, PTL DEF VInv

\* The API queues nothing, and moves the slot of no trigger that stays enabled.
LEMMA ApiTakesNothing ==
  ASSUME VInv,
         \/ SaveDraft \/ Edit \/ (\E v \in Version : Deploy(v))
         \/ Pause \/ Resume \/ Archive \/ Restore \/ RemoveAgent \/ Tick
  PROVE  TakenInOrder
<1>1. runs' = runs
  BY DEF SaveDraft, Edit, Deploy, Pause, Resume, Archive, Restore, ChangeStatus,
     RemoveAgent, Tick
<1>2. ASSUME NEW t \in enabled, standing' = "LIVE" PROVE due'[t] = due[t]
  <2>1. CASE SaveDraft
    <3>1. PICK slot \in {0, now + 1} : Drafted(slot)
      BY <2>1 DEF SaveDraft
    <3>2. t # Number
      <4>1. moved[t] # 0 /\ t \in Trigger
        BY VersionsAssumption DEF VInv, VTypeOK, EnabledAreApproved, Version
      <4>. QED
        BY <4>1, NextNumber DEF VInv, TriggersAreMade
    <3>. QED
      BY <3>1, <3>2 DEF Drafted, VInv, VTypeOK
  <2>2. CASE ~SaveDraft
    BY <1>2, <2>2 DEF Edit, Deploy, Pause, Resume, Archive, Restore, ChangeStatus,
       RemoveAgent, Tick, triggers
  <2>. QED
    BY <2>1, <2>2
<1>. QED
  BY <1>1, <1>2 DEF TakenInOrder, IsDue

\* A sweep takes the slot that it read and that is still due, and an event task
\* takes none.
LEMMA WorkersTakeInOrder ==
  ASSUME VInv,
         \/ \E w \in Sweep : QueueDue(w) \/ \E t \in Trigger : ReadDue(w, t)
         \/ \E w \in Listener :
              \/ CheckEvent(w) \/ QueueEvent(w)
              \/ \E t \in Trigger, e \in Event : ReadEvent(w, t, e)
  PROVE  TakenInOrder
<1> USE DEF VInv, TakenInOrder
<1>1. ASSUME NEW w \in Sweep, QueueDue(w) PROVE TakenInOrder
  <2> DEFINE d == sweep[w]
  <2>0. d.trigger \in Trigger /\ d.at \in Slot /\ d.version \in Version /\ d.at <= now
        /\ d.at < d.next /\ d.next \in Nat
    BY <1>1, Held, VersionsAssumption DEF QueueDue, WorkersHoldApproved
  <2>1. CASE StillDue(d)
    <3>1. /\ due' = [due EXCEPT ![d.trigger] = d.next]
          /\ Queue(d.trigger, d.at, d.version)
      BY <1>1, <2>1 DEF QueueDue
    <3>2. IsDue(d.trigger) /\ due[d.trigger] = d.at
      BY <2>0, <2>1 DEF StillDue, IsDue, VTypeOK, Slot
    <3>3. due'[d.trigger] > d.at
      BY <2>0, <3>1 DEF VTypeOK, Slot
    <3>4. /\ \A r \in runs' \ runs : r.trigger = d.trigger /\ r.key = d.at
          /\ \E r \in runs' : r.trigger = d.trigger /\ r.key = d.at
      BY <2>0, <3>1, QueueRun
    <3>5. \A t \in Trigger : due'[t] # due[t] => t = d.trigger
      BY <3>1 DEF VTypeOK
    <3>. QED
      BY <3>2, <3>3, <3>4, <3>5
  <2>2. CASE ~StillDue(d)
    BY <1>1, <2>2 DEF QueueDue
  <2>. QED
    BY <2>1, <2>2
<1>2. ASSUME NEW w \in Sweep, NEW t \in Trigger, ReadDue(w, t) PROVE TakenInOrder
  BY <1>2 DEF ReadDue, triggers
<1>3. ASSUME NEW w \in Listener, CheckEvent(w) PROVE TakenInOrder
  BY <1>3 DEF CheckEvent, triggers
<1>4. ASSUME NEW w \in Listener, QueueEvent(w) PROVE TakenInOrder
  <2>1. \A r \in runs' \ runs : r.key = listener[w].task
    BY <1>4, QueueRun, Held DEF QueueEvent
  <2>2. listener[w].task \notin Slot
    BY <1>4, Held, VersionsAssumption DEF QueueEvent, Slot
  <2>. QED
    BY <1>4, <2>1, <2>2 DEF QueueEvent, triggers
<1>5. ASSUME NEW w \in Listener, NEW t \in Trigger, NEW e \in Event, ReadEvent(w, t, e)
      PROVE  TakenInOrder
  BY <1>5 DEF ReadEvent, triggers
<1>. QED
  BY <1>1, <1>2, <1>3, <1>4, <1>5

\* THEOREM: the slots of a schedule are taken in order, once each and none
\* passed over, however many sweeps read the same trigger at once and whatever
\* happens to it meanwhile.
THEOREM SlotsInOrder == VSpec => SlotsAreTakenInOrder
<1>1. VInv /\ [VNext]_vvars => [TakenInOrder]_vvars
  <2> SUFFICES ASSUME VInv, VNext PROVE TakenInOrder
      OBVIOUS
  <2>. QED
    BY ApiTakesNothing, WorkersTakeInOrder DEF VNext
<1>. QED
  BY <1>1, VersionsInductive, PTL DEF VSpec, SlotsAreTakenInOrder

-----------------------------------------------------------------------------
(***************************************************************************)
(* Channels of Slack.  The types need one fact that is not of this system: *)
(* the account written last is one of the accounts.                        *)
(***************************************************************************)

LEMMA LastIsOne ==
  ASSUME NEW n \in Nat, NEW S \in SUBSET (1..n), S # {}
  PROVE  Max(S) \in S
<1> DEFINE T == {n - x : x \in S}
<1>1. T \subseteq Nat /\ T # {}
  <2>1. \A x \in S : n - x \in Nat
    OBVIOUS
  <2>2. PICK x \in S : TRUE
    OBVIOUS
  <2>3. n - x \in T
    OBVIOUS
  <2>. QED
    BY <2>1, <2>3
<1>2. PICK t \in T : \A u \in T : ~(<<u, t>> \in OpToRel(<, Nat))
  BY <1>1, WFMin, NatLessThanWellFounded
<1>3. \A u \in T : u >= t
  <2> SUFFICES ASSUME NEW u \in T, u < t PROVE FALSE
    BY <1>1
  <2>1. <<u, t>> \in {ss \in Nat \X Nat : ss[1] < ss[2]}
    BY <1>1
  <2>. QED
    BY <1>2, <2>1 DEF OpToRel
<1>4. PICK x \in S : t = n - x
  OBVIOUS
<1>5. \A y \in S : x >= y
  <2> TAKE y \in S
  <2>1. n - y >= n - x
    BY <1>3, <1>4
  <2>. QED
    BY <2>1
<1>. QED
  BY <1>5 DEF Max

\* An errand knows its channel from its first step to its last, and what it
\* found it to be from when it has looked.
ErrandsKnow ==
  \A j \in Errand :
    /\ at[j] # "idle" => chan[j] \in Channel
    /\ at[j] \in {"correcting", "entering", "noting", "made"} => live[j] \in Kind

InvInv == ITypeOK /\ ErrandsKnow

LEMMA TokenType == ASSUME ITypeOK PROVE Token \in Team \cup {Nil}
<1>1. CASE accounts # {}
  <2>1. Max(accounts) \in Link
    BY <1>1, LastIsOne, InventoryAssumption DEF ITypeOK, Link
  <2>. QED
    BY <2>1 DEF Token, ITypeOK
<1>. QED
  BY <1>1 DEF Token

\* Slack, the connection and the queue leave attempts and errands alone.
LEMMA OutsideStep ==
  ASSUME InvInv,
         \/ \E c \in Channel : ChangeInSlack(c)
         \/ \E k \in Link : LinkStep(k) \/ SignInDies(k) \/ \E t \in Team : LinkSlack(k, t)
         \/ Disconnect \/ RequestSync \/ RequestStale \/ ThrottleEnds \/ RowsAge
  PROVE  InvInv'
<1> USE DEF InvInv, ITypeOK
<1>1. UNCHANGED procs
  BY DEF ChangeInSlack, LinkStep, Replace, QueueAfter, SignInDies, LinkSlack, Disconnect,
     RequestSync, RequestStale, ThrottleEnds, RowsAge
<1>2. ErrandsKnow'
  BY <1>1 DEF procs, ErrandsKnow
<1>3. slack' \in [Channel -> Kind \cup {"absent"}]
  BY DEF ChangeInSlack, LinkStep, Replace, QueueAfter, SignInDies, LinkSlack, Disconnect,
     RequestSync, RequestStale, ThrottleEnds, RowsAge
<1>4. /\ {wanted', throttled', fresh'} \subseteq BOOLEAN /\ serving' \subseteq Attempt
      /\ cached' \in [Channel -> Row \cup {Nil}]
  BY DEF ChangeInSlack, LinkStep, Replace, QueueAfter, SignInDies, LinkSlack, Disconnect,
     RequestSync, RequestStale, ThrottleEnds, RowsAge, queue, QueueSync, NewTask
<1>5. /\ accounts' \subseteq Link /\ team' \in [Link -> Team \cup {Nil}]
      /\ grant' \in Team \cup {Nil}
      /\ linking' \in [Link -> {"none", "written", "replaced", "over"}]
  <2>1. ASSUME NEW k \in Link, Replace(k) PROVE <1>5!:
    BY <2>1 DEF Replace
  <2>2. ASSUME NEW k \in Link, QueueAfter(k) \/ SignInDies(k) PROVE <1>5!:
    BY <2>2 DEF QueueAfter, SignInDies
  <2>3. ASSUME NEW k \in Link, NEW t \in Team, LinkSlack(k, t) PROVE <1>5!:
    BY <2>3 DEF LinkSlack
  <2>4. CASE Disconnect
    BY <2>4 DEF Disconnect
  <2>5. CASE UNCHANGED link
    BY <2>5 DEF link
  <2>. QED
    BY <2>1, <2>2, <2>3, <2>4, <2>5
       DEF LinkStep, ChangeInSlack, RequestSync, RequestStale, ThrottleEnds, RowsAge
<1>. QED
  BY <1>1, <1>2, <1>3, <1>4, <1>5 DEF procs

\* A process that is over keeps the types.
LEMMA EndsTypes ==
  ASSUME InvInv, NEW p \in Proc, Ends(p)
  PROVE  /\ at' \in [Proc -> {"idle", "listing", "writing", "looking", "correcting",
                              "entering", "noting", "made"}]
         /\ bot' \in [Proc -> Team \cup {Nil}]
         /\ found' \in [Attempt -> [Channel -> Kind \cup {"absent"}]]
         /\ chan' \in [Errand -> Channel \cup {Nil}]
         /\ live' \in [Errand -> Kind \cup {"absent"}]
         /\ ErrandsKnow'
<1> USE DEF InvInv, ITypeOK, Ends, GoTo
<1>1. found' \in [Attempt -> [Channel -> Kind \cup {"absent"}]]
  BY DEF Unlisted
<1>2. ErrandsKnow'
  BY DEF ErrandsKnow, Proc
<1>. QED
  BY <1>1, <1>2

\* The attempts at the inventory keep the types.
LEMMA AttemptsStep ==
  ASSUME InvInv,
         BeginInventory \/ \E a \in Attempt : AttemptStep(a) \/ AttemptFails(a)
  PROVE  InvInv'
<1> USE DEF InvInv, ITypeOK
<1>1. CASE BeginInventory
  <2> DEFINE a == CHOOSE b \in Attempt : at[b] = "idle"
  <2>1. a \in Attempt /\ a \in Proc /\ a \notin Errand
    BY <1>1, InventoryAssumption DEF BeginInventory, Proc
  <2>2. /\ at' \in [Proc -> {"idle", "listing", "writing", "looking", "correcting",
                             "entering", "noting", "made"}]
        /\ bot' \in [Proc -> Team \cup {Nil}]
        /\ serving' \subseteq Attempt /\ wanted' \in BOOLEAN
    <3>1. CASE Token = Nil
      BY <1>1, <3>1 DEF BeginInventory
    <3>2. CASE Token # Nil
      <4>1. /\ at' = [at EXCEPT ![a] = "listing"] /\ bot' = [bot EXCEPT ![a] = Token]
            /\ serving' = serving \cup {a} /\ wanted' = wanted
        BY <1>1, <3>2 DEF BeginInventory, GoTo
      <4>. QED
        BY <2>1, <4>1, TokenType
    <3>. QED
      BY <3>1, <3>2
  <2>3. \A j \in Errand : at'[j] = at[j]
    <3>1. at' = at \/ at' = [at EXCEPT ![a] = "listing"]
      BY <1>1 DEF BeginInventory, GoTo
    <3>. QED
      BY <2>1, <3>1 DEF Proc
  <2>4. ErrandsKnow'
    BY <1>1, <2>3 DEF BeginInventory, ErrandsKnow
  <2>. QED
    BY <1>1, <2>2, <2>4 DEF BeginInventory, link
<1>2. ASSUME NEW a \in Attempt, ListChannels(a) PROVE InvInv'
  <2>1. ErrandsKnow'
    BY <1>2, InventoryAssumption DEF ListChannels, GoTo, ErrandsKnow, Proc
  <2>2. /\ Seen(bot[a], grant) \in [Channel -> Kind \cup {"absent"}]
        /\ Seen(bot[a], Nil) \in [Channel -> Kind \cup {"absent"}]
    BY DEF Seen, Outside, Kind
  <2>3. found' \in [Attempt -> [Channel -> Kind \cup {"absent"}]]
    <3>1. \/ found' = [found EXCEPT ![a] = Seen(bot[a], grant)]
          \/ found' = [found EXCEPT ![a] = Seen(bot[a], Nil)]
      BY <1>2 DEF ListChannels
    <3>. QED
      BY <2>2, <3>1
  <2>4. at' \in [Proc -> {"idle", "listing", "writing", "looking", "correcting",
                         "entering", "noting", "made"}]
    BY <1>2 DEF ListChannels, GoTo
  <2>. QED
    BY <1>2, <2>1, <2>3, <2>4 DEF ListChannels, link, queue
<1>3. ASSUME NEW a \in Attempt, Persist(a) PROVE InvInv'
  <2>1. a \in Proc
    BY DEF Proc
  <2>2. cached' \in [Channel -> Row \cup {Nil}] /\ fresh' \in BOOLEAN
    <3>1. CASE Locks
      <4>1. /\ cached' = [c \in Channel |-> IF found[a][c] = "absent" THEN Retired(c)
                                           ELSE [kind |-> found[a][c], on |-> TRUE]]
            /\ fresh' = (fresh \/ \E c \in Channel : cached'[c] # Nil)
        BY <1>3, <3>1 DEF Persist
      <4>2. \A c \in Channel : Retired(c) \in Row \cup {Nil}
        BY DEF Retired, Row
      <4>3. ASSUME NEW c \in Channel, found[a][c] # "absent"
            PROVE  [kind |-> found[a][c], on |-> TRUE] \in Row
        BY <4>3 DEF Row
      <4>4. cached' \in [Channel -> Row \cup {Nil}]
        BY <4>1, <4>2, <4>3
      <4>. QED
        BY <4>1, <4>4
    <3>2. CASE ~Locks
      BY <1>3, <3>2 DEF Persist
    <3>. QED
      BY <3>1, <3>2
  <2>3. wanted' \in BOOLEAN /\ serving' \subseteq Attempt
    BY <1>3 DEF Persist, Done
  <2>. QED
    BY <1>3, <2>1, <2>2, <2>3, EndsTypes DEF Persist, link
<1>4. ASSUME NEW a \in Attempt, AttemptFails(a) PROVE InvInv'
  <2>1. a \in Proc
    BY DEF Proc
  <2>2. wanted' \in BOOLEAN /\ serving' \subseteq Attempt
    BY <1>4 DEF AttemptFails, Done
  <2>. QED
    BY <1>4, <2>1, <2>2, EndsTypes DEF AttemptFails, link
<1>. QED
  BY <1>1, <1>2, <1>3, <1>4 DEF AttemptStep

\* The errands keep the types.
LEMMA ErrandsStep ==
  ASSUME InvInv, NEW j \in Errand,
         \/ ErrandStep(j) \/ ErrandDies(j)
         \/ \E c \in Channel : AskToJoin(j, c) \/ MakeChannel(j, c)
  PROVE  InvInv'
<1> USE DEF InvInv, ITypeOK
<1>0. j \in Proc
  BY DEF Proc
<1>1. ASSUME NEW c \in Channel, AskToJoin(j, c) PROVE InvInv'
  BY <1>0, <1>1 DEF AskToJoin, GoTo, ErrandsKnow, Proc, link, queue
<1>2. CASE LookAt(j)
  <2>1. chan[j] \in Channel
    BY <1>2 DEF LookAt, ErrandsKnow
  <2>2. CASE cached[chan[j]] = Nil \/ Token = Nil
    <3>1. Ends(j) /\ UNCHANGED <<slack, link, cached, queue, fresh>>
      BY <1>2, <2>2 DEF LookAt
    <3>. QED
      BY <1>0, <3>1, EndsTypes DEF link, queue
  <2>3. CASE ~(cached[chan[j]] = Nil \/ Token = Nil)
    <3>1. cached[chan[j]].kind \in Kind
      BY <2>1, <2>3 DEF Row
    <3>2. Info(Token, chan[j]) \in Kind
      BY <2>1 DEF Info, Kind
    <3>3. /\ bot' = [bot EXCEPT ![j] = Token] /\ chan' = chan /\ found' = found
          /\ \/ live' = [live EXCEPT ![j] = Info(Token, chan[j])]
             \/ live' = [live EXCEPT ![j] = cached[chan[j]].kind]
          /\ \/ at' = [at EXCEPT ![j] = "entering"] \/ at' = [at EXCEPT ![j] = "correcting"]
          /\ UNCHANGED <<slack, link, cached, queue, fresh>>
      BY <1>2, <2>3 DEF LookAt, GoTo
    <3>4. live' \in [Errand -> Kind \cup {"absent"}] /\ live'[j] \in Kind
      BY <3>1, <3>2, <3>3
    <3>5. ErrandsKnow'
      BY <1>0, <2>1, <3>3, <3>4 DEF ErrandsKnow, Proc
    <3>. QED
      BY <1>0, <3>3, <3>4, <3>5, TokenType DEF link, queue
  <2>. QED
    BY <2>2, <2>3
<1>3. CASE Correct(j)
  <2>1. chan[j] \in Channel /\ live[j] \in Kind
    BY <1>3 DEF Correct, ErrandsKnow
  <2>2. cached' \in [Channel -> Row \cup {Nil}] /\ fresh' \in BOOLEAN
    <3>1. CASE cached[chan[j]] = Nil
      BY <1>3, <3>1 DEF Correct
    <3>2. CASE cached[chan[j]] # Nil
      <4>1. [cached[chan[j]] EXCEPT !.kind = live[j]] \in Row
        BY <2>1, <3>2 DEF Row
      <4>2. /\ cached' = [cached EXCEPT ![chan[j]] = [cached[chan[j]] EXCEPT !.kind = live[j]]]
            /\ fresh' = TRUE
        BY <1>3, <3>2 DEF Correct
      <4>. QED
        BY <4>1, <4>2
    <3>. QED
      BY <3>1, <3>2
  <2>3. wanted' \in BOOLEAN /\ throttled' \in BOOLEAN /\ serving' \subseteq Attempt
    BY <1>3 DEF Correct, QueueSync, NewTask, queue
  <2>4. ErrandsKnow'
    BY <1>0, <1>3 DEF Correct, Goes, GoTo, ErrandsKnow, Proc
  <2>. QED
    BY <1>0, <1>3, <2>2, <2>3, <2>4 DEF Correct, Goes, GoTo, link
<1>4. CASE Enter(j)
  <2>1. CASE Admitted(j)
    <3>1. slack' \in [Channel -> Kind \cup {"absent"}]
      BY <1>4, <2>1 DEF Enter, Inside, Kind
    <3>2. ErrandsKnow'
      BY <1>0, <1>4, <2>1 DEF Enter, Goes, GoTo, ErrandsKnow, Proc
    <3>. QED
      BY <1>0, <1>4, <2>1, <3>1, <3>2 DEF Enter, Goes, GoTo, link, queue
  <2>2. CASE ~Admitted(j)
    BY <1>0, <1>4, <2>2, EndsTypes DEF Enter, link, queue
  <2>. QED
    BY <2>1, <2>2
<1>5. CASE Note(j)
  <2>1. chan[j] \in Channel
    BY <1>5 DEF Note, ErrandsKnow
  <2>2. cached' \in [Channel -> Row \cup {Nil}] /\ fresh' \in BOOLEAN
    <3>1. CASE cached[chan[j]] = Nil
      BY <1>5, <3>1 DEF Note
    <3>2. CASE cached[chan[j]] # Nil
      <4>1. [kind |-> Inside(cached[chan[j]].kind), on |-> TRUE] \in Row
        BY <2>1, <3>2 DEF Row, Inside, Kind
      <4>2. /\ cached' = [cached EXCEPT ![chan[j]] =
                           [kind |-> Inside(cached[chan[j]].kind), on |-> TRUE]]
            /\ fresh' = TRUE
        BY <1>5, <3>2 DEF Note
      <4>. QED
        BY <4>1, <4>2
    <3>. QED
      BY <3>1, <3>2
  <2>. QED
    BY <1>0, <1>5, <2>2, EndsTypes DEF Note, link, queue
<1>6. ASSUME NEW c \in Channel, MakeChannel(j, c) PROVE InvInv'
  <2>1. PICK v \in {"joined", "public", "hidden"} : live' = [live EXCEPT ![j] = v]
    BY <1>6 DEF MakeChannel
  <2>2. slack' = [slack EXCEPT ![c] = v]
    BY <1>6, <2>1 DEF MakeChannel
  <2>3. live' \in [Errand -> Kind \cup {"absent"}] /\ slack' \in [Channel -> Kind \cup {"absent"}]
    BY <2>1, <2>2 DEF Kind
  <2>4. ErrandsKnow'
    BY <1>0, <1>6, <2>1 DEF MakeChannel, GoTo, ErrandsKnow, Proc, Kind
  <2>. QED
    BY <1>0, <1>6, <2>3, <2>4 DEF MakeChannel, GoTo, link, queue
<1>7. CASE NoteMade(j)
  <2>1. chan[j] \in Channel /\ live[j] \in Kind
    BY <1>7 DEF NoteMade, ErrandsKnow
  <2>2. PICK m \in {Inside(Outside(live[j])), Outside(live[j])} :
          cached' = [cached EXCEPT ![chan[j]] = [kind |-> m, on |-> TRUE]]
    BY <1>7 DEF NoteMade
  <2>3. [kind |-> m, on |-> TRUE] \in Row
    BY <2>1 DEF Inside, Outside, Kind, Row
  <2>4. cached' \in [Channel -> Row \cup {Nil}]
    BY <2>2, <2>3
  <2>5. CASE live[j] = "joined"
    <3>1. Ends(j)
      BY <1>7, <2>5 DEF NoteMade
    <3>. QED
      BY <1>0, <1>7, <2>4, <3>1, EndsTypes DEF NoteMade, link, queue
  <2>6. CASE live[j] # "joined"
    <3>1. Goes(j, "looking")
      BY <1>7, <2>6 DEF NoteMade
    <3>2. ErrandsKnow'
      BY <1>0, <2>1, <3>1 DEF Goes, GoTo, ErrandsKnow, Proc
    <3>. QED
      BY <1>0, <1>7, <2>4, <3>1, <3>2 DEF NoteMade, Goes, GoTo, link, queue
  <2>. QED
    BY <2>5, <2>6
<1>8. CASE ErrandDies(j)
  BY <1>0, <1>8, EndsTypes DEF ErrandDies, link, queue
<1>. QED
  BY <1>1, <1>2, <1>3, <1>4, <1>5, <1>6, <1>7, <1>8 DEF ErrandStep

LEMMA InventoryStep == InvInv /\ [INext]_ivars => InvInv'
<1> SUFFICES ASSUME InvInv, [INext]_ivars PROVE InvInv'
    OBVIOUS
<1>1. CASE UNCHANGED ivars
  BY <1>1 DEF InvInv, ITypeOK, ErrandsKnow, ivars, link, queue, procs
<1>. QED
  BY <1>1, OutsideStep, AttemptsStep, ErrandsStep DEF INext

LEMMA InventoryInductive == ISpec => []InvInv
<1>1. IInit => InvInv
  <2> SUFFICES ASSUME IInit PROVE InvInv
      OBVIOUS
  <2>1. 1 \in Link
    BY InventoryAssumption DEF Link
  <2>2. PICK t \in Team \cup {Nil} :
          /\ accounts = IF t = Nil THEN {} ELSE {1}
          /\ team = [k \in Link |-> IF k = 1 THEN t ELSE Nil]
          /\ linking = [k \in Link |-> IF k = 1 /\ t # Nil THEN "replaced" ELSE "none"]
          /\ grant \in {t, Nil}
    BY DEF IInit
  <2>3. ITypeOK
    BY <2>1, <2>2 DEF IInit, ITypeOK, Unlisted
  <2>4. ErrandsKnow
    BY DEF IInit, ErrandsKnow, Proc
  <2>. QED
    BY <2>3, <2>4 DEF InvInv
<1>. QED
  BY <1>1, InventoryStep, PTL DEF ISpec

\* THEOREM: every reachable state of the channels, the connection and whoever is
\* at work on them has the types that ITypeOK lists.
THEOREM InventoryTypeCorrect == ISpec => []ITypeOK
BY InventoryInductive, PTL DEF InvInv

\* THEOREM: with no account connected, a channel that has no row gets one only
\* when an errand notes the channel it has made: no inventory and no join that
\* read Slack before a disconnection brings one back, however many run.
THEOREM NothingResurrected == ISpec => NotResurrected
<1> DEFINE Kept == \A c \in Channel : accounts = {} /\ cached[c] = Nil /\ cached'[c] # Nil =>
                     \E j \in Errand : at[j] = "made" /\ at'[j] # "made"
<1>1. InvInv /\ [INext]_ivars => [Kept]_ivars
  <2> SUFFICES ASSUME InvInv, INext, NEW c \in Channel, accounts = {}, cached[c] = Nil,
                      cached'[c] # Nil
               PROVE  \E j \in Errand : at[j] = "made" /\ at'[j] # "made"
      OBVIOUS
  <2>1. \E j \in Errand : NoteMade(j)
    <3>1. \A a \in Attempt : ~AttemptStep(a)
      BY DEF AttemptStep, Persist, Locks, ListChannels
    <3>2. \A j \in Errand : ~LookAt(j) /\ ~Enter(j)
      BY DEF LookAt, Enter
    <3>3. \A j \in Errand : ~Correct(j) /\ ~Note(j)
      BY DEF Correct, Note, InvInv, ITypeOK
    <3>4. ASSUME NEW j \in Errand PROVE ~ErrandDies(j) /\ \A d \in Channel : ~AskToJoin(j, d) /\ ~MakeChannel(j, d)
      BY DEF ErrandDies, AskToJoin, MakeChannel
    <3>5. /\ \A a \in Attempt : ~AttemptFails(a)
          /\ ~BeginInventory /\ ~Disconnect /\ ~RequestSync /\ ~RequestStale
          /\ ~ThrottleEnds /\ ~RowsAge /\ \A d \in Channel : ~ChangeInSlack(d)
      BY DEF AttemptFails, BeginInventory, Disconnect, RequestSync, RequestStale,
         ThrottleEnds, RowsAge, ChangeInSlack
    <3>6. \A k \in Link : ~LinkStep(k) /\ ~SignInDies(k) /\ \A t \in Team : ~LinkSlack(k, t)
      BY DEF LinkStep, Replace, QueueAfter, SignInDies, LinkSlack
    <3>. QED
      BY <3>1, <3>2, <3>3, <3>4, <3>5, <3>6 DEF INext, ErrandStep
  <2>2. PICK j \in Errand : NoteMade(j)
    BY <2>1
  <2>3. at'[j] \in {"idle", "looking"}
    BY <2>2 DEF NoteMade, Ends, Goes, GoTo, InvInv, ITypeOK, Proc
  <2>. QED
    BY <2>2, <2>3 DEF NoteMade
<1>. QED
  BY <1>1, InventoryInductive, PTL DEF ISpec, NotResurrected

-----------------------------------------------------------------------------
(***************************************************************************)
(* The conversation.  Two things are shown of a message.  The session does *)
(* not hear it before an earlier one, unless that one was tried as often   *)
(* as the dispatcher tries: the claim looks at the statuses of the earlier *)
(* ones, which may go back afterwards, but what they say of the past (that *)
(* it was heard, that it was tried so often) stays true.  And it is not    *)
(* claimed for ever: every claim beyond the last regular one is paid for   *)
(* by an early delivery that failed late.                                  *)
(***************************************************************************)

SubmittedInOrder ==
  \A m, n \in Msg : n < m /\ status[m] # "none" => status[n] # "none"

UnsubmittedIsUntried ==
  \A m \in Msg : status[m] = "none" =>
    attempts[m] = 0 /\ m \notin heard /\ \A k \in Try : pc[m][k] = "idle"

TriesAreCounted ==
  \A m \in Msg, k \in Try : pc[m][k] # "idle" => k <= attempts[m]

AcceptedWasHeard ==
  \A m \in Msg :
    /\ status[m] = "ACCEPTED" => m \in heard
    /\ \A k \in Try : pc[m][k] = "sent" => m \in heard

FailedIsExhausted ==
  \A m \in Msg : status[m] = "FAILED" => attempts[m] >= MaxAttempts

SessionHeard ==
  /\ \A i \in 1..Len(inbox) : inbox[i] \in heard
  /\ about # 0 => about \in heard
  /\ turn = "receiving" => about # 0

Past(n) == n \in heard \/ attempts[n] >= MaxAttempts

SentInOrder ==
  \A m, n \in Msg :
    n < m /\ (m \in heard \/ \E k \in Try : pc[m][k] # "idle") => Past(n)

FailedLate(m) == {k \in Try : k < MaxAttempts /\ pc[m][k] = "over"}

ClaimsArePaidFor ==
  \A m \in Msg : attempts[m] >= MaxAttempts =>
    attempts[m] - MaxAttempts + (IF status[m] = "PENDING" THEN 1 ELSE 0)
      <= Cardinality(FailedLate(m))

\* BTypeOK, with no more said of the attempts than that their numbers exist.
ConversationTypes ==
  /\ conv \in {"none", "open", "removed"}
  /\ {linked, free, alive} \subseteq BOOLEAN
  /\ question \in 0..MaxQuestion /\ asked \in 0..MaxQuestion
  /\ recorded \subseteq Question /\ underway \subseteq Question
  /\ status \in [Msg -> Status]
  /\ attempts \in [Msg -> 0..MaxTries]
  /\ answers \in [Msg -> 0..MaxQuestion]
  /\ pc \in [Msg -> [Try -> {"idle", "sending", "sent", "over"}]]
  /\ inbox \in Seq(Msg) /\ heard \subseteq Msg
  /\ turn \in {"idle", "receiving", "running"} /\ about \in 0..MaxMsg

BInv ==
  /\ ConversationTypes /\ SubmittedInOrder /\ UnsubmittedIsUntried /\ TriesAreCounted
  /\ AcceptedWasHeard /\ FailedIsExhausted /\ SessionHeard /\ SentInOrder
  /\ ClaimsArePaidFor

-----------------------------------------------------------------------------
\* Everything of a message that is paid for is one of finitely many tries.
LEMMA FailedLateFinite ==
  ASSUME NEW m \in Msg
  PROVE  /\ IsFiniteSet(FailedLate(m)) /\ Cardinality(FailedLate(m)) \in Nat
         /\ Cardinality(FailedLate(m)) <= MaxAttempts - 1
<1>1. MaxAttempts \in Nat \ {0}
  BY BuilderAssumption
<1>2. IsFiniteSet(1..(MaxAttempts - 1)) /\ Cardinality(1..(MaxAttempts - 1)) = MaxAttempts - 1
  BY <1>1, FS_Interval
<1>3. FailedLate(m) \in SUBSET (1..(MaxAttempts - 1))
  BY <1>1, BuilderAssumption DEF FailedLate, Try
<1>. QED
  BY <1>2, <1>3, FS_Subset, FS_CardinalityType

LEMMA AttemptsBounded ==
  ASSUME BInv, NEW m \in Msg
  PROVE  attempts[m] \in 0..(2 * MaxAttempts - 1)
<1>1. attempts[m] \in Nat /\ MaxAttempts \in Nat \ {0}
  BY BuilderAssumption DEF BInv, ConversationTypes
<1>. QED
  BY <1>1, FailedLateFinite DEF BInv, ClaimsArePaidFor

\* A try that goes on, and what it changes of the tries that failed late.
LEMMA GoesOn ==
  ASSUME ConversationTypes, NEW m \in Msg, NEW k \in Try,
         NEW there \in {"sending", "sent", "over"}, Go(m, k, there)
  PROVE  /\ pc' \in [Msg -> [Try -> {"idle", "sending", "sent", "over"}]]
         /\ pc'[m][k] = there
         /\ \A n \in Msg, j \in Try : <<n, j>> # <<m, k>> => pc'[n][j] = pc[n][j]
BY DEF ConversationTypes, Go

\* The new row of a message follows those that are there.
LEMMA InsertStep ==
  ASSUME BInv, NEW q \in 0..MaxQuestion, Insert(q), conv' \in {"none", "open", "removed"}
  PROVE  BInv'
<1> USE DEF BInv
<1>1. PICK m \in Msg \ Submitted :
        /\ \A n \in Msg : n < m => n \in Submitted
        /\ status' = [status EXCEPT ![m] = "PENDING"]
        /\ answers' = [answers EXCEPT ![m] = q]
  BY DEF Insert
<1>2. UNCHANGED <<row, attempts, pc, session>>
  BY DEF Insert
<1>3. ConversationTypes'
  BY <1>1, <1>2 DEF ConversationTypes, row, session, Status
<1>4. SubmittedInOrder' /\ UnsubmittedIsUntried'
  BY <1>1, <1>2 DEF ConversationTypes, SubmittedInOrder, UnsubmittedIsUntried, Submitted, session
<1>5. TriesAreCounted' /\ AcceptedWasHeard' /\ FailedIsExhausted' /\ SessionHeard' /\ SentInOrder'
  BY <1>1, <1>2 DEF ConversationTypes, TriesAreCounted, AcceptedWasHeard, FailedIsExhausted,
     SessionHeard, SentInOrder, Past, session
<1>6. ClaimsArePaidFor'
  <2> SUFFICES ASSUME NEW n \in Msg, attempts[n] >= MaxAttempts
               PROVE  attempts[n] - MaxAttempts + (IF status'[n] = "PENDING" THEN 1 ELSE 0)
                        <= Cardinality(FailedLate(n))
    BY <1>2 DEF ClaimsArePaidFor, FailedLate
  <2>1. n # m
    BY <1>1, BuilderAssumption DEF UnsubmittedIsUntried, Submitted
  <2>2. status'[n] = status[n]
    BY <1>1, <2>1 DEF ConversationTypes
  <2>. QED
    BY <2>2 DEF ClaimsArePaidFor
<1>. QED
  BY <1>3, <1>4, <1>5, <1>6

LEMMA RemoveStep == ASSUME BInv, Remove PROVE BInv'
<1> USE DEF Remove
<1>1. ConversationTypes'
  <2>1. MaxTries \in Nat /\ MaxQuestion \in Nat /\ MaxMsg \in Nat
    BY BuilderAssumption
  <2>2. status' \in [Msg -> Status] /\ attempts' \in [Msg -> 0..MaxTries]
        /\ answers' \in [Msg -> 0..MaxQuestion]
        /\ pc' \in [Msg -> [Try -> {"idle", "sending", "sent", "over"}]]
    BY <2>1 DEF Status
  <2>3. inbox' \in Seq(Msg) /\ heard' \subseteq Msg
    OBVIOUS
  <2>4. conv' \in {"none", "open", "removed"} /\ {linked', free', alive'} \subseteq BOOLEAN
    OBVIOUS
  <2>5. /\ question' \in 0..MaxQuestion /\ asked' \in 0..MaxQuestion
        /\ recorded' \subseteq Question /\ underway' \subseteq Question
        /\ turn' \in {"idle", "receiving", "running"} /\ about' \in 0..MaxMsg
    BY <2>1
  <2>. QED
    BY <2>2, <2>3, <2>4, <2>5 DEF ConversationTypes
<1>2. SubmittedInOrder' /\ UnsubmittedIsUntried' /\ TriesAreCounted' /\ AcceptedWasHeard'
      /\ FailedIsExhausted' /\ SessionHeard' /\ SentInOrder'
  BY DEF SubmittedInOrder, UnsubmittedIsUntried, TriesAreCounted, AcceptedWasHeard,
     FailedIsExhausted, SessionHeard, SentInOrder
<1>3. ClaimsArePaidFor'
  BY BuilderAssumption DEF ClaimsArePaidFor
<1>. QED
  BY <1>1, <1>2, <1>3 DEF BInv

\* A claim: by its guard, every earlier message is ACCEPTED or FAILED, so heard or
\* exhausted; and the attempt it counts, if it is one too many, takes the place
\* of the PENDING that was paid for.
LEMMA ClaimStep == ASSUME BInv, NEW m \in Msg, Claim(m) PROVE BInv'
<1> USE DEF BInv
<1>1. /\ status[m] = "PENDING" /\ attempts[m] < MaxTries
      /\ \A n \in Msg : status[n] # "SENDING"
      /\ \A n \in Msg : n < m => status[n] # "PENDING"
      /\ status' = [status EXCEPT ![m] = "SENDING"]
      /\ attempts' = [attempts EXCEPT ![m] = attempts[m] + 1]
      /\ free' = FALSE
      /\ Go(m, attempts[m] + 1, "sending")
      /\ UNCHANGED <<conv, linked, question, recorded, answers, session>>
  BY DEF Claim, Claimable
<1> DEFINE k == attempts[m] + 1
<1>2. attempts[m] \in Nat /\ MaxTries \in Nat /\ MaxAttempts \in Nat \ {0} /\ k \in Try
  BY <1>1, BuilderAssumption DEF ConversationTypes, Try
<1>3. /\ pc' \in [Msg -> [Try -> {"idle", "sending", "sent", "over"}]]
      /\ pc'[m][k] = "sending"
      /\ \A n \in Msg, j \in Try : <<n, j>> # <<m, k>> => pc'[n][j] = pc[n][j]
  BY <1>1, <1>2, GoesOn
<1>4. pc[m][k] = "idle"
  BY <1>2 DEF TriesAreCounted, ConversationTypes
<1>5. attempts' \in [Msg -> 0..MaxTries] /\ attempts'[m] = k
      /\ \A n \in Msg : n # m => attempts'[n] = attempts[n]
  BY <1>1, <1>2 DEF ConversationTypes
<1>6. \A n \in Msg : attempts'[n] >= attempts[n] /\ attempts[n] \in Nat
  <2>1. \A n \in Msg : attempts[n] \in Nat
    BY <1>2 DEF ConversationTypes
  <2>. QED
    BY <1>2, <1>5, <2>1
<1>7. ConversationTypes'
  BY <1>1, <1>3, <1>5 DEF ConversationTypes, session, Status
<1>8. SubmittedInOrder' /\ UnsubmittedIsUntried' /\ AcceptedWasHeard' /\ SessionHeard'
  BY <1>1, <1>3, <1>5 DEF ConversationTypes, SubmittedInOrder, UnsubmittedIsUntried,
     AcceptedWasHeard, SessionHeard, session
<1>9. TriesAreCounted'
  <2>1. ASSUME NEW n \in Msg, NEW j \in Try, pc'[n][j] # "idle" PROVE j <= attempts'[n]
    <3>1. CASE <<n, j>> = <<m, k>>
      BY <1>5, <3>1 DEF Try
    <3>2. CASE <<n, j>> # <<m, k>>
      <4>1. j <= attempts[n]
        BY <1>3, <2>1, <3>2 DEF TriesAreCounted
      <4>. QED
        BY <1>5, <1>6, <4>1 DEF Try
    <3>. QED
      BY <3>1, <3>2
  <2>. QED
    BY <2>1 DEF TriesAreCounted
<1>10. FailedIsExhausted'
  BY <1>1, <1>5 DEF FailedIsExhausted, ConversationTypes
<1>11. SentInOrder'
  <2>1. \A n \in Msg : Past(n) => Past(n)'
    BY <1>1, <1>2, <1>6 DEF Past, session
  <2>2. \A n \in Msg : n < m => Past(n)
    <3> SUFFICES ASSUME NEW n \in Msg, n < m PROVE Past(n)
        OBVIOUS
    <3>1. status[n] \in {"ACCEPTED", "FAILED"}
      BY <1>1 DEF ConversationTypes, Status, SubmittedInOrder
    <3>. QED
      BY <3>1 DEF AcceptedWasHeard, FailedIsExhausted, Past
  <2>3. ASSUME NEW l \in Msg, l # m, l \in heard' \/ \E j \in Try : pc'[l][j] # "idle"
        PROVE  l \in heard \/ \E j \in Try : pc[l][j] # "idle"
    BY <1>1, <1>3, <2>3 DEF session
  <2>. QED
    BY <2>1, <2>2, <2>3 DEF SentInOrder
<1>12. ClaimsArePaidFor'
  <2>1. \A n \in Msg : FailedLate(n)' = FailedLate(n)
    BY <1>2, <1>3, <1>4 DEF FailedLate
  <2>2. ASSUME NEW n \in Msg, n # m, attempts'[n] >= MaxAttempts
        PROVE  attempts'[n] - MaxAttempts + (IF status'[n] = "PENDING" THEN 1 ELSE 0)
                 <= Cardinality(FailedLate(n))
    BY <1>1, <1>5, <2>2 DEF ClaimsArePaidFor, ConversationTypes
  <2>3. status'[m] = "SENDING"
    BY <1>1 DEF ConversationTypes
  <2>4. k >= MaxAttempts => k - MaxAttempts <= Cardinality(FailedLate(m))
    <3>1. Cardinality(FailedLate(m)) \in Nat
      BY FailedLateFinite
    <3>2. CASE attempts[m] >= MaxAttempts
      BY <1>1, <1>2, <3>1, <3>2 DEF ClaimsArePaidFor
    <3>3. CASE attempts[m] < MaxAttempts
      BY <1>2, <3>1, <3>3
    <3>. QED
      BY <1>2, <3>2, <3>3
  <2>5. k >= MaxAttempts => k - MaxAttempts + 0 <= Cardinality(FailedLate(m))
    BY <1>2, <2>4
  <2>6. ASSUME attempts'[m] >= MaxAttempts
        PROVE  attempts'[m] - MaxAttempts + (IF status'[m] = "PENDING" THEN 1 ELSE 0)
                 <= Cardinality(FailedLate(m))
    BY <1>5, <2>3, <2>5, <2>6
  <2>. QED
    BY <2>1, <2>2, <2>6 DEF ClaimsArePaidFor
<1>. QED
  BY <1>7, <1>8, <1>9, <1>10, <1>11, <1>12

\* A delivery that goes on keeps who was tried; what it says of its message is
\* what is left to show of each.
LEMMA DeliveryKeeps ==
  ASSUME BInv, NEW m \in Msg, NEW k \in Try, NEW there \in {"sent", "over"},
         pc[m][k] \in {"sending", "sent"}, Go(m, k, there),
         NEW s \in {status[m], "PENDING", "ACCEPTED", "FAILED"},
         status' = [status EXCEPT ![m] = s],
         UNCHANGED <<conv, recorded, attempts, answers>>,
         heard' = heard \/ heard' = heard \cup {m},
         {linked', free'} \subseteq BOOLEAN, question' \in 0..MaxQuestion,
         inbox' \in Seq(Msg), UNCHANGED <<alive, turn, about, asked, underway>>
  PROVE  /\ ConversationTypes' /\ SubmittedInOrder' /\ UnsubmittedIsUntried'
         /\ TriesAreCounted' /\ SentInOrder'
<1> USE DEF BInv
<1>1. /\ pc' \in [Msg -> [Try -> {"idle", "sending", "sent", "over"}]]
      /\ pc'[m][k] = there
      /\ \A n \in Msg, j \in Try : <<n, j>> # <<m, k>> => pc'[n][j] = pc[n][j]
  BY GoesOn
<1>2. status[m] # "none" /\ s # "none" /\ s \in Status
  BY DEF UnsubmittedIsUntried, ConversationTypes, Status
<1>3. \A n \in Msg, j \in Try : pc'[n][j] # "idle" <=> pc[n][j] # "idle"
  BY <1>1
<1>4. ConversationTypes'
  BY <1>1, <1>2 DEF ConversationTypes
<1>5. \A n \in Msg : status'[n] = "none" <=> status[n] = "none"
  BY <1>2 DEF ConversationTypes
<1>6. SubmittedInOrder' /\ TriesAreCounted'
  BY <1>3, <1>5 DEF SubmittedInOrder, TriesAreCounted
<1>7. UnsubmittedIsUntried'
  BY <1>2, <1>3, <1>5 DEF UnsubmittedIsUntried
<1>8. SentInOrder'
  <2>1. \A n \in Msg : Past(n) => Past(n)'
    BY DEF Past
  <2>2. \A n \in Msg : n \in heard' => n \in heard \/ \E j \in Try : pc[n][j] # "idle"
    OBVIOUS
  <2>. QED
    BY <1>3, <2>1, <2>2 DEF SentInOrder
<1>. QED
  BY <1>4, <1>6, <1>7, <1>8

LEMMA SendStep == ASSUME BInv, NEW m \in Msg, NEW k \in Try, Send(m, k) PROVE BInv'
<1> USE DEF BInv
<1>1. /\ pc[m][k] = "sending" /\ Go(m, k, "sent")
      /\ inbox' = Append(inbox, m) /\ heard' = heard \cup {m}
      /\ UNCHANGED <<conv, row, list, alive, turn, about, asked, underway>>
  BY DEF Send, At
<1>2. inbox \in Seq(Msg) /\ inbox' \in Seq(Msg)
  BY <1>1 DEF ConversationTypes
<1>3. status' = [status EXCEPT ![m] = status[m]]
  BY <1>1 DEF ConversationTypes, list
<1>4. ConversationTypes' /\ SubmittedInOrder' /\ UnsubmittedIsUntried' /\ TriesAreCounted'
      /\ SentInOrder'
  <2>1. {linked', free'} \subseteq BOOLEAN /\ question' \in 0..MaxQuestion
    BY <1>1 DEF ConversationTypes, row
  <2>2. UNCHANGED <<conv, recorded, attempts, answers>> /\ UNCHANGED <<alive, turn, about, asked, underway>>
    BY <1>1 DEF row, list
  <2>. QED
    BY <1>1, <1>2, <1>3, <2>1, <2>2, DeliveryKeeps
<1>5. SessionHeard'
  <2>1. \A i \in 1..Len(inbox') : inbox'[i] \in heard'
    BY <1>1, <1>2 DEF SessionHeard
  <2>. QED
    BY <1>1, <2>1 DEF SessionHeard
<1>6. AcceptedWasHeard' /\ FailedIsExhausted'
  BY <1>1, GoesOn DEF AcceptedWasHeard, FailedIsExhausted, list
<1>7. ClaimsArePaidFor'
  <2>1. \A n \in Msg : FailedLate(n)' = FailedLate(n)
    BY <1>1, GoesOn DEF FailedLate
  <2>. QED
    BY <1>1, <2>1 DEF ClaimsArePaidFor, list
<1>. QED
  BY <1>4, <1>5, <1>6, <1>7

\* A try that is over adds itself to those that failed late, if it is early.
LEMMA OverPays ==
  ASSUME ConversationTypes, NEW m \in Msg, NEW k \in Try, Go(m, k, "over"),
         pc[m][k] \in {"sending", "sent"}
  PROVE  /\ \A n \in Msg : n # m => FailedLate(n)' = FailedLate(n)
         /\ Cardinality(FailedLate(m)) \in Nat
         /\ k < MaxAttempts => Cardinality(FailedLate(m)') = Cardinality(FailedLate(m)) + 1
         /\ ~(k < MaxAttempts) => FailedLate(m)' = FailedLate(m)
<1>1. /\ pc'[m][k] = "over"
      /\ \A n \in Msg, j \in Try : <<n, j>> # <<m, k>> => pc'[n][j] = pc[n][j]
  BY GoesOn
<1>2. \A n \in Msg : n # m => FailedLate(n)' = FailedLate(n)
  BY <1>1 DEF FailedLate
<1>3. k < MaxAttempts => FailedLate(m)' = FailedLate(m) \cup {k}
  BY <1>1 DEF FailedLate
<1>4. k \notin FailedLate(m)
  BY DEF FailedLate
<1>5. ~(k < MaxAttempts) => FailedLate(m)' = FailedLate(m)
  BY <1>1 DEF FailedLate
<1>6. k < MaxAttempts => Cardinality(FailedLate(m)') = Cardinality(FailedLate(m)) + 1
  BY <1>3, <1>4, FailedLateFinite, FS_AddElement
<1>. QED
  BY <1>2, <1>5, <1>6, FailedLateFinite

LEMMA RecordStep ==
  ASSUME BInv, NEW m \in Msg, NEW k \in Try, RecordAccepted(m, k) \/ RecordFailed(m, k)
  PROVE  BInv'
<1> USE DEF BInv
<1>0. MaxAttempts \in Nat \ {0} /\ k \in Nat /\ \A n \in Msg : attempts[n] \in Nat
  BY BuilderAssumption DEF ConversationTypes, Try
<1>1. PICK s \in {"PENDING", "ACCEPTED", "FAILED"} :
        /\ status' = [status EXCEPT ![m] = s]
        /\ s = "ACCEPTED" => m \in heard
        /\ s = "PENDING" => k < MaxAttempts
        /\ s = "FAILED" => k >= MaxAttempts
  BY <1>0 DEF RecordAccepted, RecordFailed, Verdict, At, AcceptedWasHeard
<1>2. /\ pc[m][k] \in {"sending", "sent"} /\ Go(m, k, "over")
      /\ UNCHANGED <<conv, recorded, attempts, answers, session>>
      /\ {linked', free'} \subseteq BOOLEAN /\ question' \in 0..MaxQuestion
  <2>1. CASE RecordAccepted(m, k)
    BY <2>1, BuilderAssumption DEF RecordAccepted, At, ConversationTypes
  <2>2. CASE RecordFailed(m, k)
    BY <2>2 DEF RecordFailed, At, ConversationTypes
  <2>. QED
    BY <2>1, <2>2
<1>3. ConversationTypes' /\ SubmittedInOrder' /\ UnsubmittedIsUntried' /\ TriesAreCounted'
      /\ SentInOrder'
  <2>1. /\ inbox' \in Seq(Msg) /\ heard' = heard
        /\ UNCHANGED <<alive, turn, about, asked, underway>>
        /\ UNCHANGED <<conv, recorded, attempts, answers>>
    BY <1>2 DEF ConversationTypes, session
  <2>. QED
    BY <1>1, <1>2, <2>1, DeliveryKeeps
<1>4. SessionHeard'
  BY <1>2 DEF SessionHeard, session
<1>5. AcceptedWasHeard'
  <2>1. \A n \in Msg : status'[n] = "ACCEPTED" => n \in heard
    BY <1>1 DEF AcceptedWasHeard, ConversationTypes
  <2>2. \A n \in Msg, j \in Try : pc'[n][j] = "sent" => n \in heard
    BY <1>2, GoesOn DEF AcceptedWasHeard
  <2>. QED
    BY <1>2, <2>1, <2>2 DEF AcceptedWasHeard, session
<1>6. k <= attempts[m]
  BY <1>2 DEF TriesAreCounted
<1>7. FailedIsExhausted'
  BY <1>0, <1>1, <1>2, <1>6 DEF FailedIsExhausted, ConversationTypes
<1>8. ClaimsArePaidFor'
  <2> SUFFICES ASSUME NEW n \in Msg, attempts[n] >= MaxAttempts
               PROVE  attempts[n] - MaxAttempts + (IF status'[n] = "PENDING" THEN 1 ELSE 0)
                        <= Cardinality(FailedLate(n)')
    BY <1>2 DEF ClaimsArePaidFor
  <2> DEFINE owed == attempts[n] - MaxAttempts + (IF status[n] = "PENDING" THEN 1 ELSE 0)
  <2>1. owed <= Cardinality(FailedLate(n)) /\ attempts[n] - MaxAttempts <= owed
    BY <1>0 DEF ClaimsArePaidFor
  <2>2. CASE n # m
    BY <1>1, <1>2, <2>1, <2>2, OverPays DEF ConversationTypes
  <2>3. CASE n = m /\ k < MaxAttempts
    BY <1>0, <1>2, <2>1, <2>3, OverPays
  <2>4. CASE n = m /\ ~(k < MaxAttempts)
    <3>1. status'[n] # "PENDING"
      BY <1>1, <2>4 DEF ConversationTypes
    <3>2. Cardinality(FailedLate(n)') = Cardinality(FailedLate(n))
      BY <1>2, <2>4, OverPays
    <3>3. attempts[n] - MaxAttempts <= Cardinality(FailedLate(n))
      BY <1>0, <2>1, FailedLateFinite
    <3>. QED
      BY <1>0, <3>1, <3>2, <3>3
  <2>. QED
    BY <2>2, <2>3, <2>4
<1>. QED
  BY <1>3, <1>4, <1>5, <1>7, <1>8

LEMMA RecoverStep == ASSUME BInv, NEW m \in Msg, Recover(m) PROVE BInv'
<1> USE DEF BInv
<1>0. MaxAttempts \in Nat \ {0} /\ \A n \in Msg : attempts[n] \in Nat
  BY BuilderAssumption DEF ConversationTypes
<1>1. PICK s \in {"PENDING", "FAILED"} :
        /\ status' = [status EXCEPT ![m] = s]
        /\ s = "PENDING" => attempts[m] < MaxAttempts
        /\ s = "FAILED" => attempts[m] >= MaxAttempts
  <2>1. CASE attempts[m] < MaxAttempts
    BY <2>1 DEF Recover, Verdict
  <2>2. CASE ~(attempts[m] < MaxAttempts)
    <3>1. status' = [status EXCEPT ![m] = "FAILED"] /\ attempts[m] >= MaxAttempts
      BY <1>0, <2>2 DEF Recover, Verdict
    <3>. QED
      BY <3>1
  <2>. QED
    BY <2>1, <2>2
<1>2. /\ status[m] = "SENDING" /\ free' = TRUE
      /\ UNCHANGED <<conv, linked, question, recorded, attempts, answers, pc, session>>
  BY DEF Recover
<1>3. ConversationTypes' /\ SubmittedInOrder' /\ UnsubmittedIsUntried' /\ TriesAreCounted'
  BY <1>1, <1>2 DEF ConversationTypes, Status, SubmittedInOrder, UnsubmittedIsUntried,
     TriesAreCounted, session
<1>4. AcceptedWasHeard' /\ FailedIsExhausted' /\ SessionHeard' /\ SentInOrder'
  BY <1>1, <1>2 DEF ConversationTypes, AcceptedWasHeard, FailedIsExhausted, SessionHeard,
     SentInOrder, Past, session
<1>5. ClaimsArePaidFor'
  <2> SUFFICES ASSUME NEW n \in Msg, attempts[n] >= MaxAttempts
               PROVE  attempts[n] - MaxAttempts + (IF status'[n] = "PENDING" THEN 1 ELSE 0)
                        <= Cardinality(FailedLate(n))
    BY <1>2 DEF ClaimsArePaidFor, FailedLate
  <2>1. status'[n] = "PENDING" => status[n] = "PENDING"
    BY <1>0, <1>1, <1>2 DEF ConversationTypes
  <2>2. Cardinality(FailedLate(n)) \in Nat
    BY FailedLateFinite
  <2>. QED
    BY <1>0, <2>1, <2>2 DEF ClaimsArePaidFor
<1>. QED
  BY <1>3, <1>4, <1>5

\* What the session does changes no try and no count.
LEMMA SessionKeeps ==
  ASSUME BInv, SessionStep,
         NEW A \in SUBSET heard, status' = [m \in Msg |-> IF m \in A THEN "ACCEPTED" ELSE status[m]],
         UNCHANGED <<attempts, pc, heard>>
  PROVE  /\ SubmittedInOrder' /\ UnsubmittedIsUntried' /\ TriesAreCounted' /\ AcceptedWasHeard'
         /\ FailedIsExhausted' /\ SentInOrder' /\ ClaimsArePaidFor'
<1> USE DEF BInv
<1>1. \A m \in A : m \in Msg /\ status[m] # "none"
  BY DEF UnsubmittedIsUntried, ConversationTypes
<1>2. SubmittedInOrder' /\ UnsubmittedIsUntried' /\ TriesAreCounted' /\ SentInOrder'
  BY <1>1 DEF SubmittedInOrder, UnsubmittedIsUntried, TriesAreCounted, SentInOrder, Past
<1>3. AcceptedWasHeard' /\ FailedIsExhausted'
  BY DEF AcceptedWasHeard, FailedIsExhausted
<1>4. ClaimsArePaidFor'
  <2> SUFFICES ASSUME NEW n \in Msg, attempts[n] >= MaxAttempts
               PROVE  attempts[n] - MaxAttempts + (IF status'[n] = "PENDING" THEN 1 ELSE 0)
                        <= Cardinality(FailedLate(n))
    BY DEF ClaimsArePaidFor, FailedLate
  <2>1. status'[n] = "PENDING" => status[n] = "PENDING"
    OBVIOUS
  <2>2. Cardinality(FailedLate(n)) \in Nat /\ attempts[n] \in Nat /\ MaxAttempts \in Nat
    BY FailedLateFinite, BuilderAssumption DEF ConversationTypes
  <2>. QED
    BY <2>1, <2>2 DEF ClaimsArePaidFor
<1>. QED
  BY <1>2, <1>3, <1>4

LEMMA SessionStepKeeps == ASSUME BInv, SessionStep, UNCHANGED conv PROVE BInv'
<1> USE DEF BInv
<1>1. CASE BeginTurn
  <2>1. Head(inbox) \in heard /\ Head(inbox) \in Msg /\ inbox' \in Seq(Msg)
        /\ \A i \in 1..Len(inbox') : inbox'[i] \in heard
    <3>1. inbox \in Seq(Msg) /\ inbox # <<>> /\ inbox' = Tail(inbox)
      BY <1>1 DEF BeginTurn, ConversationTypes
    <3>2. Len(inbox) >= 1 /\ Head(inbox) = inbox[1] /\ Len(inbox) \in Nat
      BY <3>1
    <3>3. inbox' \in Seq(Msg) /\ Len(inbox') = Len(inbox) - 1
          /\ \A i \in 1..Len(inbox') : inbox'[i] = inbox[i + 1]
      BY <3>1
    <3>. QED
      BY <3>1, <3>2, <3>3 DEF SessionHeard
  <2>2. PICK A \in {{}} :
          status' = [m \in Msg |-> IF m \in A THEN "ACCEPTED" ELSE status[m]]
    BY <1>1 DEF BeginTurn, list, ConversationTypes
  <2>3. 0 \notin Msg /\ Msg \subseteq 0..MaxMsg
    BY BuilderAssumption DEF Msg
  <2>4. SessionHeard'
    BY <1>1, <2>1, <2>3 DEF BeginTurn, SessionHeard
  <2>5. ConversationTypes'
    BY <1>1, <2>1, <2>3 DEF BeginTurn, ConversationTypes, list
  <2>. QED
    BY <1>1, <2>2, <2>4, <2>5, SessionKeeps DEF BeginTurn, list
<1>2. CASE MessageReceived
  <2>1. about \in heard /\ about \in Msg
    BY <1>2 DEF MessageReceived, SessionHeard, ConversationTypes
  <2>2. UNCHANGED <<conv, linked, free, recorded, attempts, answers, pc, inbox,
                    heard, alive, about, asked, underway>> /\ turn' = "running"
    BY <1>2 DEF MessageReceived
  <2>3. PICK A \in {{}, {about}} :
          status' = [m \in Msg |-> IF m \in A THEN "ACCEPTED" ELSE status[m]]
    BY <1>2 DEF MessageReceived, ConversationTypes
  <2>4. ConversationTypes'
    <3>1. question' \in 0..MaxQuestion
      BY <1>2, BuilderAssumption DEF MessageReceived, ConversationTypes
    <3>2. status' \in [Msg -> Status]
      BY <2>3 DEF ConversationTypes, Status
    <3>. QED
      BY <2>2, <3>1, <3>2 DEF ConversationTypes
  <2>5. SessionHeard'
    BY <2>2 DEF SessionHeard
  <2>. QED
    BY <2>1, <2>2, <2>3, <2>4, <2>5, SessionKeeps
<1>3. CASE Ask \/ \E q \in Question : InputRequested(q)
  <2>1. UNCHANGED <<conv, linked, list, pc, inbox, heard, alive, turn, about>>
    BY <1>3 DEF Ask, InputRequested, row
  <2>2. PICK A \in {{}} :
          status' = [m \in Msg |-> IF m \in A THEN "ACCEPTED" ELSE status[m]]
    BY <2>1 DEF list, ConversationTypes
  <2>3. ConversationTypes'
    <3>1. CASE Ask
      BY <2>1, <3>1, BuilderAssumption DEF Ask, ConversationTypes, Question, row, list
    <3>2. ASSUME NEW q \in Question, InputRequested(q) PROVE ConversationTypes'
      <4>1. q \in 0..MaxQuestion
        BY BuilderAssumption DEF Question
      <4>2. /\ question' \in {q, question} /\ free' \in {TRUE, free}
            /\ recorded' \in {recorded \cup {q}, recorded}
        BY <3>2 DEF InputRequested
      <4>3. question' \in 0..MaxQuestion /\ recorded' \subseteq Question /\ free' \in BOOLEAN
        BY <4>1, <4>2 DEF ConversationTypes
      <4>. QED
        BY <2>1, <3>2, <4>3 DEF InputRequested, ConversationTypes, list
    <3>. QED
      BY <1>3, <3>1, <3>2
  <2>4. SessionHeard'
    BY <2>1 DEF SessionHeard
  <2>. QED
    BY <2>1, <2>2, <2>3, <2>4, SessionKeeps DEF list
<1>4. CASE SessionWaiting \/ TurnFailed \/ SessionCompleted
  <2>1. UNCHANGED <<conv, linked, recorded, list, pc, inbox, heard, asked, underway>>
    BY <1>4 DEF SessionWaiting, TurnFailed, SessionCompleted
  <2>2. PICK A \in {{}} :
          status' = [m \in Msg |-> IF m \in A THEN "ACCEPTED" ELSE status[m]]
    BY <2>1 DEF list, ConversationTypes
  <2>3. \/ turn' = "idle" /\ about' = 0 /\ free' = TRUE
        \/ turn' = turn /\ about' = about /\ free' = free
    BY <1>4 DEF SessionWaiting, TurnFailed, SessionCompleted, EndTurn
  <2>4. question' \in 0..MaxQuestion /\ alive' \in BOOLEAN
    <3>1. question' \in {question, 0} /\ (alive' = alive \/ alive' \in BOOLEAN)
      BY <1>4 DEF SessionWaiting, TurnFailed, SessionCompleted
    <3>. QED
      BY <3>1, BuilderAssumption DEF ConversationTypes
  <2>5. ConversationTypes'
    <3>1. turn' \in {"idle", "receiving", "running"} /\ about' \in 0..MaxMsg /\ free' \in BOOLEAN
      <4>1. 0 \in 0..MaxMsg
        BY BuilderAssumption
      <4>. QED
        BY <2>3, <4>1 DEF ConversationTypes
    <3>. QED
      BY <2>1, <2>4, <3>1 DEF ConversationTypes, list
  <2>6. SessionHeard'
    BY <2>1, <2>3 DEF SessionHeard
  <2>. QED
    BY <2>1, <2>2, <2>5, <2>6, SessionKeeps DEF list
<1>. QED
  BY <1>1, <1>2, <1>3, <1>4 DEF SessionStep

LEMMA ConversationStep == BInv /\ [BNext]_bvars => BInv'
<1> SUFFICES ASSUME BInv, [BNext]_bvars PROVE BInv'
    OBVIOUS
<1>1. CASE UNCHANGED bvars
  BY <1>1 DEF bvars, row, list, session, BInv, ConversationTypes, SubmittedInOrder,
     UnsubmittedIsUntried, TriesAreCounted, AcceptedWasHeard, FailedIsExhausted, SessionHeard,
     SentInOrder, Past, ClaimsArePaidFor, FailedLate
<1>2. CASE CreateBuilder \/ SubmitBuilder
  <2>1. 0 \in 0..MaxQuestion
    BY BuilderAssumption
  <2>2. Insert(0) /\ conv' \in {"none", "open", "removed"}
    BY <1>2 DEF CreateBuilder, SubmitBuilder, BInv, ConversationTypes
  <2>. QED
    BY <2>1, <2>2, InsertStep
<1>3. ASSUME NEW q \in Question, AnswerQuestion(q) PROVE BInv'
  <2>1. q \in 0..MaxQuestion
    BY BuilderAssumption DEF Question
  <2>. QED
    BY <1>3, <2>1, InsertStep DEF AnswerQuestion, BInv, ConversationTypes
<1>4. CASE conv = "open" /\ SessionStep
  <2>1. UNCHANGED conv
    BY <1>4 DEF SessionStep, BeginTurn, MessageReceived, Ask, InputRequested, SessionWaiting,
       TurnFailed, SessionCompleted
  <2>. QED
    BY <1>4, <2>1, SessionStepKeeps
<1>. QED
  BY <1>1, <1>2, <1>3, <1>4, RemoveStep, ClaimStep, SendStep, RecordStep, RecoverStep
     DEF BNext, Delivery

LEMMA ConversationInductive == BSpec => []BInv
<1>1. BInit => BInv
  <2> SUFFICES ASSUME BInit PROVE BInv
      OBVIOUS
  <2> USE DEF BInit
  <2>1. ConversationTypes
    <3>1. MaxTries \in Nat /\ MaxQuestion \in Nat /\ MaxMsg \in Nat
      BY BuilderAssumption
    <3>2. status \in [Msg -> Status] /\ attempts \in [Msg -> 0..MaxTries]
          /\ answers \in [Msg -> 0..MaxQuestion]
          /\ pc \in [Msg -> [Try -> {"idle", "sending", "sent", "over"}]]
      BY <3>1 DEF Status
    <3>3. inbox \in Seq(Msg) /\ heard \subseteq Msg
      OBVIOUS
    <3>4. conv \in {"none", "open", "removed"} /\ {linked, free, alive} \subseteq BOOLEAN
      OBVIOUS
    <3>5. /\ question \in 0..MaxQuestion /\ asked \in 0..MaxQuestion
          /\ recorded \subseteq Question /\ underway \subseteq Question
          /\ turn \in {"idle", "receiving", "running"} /\ about \in 0..MaxMsg
      BY <3>1
    <3>. QED
      BY <3>2, <3>3, <3>4, <3>5 DEF ConversationTypes
  <2>2. SubmittedInOrder /\ UnsubmittedIsUntried /\ TriesAreCounted /\ AcceptedWasHeard
        /\ FailedIsExhausted /\ SessionHeard /\ SentInOrder
    BY DEF SubmittedInOrder, UnsubmittedIsUntried, TriesAreCounted, AcceptedWasHeard,
       FailedIsExhausted, SessionHeard, SentInOrder
  <2>3. ClaimsArePaidFor
    BY BuilderAssumption DEF ClaimsArePaidFor
  <2>. QED
    BY <2>1, <2>2, <2>3 DEF BInv
<1>. QED
  BY <1>1, ConversationStep, PTL DEF BSpec

\* THEOREM: every reachable state of a conversation has its types, among them
\* that no message is claimed more than 2 * MaxAttempts - 1 times, whatever
\* sends hang, lapse or fail late.
THEOREM ConversationTypeCorrect == BSpec => []BTypeOK
<1>1. BInv => BTypeOK
  <2> SUFFICES ASSUME BInv PROVE BTypeOK
      OBVIOUS
  <2>1. attempts \in [Msg -> 0..(2 * MaxAttempts - 1)]
    BY AttemptsBounded DEF BInv, ConversationTypes
  <2>. QED
    BY <2>1 DEF BInv, ConversationTypes, BTypeOK
<1>. QED
  BY <1>1, ConversationInductive, PTL

\* THEOREM: the session hears messages in the order they were written, but for
\* those that were tried as often as the dispatcher tries, for any number of
\* messages, deliveries and questions.
THEOREM OvertakenOnlyWhenExhausted == BSpec => []OvertakenWhenExhausted
<1>1. BInv => OvertakenWhenExhausted
  BY DEF BInv, ConversationTypes, SentInOrder, Past, OvertakenWhenExhausted
<1>. QED
  BY <1>1, ConversationInductive, PTL
=============================================================================
