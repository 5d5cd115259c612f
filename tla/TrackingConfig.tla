---------------------------- MODULE TrackingConfig ----------------------------
(***************************************************************************)
(* The compiled tracking configuration: what the settings say, the hash of *)
(* it in the settings' row, and the copy in the cache that every replica   *)
(* of the API reads.  Requests for the configuration and changes of it run *)
(* at once on several replicas.                                            *)
(*                                                                         *)
(* A configuration is a number and its own hash; 0 is "none": tracking is  *)
(* paused, the hash is NULL, the cache is empty.                           *)
(***************************************************************************)
EXTENDS Naturals, FiniteSets

CONSTANTS
  Replica,    \* replicas of the API
  Request,    \* requests under way
  Config,     \* configurations
  MaxChange   \* bound: changes of the settings

ASSUME ConfigAssumption == Config \subseteq Nat \ {0} /\ MaxChange \in Nat

VARIABLES
  setting,     \* what readTrackingConfig returns
  hash,        \* appSetting.trackingConfigHash
  cache,       \* the cache's CONFIG_KEY
  generation,  \* generation[r], since the changes r saw
  changes,     \* changes so far
  home,        \* home[q]: the replica of a request
  stage,       \* stage[q]: where it stands
  read,        \* read[q]: the configuration it read
  seen         \* seen[q]: the generation it read

request == <<home, stage, read, seen>>
cvars == <<setting, hash, cache, generation, changes, request>>

CInit ==
  /\ setting \in Config \cup {0} /\ hash = setting /\ cache \in {0, setting}
  /\ generation = [r \in Replica |-> 0] /\ changes = 0
  /\ home \in [Request -> Replica]
  /\ stage = [q \in Request |-> "idle"]
  /\ read = [q \in Request |-> 0] /\ seen = [q \in Request |-> 0]

In(q, s) == stage[q] = s
Move(q, s) == stage' = [stage EXCEPT ![q] = s]
Mine(q) == seen[q] = generation[home[q]]

-----------------------------------------------------------------------------
(* compiled.                                                               *)

\* A miss; a hit changes nothing.
Miss(q) ==
  /\ In(q, "idle") /\ cache = 0
  /\ Move(q, "compiling")
  /\ seen' = [seen EXCEPT ![q] = generation[home[q]]]
  /\ UNCHANGED <<setting, hash, cache, generation, changes, home, read>>

Compile(q) ==
  /\ In(q, "compiling")
  /\ read' = [read EXCEPT ![q] = setting]
  /\ Move(q, IF setting = 0 THEN "idle" ELSE "comparing")
  /\ UNCHANGED <<setting, hash, cache, generation, changes, home, seen>>

Current(q) == hash = read[q]

\* The generation is compared first, ...
Compare(q) ==
  /\ In(q, "comparing")
  /\ Move(q, IF Mine(q) THEN "validating" ELSE "idle")
  /\ UNCHANGED <<setting, hash, cache, generation, changes, home, read, seen>>

\* ... then the hash is awaited ...
Validate(q) ==
  /\ In(q, "validating")
  /\ Move(q, IF Current(q) THEN "storing" ELSE "idle")
  /\ UNCHANGED <<setting, hash, cache, generation, changes, home, read, seen>>

\* ... and then the cache is written.
Store(q) ==
  /\ In(q, "storing") /\ Move(q, "idle")
  /\ cache' = read[q]
  /\ UNCHANGED <<setting, hash, generation, changes, home, read, seen>>

-----------------------------------------------------------------------------
(* A change of the settings, followed by invalidate.                       *)

Change(q) ==
  /\ In(q, "idle") /\ changes < MaxChange
  /\ changes' = changes + 1
  /\ setting' \in (Config \cup {0}) \ {setting}
  /\ Move(q, "changed")
  /\ UNCHANGED <<hash, cache, generation, home, read, seen>>

Bump(q) ==
  /\ In(q, "changed") /\ Move(q, "deleting")
  /\ generation' = [generation EXCEPT ![home[q]] = @ + 1]
  /\ seen' = [seen EXCEPT ![q] = generation[home[q]] + 1]
  /\ UNCHANGED <<setting, hash, cache, changes, home, read>>

Delete(q) ==
  /\ In(q, "deleting") /\ Move(q, "reading")
  /\ cache' = 0
  /\ UNCHANGED <<setting, hash, generation, changes, home, read, seen>>

Read(q) ==
  /\ In(q, "reading") /\ Move(q, "writing")
  /\ read' = [read EXCEPT ![q] = setting]
  /\ UNCHANGED <<setting, hash, cache, generation, changes, home, seen>>

\* The hash column; the look that follows is that of compiled.
WriteHash(q) ==
  /\ In(q, "writing")
  /\ hash' = read[q]
  /\ Move(q, IF read[q] = 0 THEN "idle" ELSE "comparing")
  /\ UNCHANGED <<setting, cache, generation, changes, home, read, seen>>

\* Mutant of Expire: an entry without a time to live.
ExpireNever ==
  /\ cache = 0 /\ cache' = 0
  /\ UNCHANGED <<setting, hash, generation, changes, request>>

\* CONFIG_TTL_MS
Expire ==
  /\ cache # 0 /\ cache' = 0
  /\ UNCHANGED <<setting, hash, generation, changes, request>>

Proceed(q) ==
  \/ Compile(q) \/ Compare(q) \/ Validate(q) \/ Store(q)
  \/ Bump(q) \/ Delete(q) \/ Read(q) \/ WriteHash(q)

CNext ==
  \/ \E q \in Request : Miss(q) \/ Change(q) \/ Proceed(q)
  \/ Expire

CSpec == CInit /\ [][CNext]_cvars

-----------------------------------------------------------------------------
(* Properties.                                                             *)

\* Every variable has its type.
CTypeOK ==
  /\ {setting, hash, cache} \subseteq Config \cup {0}
  /\ generation \in [Replica -> 0..MaxChange] /\ changes \in 0..MaxChange
  /\ home \in [Request -> Replica]
  /\ stage \in [Request -> {"idle", "compiling", "comparing", "validating", "storing",
                            "changed", "deleting", "reading", "writing"}]
  /\ read \in [Request -> Config \cup {0}] /\ seen \in [Request -> 0..MaxChange]

\* A configuration that is no longer the one of the settings, such as a stolen
\* site id that was rotated, leaves the cache for good (docs/tracking.md:217).
StaleGoesAway == <>[](cache \in {0, setting})

\* docs/tracking.md:219-229: while tracking is paused, and the change that
\* paused it is over, no configuration is cached.
NoneCachedWhilePaused ==
  setting = 0 /\ (\A q \in Request : stage[q] \in {"idle", "compiling"}) => cache = 0
=============================================================================
