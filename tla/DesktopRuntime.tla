----------------------------- MODULE DesktopRuntime -----------------------------
(***************************************************************************)
(* The desktop build: a window starts a supervisor, which creates and      *)
(* starts a Postgres of its own, migrates it and starts the API and the    *)
(* app.  What an install knows is on disk, and every process can end at    *)
(* any moment: the window is closed, a program is killed, the machine goes *)
(* down.  Nothing keeps a person from opening two windows.                 *)
(*                                                                         *)
(* The secrets file is written without fsync, so a power cut takes it back *)
(* as long as the system has not written it out; a finished cluster and a  *)
(* committed migration are on disk, as initdb and Postgres sync them.  A   *)
(* password is a number, in the order in which they were made.             *)
(*                                                                         *)
(* Each start picks new ports, so a server is reached only by the          *)
(* supervisor that started it.  initdb and pg_ctl are programs of their    *)
(* own, which outlive the supervisor that called them.                     *)
(*                                                                         *)
(* Left out: unpacking the payload, settings.env, logs, the creation of    *)
(* the database in the cluster, children that outlive the supervisor,      *)
(* which hold no port that a later start would use, and, of a file that    *)
(* was written twice, that a power cut may bring back the first.           *)
(***************************************************************************)
EXTENDS Naturals, FiniteSets

CONSTANTS
  Window,     \* windows, and the supervisors they start
  Migrations, \* how many there are
  Own,        \* the migrations that open a transaction of their own
  Nobody,     \* no supervisor
  Part,       \* what was begun: a file half written, a cluster half made
  MaxFault,   \* bound: programs killed, files not read, power cuts
  MaxWhim     \* bound: second windows, and windows closed for no reason

ASSUME DesktopAssumption ==
  /\ {Nobody, Part} \cap (Window \cup Nat) = {} /\ Nobody # Part
  /\ {Migrations, MaxFault, MaxWhim} \subseteq Nat /\ Own \subseteq 1..Migrations

VARIABLES
  open,      \* open[w]: the window's process is alive
  stage,     \* stage[w]: where its supervisor stands
  password,  \* password[w]: the one it read or made
  api, app,  \* children that are alive, by supervisor
  secrets,   \* the file: absent, in part, or the password it holds
  unsynced,  \* it was written and is not on disk yet
  made,      \* passwords made so far
  cluster,   \* the data directory: absent, in part, or the password it has
  effect,    \* how many migrations' statements are committed
  recorded,  \* how many _prisma_migrations says are
  initdb,    \* the password for which an initdb is at work
  starting,  \* pg_ctl starts at work, by port
  server,    \* whose port the server listens on
  faults, whims,
  mishaps    \* history: what befell the secrets file

file == <<secrets, unsynced, made, mishaps>>
schema == <<effect, recorded>>
disk == <<file, cluster, schema>>
programs == <<initdb, starting, server>>
bounded == <<faults, whims>>
xvars == <<open, stage, password, api, app, disk, programs, bounded>>

\* The port of a supervisor that is gone: nobody will connect to it.
Stray == Part

Starting == {"secrets", "creating", "torn", "cluster", "initdb", "start", "starting",
             "connect", "migrate", "record", "api", "app"}
Alive == Starting \cup {"ready", "closing"}

XInit ==
  /\ open = [w \in Window |-> FALSE] /\ stage = [w \in Window |-> "none"]
  /\ password = [w \in Window |-> Nobody]
  /\ api = {} /\ app = {}
  /\ secrets = Nobody /\ unsynced = FALSE /\ made = 0 /\ mishaps = {}
  /\ cluster = Nobody /\ effect = 0 /\ recorded = 0
  /\ initdb = Nobody /\ starting = {} /\ server = Nobody
  /\ faults = 0 /\ whims = 0

Whole(x) == x \notin {Nobody, Part}

At(w, s) == stage[w] = s
Go(w, s) == stage' = [stage EXCEPT ![w] = s]

\* Without its supervisor, a server or a pg_ctl has a port nobody knows.
Orphan(W) ==
  /\ server' = IF server \in W THEN Stray ELSE server
  /\ starting' = IF starting \cap W = {} THEN starting ELSE (starting \ W) \cup {Stray}

\* A process that has ended knows no password.
Forget(W) == password' = [w \in Window |-> IF w \in W THEN Nobody ELSE password[w]]

-----------------------------------------------------------------------------
(* main of the supervisor.                                                 *)

Fail(w) ==
  /\ Go(w, "failed") /\ Orphan({w}) /\ Forget({w})
  /\ api' = api \ {w} /\ app' = app \ {w}

\* readOrCreateSecrets: one that is not there is to be made, one whose contents
\* are not whole is an error.
ReadSecrets(w) ==
  /\ At(w, "secrets")
  /\ \/ /\ secrets = Nobody /\ Go(w, "creating")
        /\ mishaps' = IF \E x \in Window \ {w} : stage[x] \in {"creating", "torn"}
                      THEN mishaps \cup {"twins"} ELSE mishaps
        /\ UNCHANGED <<password, api, app, starting, server>>
     \/ /\ Whole(secrets) /\ Go(w, "cluster")
        /\ password' = [password EXCEPT ![w] = secrets]
        /\ UNCHANGED <<api, app, starting, server, mishaps>>
     \/ secrets = Part /\ Fail(w) /\ UNCHANGED mishaps
  /\ UNCHANGED <<open, secrets, unsynced, made, cluster, schema, initdb, bounded>>

Fault == faults < MaxFault /\ faults' = faults + 1 /\ UNCHANGED whims

\* The file is there and the read fails: taken for a file that is not there.
Misread(w) ==
  /\ At(w, "secrets") /\ secrets # Nobody /\ Fault
  /\ Go(w, "creating") /\ mishaps' = mishaps \cup {"misread"}
  /\ UNCHANGED <<open, password, api, app, secrets, unsynced, made, cluster, schema, programs>>

\* Mutant of TearSecrets: the write is not awaited.
TearSecretsOnly(w) ==
  /\ At(w, "creating") /\ Go(w, "cluster")
  /\ made' = made + 1 /\ password' = [password EXCEPT ![w] = made + 1]
  /\ secrets' = Part /\ unsynced' = TRUE
  /\ UNCHANGED <<open, api, app, cluster, schema, mishaps, programs, bounded>>

\* A new password is made and written over what is there, in more than one step.
TearSecrets(w) ==
  /\ At(w, "creating") /\ Go(w, "torn")
  /\ made' = made + 1 /\ password' = [password EXCEPT ![w] = made + 1]
  /\ secrets' = Part /\ unsynced' = TRUE
  /\ UNCHANGED <<open, api, app, cluster, schema, mishaps, programs, bounded>>

WriteSecrets(w) ==
  /\ At(w, "torn") /\ Go(w, "cluster")
  /\ secrets' = password[w] /\ unsynced' = TRUE
  /\ UNCHANGED <<open, password, api, app, made, cluster, schema, mishaps, programs, bounded>>

\* The system writes the file out, some time.
Flush ==
  /\ unsynced /\ unsynced' = FALSE
  /\ UNCHANGED <<open, stage, password, api, app, secrets, made, cluster, schema, mishaps, programs, bounded>>

\* clusterExists and initialiseCluster: PG_VERSION is among the first things
\* initdb writes, and a directory that is not empty is an error.
InitialiseCluster(w) ==
  /\ At(w, "cluster")
  /\ \/ cluster # Nobody /\ Go(w, "start") /\ UNCHANGED <<cluster, initdb>>
     \/ cluster = Nobody /\ Go(w, "initdb") /\ cluster' = Part /\ initdb' = password[w]
  /\ UNCHANGED <<open, password, api, app, file, schema, starting, server, bounded>>

InitdbEnds ==
  /\ initdb # Nobody
  /\ cluster' = initdb /\ initdb' = Nobody
  /\ stage' = [w \in Window |-> IF At(w, "initdb") THEN "start" ELSE stage[w]]
  /\ UNCHANGED <<open, password, api, app, file, schema, starting, server, bounded>>

\* startCluster: one that runs is taken to be this supervisor's.
StartCluster(w) ==
  /\ At(w, "start")
  /\ IF server # Nobody THEN Go(w, "connect") /\ UNCHANGED starting
     ELSE Go(w, "starting") /\ starting' = starting \cup {w}
  /\ UNCHANGED <<open, password, api, app, disk, initdb, server, bounded>>

\* pg_ctl: a second server does not start, nor one on half a cluster.
PgCtlEnds(p) ==
  LET starts == server = Nobody /\ Whole(cluster) IN
  /\ p \in starting /\ starting' = starting \ {p}
  /\ server' = IF starts THEN p ELSE server
  /\ stage' = [w \in Window |-> IF w # p THEN stage[w] ELSE IF starts THEN "connect" ELSE "failed"]
  /\ Forget({w \in Window : w = p /\ ~starts})
  /\ UNCHANGED <<open, api, app, disk, initdb, bounded>>

Reaches(w) == server = w /\ cluster = password[w]

\* ensureDatabase: ten attempts at its own port, with its own password
Connect(w) ==
  /\ At(w, "connect")
  /\ IF Reaches(w) THEN Go(w, "migrate") /\ UNCHANGED <<password, api, app, starting, server>> ELSE Fail(w)
  /\ UNCHANGED <<open, disk, initdb, bounded>>

\* applyMigrations: those that are not recorded, in their order.  One that has
\* been applied fails when it is applied again.
Migrate(w) ==
  LET m == recorded + 1 IN
  /\ At(w, "migrate")
  /\ \/ /\ recorded = Migrations /\ Go(w, "api") /\ api' = api \cup {w}
        /\ UNCHANGED <<password, effect, recorded, app, starting, server>>
     \/ /\ m <= Migrations /\ Reaches(w) /\ effect < m
        /\ effect' = m
        /\ IF m \in Own THEN Go(w, "record") /\ UNCHANGED recorded
           ELSE recorded' = m /\ UNCHANGED stage
        /\ UNCHANGED <<password, api, app, starting, server>>
     \/ m <= Migrations /\ ~(Reaches(w) /\ effect < m) /\ Fail(w) /\ UNCHANGED <<effect, recorded>>
  /\ UNCHANGED <<open, file, cluster, initdb, bounded>>

Record(w) ==
  /\ At(w, "record")
  /\ IF Reaches(w)
     THEN Go(w, "migrate") /\ recorded' = recorded + 1 /\ UNCHANGED <<password, api, app, starting, server>>
     ELSE Fail(w) /\ UNCHANGED recorded
  /\ UNCHANGED <<open, file, cluster, effect, initdb, bounded>>

\* waitUntilReachable: a child that is up answers, one that is gone never will.
Wait(w) ==
  /\ \/ /\ At(w, "api") /\ w \in api /\ Go(w, "app") /\ app' = app \cup {w}
        /\ UNCHANGED <<password, api, starting, server>>
     \/ /\ At(w, "app") /\ w \in app /\ Go(w, "ready")
        /\ UNCHANGED <<password, api, app, starting, server>>
     \/ At(w, "api") /\ w \notin api /\ Fail(w)
     \/ At(w, "app") /\ w \notin app /\ Fail(w)
  /\ UNCHANGED <<open, disk, initdb, bounded>>

\* shutdown, after a child's exit: the children are told to stop, the cluster
\* is stopped, whoever started it, and the supervisor exits.
Shutdown(w) ==
  /\ At(w, "closing") /\ Go(w, "failed") /\ Forget({w})
  /\ api' = api \ {w} /\ app' = app \ {w} /\ server' = Nobody
  /\ UNCHANGED <<open, disk, initdb, starting, bounded>>

-----------------------------------------------------------------------------
(* The window, and what goes wrong.                                        *)

OpenWindow(w) ==
  /\ ~open[w] /\ stage[w] \in {"none", "failed"}
  /\ IF \E x \in Window : open[x] THEN whims < MaxWhim /\ whims' = whims + 1 ELSE UNCHANGED whims
  /\ open' = [open EXCEPT ![w] = TRUE] /\ Go(w, "secrets")
  /\ UNCHANGED <<password, api, app, disk, programs, faults>>

Serving(w) == open[w] /\ At(w, "ready") /\ w \in api \cap app /\ server = w

\* stop, first half: the supervisor is gone before the next step.  One that is
\* ready stops its children, and the cluster as the window itself does.
CloseWindow(w) ==
  /\ open[w] /\ ~At(w, "stopping")
  /\ IF Serving(w) \/ stage[w] \in Starting \cup {"closing"}
     THEN whims < MaxWhim /\ whims' = whims + 1 ELSE UNCHANGED whims
  /\ Go(w, "stopping") /\ Orphan({w}) /\ Forget({w})
  /\ api' = api \ {w} /\ app' = app \ {w}
  /\ UNCHANGED <<open, disk, initdb, faults>>

\* Mutant of StopCluster: the window leaves the cluster to the supervisor.
LeaveCluster(w) ==
  /\ At(w, "stopping")
  /\ open' = [open EXCEPT ![w] = FALSE] /\ Go(w, "none")
  /\ UNCHANGED <<password, api, app, disk, programs, bounded>>

\* stop, second half: pg_ctl stop, whoever started the server
StopCluster(w) ==
  /\ At(w, "stopping")
  /\ open' = [open EXCEPT ![w] = FALSE] /\ Go(w, "none")
  /\ server' = Nobody
  /\ UNCHANGED <<password, api, app, disk, initdb, starting, bounded>>

\* Only a ready supervisor listens for the exits of its children.
ChildDies(w) ==
  /\ Fault
  /\ \/ w \in api /\ api' = api \ {w} /\ UNCHANGED app
     \/ w \in app /\ app' = app \ {w} /\ UNCHANGED api
  /\ IF At(w, "ready") THEN Go(w, "closing") ELSE UNCHANGED stage
  /\ UNCHANGED <<open, password, disk, programs>>

\* The window's process ends without stop: its supervisor goes on.
WindowDies(w) ==
  /\ Fault /\ open[w]
  /\ open' = [open EXCEPT ![w] = FALSE]
  /\ stage' = [stage EXCEPT ![w] = IF @ = "stopping" THEN "none" ELSE @]
  /\ UNCHANGED <<password, api, app, disk, programs>>

\* A supervisor that is starting, or stopping, is killed; its window stays.
SupervisorDies(w) ==
  /\ stage[w] \in Starting \cup {"closing"} /\ Fault /\ Fail(w)
  /\ UNCHANGED <<open, disk, initdb>>

\* Postgres is killed; no supervisor listens for that.
ServerDies ==
  /\ server # Nobody /\ Fault /\ server' = Nobody
  /\ UNCHANGED <<open, stage, password, api, app, disk, initdb, starting>>

\* initdb is killed, or fails and removes what it made.
InitdbDies ==
  /\ initdb # Nobody /\ Fault /\ initdb' = Nobody /\ cluster' \in {Part, Nobody}
  /\ stage' = [w \in Window |-> IF At(w, "initdb") THEN "failed" ELSE stage[w]]
  /\ Forget({w \in Window : At(w, "initdb")})
  /\ UNCHANGED <<open, api, app, file, schema, starting, server>>

\* The machine goes down.  What was written and not synced may be gone, or in
\* part; that is a mishap if the cluster that has the password is there.
PowerCut ==
  /\ Fault
  /\ open' = [w \in Window |-> FALSE] /\ stage' = [w \in Window |-> "none"]
  /\ Forget(Window) /\ api' = {} /\ app' = {}
  /\ initdb' = Nobody /\ starting' = {} /\ server' = Nobody
  /\ secrets' \in IF unsynced THEN {secrets, Part, Nobody} ELSE {secrets}
  /\ cluster' \in IF cluster = Part THEN {Part, Nobody} ELSE {cluster}
  /\ mishaps' = IF Whole(cluster) /\ secrets' # secrets THEN mishaps \cup {"unsynced"} ELSE mishaps
  /\ unsynced' = FALSE
  /\ UNCHANGED <<made, schema>>

Supervises(w) ==
  \/ ReadSecrets(w) \/ TearSecrets(w) \/ WriteSecrets(w) \/ InitialiseCluster(w) \/ StartCluster(w)
  \/ Connect(w) \/ Migrate(w) \/ Record(w) \/ Wait(w) \/ Shutdown(w) \/ StopCluster(w)

\* A window that shows a failure or nothing that works is closed.
GivesUp(w) == open[w] /\ ~Serving(w) /\ stage[w] \in {"failed", "ready"} /\ CloseWindow(w)

XNext ==
  \/ \E w \in Window : \/ OpenWindow(w) \/ CloseWindow(w) \/ ChildDies(w) \/ WindowDies(w)
                       \/ Supervises(w) \/ Misread(w) \/ SupervisorDies(w)
  \/ \E p \in Window \cup {Stray} : PgCtlEnds(p)
  \/ InitdbEnds \/ Flush \/ InitdbDies \/ ServerDies \/ PowerCut

XSpec == XInit /\ [][XNext]_xvars

-----------------------------------------------------------------------------
(* Properties.                                                             *)

\* Every variable has its type.
XTypeOK ==
  /\ open \in [Window -> BOOLEAN]
  /\ stage \in [Window -> Alive \cup {"none", "failed", "stopping"}]
  /\ made \in Nat /\ password \in [Window -> 1..made \cup {Nobody}]
  /\ api \subseteq Window /\ app \subseteq Window
  /\ {secrets, cluster} \subseteq 1..made \cup {Nobody, Part} /\ unsynced \in BOOLEAN
  /\ effect \in 0..Migrations /\ recorded \in 0..effect
  /\ initdb \in 1..made \cup {Nobody} /\ starting \subseteq Window \cup {Stray}
  /\ server \in Window \cup {Nobody, Stray}
  /\ faults \in 0..MaxFault /\ whims \in 0..MaxWhim
  /\ mishaps \subseteq {"twins", "misread", "unsynced"}

\* Whichever program ends when, the password that opens the cluster is in the
\* secrets file: without it the data is lost (runtime/secrets.ts:37).  Three
\* mishaps are told apart: two windows opened for the first time at once may each
\* make one, a read that fails counts as no file (:30), and a power cut takes a
\* file that was not synced (:47) from beside the cluster.
PasswordIsKept == Whole(cluster) /\ mishaps = {} => secrets = cluster

\* The same without them.  TLC refutes it, by each of the three.
PasswordIsAlwaysKept == Whole(cluster) => secrets = cluster

\* What no start repairs: a file or a cluster left in part, a password lost, a
\* migration applied and not recorded.
Damaged ==
  \/ secrets = Part /\ \A w \in Window : ~At(w, "torn")
  \/ cluster = Part /\ initdb = Nobody
  \/ Whole(cluster) /\ cluster # secrets
  \/ effect > recorded /\ \A w \in Window : ~At(w, "record")

\* Somebody who opens a window, and reopens one that does not work, gets one that
\* does, whatever was left running by those before, unless the install is damaged.
ComesUp == (\E w \in Window : open[w]) ~> (Damaged \/ \E w \in Window : Serving(w))
=============================================================================
