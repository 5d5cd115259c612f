----------------------------- MODULE OfficeProofs -----------------------------
(***************************************************************************)
(* Proofs about what an install keeps for everybody: the figures of deals  *)
(* in the reporting currency (DealMoney), the roles of members (Workspace) *)
(* and the password of the desktop build's cluster (DesktopRuntime), for   *)
(* any number of deals, edits, jobs, members, requests and windows.        *)
(***************************************************************************)
EXTENDS DealMoney, Workspace, DesktopRuntime, TLAPS, FiniteSetTheorems

(***************************************************************************)
(* The desktop.  The secrets file and the cluster are written by different *)
(* programs at different times, and any of them can end in between.  The   *)
(* one password goes from the file to a supervisor, from there to initdb   *)
(* and from there to the cluster, and nobody writes the file meanwhile:    *)
(* that is what the invariant says, place by place.                        *)
(***************************************************************************)

\* Between a supervisor's look for the file and the file's last byte.
Making(w) == stage[w] \in {"creating", "torn"}

OneMakesSecrets == \A w, x \in Window : Making(w) /\ Making(x) => w = x

MakerFoundNone ==
  \A w \in Window : /\ At(w, "creating") => secrets = Nobody
                    /\ At(w, "torn") => secrets = Part /\ password[w] \in 1..made

PasswordOnItsWay ==
  /\ \A w \in Window : At(w, "cluster") => password[w] \in 1..made /\ password[w] = secrets
  /\ initdb # Nobody => initdb \in 1..made /\ initdb = secrets

\* At most one migration is applied and not yet recorded, by one supervisor.
OneRecords ==
  /\ effect <= recorded + 1
  /\ \A w, x \in Window : At(w, "record") /\ At(x, "record") => w = x
  /\ \A w \in Window : At(w, "record") => effect = recorded + 1

KeptUnlessMishap ==
  mishaps = {} => OneMakesSecrets /\ MakerFoundNone /\ PasswordOnItsWay /\ PasswordIsKept

XInv == XTypeOK /\ OneRecords /\ KeptUnlessMishap

-----------------------------------------------------------------------------
\* What starts, stops or loses servers and children keeps their types.
LEMMA FailTypes ==
  ASSUME XTypeOK, NEW w \in Window, Fail(w)
  PROVE  /\ stage' = [stage EXCEPT ![w] = "failed"]
         /\ server' \in Window \cup {Nobody, Stray} /\ starting' \subseteq Window \cup {Stray}
         /\ api' \subseteq Window /\ app' \subseteq Window
         /\ password' = [password EXCEPT ![w] = Nobody]
<1>1. server' \in Window \cup {Nobody, Stray}
  BY DEF XTypeOK, Fail, Orphan
<1>2. starting' \subseteq Window \cup {Stray}
  <2>1. CASE starting \cap {w} = {}
    BY <2>1 DEF XTypeOK, Fail, Orphan
  <2>2. CASE starting \cap {w} # {}
    BY <2>2 DEF XTypeOK, Fail, Orphan
  <2>. QED
    BY <2>1, <2>2
<1>3. password' = [password EXCEPT ![w] = Nobody]
  BY DEF Fail, Forget, XTypeOK
<1>. QED
  BY <1>1, <1>2, <1>3 DEF Fail, Go, XTypeOK

\* The secrets file: a supervisor that finds none makes one, and notes whether
\* another was at it.
LEMMA SecretsStep ==
  ASSUME XInv, NEW w \in Window,
         ReadSecrets(w) \/ TearSecrets(w) \/ WriteSecrets(w) \/ Misread(w)
  PROVE  XInv'
<1> USE DesktopAssumption DEF XInv, XTypeOK, OneRecords, KeptUnlessMishap, OneMakesSecrets,
        MakerFoundNone, PasswordOnItsWay, PasswordIsKept, Making, At, Go, Alive, Starting,
        bounded, programs
<1>1. CASE ReadSecrets(w)
  <2>1. CASE secrets = Nobody /\ Go(w, "creating")
    <3>1. /\ stage' = [stage EXCEPT ![w] = "creating"]
          /\ mishaps' \in {mishaps, mishaps \cup {"twins"}}
          /\ mishaps' = {} => mishaps = {} /\ ~\E x \in Window \ {w} : Making(x)
          /\ UNCHANGED <<open, password, api, app, secrets, unsynced, made, cluster, effect, recorded,
                         programs, bounded>>
      BY <1>1, <2>1 DEF ReadSecrets, schema, Whole
    <3>2. XTypeOK'
      BY <3>1
    <3>3. OneRecords'
      BY <3>1
    <3>4. mishaps' = {} => OneMakesSecrets'
      BY <3>1
    <3>5. mishaps' = {} => MakerFoundNone' /\ PasswordOnItsWay' /\ PasswordIsKept'
      BY <2>1, <3>1
    <3>. QED
      BY <3>2, <3>3, <3>4, <3>5
  <2>2. CASE Whole(secrets) /\ Go(w, "cluster")
    <3>1. /\ stage' = [stage EXCEPT ![w] = "cluster"]
          /\ password' = [password EXCEPT ![w] = secrets] /\ secrets \in 1..made
          /\ UNCHANGED <<open, api, app, disk, programs, bounded>>
      BY <1>1, <2>2 DEF ReadSecrets, disk, file, schema, Whole
    <3>2. XTypeOK'
      BY <2>2, <3>1 DEF disk, file, schema
    <3>3. OneRecords'
      BY <3>1 DEF disk, schema
    <3>4. KeptUnlessMishap'
      BY <2>2, <3>1 DEF disk, file, Whole
    <3>. QED
      BY <3>2, <3>3, <3>4
  <2>3. CASE secrets = Part /\ Fail(w)
    <3>1. /\ stage' = [stage EXCEPT ![w] = "failed"]
          /\ password' = [password EXCEPT ![w] = Nobody]
          /\ UNCHANGED <<open, disk, initdb, bounded>>
      BY <1>1, <2>3, FailTypes DEF ReadSecrets, disk, file, schema, Whole
    <3>2. XTypeOK'
      BY <2>3, <3>1, FailTypes DEF disk, file, schema
    <3>3. OneRecords'
      BY <3>1 DEF disk, schema
    <3>4. KeptUnlessMishap'
      BY <3>1 DEF disk, file
    <3>. QED
      BY <3>2, <3>3, <3>4
  <2>. QED
    BY <1>1, <2>1, <2>2, <2>3 DEF ReadSecrets
<1>2. CASE TearSecrets(w)
  <2>1. /\ stage[w] = "creating" /\ stage' = [stage EXCEPT ![w] = "torn"]
        /\ made' = made + 1 /\ password' = [password EXCEPT ![w] = made + 1]
        /\ secrets' = Part /\ unsynced' = TRUE
        /\ UNCHANGED <<open, api, app, cluster, effect, recorded, mishaps, programs, bounded>>
    BY <1>2 DEF TearSecrets, schema
  <2>2. made' \in Nat /\ made + 1 \in 1..made' /\ 1..made \subseteq 1..made'
    BY <2>1
  <2>3. XTypeOK'
    BY <2>1, <2>2
  <2>4. OneRecords'
    BY <2>1
  <2>5. KeptUnlessMishap'
    BY <2>1, <2>2 DEF Whole
  <2>. QED
    BY <2>3, <2>4, <2>5
<1>3. CASE WriteSecrets(w)
  <2>1. /\ stage[w] = "torn" /\ stage' = [stage EXCEPT ![w] = "cluster"]
        /\ secrets' = password[w] /\ unsynced' = TRUE
        /\ UNCHANGED <<open, password, api, app, made, cluster, effect, recorded, mishaps, programs, bounded>>
    BY <1>3 DEF WriteSecrets, schema
  <2>2. XTypeOK'
    BY <2>1
  <2>3. OneRecords'
    BY <2>1
  <2>4. KeptUnlessMishap'
    BY <2>1 DEF Whole
  <2>. QED
    BY <2>2, <2>3, <2>4
<1>4. CASE Misread(w)
  <2>1. /\ stage' = [stage EXCEPT ![w] = "creating"] /\ mishaps' = mishaps \cup {"misread"}
        /\ faults' \in 0..MaxFault
        /\ UNCHANGED <<open, password, api, app, secrets, unsynced, made, cluster, effect, recorded,
                       programs, whims>>
    BY <1>4 DEF Misread, Fault, schema
  <2>2. XTypeOK'
    BY <2>1
  <2>. QED
    BY <2>1, <2>2
<1>. QED
  BY <1>1, <1>2, <1>3, <1>4

\* The file reaches the disk, which changes nothing that is read.
LEMMA FlushStep ==
  ASSUME XInv, Flush
  PROVE  XInv'
<1>1. /\ unsynced' = FALSE
      /\ UNCHANGED <<open, stage, password, api, app, secrets, made, cluster, effect, recorded,
                     mishaps, programs, bounded>>
  BY DEF Flush, schema
<1>. QED
  BY <1>1 DEF XInv, XTypeOK, OneRecords, KeptUnlessMishap, OneMakesSecrets, MakerFoundNone,
     PasswordOnItsWay, PasswordIsKept, Making, At, Whole, programs, bounded

\* The cluster gets the password that its supervisor read.
LEMMA ClusterStep ==
  ASSUME XInv, (\E w \in Window : InitialiseCluster(w)) \/ InitdbEnds \/ InitdbDies
  PROVE  XInv'
<1> USE DesktopAssumption DEF XInv, XTypeOK, OneRecords, KeptUnlessMishap, OneMakesSecrets,
        MakerFoundNone, PasswordOnItsWay, PasswordIsKept, Making, At, Go, Alive, Starting,
        bounded
<1>1. ASSUME NEW w \in Window, InitialiseCluster(w) PROVE XInv'
  <2>1. XTypeOK'
    BY <1>1 DEF InitialiseCluster, file, schema
  <2>2. OneRecords'
    BY <1>1 DEF InitialiseCluster, schema
  <2>3. KeptUnlessMishap'
    BY <1>1 DEF InitialiseCluster, file, Whole
  <2>. QED
    BY <2>1, <2>2, <2>3
<1>2. CASE InitdbEnds
  <2>1. XTypeOK'
    BY <1>2 DEF InitdbEnds, file, schema
  <2>2. OneRecords'
    BY <1>2 DEF InitdbEnds, schema
  <2>3. KeptUnlessMishap'
    BY <1>2 DEF InitdbEnds, file, Whole
  <2>. QED
    BY <2>1, <2>2, <2>3
<1>3. CASE InitdbDies
  <2>1. XTypeOK'
    BY <1>3 DEF InitdbDies, Forget, Fault, file, schema
  <2>2. OneRecords'
    BY <1>3 DEF InitdbDies, schema
  <2>3. KeptUnlessMishap'
    BY <1>3 DEF InitdbDies, Forget, file, Whole
  <2>. QED
    BY <2>1, <2>2, <2>3
<1>. QED
  BY <1>1, <1>2, <1>3

\* Steps that leave the disk and initdb alone, and bring nobody to a place where
\* something of the disk is on its way.
LEMMA DiskKept ==
  ASSUME XInv, UNCHANGED disk, initdb' \in {initdb, Nobody}, XTypeOK',
         \A w \in Window :
           /\ stage'[w] \in {"creating", "torn", "cluster", "record"} => stage'[w] = stage[w]
           /\ password'[w] = password[w] \/ stage'[w] \notin {"torn", "cluster"}
  PROVE  XInv'
BY DEF XInv, OneRecords, KeptUnlessMishap, OneMakesSecrets, MakerFoundNone, PasswordOnItsWay,
   PasswordIsKept, Making, At, Whole, disk, file, schema

\* Starting and stopping the server, the API, the app and the window.
LEMMA RunningStep ==
  ASSUME XInv,
         \/ \E w \in Window : \/ StartCluster(w) \/ Connect(w) \/ Wait(w) \/ Shutdown(w)
                              \/ OpenWindow(w) \/ CloseWindow(w) \/ StopCluster(w)
                              \/ ChildDies(w) \/ WindowDies(w) \/ SupervisorDies(w)
         \/ \E p \in Window \cup {Stray} : PgCtlEnds(p)
         \/ ServerDies
  PROVE  XInv'
<1> USE DesktopAssumption DEF XInv
<1> DEFINE Kept ==
      /\ UNCHANGED disk /\ initdb' \in {initdb, Nobody}
      /\ \A w \in Window :
           /\ stage'[w] \in {"creating", "torn", "cluster", "record"} => stage'[w] = stage[w]
           /\ password'[w] = password[w] \/ stage'[w] \notin {"torn", "cluster"}
<1>1. ASSUME NEW w \in Window, StartCluster(w) PROVE XTypeOK' /\ Kept
  BY <1>1 DEF StartCluster, XTypeOK, At, Go, Alive, Starting, disk, file, schema, bounded
<1>2. ASSUME NEW w \in Window, Connect(w) PROVE XTypeOK' /\ Kept
  <2>1. CASE Reaches(w)
    BY <1>2, <2>1 DEF Connect, XTypeOK, At, Go, Alive, Starting, disk, file, schema, bounded
  <2>2. CASE ~Reaches(w)
    BY <1>2, <2>2, FailTypes DEF Connect, XTypeOK, Alive, Starting, disk, file, schema, bounded
  <2>. QED
    BY <2>1, <2>2
<1>3. ASSUME NEW w \in Window, Wait(w) PROVE XTypeOK' /\ Kept
  <2>1. CASE Fail(w)
    BY <1>3, <2>1, FailTypes DEF Wait, XTypeOK, Alive, Starting, disk, file, schema, bounded
  <2>2. CASE ~Fail(w)
    BY <1>3, <2>2 DEF Wait, XTypeOK, At, Go, Alive, Starting, disk, file, schema, bounded
  <2>. QED
    BY <2>1, <2>2
<1>4. ASSUME NEW w \in Window, Shutdown(w) \/ StopCluster(w)
      PROVE  XTypeOK' /\ Kept
  <2>1. CASE Shutdown(w)
    BY <1>4, <2>1 DEF Shutdown, Forget, XTypeOK, Go, Alive, Starting, disk, file, schema, bounded
  <2>2. CASE StopCluster(w)
    BY <1>4, <2>2 DEF StopCluster, XTypeOK, Go, Alive, Starting, disk, file, schema, bounded
  <2>. QED
    BY <1>4, <2>1, <2>2
<1>5. ASSUME NEW w \in Window, OpenWindow(w) PROVE XTypeOK' /\ Kept
  <2>1. whims' \in 0..MaxWhim
    BY <1>5 DEF OpenWindow, XTypeOK
  <2>. QED
    BY <1>5, <2>1 DEF OpenWindow, XTypeOK, Go, Alive, Starting, disk, file, schema, programs
<1>6. ASSUME NEW w \in Window, CloseWindow(w) PROVE XTypeOK' /\ Kept
  <2>1. whims' \in 0..MaxWhim
    BY <1>6 DEF CloseWindow, XTypeOK
  <2>2. server' \in Window \cup {Nobody, Stray} /\ starting' \subseteq Window \cup {Stray}
    <3>1. server' \in {server, Stray}
      BY <1>6 DEF CloseWindow, Orphan
    <3>2. starting' = starting \/ starting' = (starting \ {w}) \cup {Stray}
      BY <1>6 DEF CloseWindow, Orphan
    <3>. QED
      BY <3>1, <3>2 DEF XTypeOK
  <2>. QED
    BY <1>6, <2>1, <2>2 DEF CloseWindow, Forget, XTypeOK, Go, Alive, Starting, disk, file, schema
<1>7. ASSUME NEW w \in Window, ChildDies(w) PROVE XTypeOK' /\ Kept
  BY <1>7 DEF ChildDies, Fault, XTypeOK, At, Go, Alive, Starting, disk, file, schema, programs
<1>8. ASSUME NEW w \in Window, WindowDies(w) PROVE XTypeOK' /\ Kept
  BY <1>8 DEF WindowDies, Fault, XTypeOK, Alive, Starting, disk, file, schema, programs
<1>9. ASSUME NEW p \in Window \cup {Stray}, PgCtlEnds(p)
      PROVE  XTypeOK' /\ Kept
  BY <1>9 DEF PgCtlEnds, Forget, XTypeOK, Alive, Starting, disk, file, schema, bounded
<1>10. ASSUME NEW w \in Window, SupervisorDies(w) PROVE XTypeOK' /\ Kept
  <2>1. UNCHANGED <<open, disk, initdb, whims>> /\ faults' \in 0..MaxFault /\ Fail(w)
    BY <1>10 DEF SupervisorDies, Fault, XTypeOK
  <2>. QED
    BY <2>1, FailTypes DEF XTypeOK, Alive, Starting, disk, file, schema
<1>11. ASSUME ServerDies PROVE XTypeOK' /\ Kept
  BY <1>11 DEF ServerDies, Fault, XTypeOK, disk, file, schema
<1>. QED
  BY <1>1, <1>2, <1>3, <1>4, <1>5, <1>6, <1>7, <1>8, <1>9, <1>10, <1>11, DiskKept

\* The machine goes down: nothing is on its way any more, and a file that is lost
\* from beside its cluster is a mishap.
LEMMA PowerCutStep ==
  ASSUME XInv, PowerCut
  PROVE  XInv'
<1> USE DesktopAssumption DEF XInv
<1>1. /\ stage' = [w \in Window |-> "none"] /\ initdb' = Nobody
      /\ password' = [w \in Window |-> Nobody]
      /\ UNCHANGED <<made, effect, recorded, whims>> /\ faults' \in 0..MaxFault
      /\ secrets' \in {secrets, Part, Nobody}
      /\ cluster' \in {cluster, Part, Nobody}
      /\ Whole(cluster') => cluster' = cluster
      /\ mishaps' \in {mishaps, mishaps \cup {"unsynced"}}
      /\ mishaps' = {} => mishaps = {}
      /\ mishaps' = {} /\ Whole(cluster) => secrets' = secrets
  BY DEF PowerCut, Forget, Fault, XTypeOK, schema, Whole
<1>2. XTypeOK'
  <2>1. /\ open' \in [Window -> BOOLEAN] /\ unsynced' \in BOOLEAN
        /\ stage' \in [Window -> Alive \cup {"none", "failed", "stopping"}]
        /\ api' = {} /\ app' = {} /\ starting' = {} /\ server' = Nobody
    BY DEF PowerCut
  <2>2. {secrets', cluster'} \subseteq 1..made' \cup {Nobody, Part}
    BY <1>1 DEF XTypeOK
  <2>3. mishaps' \subseteq {"twins", "misread", "unsynced"}
    BY <1>1 DEF XTypeOK
  <2>. QED
    BY <1>1, <2>1, <2>2, <2>3 DEF XTypeOK
<1>3. OneRecords'
  BY <1>1 DEF OneRecords, At
<1>4. KeptUnlessMishap'
  <2> SUFFICES ASSUME mishaps' = {}
               PROVE  (OneMakesSecrets /\ MakerFoundNone /\ PasswordOnItsWay /\ PasswordIsKept)'
      BY DEF KeptUnlessMishap
  <2>1. \A w \in Window : stage'[w] = "none"
    BY <1>1
  <2>2. (OneMakesSecrets /\ MakerFoundNone /\ PasswordOnItsWay)'
    BY <1>1, <2>1 DEF OneMakesSecrets, MakerFoundNone, PasswordOnItsWay, Making, At
  <2>3. PasswordIsKept'
    BY <1>1 DEF KeptUnlessMishap, PasswordIsKept, Whole
  <2>. QED
    BY <2>2, <2>3
<1>. QED
  BY <1>2, <1>3, <1>4

\* A migration is applied, and then recorded.
LEMMA MigrationStep ==
  ASSUME XInv, NEW w \in Window, Migrate(w) \/ Record(w)
  PROVE  XInv'
<1> USE DesktopAssumption DEF XInv
<1>0. {effect, recorded, Migrations} \subseteq Nat /\ effect <= Migrations /\ recorded <= effect
  BY DEF XTypeOK
<1>1. CASE Fail(w)
  <2>1. /\ stage' = [stage EXCEPT ![w] = "failed"]
        /\ password' = [password EXCEPT ![w] = Nobody]
        /\ UNCHANGED <<open, disk, initdb, bounded>>
    <3>1. "failed" \notin {"record", "migrate", "api"} /\ stage'[w] = "failed"
      BY <1>1, FailTypes DEF XTypeOK
    <3>2. UNCHANGED <<effect, recorded>>
      BY <1>0, <3>1 DEF Migrate, Record, Go, XTypeOK, At
    <3>. QED
      BY <1>1, <3>2, FailTypes DEF Migrate, Record, disk, file, schema
  <2>2. XTypeOK'
    BY <1>1, <2>1, FailTypes DEF XTypeOK, Alive, Starting, disk, file, schema, bounded
  <2>. QED
    BY <2>1, <2>2, DiskKept DEF XTypeOK
<1>2. CASE recorded = Migrations /\ Migrate(w) /\ ~Fail(w)
  <2>1. /\ stage' = [stage EXCEPT ![w] = "api"] /\ api' = api \cup {w}
        /\ UNCHANGED <<open, password, app, disk, programs, bounded>>
    BY <1>0, <1>2 DEF Migrate, Go, disk, file, schema, programs
  <2>2. XTypeOK'
    BY <2>1 DEF XTypeOK, Alive, Starting, disk, file, schema, programs, bounded
  <2>. QED
    BY <2>1, <2>2, DiskKept DEF XTypeOK, programs
<1>3. CASE recorded # Migrations /\ Migrate(w) /\ ~Fail(w)
  <2>1. /\ At(w, "migrate") /\ effect < recorded + 1 /\ effect' = recorded + 1
        /\ recorded + 1 <= Migrations
        /\ \/ stage' = [stage EXCEPT ![w] = "record"] /\ recorded' = recorded
           \/ stage' = stage /\ recorded' = recorded + 1
        /\ UNCHANGED <<open, password, api, app, file, cluster, programs, bounded>>
    BY <1>0, <1>3 DEF Migrate, Go, programs
  <2>2. effect = recorded /\ ~\E x \in Window : At(x, "record")
    BY <1>0, <2>1 DEF OneRecords
  <2>3. XTypeOK'
    BY <1>0, <2>1 DEF XTypeOK, Alive, Starting, file, programs, bounded
  <2>4. OneRecords'
    BY <1>0, <2>1, <2>2 DEF OneRecords, XTypeOK, At
  <2>5. KeptUnlessMishap'
    BY <2>1 DEF KeptUnlessMishap, OneMakesSecrets, MakerFoundNone, PasswordOnItsWay,
       PasswordIsKept, Making, At, Whole, XTypeOK, file, programs
  <2>. QED
    BY <2>3, <2>4, <2>5
<1>4. CASE Record(w) /\ ~Fail(w)
  <2>1. /\ At(w, "record") /\ stage' = [stage EXCEPT ![w] = "migrate"]
        /\ recorded' = recorded + 1
        /\ UNCHANGED <<open, password, api, app, file, cluster, effect, programs, bounded>>
    BY <1>4 DEF Record, Go, programs
  <2>2. effect = recorded + 1 /\ \A x \in Window \ {w} : ~At(x, "record")
    BY <2>1 DEF OneRecords
  <2>3. XTypeOK'
    BY <1>0, <2>1, <2>2 DEF XTypeOK, Alive, Starting, file, programs, bounded
  <2>4. OneRecords'
    BY <1>0, <2>1, <2>2 DEF OneRecords, XTypeOK, At
  <2>5. KeptUnlessMishap'
    BY <2>1 DEF KeptUnlessMishap, OneMakesSecrets, MakerFoundNone, PasswordOnItsWay,
       PasswordIsKept, Making, At, Whole, XTypeOK, file, programs
  <2>. QED
    BY <2>3, <2>4, <2>5
<1>. QED
  BY <1>1, <1>2, <1>3, <1>4

LEMMA DesktopInductive == XSpec => []XInv
<1>1. XInit => XInv
  <2> SUFFICES ASSUME XInit PROVE XInv
      OBVIOUS
  <2>1. XTypeOK
    <3>1. Migrations \in Nat /\ MaxFault \in Nat /\ MaxWhim \in Nat
      BY DesktopAssumption
    <3>2. /\ 0 \in 0..Migrations /\ 0 \in 0..0 /\ 0 \in 0..MaxFault /\ 0 \in 0..MaxWhim
      BY <3>1
    <3>3. stage \in [Window -> Alive \cup {"none", "failed", "stopping"}]
      BY DEF XInit, Alive, Starting
    <3>. QED
      BY <3>2, <3>3 DEF XInit, XTypeOK
  <2>2. OneRecords /\ KeptUnlessMishap
    BY DesktopAssumption DEF XInit, OneRecords, KeptUnlessMishap, OneMakesSecrets, MakerFoundNone,
       PasswordOnItsWay, PasswordIsKept, Making, At, Whole
  <2>. QED
    BY <2>1, <2>2 DEF XInv
<1>2. XInv /\ [XNext]_xvars => XInv'
  <2> SUFFICES ASSUME XInv, [XNext]_xvars PROVE XInv'
      OBVIOUS
  <2>1. CASE UNCHANGED xvars
    BY <2>1 DEF xvars, disk, file, schema, programs, bounded, XInv, XTypeOK, OneRecords,
       KeptUnlessMishap, OneMakesSecrets, MakerFoundNone, PasswordOnItsWay, PasswordIsKept,
       Making, At, Whole
  <2>2. CASE XNext
    BY <2>2, SecretsStep, ClusterStep, RunningStep, MigrationStep, FlushStep, PowerCutStep
    DEF XNext, Supervises
  <2>. QED
    BY <2>1, <2>2
<1>. QED
  BY <1>1, <1>2, PTL DEF XSpec

\* THEOREM: every reachable state of an install on a desktop has its types,
\* among them that no migration is recorded that is not applied.
THEOREM DesktopTypeCorrect == XSpec => []XTypeOK
BY DesktopInductive, PTL DEF XInv

\* THEOREM: whichever window, supervisor, Postgres or initdb ends when, and
\* whenever the machine goes down, a finished cluster's password is the one in the
\* secrets file, as long as no two supervisors made that file at once, no read of
\* it failed, and no power cut took it, not yet synced, from beside the cluster.
THEOREM PasswordKept == XSpec => []PasswordIsKept
<1>1. XInv => PasswordIsKept
  BY DEF XInv, KeptUnlessMishap, PasswordIsKept
<1>. QED
  BY <1>1, DesktopInductive, PTL

(***************************************************************************)
(* Members.                                                                *)
(***************************************************************************)
RoleCall == [step : {"target"}, member : Member, new : Role]
LookedCall == [step : {"owners", "role"}, member : Member, new : Role, saw : BOOLEAN]
SiteCall == [step : {"website", "changed"}, new : Website, before : Website \cup {Unset}]

WorkspaceTypes == OTypeOK /\ call \in [Request -> {Rest} \cup RoleCall \cup LookedCall \cup SiteCall]

\* Whoever has an owner's row locked finds it an owner's as long as it does.
LockedAreOwners == \A r \in Request : locked[r] \subseteq Owners

\* A request that goes on to demote an owner has locked more than that one.
CountedMoreThanOne ==
  \A r \in Request : Step(r, "role") /\ call[r].saw => \A m \in Member : ~(locked[r] \subseteq {m})

OInv == WorkspaceTypes /\ LockedAreOwners /\ CountedMoreThanOne /\ DemotionsLeaveAnOwner

-----------------------------------------------------------------------------
\* Requests that begin, end or wait, and members who sign in, keep the types.
LEMMA CallsTyped ==
  ASSUME WorkspaceTypes, NEW r \in Request,
         \/ \E m \in Member, new \in Role : SetMemberRole(r, m, new)
         \/ \E w \in Website : UpdateWorkspace(r, w)
         \/ ReadTarget(r) \/ CountOwners(r) \/ WriteRole(r)
         \/ WriteWebsite(r) \/ WorkspaceChanged(r) \/ CallFails(r)
  PROVE  call' \in [Request -> {Rest} \cup RoleCall \cup LookedCall \cup SiteCall]
<1> USE DEF WorkspaceTypes, OTypeOK, Step
<1> DEFINE Typed == call' \in [Request -> {Rest} \cup RoleCall \cup LookedCall \cup SiteCall]
<1>0. Rest.step = "rest"
  BY DEF Rest
<1>1. ASSUME NEW m \in Member, NEW new \in Role, SetMemberRole(r, m, new) PROVE Typed
  <2>1. [step |-> "target", member |-> m, new |-> new] \in RoleCall
    BY DEF RoleCall
  <2>. QED
    BY <1>1, <2>1 DEF SetMemberRole, Called
<1>2. ASSUME NEW w \in Website, UpdateWorkspace(r, w) PROVE Typed
  <2>1. [step |-> "website", new |-> w, before |-> website] \in SiteCall
    BY DEF SiteCall
  <2>. QED
    BY <1>2, <2>1 DEF UpdateWorkspace, Called
<1>3. CASE ReadTarget(r)
  <2>1. call[r] \in RoleCall
    BY <1>0, <1>3 DEF ReadTarget, RoleCall, LookedCall, SiteCall
  <2>2. PICK demotes \in BOOLEAN :
          call' = [call EXCEPT ![r] =
            [step |-> IF demotes THEN "owners" ELSE "role",
             member |-> @.member, new |-> @.new, saw |-> demotes]]
    BY <1>3 DEF ReadTarget
  <2>3. call'[r] \in LookedCall
    BY <2>1, <2>2 DEF RoleCall, LookedCall
  <2>. QED
    BY <2>2, <2>3
<1>4. CASE CountOwners(r)
  <2>1. call[r] \in LookedCall
    BY <1>0, <1>4 DEF CountOwners, RoleCall, LookedCall, SiteCall
  <2>2. [call[r] EXCEPT !.step = "role"] \in LookedCall
    BY <2>1 DEF LookedCall
  <2>. QED
    BY <1>4, <2>2 DEF CountOwners, Return
<1>5. CASE WriteWebsite(r)
  <2>1. call[r] \in SiteCall
    BY <1>0, <1>5 DEF WriteWebsite, RoleCall, LookedCall, SiteCall
  <2>2. [call[r] EXCEPT !.step = "changed"] \in SiteCall
    BY <2>1 DEF SiteCall
  <2>. QED
    BY <1>5, <2>2 DEF WriteWebsite, Return
<1>6. CASE WriteRole(r) \/ WorkspaceChanged(r) \/ CallFails(r)
  BY <1>6 DEF WriteRole, WorkspaceChanged, CallFails, Return
<1>. QED
  BY <1>1, <1>2, <1>3, <1>4, <1>5, <1>6

\* A request at the write of a role has looked at the member.
LEMMA AtRole ==
  ASSUME WorkspaceTypes, NEW r \in Request, Step(r, "role")
  PROVE  call[r] \in LookedCall /\ call[r].member \in Member /\ call[r].new \in Role
BY DEF WorkspaceTypes, Step, Rest, RoleCall, LookedCall, SiteCall

\* Steps of the website and the research leave the members alone.
LEMMA SiteTypes ==
  ASSUME WorkspaceTypes,
         \/ \E r \in Request : \/ \E w \in Website : UpdateWorkspace(r, w)
                               \/ WriteWebsite(r) \/ WorkspaceChanged(r)
         \/ SweepLooks \/ SweepQueues \/ WeekPasses
         \/ OpenSession \/ WriteProfile \/ EndSession \/ SessionDies
  PROVE  OTypeOK' /\ UNCHANGED people
<1> USE WorkspaceAssumption DEF WorkspaceTypes, OTypeOK, people, site, research
<1>1. ASSUME NEW r \in Request, NEW w \in Website, UpdateWorkspace(r, w)
      PROVE  OTypeOK' /\ UNCHANGED people
  BY <1>1 DEF UpdateWorkspace, Called
<1>2. ASSUME NEW r \in Request, WriteWebsite(r) PROVE OTypeOK' /\ UNCHANGED people
  <2>1. call[r].new \in Website
    BY <1>2 DEF WriteWebsite, Step, Rest, RoleCall, LookedCall, SiteCall
  <2>. QED
    BY <1>2, <2>1 DEF WriteWebsite
<1>3. ASSUME NEW r \in Request, WorkspaceChanged(r) PROVE OTypeOK' /\ UNCHANGED people
  BY <1>3 DEF WorkspaceChanged, Enqueue
<1>4. CASE SweepLooks \/ SweepQueues \/ WeekPasses
  <2>1. {recent', sweep', unlocked'} \subseteq BOOLEAN
    BY <1>4 DEF SweepLooks, SweepQueues, WeekPasses
  <2>. QED
    BY <1>4, <2>1 DEF SweepLooks, SweepQueues, WeekPasses, Enqueue
<1>5. CASE OpenSession \/ EndSession \/ SessionDies
  <2>1. {recent', sweep', unlocked'} \subseteq BOOLEAN
    BY <1>5 DEF OpenSession, EndSession, SessionDies
  <2>2. task' \in {"none", "queued", "running"} /\ told' \in Website \cup {Unset}
        /\ missed' \in 0..MaxMissed
    BY <1>5 DEF OpenSession, EndSession, SessionDies
  <2>. QED
    BY <1>5, <2>1, <2>2 DEF OpenSession, EndSession, SessionDies
<1>6. CASE WriteProfile
  BY <1>6 DEF WriteProfile
<1>. QED
  BY <1>1, <1>2, <1>3, <1>4, <1>5, <1>6

\* Owners that are more than one are not all taken away with one of them.
LEMMA MoreThanOne ==
  ASSUME NEW S, IsFiniteSet(S), ~(Cardinality(S) <= 1), NEW m
  PROVE  ~(S \subseteq {m})
<1> SUFFICES ASSUME S \subseteq {m} PROVE FALSE
    OBVIOUS
<1>1. IsFiniteSet({m}) /\ Cardinality({m}) = 1
  BY FS_Singleton
<1>2. Cardinality(S) <= Cardinality({m})
  BY <1>1, FS_Subset
<1>. QED
  BY <1>1, <1>2

\* A request that goes on after counting has all the owners locked; it is the
\* only one that then can take one of them away.
LEMMA RoleStep ==
  ASSUME OInv, NEW r \in Request,
         \/ \E m \in Member, new \in Role : SetMemberRole(r, m, new)
         \/ ReadTarget(r) \/ CountOwners(r) \/ WriteRole(r) \/ CallFails(r)
  PROVE  OInv'
<1> USE WorkspaceAssumption DEF OInv
<1> DEFINE Others == \A x \in Request \ {r} : call'[x] = call[x]
<1>0. WorkspaceTypes' <=> OTypeOK'
  BY CallsTyped DEF WorkspaceTypes
<1>1. ASSUME NEW m \in Member, NEW new \in Role, SetMemberRole(r, m, new) PROVE OInv'
  <2>1. /\ call' = [call EXCEPT ![r] = [step |-> "target", member |-> m, new |-> new]]
        /\ requests < MaxRequest /\ requests' = requests + 1
        /\ UNCHANGED <<people, site, research, missed>>
    BY <1>1 DEF SetMemberRole, Called
  <2>2. OTypeOK'
    BY <2>1 DEF WorkspaceTypes, OTypeOK, people, site, research
  <2>3. CountedMoreThanOne'
    BY <2>1 DEF CountedMoreThanOne, Step, WorkspaceTypes, people
  <2>. QED
    BY <1>0, <2>1, <2>2, <2>3 DEF LockedAreOwners, DemotionsLeaveAnOwner, Owners, people
<1>2. CASE ReadTarget(r)
  <2>1. UNCHANGED <<people, site, research, requests, missed>>
    BY <1>2 DEF ReadTarget
  <2>2. OTypeOK'
    BY <2>1 DEF WorkspaceTypes, OTypeOK, people, site, research
  <2>3. ~(call'[r].step = "role" /\ call'[r].saw) /\ Others
    BY <1>2 DEF ReadTarget, WorkspaceTypes
  <2>4. CountedMoreThanOne'
    BY <2>1, <2>3 DEF CountedMoreThanOne, Step, people
  <2>. QED
    BY <1>0, <2>1, <2>2, <2>4 DEF LockedAreOwners, DemotionsLeaveAnOwner, Owners, people
<1>3. CASE CountOwners(r)
  <2>1. UNCHANGED <<role, unlocked, site, research, requests, missed>> /\ Others
    BY <1>3 DEF CountOwners, Return, WorkspaceTypes
  <2>2. CASE Cardinality(Owners) <= 1
    <3>1. locked' = locked /\ call'[r].step = "rest"
      BY <1>3, <2>2 DEF CountOwners, Return, Rest, WorkspaceTypes
    <3>2. OTypeOK' /\ CountedMoreThanOne' /\ LockedAreOwners'
      BY <2>1, <3>1 DEF WorkspaceTypes, OTypeOK, site, research, CountedMoreThanOne, Step,
         LockedAreOwners, Owners
    <3>. QED
      BY <1>0, <2>1, <3>2 DEF DemotionsLeaveAnOwner, Owners
  <2>3. CASE ~(Cardinality(Owners) <= 1)
    <3>1. locked' = [locked EXCEPT ![r] = Owners]
      BY <1>3, <2>3 DEF CountOwners
    <3>2. IsFiniteSet(Owners) /\ Owners \subseteq Member
      <4>1. Owners \subseteq Member
        BY DEF Owners
      <4>. QED
        BY <4>1, FS_Subset
    <3>3. \A m \in Member : ~(Owners \subseteq {m})
      BY <2>3, <3>2, MoreThanOne
    <3>4. OTypeOK'
      BY <2>1, <3>1, <3>2 DEF WorkspaceTypes, OTypeOK, site, research
    <3>5. LockedAreOwners' /\ CountedMoreThanOne'
      BY <2>1, <3>1, <3>3 DEF LockedAreOwners, Owners, CountedMoreThanOne, Step,
         WorkspaceTypes, OTypeOK
    <3>. QED
      BY <1>0, <2>1, <3>4, <3>5 DEF DemotionsLeaveAnOwner, Owners
  <2>. QED
    BY <2>2, <2>3
<1>4. CASE WriteRole(r)
  <2> DEFINE m == call[r].member
  <2>1. /\ role' = [role EXCEPT ![m] = call[r].new]
        /\ locked' = [locked EXCEPT ![r] = {}]
        /\ unlocked' = (unlocked \/ (role[m] = "owner" /\ call[r].new # "owner" /\ ~call[r].saw))
        /\ call' = [call EXCEPT ![r] = Rest]
        /\ UNCHANGED <<site, research, requests, missed>>
    BY <1>4 DEF WriteRole, Return
  <2>2. /\ Step(r, "role") /\ m \in Member /\ call[r].new \in Role
        /\ \A x \in Request \ {r} : m \notin locked[x]
    BY <1>4, AtRole DEF WriteRole, Free
  <2>3. OTypeOK'
    BY <2>1, <2>2 DEF WorkspaceTypes, OTypeOK, site, research
  <2>4. \A n \in Member \ {m} : n \in Owners' <=> n \in Owners
    BY <2>1 DEF Owners, WorkspaceTypes, OTypeOK
  <2>5. LockedAreOwners'
    BY <2>1, <2>2, <2>4 DEF LockedAreOwners, WorkspaceTypes, OTypeOK
  <2>6. CountedMoreThanOne'
    BY <2>1 DEF CountedMoreThanOne, Step, Rest, WorkspaceTypes, OTypeOK
  <2>7. DemotionsLeaveAnOwner'
    <3>1. CASE m \in Owners /\ call[r].new # "owner" /\ call[r].saw
      <4>1. PICK n \in locked[r] : n # m
        BY <2>2, <3>1 DEF CountedMoreThanOne
      <4>2. n \in Owners /\ n \in Member
        BY <4>1 DEF LockedAreOwners, Owners
      <4>. QED
        BY <2>4, <4>1, <4>2 DEF DemotionsLeaveAnOwner
    <3>2. CASE m \in Owners /\ call[r].new # "owner" /\ ~call[r].saw
      BY <2>1, <3>2 DEF Owners, DemotionsLeaveAnOwner
    <3>3. CASE call[r].new = "owner"
      BY <2>1, <2>2, <3>3 DEF Owners, DemotionsLeaveAnOwner, WorkspaceTypes, OTypeOK
    <3>4. CASE m \notin Owners
      <4>1. unlocked => unlocked'
        BY <2>1
      <4>2. Owners \subseteq Owners'
        BY <2>4, <3>4 DEF Owners
      <4>. QED
        BY <4>1, <4>2 DEF DemotionsLeaveAnOwner
    <3>. QED
      BY <3>1, <3>2, <3>3, <3>4
  <2>. QED
    BY <1>0, <2>3, <2>5, <2>6, <2>7
<1>5. CASE CallFails(r)
  <2>1. /\ missed' \in 0..MaxMissed
        /\ locked' = [locked EXCEPT ![r] = {}] /\ call' = [call EXCEPT ![r] = Rest]
        /\ UNCHANGED <<role, unlocked, site, research, requests>>
    BY <1>5 DEF CallFails, Return, WorkspaceTypes, OTypeOK
  <2>2. OTypeOK'
    BY <2>1 DEF WorkspaceTypes, OTypeOK, site, research
  <2>3. LockedAreOwners' /\ CountedMoreThanOne'
    BY <2>1 DEF LockedAreOwners, Owners, CountedMoreThanOne, Step, Rest, WorkspaceTypes, OTypeOK
  <2>. QED
    BY <1>0, <2>1, <2>2, <2>3 DEF DemotionsLeaveAnOwner, Owners
<1>. QED
  BY <1>1, <1>2, <1>3, <1>4, <1>5

\* Nobody else touches a role, but for those who sign in.
LEMMA MembersStep == OInv /\ [ONext]_ovars => OInv'
<1> SUFFICES ASSUME OInv, [ONext]_ovars PROVE OInv'
    OBVIOUS
<1> USE DEF OInv
<1>1. CASE UNCHANGED ovars
  BY <1>1 DEF ovars, people, site, research, WorkspaceTypes, OTypeOK, LockedAreOwners, Owners,
     CountedMoreThanOne, Step, DemotionsLeaveAnOwner
<1>2. ASSUME NEW m \in Member, SignIn(m) PROVE OInv'
  <2>1. /\ role' = [role EXCEPT ![m] = "member"] /\ role[m] # "owner"
        /\ UNCHANGED <<locked, unlocked, site, call, research, requests, missed>>
    BY <1>2 DEF SignIn
  <2>2. Owners' = Owners
    BY <2>1 DEF Owners, WorkspaceTypes, OTypeOK
  <2>3. WorkspaceTypes'
    BY <2>1 DEF WorkspaceTypes, OTypeOK, Role, site, research
  <2>. QED
    BY <2>1, <2>2, <2>3 DEF LockedAreOwners, CountedMoreThanOne, Step, DemotionsLeaveAnOwner
<1>3. ASSUME NEW r \in Request,
             \/ \E w \in Website : UpdateWorkspace(r, w)
             \/ WriteWebsite(r) \/ WorkspaceChanged(r)
      PROVE  OInv'
  <2>1. WorkspaceTypes' /\ UNCHANGED people
    BY <1>3, SiteTypes, CallsTyped DEF WorkspaceTypes
  <2>2. ~Step(r, "role")' /\ \A x \in Request \ {r} : call'[x] = call[x]
    <3>1. ASSUME NEW w \in Website, UpdateWorkspace(r, w) PROVE <2>2!1 /\ <2>2!2
      BY <3>1 DEF UpdateWorkspace, Called, Step, WorkspaceTypes
    <3>2. CASE WriteWebsite(r)
      <4>1. call[r] \in SiteCall
        BY <3>2 DEF WriteWebsite, Step, Rest, WorkspaceTypes, RoleCall, LookedCall, SiteCall
      <4>2. call' \in {[call EXCEPT ![r] = Rest], [call EXCEPT ![r].step = "changed"]}
        BY <3>2 DEF WriteWebsite, Return
      <4>. QED
        BY <4>1, <4>2 DEF Step, Rest, WorkspaceTypes, SiteCall
    <3>3. CASE WorkspaceChanged(r)
      BY <3>3 DEF WorkspaceChanged, Return, Step, Rest, WorkspaceTypes
    <3>. QED
      BY <1>3, <3>1, <3>2, <3>3
  <2>. QED
    BY <2>1, <2>2 DEF LockedAreOwners, CountedMoreThanOne, DemotionsLeaveAnOwner, Owners,
       people, Step
<1>4. CASE \/ SweepLooks \/ SweepQueues \/ WeekPasses
           \/ OpenSession \/ WriteProfile \/ EndSession \/ SessionDies
  <2>1. OTypeOK' /\ UNCHANGED <<people, call>>
    BY <1>4, SiteTypes DEF SweepLooks, SweepQueues, WeekPasses, OpenSession, WriteProfile,
       EndSession, SessionDies
  <2>. QED
    BY <2>1 DEF WorkspaceTypes, LockedAreOwners, CountedMoreThanOne, DemotionsLeaveAnOwner,
       Owners, people, Step
<1>. QED
  BY <1>1, <1>2, <1>3, <1>4, RoleStep DEF ONext, Serve

LEMMA MembersInductive == OSpec => []OInv
<1>1. OInit => OInv
  <2> SUFFICES ASSUME OInit PROVE OInv
      OBVIOUS
  <2>1. WorkspaceTypes
    <3>1. MaxRequest \in Nat /\ MaxMissed \in Nat
      BY WorkspaceAssumption
    <3>2. role \in [Member -> Role \cup {"none"}]
      BY DEF OInit, Role
    <3>3. locked \in [Request -> SUBSET Member] /\ call \in [Request -> {Rest}]
      BY DEF OInit
    <3>4. OTypeOK
      <4>1. {recent, sweep, unlocked} \subseteq BOOLEAN
        BY DEF OInit
      <4>2. requests \in 0..MaxRequest /\ missed \in 0..MaxMissed
        BY <3>1 DEF OInit
      <4>. QED
        BY <3>2, <3>3, <4>1, <4>2 DEF OInit, OTypeOK
    <3>. QED
      BY <3>3, <3>4 DEF WorkspaceTypes
  <2>2. Owners # {}
    BY FS_EmptySet DEF OInit
  <2>. QED
    BY <2>1, <2>2 DEF OInit, OInv, LockedAreOwners, CountedMoreThanOne, Step, Rest,
       DemotionsLeaveAnOwner
<1>. QED
  BY <1>1, MembersStep, PTL DEF OSpec

\* THEOREM: every reachable state of the workspace has its types.
THEOREM WorkspaceTypeCorrect == OSpec => []OTypeOK
BY MembersInductive, PTL DEF OInv, WorkspaceTypes

\* THEOREM: however many requests change roles at once, and die half way, those
\* that know they demote an owner leave one.
THEOREM OwnerLeft == OSpec => []DemotionsLeaveAnOwner
BY MembersInductive, PTL DEF OInv

(***************************************************************************)
(* Money.  An edit converts what the deal will have once it has written,   *)
(* from what it read long before; a job converts in the statement that     *)
(* writes.  So an edit is right as long as nobody else changes its deal's  *)
(* amount or currency, which only an edit of the same deal can; a deal     *)
(* that is deleted meanwhile stays deleted, since a new one of its id is   *)
(* the same edit's or nobody's.                                            *)
(***************************************************************************)
Figures == [of : Amount, from : Currency, into : Currency]

Rows == [amount : Amount \cup {None}, currency : Currency]

Edits == [step : {"base", "rate", "write"}, deal : Deal, new : BOOLEAN,
          amount : Amount \cup {None, Same}, currency : Currency \cup {Same},
          of : Amount \cup {None}, from : Currency, figure : Figures \cup {None}]

Calls == [step : {"refresh", "asked", "rating", "group", "each", "write", "clear"},
          all : BOOLEAN, under : Currency \cup {None}, codes : SUBSET Currency,
          code : Currency \cup {None}]

DealTypes ==
  /\ row \in [Deal -> Rows \cup {None}] /\ figure \in [Deal -> Figures \cup {None}]
  /\ overlapped \subseteq Deal

RateTypes ==
  base \in Currency /\ fetched \subseteq Currency \X Currency /\ manual \subseteq Currency \X Currency

CountTypes == calls \in 0..MaxCall /\ lost \in 0..MaxLost

EditTypes == edit \in [Editor -> {Idle} \cup Edits]

JobTypes ==
  /\ job \in [Job -> {Idle} \cup Calls]
  /\ \A j \in Job : job[j].step \in {"asked", "group", "each", "write", "clear"} =>
       job[j].under \in Currency

MoneyTypes == DealTypes /\ RateTypes /\ CountTypes /\ EditTypes /\ JobTypes

Busy(e) == ~EditIs(e, "idle")

\* Two edits at work on the same deal are remembered.
OverlapsAreNoted ==
  \A e, f \in Editor : Busy(e) /\ Busy(f) /\ edit[e].deal = edit[f].deal /\ e # f =>
    edit[e].deal \in overlapped

NewIsWhole ==
  \A e \in Editor : Busy(e) /\ edit[e].new => edit[e].amount # Same /\ edit[e].currency # Same

\* What is converted is what the deal will have, unless it is deleted meanwhile.
ConvertsWhatItWrites ==
  \A e \in Editor : Busy(e) /\ edit[e].deal \notin overlapped =>
    LET d == edit[e].deal IN
    /\ row[d] # None \/ edit[e].new =>
         /\ edit[e].of = IF edit[e].amount = Same THEN row[d].amount ELSE edit[e].amount
         /\ edit[e].from = IF edit[e].currency = Same THEN row[d].currency ELSE edit[e].currency
    /\ edit[e].figure # None => edit[e].figure.of = edit[e].of /\ edit[e].figure.from = edit[e].from

MInv == MoneyTypes /\ OverlapsAreNoted /\ NewIsWhole /\ ConvertsWhatItWrites /\ FigureIsOwn

-----------------------------------------------------------------------------
LEMMA Busies ==
  ASSUME EditTypes, NEW e \in Editor
  PROVE  Busy(e) => edit[e] \in Edits
BY DEF EditTypes, Busy, EditIs, Idle

LEMMA JobsAtWork ==
  ASSUME JobTypes, NEW j \in Job
  PROVE  job[j].step # "idle" => job[j] \in Calls
BY DEF JobTypes, Idle

\* A job that begins, goes on or ends.
LEMMA JobsMove ==
  ASSUME JobTypes, NEW j \in Job,
         NEW c, c = Idle \/ c \in Calls, job' = [job EXCEPT ![j] = c],
         c.step \in {"asked", "group", "each", "write", "clear"} => c.under \in Currency
  PROVE  JobTypes'
BY DEF JobTypes

LEMMA Begins ==
  ASSUME JobTypes, NEW j \in Job, NEW s \in {"refresh", "rating"}, NEW all \in BOOLEAN,
         Begin(j, s, all)
  PROVE  JobTypes'
<1>1. [step |-> s, all |-> all, under |-> None, codes |-> {}, code |-> None] \in Calls
  BY DEF Calls
<1>. QED
  BY <1>1, JobsMove DEF Begin

LEMMA GoesOnTo ==
  ASSUME JobTypes, NEW j \in Job, ~JobIs(j, "idle"),
         NEW s \in {"asked", "rating", "group", "each"}, NEW under \in Currency \cup {None},
         GoOn(j, s, under), s # "rating" => under \in Currency
  PROVE  JobTypes'
<1>1. job[j] \in Calls
  BY JobsAtWork DEF JobIs
<1> DEFINE c == [job[j] EXCEPT !.step = s, !.under = under, !.code = None]
<1>2. c \in Calls /\ c.step = s /\ c.under = under
  BY <1>1 DEF Calls
<1>3. job' = [job EXCEPT ![j] = c]
  BY <1>1 DEF GoOn, JobTypes
<1>. QED
  BY <1>2, <1>3, JobsMove

\* A step that leaves the deals and the edits alone.
LEMMA EditsKept ==
  ASSUME MInv, UNCHANGED <<deals, edit>>, RateTypes', CountTypes', JobTypes'
  PROVE  MInv'
BY DEF MInv, MoneyTypes, DealTypes, EditTypes, OverlapsAreNoted, NewIsWhole,
   ConvertsWhatItWrites, FigureIsOwn, Busy, EditIs, deals

\* The settings, and all of a job but its writes.
LEMMA SettingsStep ==
  ASSUME MInv, NEW j \in Job,
         \/ \E c \in Currency : \/ SetReportingCurrency(j, c) \/ SetManualRate(j, c)
                              \/ RemoveManualRate(j, c)
         \/ PressRefresh(j) \/ RunDaily
  PROVE  MInv'
<1> USE MoneyAssumption DEF MInv, MoneyTypes
<1>1. UNCHANGED <<deals, edit, lost>> /\ CountTypes'
  <2>1. CASE RunDaily
    BY <2>1 DEF RunDaily, counts, CountTypes
  <2>2. CASE CallSettings(j)
    BY <2>2 DEF CallSettings, CountTypes
  <2>. QED
    BY <2>1, <2>2 DEF SetReportingCurrency, SetManualRate, RemoveManualRate, PressRefresh
<1>2. ASSUME NEW c \in Currency, SetReportingCurrency(j, c) PROVE RateTypes' /\ JobTypes'
  BY <1>2, Begins DEF SetReportingCurrency, RateTypes
<1>3. ASSUME NEW c \in Currency, SetManualRate(j, c) PROVE RateTypes' /\ JobTypes'
  <2>1. JobTypes'
    BY <1>3, Begins DEF SetManualRate
  <2>2. RateTypes'
    BY <1>3 DEF SetManualRate, RateTypes
  <2>. QED
    BY <2>1, <2>2
<1>4. ASSUME NEW c \in Currency, RemoveManualRate(j, c) PROVE RateTypes' /\ JobTypes'
  BY <1>4 DEF RemoveManualRate, RateTypes, JobTypes
<1>5. CASE PressRefresh(j)
  BY <1>1, <1>5, Begins, EditsKept DEF PressRefresh, RateTypes, rates
<1>6. CASE RunDaily
  <2>1. Daily \in Job
    BY DEF Job
  <2>. QED
    BY <1>1, <1>6, <2>1, Begins, EditsKept DEF RunDaily, RateTypes, rates
<1>. QED
  BY <1>1, <1>2, <1>3, <1>4, <1>5, <1>6, EditsKept

LEMMA JobStep ==
  ASSUME MInv, NEW j \in Job,
         \/ AskProvider(j) \/ ProviderAnswers(j) \/ ProviderFails(j) \/ BeginRating(j)
         \/ Group(j) \/ FindRate(j) \/ JobEnds(j) \/ JobFails(j)
  PROVE  MInv'
<1> USE MoneyAssumption DEF MInv, MoneyTypes
<1>1. UNCHANGED <<deals, edit>> /\ CountTypes'
  <2>1. CASE JobFails(j)
    BY <2>1 DEF JobFails, CountTypes
  <2>. QED
    BY <2>1 DEF AskProvider, ProviderAnswers, ProviderFails, BeginRating, Group, FindRate,
       JobEnds, counts, CountTypes
<1>2. CASE AskProvider(j) \/ BeginRating(j)
  <2>1. base \in Currency
    BY DEF RateTypes
  <2>2. JobTypes'
    BY <1>2, <2>1, GoesOnTo DEF AskProvider, BeginRating, JobIs
  <2>3. RateTypes'
    BY <1>2 DEF AskProvider, BeginRating, RateTypes, rates
  <2>. QED
    BY <1>1, <2>2, <2>3, EditsKept
<1>3. CASE ProviderAnswers(j)
  <2>1. job[j].under \in Currency
    BY <1>3 DEF ProviderAnswers, JobIs, JobTypes
  <2>2. JobTypes'
    BY <1>3, GoesOnTo DEF ProviderAnswers, JobIs
  <2>3. RateTypes'
    BY <1>3, <2>1 DEF ProviderAnswers, RateTypes
  <2>. QED
    BY <1>1, <2>2, <2>3, EditsKept
<1>4. CASE ProviderFails(j)
  <2>1. JobTypes'
    BY <1>4, GoesOnTo, JobsMove DEF ProviderFails, JobIs, Idle
  <2>2. RateTypes'
    BY <1>4 DEF ProviderFails, RateTypes, rates
  <2>. QED
    BY <1>1, <2>1, <2>2, EditsKept
<1>5. CASE Group(j)
  <2> DEFINE codes == {row[d].currency : d \in {x \in Deal :
                        /\ row[x] # None /\ row[x].amount # None
                        /\ job[j].all \/ Pending(x, job[j].under)}}
             c == [job[j] EXCEPT !.step = "each", !.codes = codes]
  <2>1. codes \subseteq Currency
    BY DEF DealTypes, Rows
  <2>2. job[j] \in Calls /\ job[j].under \in Currency
    BY <1>5, JobsAtWork DEF Group, JobIs, JobTypes
  <2>3. c \in Calls /\ c.under \in Currency
    BY <2>1, <2>2 DEF Calls
  <2>4. job' = [job EXCEPT ![j] = c]
    BY <1>5 DEF Group, JobTypes
  <2>5. JobTypes'
    BY <2>3, <2>4, JobsMove
  <2>6. RateTypes'
    BY <1>5 DEF Group, RateTypes, rates
  <2>. QED
    BY <1>1, <2>5, <2>6, EditsKept
<1>6. CASE FindRate(j)
  <2>1. job[j] \in Calls /\ job[j].under \in Currency
    BY <1>6, JobsAtWork DEF FindRate, JobIs, JobTypes
  <2>2. PICK code \in job[j].codes, s \in {"write", "clear", "each"} :
          job' = [job EXCEPT ![j].codes = @ \ {code}, ![j].code = code, ![j].step = s]
    BY <1>6 DEF FindRate
  <2> DEFINE c == [job[j] EXCEPT !.codes = @ \ {code}, !.code = code, !.step = s]
  <2>3. c \in Calls /\ c.under \in Currency
    BY <2>1 DEF Calls
  <2>4. job' = [job EXCEPT ![j] = c]
    BY <2>2 DEF JobTypes
  <2>5. JobTypes'
    BY <2>3, <2>4, JobsMove
  <2>6. RateTypes'
    BY <1>6 DEF FindRate, RateTypes, rates
  <2>. QED
    BY <1>1, <2>5, <2>6, EditsKept
<1>7. CASE JobEnds(j) \/ JobFails(j)
  <2>1. JobTypes'
    BY <1>7, JobsMove DEF JobEnds, JobFails, Idle
  <2>2. RateTypes'
    BY <1>7 DEF JobEnds, JobFails, RateTypes, rates
  <2>. QED
    BY <1>1, <2>1, <2>2, EditsKept
<1>. QED
  BY <1>2, <1>3, <1>4, <1>5, <1>6, <1>7

\* The writes of a job take the row as it is.
LEMMA RatingStep ==
  ASSUME MInv, NEW j \in Job, WriteRate(j) \/ ClearRate(j)
  PROVE  MInv'
<1> USE DEF MInv, MoneyTypes
<1>1. job[j].under \in Currency /\ ~JobIs(j, "idle")
  BY DEF WriteRate, ClearRate, JobIs, JobTypes
<1>2. JobTypes'
  BY <1>1, GoesOnTo DEF WriteRate, ClearRate
<1>3. UNCHANGED <<rates, row, overlapped, edit, counts>>
  BY DEF WriteRate, ClearRate
<1>4. \A d \in Deal :
        \/ figure'[d] = figure[d] \/ figure'[d] = None
        \/ /\ row[d] # None /\ row[d].amount # None
           /\ figure'[d] = [of |-> row[d].amount, from |-> row[d].currency, into |-> job[j].under]
  BY DEF WriteRate, ClearRate, Taken
<1>5. DealTypes'
  <2>1. figure' = [d \in Deal |-> figure'[d]]
    BY DEF WriteRate, ClearRate
  <2>2. ASSUME NEW d \in Deal PROVE figure'[d] \in Figures \cup {None}
    <3>1. CASE figure'[d] = figure[d] \/ figure'[d] = None
      BY <3>1 DEF DealTypes
    <3>2. CASE row[d] # None /\ row[d].amount # None
      <4>1. row[d].amount \in Amount /\ row[d].currency \in Currency
        BY <3>2 DEF DealTypes, Rows
      <4>2. [of |-> row[d].amount, from |-> row[d].currency, into |-> job[j].under] \in Figures
        BY <1>1, <4>1 DEF Figures
      <4>. QED
        BY <1>4, <4>2, <3>1
    <3>. QED
      BY <1>4, <3>1, <3>2
  <2>. QED
    BY <1>3, <2>1, <2>2 DEF DealTypes
<1>6. RateTypes' /\ CountTypes' /\ EditTypes'
  BY <1>3 DEF rates, counts, RateTypes, CountTypes, EditTypes
<1>7. OverlapsAreNoted' /\ NewIsWhole' /\ ConvertsWhatItWrites'
  BY <1>3 DEF OverlapsAreNoted, NewIsWhole, ConvertsWhatItWrites, Busy, EditIs
<1>8. FigureIsOwn'
  <2> SUFFICES ASSUME NEW d \in Deal \ overlapped, figure'[d] # None
               PROVE  /\ row[d] # None /\ figure'[d].of = row[d].amount
                      /\ figure'[d].from = row[d].currency
    BY <1>3 DEF FigureIsOwn
  <2>1. CASE figure'[d] = figure[d]
    BY <2>1 DEF FigureIsOwn
  <2>2. CASE figure'[d] # figure[d]
    <3>1. /\ row[d] # None
          /\ figure'[d] = [of |-> row[d].amount, from |-> row[d].currency, into |-> job[j].under]
      BY <1>4, <2>2
    <3>. QED
      BY <3>1
  <2>. QED
    BY <2>1, <2>2
<1>. QED
  BY <1>2, <1>5, <1>6, <1>7, <1>8

-----------------------------------------------------------------------------
\* An edit that begins reads the row for the half it is not given.
LEMMA StartStep ==
  ASSUME MInv, NEW e \in Editor, NEW d \in Deal, CreateDeal(e, d) \/ UpdateDeal(e, d)
  PROVE  MInv'
<1> USE MoneyAssumption DEF MInv, MoneyTypes
<1>1. PICK new \in BOOLEAN, amount \in Amount \cup {None, Same},
           currency \in Currency \cup {Same}, c \in Currency :
        /\ StartEdit(e, d, new, amount, currency, c)
        /\ new => amount # Same /\ currency # Same /\ c = currency /\ Writing(d) = {}
        /\ ~new => row[d] # None /\ c = FromCurrency(d, currency)
  <2>1. CASE CreateDeal(e, d)
    BY <2>1 DEF CreateDeal
  <2>2. CASE UpdateDeal(e, d)
    <3>1. PICK a \in Amount \cup {None, Same}, c \in Currency \cup {Same} :
            StartEdit(e, d, FALSE, a, c, FromCurrency(d, c))
      BY <2>2 DEF UpdateDeal
    <3>2. row[d] # None /\ FromCurrency(d, c) \in Currency
      BY <2>2, <3>1 DEF UpdateDeal, FromCurrency, DealTypes, Rows
    <3>. QED
      BY <3>1, <3>2
  <2>. QED
    BY <2>1, <2>2
<1> DEFINE of == IF amount = Same THEN row[d].amount ELSE amount
           begun == [step |-> "base", deal |-> d, new |-> new, amount |-> amount,
                     currency |-> currency, of |-> of, from |-> c, figure |-> None]
<1>2. /\ EditIs(e, "idle") /\ edit' = [edit EXCEPT ![e] = begun]
      /\ overlapped' = IF Writing(d) = {} THEN overlapped ELSE overlapped \cup {d}
      /\ UNCHANGED <<rates, row, figure, job, lost>> /\ CountTypes'
  BY <1>1 DEF StartEdit, CountTypes
<1>3. begun \in Edits
  <2>1. of \in Amount \cup {None}
    BY <1>1 DEF DealTypes, Rows
  <2>. QED
    BY <2>1 DEF Edits
<1>4. EditTypes' /\ DealTypes' /\ RateTypes' /\ JobTypes'
  BY <1>2, <1>3 DEF EditTypes, DealTypes, RateTypes, JobTypes, rates
<1>5. overlapped \subseteq overlapped'
  BY <1>2
<1>6. \A f \in Editor \ {e} : edit'[f] = edit[f]
  BY <1>2 DEF EditTypes
<1>7. edit'[e] = begun
  BY <1>2 DEF EditTypes
<1>8. OverlapsAreNoted'
  <2>1. \A f \in Editor : Busy(f) /\ edit[f].deal = d => d \in overlapped'
    BY <1>2 DEF Busy, Writing
  <2>. QED
    BY <1>5, <1>6, <1>7, <2>1 DEF OverlapsAreNoted, Busy, EditIs
<1>9. NewIsWhole'
  BY <1>1, <1>6, <1>7 DEF NewIsWhole, Busy, EditIs
<1>10. ConvertsWhatItWrites'
  <2>1. /\ begun.of = IF amount = Same THEN row[d].amount ELSE amount
        /\ begun.from = IF currency = Same THEN row[d].currency ELSE currency
    BY <1>1 DEF FromCurrency
  <2>. QED
    BY <1>2, <1>5, <1>6, <1>7, <2>1 DEF ConvertsWhatItWrites, Busy, EditIs
<1>11. FigureIsOwn'
  BY <1>2, <1>5 DEF FigureIsOwn
<1>. QED
  BY <1>2, <1>4, <1>8, <1>9, <1>10, <1>11

\* What it converts it to depends on when it asks.
LEMMA ConvertStep ==
  ASSUME MInv, NEW e \in Editor, EditAsksBase(e) \/ EditAsksRate(e)
  PROVE  MInv'
<1> USE DEF MInv, MoneyTypes
<1>1. edit[e] \in Edits /\ Busy(e)
  BY Busies DEF EditAsksBase, EditAsksRate, Busy, EditIs
<1>2. PICK s \in {"rate", "write"}, g \in Figures \cup {None} :
        /\ edit' = [edit EXCEPT ![e] = [edit[e] EXCEPT !.step = s, !.figure = g]]
        /\ \/ g = None
           \/ g = edit[e].figure
           \/ g.of = edit[e].of /\ g.from = edit[e].from
  <2>1. CASE EditAsksBase(e)
    <3> DEFINE g == IF edit[e].of = None THEN None
                    ELSE [of |-> edit[e].of, from |-> edit[e].from, into |-> base]
    <3>1. g \in Figures \cup {None}
      BY <1>1 DEF Edits, Figures, RateTypes
    <3>2. edit' = [edit EXCEPT ![e] = [edit[e] EXCEPT !.step = "rate", !.figure = g]]
      BY <2>1 DEF EditAsksBase, EditTypes
    <3>3. g = None \/ (g.of = edit[e].of /\ g.from = edit[e].from)
      OBVIOUS
    <3>. QED
      BY <3>1, <3>2, <3>3
  <2>2. CASE EditAsksRate(e)
    <3> DEFINE g == IF edit[e].figure # None /\ HasRate(edit[e].figure.into, edit[e].figure.from)
                    THEN edit[e].figure ELSE None
    <3>1. g \in Figures \cup {None} /\ (g = None \/ g = edit[e].figure)
      BY <1>1 DEF Edits
    <3>2. edit' = [edit EXCEPT ![e] = [edit[e] EXCEPT !.step = "write", !.figure = g]]
      BY <2>2 DEF EditAsksRate, EditTypes
    <3>. QED
      BY <3>1, <3>2
  <2>. QED
    BY <2>1, <2>2
<1> DEFINE asked == [edit[e] EXCEPT !.step = s, !.figure = g]
<1>3. /\ asked \in Edits /\ asked.step # "idle" /\ asked.figure = g
      /\ asked.deal = edit[e].deal /\ asked.new = edit[e].new /\ asked.amount = edit[e].amount
      /\ asked.currency = edit[e].currency /\ asked.of = edit[e].of /\ asked.from = edit[e].from
  BY <1>1 DEF Edits
<1>4. UNCHANGED <<rates, deals, job, counts>>
  BY DEF EditAsksBase, EditAsksRate
<1>5. DealTypes' /\ RateTypes' /\ CountTypes' /\ JobTypes' /\ FigureIsOwn'
  BY <1>4 DEF rates, deals, counts, DealTypes, RateTypes, CountTypes, JobTypes, FigureIsOwn
<1>6. edit'[e] = asked /\ (\A f \in Editor \ {e} : edit'[f] = edit[f]) /\ EditTypes'
  BY <1>2, <1>3 DEF EditTypes
<1>7. UNCHANGED <<row, overlapped>> /\ \A f \in Editor :
        /\ Busy(f)' <=> Busy(f)
        /\ edit'[f].deal = edit[f].deal /\ edit'[f].new = edit[f].new
        /\ edit'[f].amount = edit[f].amount /\ edit'[f].currency = edit[f].currency
        /\ edit'[f].of = edit[f].of /\ edit'[f].from = edit[f].from
  BY <1>1, <1>3, <1>4, <1>6 DEF Busy, EditIs, deals
<1>8. OverlapsAreNoted' /\ NewIsWhole'
  BY <1>7 DEF OverlapsAreNoted, NewIsWhole
<1>9. ConvertsWhatItWrites'
  BY <1>2, <1>3, <1>6, <1>7 DEF ConvertsWhatItWrites
<1>. QED
  BY <1>5, <1>6, <1>8, <1>9

\* The write: nobody else is at work on a deal that is not marked.
LEMMA WriteStep == ASSUME MInv, NEW e \in Editor, EditWrites(e) PROVE MInv'
<1> USE DEF MInv, MoneyTypes
<1> DEFINE d == edit[e].deal
           amount == IF edit[e].amount = Same THEN row[d].amount ELSE edit[e].amount
           currency == IF edit[e].currency = Same THEN row[d].currency ELSE edit[e].currency
<1>1. edit[e] \in Edits /\ Busy(e) /\ d \in Deal
  <2>1. edit[e] \in Edits /\ Busy(e)
    BY Busies DEF EditWrites, Busy, EditIs
  <2>. QED
    BY <2>1 DEF Edits
<1>2. /\ row[d] # None \/ edit[e].new
      /\ row' = [row EXCEPT ![d] = [amount |-> amount, currency |-> currency]]
      /\ figure' = [figure EXCEPT ![d] = edit[e].figure]
      /\ edit' = [edit EXCEPT ![e] = Idle]
      /\ UNCHANGED <<rates, job, counts, overlapped>>
  BY DEF EditWrites
<1>3. [amount |-> amount, currency |-> currency] \in Rows
  BY <1>1, <1>2 DEF Edits, Rows, DealTypes, NewIsWhole
<1>4. DealTypes' /\ RateTypes' /\ CountTypes' /\ JobTypes' /\ EditTypes'
  BY <1>1, <1>2, <1>3 DEF rates, counts, DealTypes, RateTypes, CountTypes, JobTypes, EditTypes, Edits
<1>5. \A f \in Editor : Busy(f)' => f # e /\ edit'[f] = edit[f] /\ Busy(f)
  BY <1>2 DEF Busy, EditIs, EditTypes, Idle
<1>6. OverlapsAreNoted' /\ NewIsWhole'
  BY <1>2, <1>5 DEF OverlapsAreNoted, NewIsWhole
<1>7. ConvertsWhatItWrites'
  <2> SUFFICES ASSUME NEW f \in Editor, Busy(f)', edit'[f].deal \notin overlapped'
               PROVE  row'[edit[f].deal] = row[edit[f].deal]
    BY <1>2, <1>5 DEF ConvertsWhatItWrites
  <2>1. edit[f].deal # d
    BY <1>1, <1>2, <1>5 DEF OverlapsAreNoted
  <2>. QED
    BY <1>2, <2>1 DEF DealTypes
<1>8. FigureIsOwn'
  <2> SUFFICES ASSUME NEW x \in Deal \ overlapped, figure'[x] # None
               PROVE  /\ row'[x] # None /\ figure'[x].of = row'[x].amount
                      /\ figure'[x].from = row'[x].currency
    BY <1>2 DEF FigureIsOwn
  <2>1. CASE x = d
    <3>1. figure'[x] = edit[e].figure /\ row'[x] = [amount |-> amount, currency |-> currency]
      BY <1>2, <2>1 DEF DealTypes
    <3>2. row'[x] # None
      BY <1>3, <3>1, MoneyAssumption DEF Rows
    <3>. QED
      BY <1>1, <1>2, <2>1, <3>1, <3>2 DEF ConvertsWhatItWrites
  <2>2. CASE x # d
    BY <1>2, <2>2 DEF DealTypes, FigureIsOwn
  <2>. QED
    BY <2>1, <2>2
<1>. QED
  BY <1>4, <1>6, <1>7, <1>8

\* A deal that is deleted, and an edit that does not come to its write.
LEMMA LossStep ==
  ASSUME MInv, (\E e \in Editor : EditFails(e)) \/ (\E d \in Deal : DeleteDeal(d))
  PROVE  MInv'
<1> USE MoneyAssumption DEF MInv, MoneyTypes
<1>1. ASSUME NEW e \in Editor, EditFails(e) PROVE MInv'
  <2>1. UNCHANGED <<rates, deals, job, calls>> /\ edit' = [edit EXCEPT ![e] = Idle]
    BY <1>1 DEF EditFails
  <2>2. \A f \in Editor : Busy(f)' => edit'[f] = edit[f] /\ Busy(f)
    BY <2>1 DEF Busy, EditIs, EditTypes, Idle
  <2>3. EditTypes' /\ CountTypes'
    BY <1>1, <2>1 DEF EditFails, EditTypes, CountTypes
  <2>4. DealTypes' /\ RateTypes' /\ JobTypes' /\ FigureIsOwn'
    BY <2>1 DEF rates, deals, DealTypes, RateTypes, JobTypes, FigureIsOwn
  <2>5. OverlapsAreNoted' /\ NewIsWhole' /\ ConvertsWhatItWrites'
    BY <2>1, <2>2 DEF deals, OverlapsAreNoted, NewIsWhole, ConvertsWhatItWrites
  <2>. QED
    BY <2>3, <2>4, <2>5
<1>2. ASSUME NEW d \in Deal, DeleteDeal(d) PROVE MInv'
  <2>1. /\ row' = [row EXCEPT ![d] = None] /\ figure' = [figure EXCEPT ![d] = None]
        /\ UNCHANGED <<rates, edit, job, counts, overlapped>>
    BY <1>2 DEF DeleteDeal
  <2>2. DealTypes' /\ FigureIsOwn'
    BY <2>1 DEF DealTypes, FigureIsOwn
  <2>3. RateTypes' /\ CountTypes' /\ JobTypes' /\ EditTypes'
    BY <2>1 DEF rates, counts, RateTypes, CountTypes, JobTypes, EditTypes
  <2>4. OverlapsAreNoted' /\ NewIsWhole'
    BY <2>1 DEF OverlapsAreNoted, NewIsWhole, Busy, EditIs
  <2>5. ConvertsWhatItWrites'
    <3> SUFFICES ASSUME NEW f \in Editor, Busy(f), edit[f].deal \notin overlapped
                 PROVE  \/ row'[edit[f].deal] = row[edit[f].deal]
                        \/ /\ row'[edit[f].deal] = None
                           /\ edit[f].new => edit[f].amount # Same /\ edit[f].currency # Same
      BY <2>1 DEF ConvertsWhatItWrites, Busy, EditIs
    <3>. QED
      BY <2>1 DEF NewIsWhole, DealTypes
  <2>. QED
    BY <2>2, <2>3, <2>4, <2>5
<1>. QED
  BY <1>1, <1>2

LEMMA MoneyInductive == MSpec => []MInv
<1>1. MInit => MInv
  <2> SUFFICES ASSUME MInit PROVE MInv
      OBVIOUS
  <2>1. DealTypes /\ RateTypes
    BY DEF MInit, DealTypes, RateTypes, Rows
  <2>2. CountTypes
    BY MoneyAssumption DEF MInit, CountTypes
  <2>3. EditTypes /\ JobTypes
    BY DEF MInit, EditTypes, JobTypes, Idle
  <2>4. OverlapsAreNoted /\ NewIsWhole /\ ConvertsWhatItWrites /\ FigureIsOwn
    BY DEF MInit, OverlapsAreNoted, NewIsWhole, ConvertsWhatItWrites, FigureIsOwn, Busy,
       EditIs, Idle
  <2>. QED
    BY <2>1, <2>2, <2>3, <2>4 DEF MInv, MoneyTypes
<1>2. MInv /\ [MNext]_mvars => MInv'
  <2> SUFFICES ASSUME MInv, [MNext]_mvars PROVE MInv'
      OBVIOUS
  <2>1. CASE UNCHANGED mvars
    BY <2>1, EditsKept DEF mvars, rates, counts, MInv, MoneyTypes, RateTypes, CountTypes, JobTypes
  <2>2. CASE RunDaily
    <3>1. Daily \in Job
      BY DEF Job
    <3>. QED
      BY <2>2, <3>1, SettingsStep
  <2>3. CASE MNext /\ ~RunDaily
    BY <2>3, StartStep, ConvertStep, WriteStep, LossStep, SettingsStep, JobStep, RatingStep
       DEF MNext, Rates
  <2>. QED
    BY <2>1, <2>2, <2>3
<1>. QED
  BY <1>1, <1>2, PTL DEF MSpec

\* THEOREM: every reachable state of the deals, edits and jobs has its types.
THEOREM MoneyTypeCorrect == MSpec => []MTypeOK
<1>1. MInv => MTypeOK
  BY DEF MInv, MoneyTypes, DealTypes, RateTypes, CountTypes, MTypeOK, Rows, Figures
<1>. QED
  BY <1>1, MoneyInductive, PTL

\* THEOREM: however edits, fills and re-ratings of any number of deals interleave,
\* a figure is that of its deal's own amount and currency, unless two edits of
\* that deal overlapped.
THEOREM FigureOfItsOwn == MSpec => []FigureIsOwn
BY MoneyInductive, PTL DEF MInv
=============================================================================
