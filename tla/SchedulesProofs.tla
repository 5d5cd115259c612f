---------------------------- MODULE SchedulesProofs ----------------------------
(***************************************************************************)
(* Proofs about what schedules, timers and expiry drive: the sweeps of the *)
(* dispatcher (SweepDispatcher), the facts of a field (FactLedger), the    *)
(* cached configuration (TrackingConfig) and the retention of visits       *)
(* (TrackingRetention), for any number of processes, callers, values,      *)
(* facts, requests, replicas, sweeps and days.                             *)
(***************************************************************************)
EXTENDS SweepDispatcher, FactLedger, TrackingConfig, TrackingRetention,
        FiniteSetTheorems, TLAPS

(***************************************************************************)
(* Sweeps.  Type correctness, NotStacked and CallIsFolded are together an  *)
(* inductive invariant: unsettledSweeps stays within its limit only because *)
(* the race of a sweep counts as one of its places.                        *)
(***************************************************************************)
WInv == WTypeOK /\ NotStacked /\ CallIsFolded

LEMMA SweepInit == WInit => WInv
<1> SUFFICES ASSUME WInit PROVE WInv
  OBVIOUS
<1> USE SweepAssumption DEF SweepAssumption, WInit
<1>1. WTypeOK
  BY DEF WTypeOK
<1>2. NotStacked
  <2> SUFFICES ASSUME NEW p \in Process
               PROVE  unsettled[p] + Racing(p) <= MaxAbandoned
    BY DEF NotStacked
  <2>1. unsettled[p] = 0 /\ Racing(p) = 0
    BY DEF Racing
  <2>. QED
    BY <2>1
<1>3. CallIsFolded
  BY DEF CallIsFolded
<1>. QED
  BY <1>1, <1>2, <1>3 DEF WInv

LEMMA SweepNext == WInv /\ [WNext]_wvars => WInv'
<1> SUFFICES ASSUME WInv, [WNext]_wvars PROVE WInv'
  OBVIOUS
<1> USE SweepAssumption DEF SweepAssumption, WInv, WTypeOK, NotStacked, CallIsFolded, Racing
<1>1. CASE QueueWork
  BY <1>1 DEF QueueWork
<1>2. ASSUME NEW p \in Process, CallDuring(p) PROVE WInv'
  BY <1>2 DEF CallDuring
<1>3. ASSUME NEW p \in Process, CallIdle(p) PROVE WInv'
  BY <1>3 DEF CallIdle, Begin
<1>4. ASSUME NEW p \in Process, SweepEnds(p) PROVE WInv'
  <2>1. CASE p \in trailing
    BY <1>4, <2>1 DEF SweepEnds, CatchUp, Begin
  <2>2. CASE p \notin trailing
    BY <1>4, <2>2 DEF SweepEnds, CatchUp
  <2>. QED
    BY <2>1, <2>2
<1>5. ASSUME NEW p \in Process, SweepTimesOut(p) PROVE WInv'
  <2>1. CASE p \in trailing
    BY <1>5, <2>1 DEF SweepTimesOut, CatchUp, Begin
  <2>2. CASE p \notin trailing
    BY <1>5, <2>2 DEF SweepTimesOut, CatchUp
  <2>. QED
    BY <2>1, <2>2
<1>6. ASSUME NEW p \in Process, AbandonedSettles(p) PROVE WInv'
  BY <1>6 DEF AbandonedSettles
<1>7. ASSUME NEW p \in Process, Forget(p) PROVE WInv'
  BY <1>7 DEF Forget
<1>8. ASSUME NEW p \in Process, ForgottenSettles(p) PROVE WInv'
  BY <1>8 DEF ForgottenSettles
<1>9. ASSUME NEW p \in Process, ProcessRestarts(p) PROVE WInv'
  BY <1>9 DEF ProcessRestarts
<1>10. CASE UNCHANGED wvars
  BY <1>10 DEF wvars
<1>. QED
  BY <1>1, <1>2, <1>3, <1>4, <1>5, <1>6, <1>7, <1>8, <1>9, <1>10 DEF WNext

LEMMA SweepInvariant == WSpec => []WInv
  BY SweepInit, SweepNext, PTL DEF WSpec

\* The size of unsettledSweeps and the other state of a process stay in their
\* ranges.
THEOREM SweepTypeCorrect == WSpec => []WTypeOK
  BY SweepInvariant, PTL DEF WInv

\* drainAll's refusal keeps stuck sweeps from piling up.
THEOREM SweepsNotStacked == WSpec => []NotStacked
  BY SweepInvariant, PTL DEF WInv

\* collapsing loses no call, whether the sweep under way succeeds, throws or
\* is abandoned.
THEOREM CallsAreFolded == WSpec => []CallIsFolded
  BY SweepInvariant, PTL DEF WInv

-----------------------------------------------------------------------------
(***************************************************************************)
(* The facts of a field.  A writer that has not missed an edit has read a  *)
(* column that is not blank while a person's words are in it; so what it   *)
(* applies does not overwrite them, unless the agent had a fact there.     *)
(***************************************************************************)
\* What doing[w] may be.
Doing ==
  [at : {"idle", "looking", "offering", "settling", "dismissing", "applying", "applied"},
   fact : 0..MaxFact, group : SUBSET Fact, value : Value \cup {Blank},
   strong : BOOLEAN, column : Value \cup {Blank}, agents : BOOLEAN,
   rows : SUBSET Fact]

\* What a person typed is not blank.
TypedIsThere == typed => column # Blank

\* Writers that are not the rep and have seen the last edit.
Aware == Writer \ (unseen \cup {Rep})

\* They know it when a person's words are in the column, ...
AwareHasRead == typed => \A w \in Aware : doing[w].at = "looking" => doing[w].column # Blank

\* ... and then they apply nothing in a field that is not the agent's.
AwareSpares ==
  typed => \A w \in Aware : doing[w].at \in {"applying", "applied"} => doing[w].agents

FactInv == FTypeOK /\ TypedIsThere /\ AwareHasRead /\ AwareSpares

LEMMA FactBegins == FInit => FactInv
<1> SUFFICES ASSUME FInit PROVE FactInv
  OBVIOUS
<1>1. Idle \in Doing /\ Idle.at = "idle"
  BY FactAssumption DEF FactAssumption, Idle, Doing
<1>2. doing \in [Writer -> Doing] /\ \A w \in Writer : doing[w].at = "idle"
  BY <1>1 DEF FInit
<1>3. status \in [Fact -> Status]
  <2>1. PICK n \in 0..MaxFact :
          status = [f \in Fact |-> IF f <= n THEN "PROPOSED" ELSE "none"]
    BY DEF FInit
  <2>. QED
    BY <2>1 DEF Status
<1>4. typed \in BOOLEAN /\ (typed => column # Blank)
  BY DEF FInit
<1>5. value \in [Fact -> Value \cup {Blank}]
  BY DEF FInit
<1>6. column \in Value \cup {Blank} /\ unseen \subseteq Writer /\ decided \in 0..MaxDecide
  BY FactAssumption DEF FInit, FactAssumption
<1>7. FTypeOK
  BY <1>2, <1>3, <1>4, <1>5, <1>6 DEF FTypeOK, Doing
<1>. QED
  BY <1>2, <1>4, <1>7 DEF FactInv, TypedIsThere, AwareHasRead, AwareSpares, Aware

\* A writer that goes somewhere keeps the type of doing.
LEMMA DoingPut ==
  ASSUME FTypeOK, NEW w \in Writer, NEW r \in Doing, doing' = [doing EXCEPT ![w] = r]
  PROVE  /\ doing' \in [Writer -> Doing]
         /\ doing'[w] = r
         /\ \A v \in Writer \ {w} : doing'[v] = doing[v]
BY DEF FTypeOK, Doing

LEMMA IdleTypes == Idle \in Doing /\ Idle.at = "idle"
BY FactAssumption DEF FactAssumption, Idle, Doing

\* Facts by their status are facts.
LEMMA FactSets == /\ \A s : With(s) \subseteq Fact
                  /\ Standing \subseteq Fact /\ Fresh \subseteq Fact
                  /\ Fact \subseteq 0..MaxFact /\ 0 \in 0..MaxFact
BY FactAssumption DEF FactAssumption, With, Standing, Fresh, Fact

LEMMA Writers == Caller \subseteq Writer /\ Sweeper \in Writer /\ Rep \in Writer
                 /\ Rep \notin Caller /\ Rep # Sweeper
BY FactAssumption DEF FactAssumption, Writer

\* A writer that moves on, while the column is left alone, has looked at the
\* field when it goes on to write.
LEMMA MovesOn ==
  ASSUME FactInv, NEW w \in Writer, NEW r \in Doing, doing' = [doing EXCEPT ![w] = r],
         UNCHANGED <<column, typed>>, unseen' \in {unseen, unseen \ {w}},
         value' \in [Fact -> Value \cup {Blank}], status' \in [Fact -> Status],
         decided' \in 0..MaxDecide,
         w \in Aware' /\ typed => /\ r.at = "looking" => r.column # Blank
                                  /\ r.at \in {"applying", "applied"} => r.agents
  PROVE  FactInv'
<1>1. /\ doing' \in [Writer -> Doing]
      /\ doing'[w] = r
      /\ \A v \in Writer \ {w} : doing'[v] = doing[v]
  BY DoingPut DEF FactInv
<1>2. FTypeOK'
  BY <1>1 DEF FactInv, FTypeOK, Doing
<1>3. TypedIsThere'
  BY DEF FactInv, TypedIsThere
<1>4. \A v \in Aware' : v = w \/ v \in Aware
  BY DEF Aware
<1>5. AwareHasRead' /\ AwareSpares'
  BY <1>1, <1>4 DEF FactInv, AwareHasRead, AwareSpares, Aware
<1>. QED
  BY <1>2, <1>3, <1>5 DEF FactInv

\* recordFact reads the contact, then the facts.
LEMMA CallerReads ==
  ASSUME FactInv, NEW c \in Caller, ReadContact(c) \/ ReadFacts(c)
  PROVE  FactInv'
<1> USE Writers, IdleTypes
<1>1. /\ value' \in [Fact -> Value \cup {Blank}] /\ status' \in [Fact -> Status]
      /\ decided' \in 0..MaxDecide /\ UNCHANGED <<column, typed>>
  BY DEF ReadContact, ReadFacts, FactInv, FTypeOK
<1>2. column \in Value \cup {Blank} /\ doing[c] \in Doing
  BY DEF FactInv, FTypeOK, Doing
<1>3. CASE ReadContact(c)
  <2>1. PICK v \in Value, strong \in BOOLEAN :
          doing' = [doing EXCEPT ![c] =
            [Idle EXCEPT !.at = "looking", !.value = v, !.strong = strong, !.column = column]]
    BY <1>3 DEF ReadContact
  <2> DEFINE r == [Idle EXCEPT !.at = "looking", !.value = v, !.strong = strong,
                               !.column = column]
  <2>2. r \in Doing /\ r.at = "looking" /\ r.column = column
    BY <1>2 DEF Doing, Idle
  <2>3. typed => r.column # Blank
    BY <2>2 DEF FactInv, TypedIsThere
  <2>4. unseen' = unseen \ {c} /\ doing' = [doing EXCEPT ![c] = r]
    BY <1>3, <2>1 DEF ReadContact
  <2> HIDE DEF r
  <2>. QED
    BY <1>1, <2>2, <2>3, <2>4, MovesOn
<1>4. CASE ReadFacts(c)
  <2> DEFINE agents == With("APPLIED") # {}
             applies == doing[c].strong \/ FillsBlank(doing[c].column, agents)
             r == [doing[c] EXCEPT !.at = IF applies THEN "applying" ELSE "offering",
                                   !.agents = agents]
  <2>1. unseen' = unseen /\ doing[c].at = "looking"
    BY <1>4 DEF ReadFacts
  <2>2. \/ doing' = [doing EXCEPT ![c] = Idle]
        \/ doing' = [doing EXCEPT ![c] = r] /\ ~HumanOwns(doing[c].column, agents)
    BY <1>4 DEF ReadFacts
  <2>3. CASE doing' = [doing EXCEPT ![c] = Idle]
    BY <1>1, <2>1, <2>3, MovesOn
  <2>4. CASE doing' = [doing EXCEPT ![c] = r] /\ ~HumanOwns(doing[c].column, agents)
    <3>1. agents \in BOOLEAN
      OBVIOUS
    <3> HIDE DEF agents, applies
    <3>2. r \in Doing /\ r.at # "looking" /\ r.agents = agents
      BY <1>2, <3>1 DEF Doing
    <3>3. agents \/ doing[c].column = Blank
      BY <2>4 DEF HumanOwns
    <3>4. c \in Aware' /\ typed => doing[c].column # Blank
      BY <2>1 DEF FactInv, AwareHasRead, Aware
    <3> HIDE DEF r
    <3>. QED
      BY <1>1, <2>1, <2>4, <3>2, <3>3, <3>4, MovesOn
  <2>. QED
    BY <2>2, <2>3, <2>4
<1>. QED
  BY <1>3, <1>4

\* The transactions that apply a fact.
LEMMA WriterApplies ==
  ASSUME FactInv, NEW w \in Writer, Displace(w) \/ Apply(w) \/ Abort(w)
  PROVE  FactInv'
<1> USE IdleTypes
<1>1. doing[w] \in Doing
  BY DEF FactInv, FTypeOK, Doing
<1>2. CASE Displace(w)
  <2> DEFINE gone == Standing \ {doing[w].fact}
             r == [doing[w] EXCEPT !.at = "applied", !.rows = gone]
  <2>1. gone \in SUBSET Fact
    BY FactSets
  <2>2. doing' = [doing EXCEPT ![w] = r] /\ unseen' = unseen /\ doing[w].at = "applying"
    BY <1>1, <1>2 DEF Displace, FactInv, FTypeOK, Doing
  <2> HIDE DEF gone
  <2>3. r \in Doing /\ r.at # "looking" /\ r.agents = doing[w].agents
    BY <1>1, <2>1 DEF Doing
  <2>4. w \in Aware' /\ typed => doing[w].agents
    BY <2>2 DEF FactInv, AwareSpares, Aware
  <2>5. /\ value' \in [Fact -> Value \cup {Blank}] /\ status' \in [Fact -> Status]
        /\ decided' \in 0..MaxDecide /\ UNCHANGED <<column, typed>>
    BY <1>2 DEF Displace, FactInv, FTypeOK
  <2> HIDE DEF r
  <2>. QED
    BY <2>2, <2>3, <2>4, <2>5, MovesOn
<1>3. CASE Apply(w)
  <2>1. PICK f \in Fact :
          /\ value' = [value EXCEPT ![f] = doing[w].value]
          /\ status' = [g \in Fact |-> IF g = f THEN "APPLIED"
                                       ELSE IF g \in doing[w].rows THEN "SUPERSEDED"
                                       ELSE status[g]]
    <3>1. PICK f \in IF doing[w].fact = 0 THEN Fresh ELSE {doing[w].fact} \ Locked(w) :
          /\ value' = [value EXCEPT ![f] = doing[w].value]
          /\ status' = [g \in Fact |-> IF g = f THEN "APPLIED"
                                       ELSE IF g \in doing[w].rows THEN "SUPERSEDED"
                                       ELSE status[g]]
      BY <1>3 DEF Apply
    <3>2. CASE doing[w].fact = 0
      BY <3>1, <3>2, FactSets
    <3>3. CASE doing[w].fact # 0
      <4>1. doing[w].fact \in 0..MaxFact /\ MaxFact \in Nat
        BY <1>1, FactAssumption DEF Doing, FactAssumption
      <4>2. f = doing[w].fact
        BY <3>1, <3>3
      <4>3. f \in Fact
        BY <3>3, <4>1, <4>2 DEF Fact
      <4>. QED
        BY <3>1, <4>3
    <3>. QED
      BY <3>2, <3>3
  <2>2. value' \in [Fact -> Value \cup {Blank}]
    BY <1>1, <2>1 DEF FactInv, FTypeOK, Doing
  <2>3. status' \in [Fact -> Status]
    BY <2>1 DEF FactInv, FTypeOK, Status
  <2>4. /\ column' = doing[w].value /\ typed' = FALSE /\ unseen' = unseen
        /\ decided' = decided /\ doing' = [doing EXCEPT ![w] = Idle]
    BY <1>3 DEF Apply
  <2>5. doing' \in [Writer -> Doing]
    BY <2>4, DoingPut DEF FactInv
  <2>6. FTypeOK'
    BY <1>1, <2>2, <2>3, <2>4, <2>5 DEF FactInv, FTypeOK, Doing
  <2>. QED
    BY <2>4, <2>6 DEF FactInv, TypedIsThere, AwareHasRead, AwareSpares
<1>4. CASE Abort(w)
  <2>1. doing' = [doing EXCEPT ![w] = Idle] /\ unseen' = unseen
    BY <1>4 DEF Abort
  <2>2. /\ value' \in [Fact -> Value \cup {Blank}] /\ status' \in [Fact -> Status]
        /\ decided' \in 0..MaxDecide /\ UNCHANGED <<column, typed>>
    BY <1>4 DEF Abort, FactInv, FTypeOK
  <2>. QED
    BY <2>1, <2>2, MovesOn
<1>. QED
  BY <1>2, <1>3, <1>4

\* The sweep reads the contact and its proposals, then decides.
LEMMA SweeperDecides ==
  ASSUME FactInv, SweepReads \/ SweepDecides \/ SweepSettles
  PROVE  FactInv'
<1> USE Writers, IdleTypes
<1>1. column \in Value \cup {Blank} /\ doing[Sweeper] \in Doing
  BY DEF FactInv, FTypeOK, Doing
<1>2. value' \in [Fact -> Value \cup {Blank}] /\ decided' \in 0..MaxDecide
      /\ UNCHANGED <<column, typed>>
  BY DEF SweepReads, SweepDecides, SweepSettles, FactInv, FTypeOK
<1>3. status' \in [Fact -> Status]
  <2>1. CASE SweepSettles
    BY <2>1 DEF SweepSettles, FactInv, FTypeOK, Status
  <2>2. CASE ~SweepSettles
    BY <2>2 DEF SweepReads, SweepDecides, FactInv, FTypeOK
  <2>. QED
    BY <2>1, <2>2
<1>4. CASE SweepReads
  <2> DEFINE group == With("PROPOSED")
             r == [Idle EXCEPT !.at = "looking", !.column = column, !.group = group]
  <2>1. group \in SUBSET Fact
    BY FactSets
  <2>2. doing' = [doing EXCEPT ![Sweeper] = r] /\ unseen' = unseen \ {Sweeper}
    BY <1>4 DEF SweepReads
  <2> HIDE DEF group
  <2>3. r \in Doing /\ r.at = "looking" /\ r.column = column
    BY <1>1, <2>1 DEF Doing, Idle
  <2>4. typed => r.column # Blank
    BY <2>3 DEF FactInv, TypedIsThere
  <2> HIDE DEF r
  <2>. QED
    BY <1>2, <1>3, <2>2, <2>3, <2>4, MovesOn
<1>5. CASE SweepDecides
  <2>1. doing[Sweeper].at = "looking" /\ unseen' = unseen
    BY <1>5 DEF SweepDecides
  <2>2. \/ doing' = [doing EXCEPT ![Sweeper] = Idle]
        \/ \E stale \in SUBSET Fact :
             doing' = [doing EXCEPT ![Sweeper] =
                         [Idle EXCEPT !.at = "settling", !.group = stale]]
        \/ /\ doing[Sweeper].column = Blank
           /\ \E best \in Fact :
                doing' = [doing EXCEPT ![Sweeper] =
                  [Idle EXCEPT !.at = "applying", !.fact = best, !.value = value[best]]]
    <3>1. PICK best \in doing[Sweeper].group, a \in With("APPLIED") \cup {0} :
            LET stale == Redundant(doing[Sweeper].group, best,
                                   IF a = 0 THEN doing[Sweeper].column ELSE value[a])
            IN doing' = [doing EXCEPT ![Sweeper] =
                 IF FillsBlank(doing[Sweeper].column, With("APPLIED") # {})
                 THEN [Idle EXCEPT !.at = "applying", !.fact = best, !.value = value[best]]
                 ELSE IF stale = {} THEN Idle
                 ELSE [Idle EXCEPT !.at = "settling", !.group = stale]]
      BY <1>5 DEF SweepDecides
    <3> DEFINE stale == Redundant(doing[Sweeper].group, best,
                                  IF a = 0 THEN doing[Sweeper].column ELSE value[a])
    <3>2. best \in Fact /\ doing[Sweeper].group \subseteq Fact
      BY <1>1 DEF Doing
    <3>3. stale \subseteq Fact
      BY <3>2 DEF Redundant
    <3>4. CASE FillsBlank(doing[Sweeper].column, With("APPLIED") # {})
      <4>1. doing[Sweeper].column = Blank
        BY <3>4 DEF FillsBlank
      <4>2. doing' = [doing EXCEPT ![Sweeper] =
                 [Idle EXCEPT !.at = "applying", !.fact = best, !.value = value[best]]]
        BY <3>1, <3>4
      <4>. QED
        BY <3>2, <4>1, <4>2
    <3>5. CASE ~FillsBlank(doing[Sweeper].column, With("APPLIED") # {})
      <4>1. doing' = [doing EXCEPT ![Sweeper] =
                 IF stale = {} THEN Idle
                 ELSE [Idle EXCEPT !.at = "settling", !.group = stale]]
        BY <3>1, <3>5
      <4> HIDE DEF stale
      <4>. QED
        BY <3>3, <4>1
    <3>. QED
      BY <3>4, <3>5
  <2>3. CASE doing' = [doing EXCEPT ![Sweeper] = Idle]
    BY <1>2, <1>3, <2>1, <2>3, MovesOn
  <2>4. ASSUME NEW stale \in SUBSET Fact,
               doing' = [doing EXCEPT ![Sweeper] =
                           [Idle EXCEPT !.at = "settling", !.group = stale]]
        PROVE  FactInv'
    <3> DEFINE r == [Idle EXCEPT !.at = "settling", !.group = stale]
    <3>1. r \in Doing /\ r.at = "settling"
      BY DEF Doing, Idle
    <3>2. doing' = [doing EXCEPT ![Sweeper] = r]
      BY <2>4
    <3> HIDE DEF r
    <3>. QED
      BY <1>2, <1>3, <2>1, <3>1, <3>2, MovesOn
  <2>5. ASSUME NEW best \in Fact, doing[Sweeper].column = Blank,
               doing' = [doing EXCEPT ![Sweeper] =
                  [Idle EXCEPT !.at = "applying", !.fact = best, !.value = value[best]]]
        PROVE  FactInv'
    <3> DEFINE r == [Idle EXCEPT !.at = "applying", !.fact = best, !.value = value[best]]
    <3>1. value[best] \in Value \cup {Blank} /\ best \in 0..MaxFact
      BY FactSets DEF FactInv, FTypeOK
    <3>2. r \in Doing /\ r.at = "applying"
      BY <3>1 DEF Doing, Idle
    <3>3. ~(Sweeper \in Aware' /\ typed)
      BY <2>1, <2>5 DEF FactInv, AwareHasRead, Aware
    <3>4. doing' = [doing EXCEPT ![Sweeper] = r]
      BY <2>5
    <3> HIDE DEF r
    <3>. QED
      BY <1>2, <1>3, <2>1, <3>2, <3>3, <3>4, MovesOn
  <2>. QED
    BY <2>2, <2>3, <2>4, <2>5
<1>6. CASE SweepSettles
  BY <1>2, <1>3, <1>6, MovesOn DEF SweepSettles
<1>. QED
  BY <1>4, <1>5, <1>6

\* The rep decides, a caller offers, a person types.
LEMMA PeopleDecide ==
  ASSUME FactInv,
         (\E f \in Fact : Decide(f)) \/ Dismiss \/ (\E c \in Caller : Offer(c)) \/ Edit
  PROVE  FactInv'
<1> USE Writers, IdleTypes
<1>1. ASSUME NEW f \in Fact, Decide(f) PROVE FactInv'
  <2>1. PICK next \in {"applying", "dismissing"} :
          doing' = [doing EXCEPT ![Rep] =
                      [Idle EXCEPT !.at = next, !.fact = f, !.value = value[f]]]
    BY <1>1 DEF Decide
  <2> DEFINE r == [Idle EXCEPT !.at = next, !.fact = f, !.value = value[f]]
  <2>2. value[f] \in Value \cup {Blank} /\ f \in 0..MaxFact
    BY FactSets DEF FactInv, FTypeOK
  <2>3. r \in Doing
    BY <2>2 DEF Doing, Idle
  <2>4. decided' \in 0..MaxDecide
    <3>1. decided \in 0..MaxDecide /\ MaxDecide \in Nat
      BY FactAssumption DEF FactInv, FTypeOK, FactAssumption
    <3>2. decided < MaxDecide /\ decided' = decided + 1
      BY <1>1 DEF Decide
    <3>. QED
      BY <3>1, <3>2
  <2>5. /\ value' \in [Fact -> Value \cup {Blank}] /\ status' \in [Fact -> Status]
        /\ unseen' = unseen /\ UNCHANGED <<column, typed>>
    BY <1>1 DEF Decide, FactInv, FTypeOK
  <2>6. doing' = [doing EXCEPT ![Rep] = r] /\ Rep \notin Aware'
    BY <2>1 DEF Aware
  <2> HIDE DEF r
  <2>. QED
    BY <2>3, <2>4, <2>5, <2>6, MovesOn
<1>2. CASE Dismiss
  <2>1. status' \in [Fact -> Status]
    BY <1>2 DEF Dismiss, FactInv, FTypeOK, Status
  <2>. QED
    BY <1>2, <2>1, MovesOn DEF Dismiss, FactInv, FTypeOK
<1>3. ASSUME NEW c \in Caller, Offer(c) PROVE FactInv'
  <2>1. PICK f \in Fact : /\ value' = [value EXCEPT ![f] = doing[c].value]
                          /\ status' = [status EXCEPT ![f] = "PROPOSED"]
    BY <1>3, FactSets DEF Offer
  <2>2. doing[c].value \in Value \cup {Blank}
    BY DEF FactInv, FTypeOK
  <2>3. value' \in [Fact -> Value \cup {Blank}] /\ status' \in [Fact -> Status]
    BY <2>1, <2>2 DEF FactInv, FTypeOK, Status
  <2>. QED
    BY <1>3, <2>3, MovesOn DEF Offer, FactInv, FTypeOK
<1>4. CASE Edit
  <2>1. PICK v \in Value \cup {Blank} : column' = v /\ typed' = (v # Blank)
    BY <1>4 DEF Edit
  <2>2. Aware' = {} /\ unseen' \subseteq Writer
    BY <1>4 DEF Edit, Aware, Writer
  <2>3. TypedIsThere' /\ typed' \in BOOLEAN
    BY <2>1 DEF TypedIsThere
  <2>4. FTypeOK'
    BY <1>4, <2>1, <2>2, <2>3 DEF Edit, FactInv, FTypeOK
  <2>. QED
    BY <2>2, <2>3, <2>4 DEF FactInv, AwareHasRead, AwareSpares
<1>. QED
  BY <1>1, <1>2, <1>3, <1>4

LEMMA FactStep == FactInv /\ [FNext]_fvars => FactInv'
<1> SUFFICES ASSUME FactInv, [FNext]_fvars PROVE FactInv'
  OBVIOUS
<1>1. CASE \E c \in Caller : ReadContact(c) \/ ReadFacts(c)
  BY <1>1, CallerReads
<1>2. CASE \E w \in Writer : Displace(w) \/ Apply(w) \/ Abort(w)
  BY <1>2, WriterApplies
<1>3. CASE SweepReads \/ SweepDecides \/ SweepSettles
  BY <1>3, SweeperDecides
<1>4. CASE (\E f \in Fact : Decide(f)) \/ Dismiss \/ (\E c \in Caller : Offer(c)) \/ Edit
  BY <1>4, PeopleDecide
<1>5. CASE UNCHANGED fvars
  BY <1>5 DEF fvars, FactInv, FTypeOK, TypedIsThere, AwareHasRead, AwareSpares, Aware
<1>. QED
  BY <1>1, <1>2, <1>3, <1>4, <1>5 DEF FNext

\* THEOREM: every reachable state of a field and of whoever is at work on it has
\* its types.
THEOREM FactTypeCorrect == FSpec => []FTypeOK
<1>1. FactInv => FTypeOK
  BY DEF FactInv
<1>. QED
  BY <1>1, FactBegins, FactStep, PTL DEF FSpec

\* A column that stops being a person's is written by whoever applies a fact, and
\* that one knew the field for the agent's, or is the rep, or missed the edit.
LEMMA OverwriteStep ==
  ASSUME FactInv, NEW w \in Writer, Overwrites(w)
  PROVE  w = Rep \/ w \in unseen \/ doing[w].agents
<1>1. typed /\ ~typed' /\ doing[w].at = "applied" /\ doing'[w].at = "idle"
  BY DEF Overwrites
<1>2. w \in Aware => doing[w].agents
  BY <1>1 DEF FactInv, AwareSpares
<1>. QED
  BY <1>2 DEF Aware

\* THEOREM: the words of a person are overwritten by a rep, by a writer that read
\* the contact before they were typed, or in a field the agent has a fact for.
THEOREM PersonKeepsTheField == FSpec => PersonKeepsField
<1>1. FactInv /\ [FNext]_fvars =>
        [\A w \in Writer : Overwrites(w) => w = Rep \/ w \in unseen \/ doing[w].agents]_fvars
  BY OverwriteStep
<1>. QED
  BY <1>1, FactBegins, FactStep, PTL DEF FSpec, PersonKeepsField

-----------------------------------------------------------------------------
(***************************************************************************)
(* Retention.  A cutoff is the start of a day that lies Keep days back, so *)
(* no view is dated before it any more: what a sweep has rolled up is all  *)
(* there ever was of a day, and stays so while events are deleted.         *)
(***************************************************************************)
\* A cutoff is a whole day, and long past.
CutoffsArePast ==
  \A w \in Sweep : /\ \E d \in Day : before[w] = 2 * d
                   /\ before[w] = 0 \/ before[w] + 2 * Keep <= now

\* There are no more events than there were, and no count is above the truth.
NoneInvented ==
  /\ \A h \in Half : views[h] <= total[h]
  /\ \A d \in Day : daily[d] <= TotalOf(d)

\* A day is deleted from only when it is long past, ...
DeletedIsPast ==
  \A d \in Day : ViewsOf(d) < TotalOf(d) => 2 * d + 2 + 2 * Keep <= now

\* ... and a sweep that deletes has counted all there is before its cutoff.
RolledIsWhole ==
  \A w \in Sweep : step[w] \in {"deleting", "deleted"} =>
    \A d \in Day : 2 * d < before[w] => daily[d] = TotalOf(d)

RetentionInv == /\ DTypeOK /\ CutoffsArePast /\ NoneInvented
                /\ DeletedIsPast /\ RolledIsWhole /\ DaysAreWhole

\* The bounds are numbers.
LEMMA Bounds ==
  /\ Keep \in Nat /\ Keep > 1 /\ MaxDay \in Nat /\ MaxDeath \in Nat
  /\ MaxView \in Nat /\ MaxView > 0
<1>1. MaxView \in {MaxView, BusyHalf}
  OBVIOUS
<1>2. MaxView \in Nat \ {0}
  BY <1>1, RetentionAssumption DEF RetentionAssumption
<1>. QED
  BY <1>2, RetentionAssumption DEF RetentionAssumption

\* The halves of a day.
LEMMA Halves ==
  /\ \A d \in Day : d \in Nat /\ 2 * d \in Half /\ 2 * d + 1 \in Half
  /\ \A h \in Half : h \in Nat
BY Bounds DEF Day, Half

\* A cutoff is the start of a day that lies Keep days back.
LEMMA Cutoffs ==
  ASSUME now \in Half
  PROVE  /\ Cutoff(now) \in Half
         /\ \E d \in Day : Cutoff(now) = 2 * d
         /\ Cutoff(now) = 0 \/ Cutoff(now) + 2 * Keep <= now
<1> USE Bounds
<1>1. now \in Nat /\ now <= 2 * MaxDay + 1
  BY DEF Half
<1>2. CASE now < 2 * Keep
  <2>1. Cutoff(now) = 0 /\ 0 \in Day /\ 0 \in Half
    BY <1>2 DEF Cutoff, Day, Half
  <2>. QED
    BY <2>1
<1>3. CASE ~(now < 2 * Keep)
  <2> DEFINE n == now - 2 * Keep
  <2>1. n \in Nat /\ n <= 2 * MaxDay
    BY <1>1, <1>3
  <2>2. n \div 2 \in Nat /\ 2 * (n \div 2) <= n
    BY <2>1
  <2>3. Cutoff(now) = 2 * (n \div 2)
    BY <1>3 DEF Cutoff, DayOf
  <2> DEFINE d == n \div 2
  <2>4. d \in Nat /\ 2 * d <= n /\ Cutoff(now) = 2 * d
    BY <2>2, <2>3
  <2> HIDE DEF d
  <2>5. d \in Day
    BY <2>1, <2>4 DEF Day
  <2>6. Cutoff(now) \in Half
    BY <2>5, <2>4, Halves
  <2>. QED
    BY <1>1, <2>1, <2>4, <2>5, <2>6
<1>. QED
  BY <1>2, <1>3

LEMMA RetentionBegins == DInit => RetentionInv
<1> SUFFICES ASSUME DInit PROVE RetentionInv
  OBVIOUS
<1> USE Bounds
<1>1. 0 \in Half /\ 0 \in Day /\ 0 \in 0..MaxView /\ 0 \in 0..(2 * MaxView) /\ 0 \in 0..MaxDeath
  BY DEF Half, Day
<1>2. DTypeOK
  BY <1>1 DEF DInit, DTypeOK
<1>3. CutoffsArePast
  <2>1. \A w \in Sweep : before[w] = 0
    BY DEF DInit
  <2>2. \E d \in Day : 0 = 2 * d
    BY <1>1
  <2>. QED
    BY <2>1, <2>2 DEF CutoffsArePast
<1>4. \A h \in Half : views[h] = 0 /\ total[h] = 0
  BY DEF DInit
<1>5. \A d \in Day : ViewsOf(d) = 0 /\ TotalOf(d) = 0 /\ daily[d] = 0
  <2> SUFFICES ASSUME NEW d \in Day PROVE ViewsOf(d) = 0 /\ TotalOf(d) = 0 /\ daily[d] = 0
    OBVIOUS
  <2>1. views[2 * d] = 0 /\ views[2 * d + 1] = 0 /\ total[2 * d] = 0 /\ total[2 * d + 1] = 0
    BY <1>4, Halves
  <2>2. daily[d] = 0
    BY DEF DInit
  <2>. QED
    BY <2>1, <2>2 DEF ViewsOf, TotalOf
<1>6. RolledIsWhole
  BY DEF DInit, RolledIsWhole
<1>. QED
  BY <1>2, <1>3, <1>4, <1>5, <1>6
     DEF RetentionInv, NoneInvented, DeletedIsPast, DaysAreWhole

\* What a day counts is a number, and no more than it was.
LEMMA DayCounts ==
  ASSUME DTypeOK, NoneInvented, NEW d \in Day
  PROVE  /\ ViewsOf(d) \in Nat /\ TotalOf(d) \in Nat /\ daily[d] \in Nat
         /\ ViewsOf(d) <= TotalOf(d) /\ TotalOf(d) <= 2 * MaxView
<1>1. 2 * d \in Half /\ 2 * d + 1 \in Half
  BY Halves
<1>2. /\ views[2 * d] \in Nat /\ views[2 * d + 1] \in Nat /\ daily[d] \in Nat
      /\ total[2 * d] \in Nat /\ total[2 * d + 1] \in Nat
      /\ total[2 * d] <= MaxView /\ total[2 * d + 1] <= MaxView
  BY <1>1, Bounds DEF DTypeOK
<1>3. views[2 * d] <= total[2 * d] /\ views[2 * d + 1] <= total[2 * d + 1]
  BY <1>1 DEF NoneInvented
<1>. QED
  BY <1>2, <1>3, Bounds DEF ViewsOf, TotalOf

\* No view is dated before a cutoff, or in a day that was deleted from.
LEMMA ViewIsRecent ==
  ASSUME RetentionInv, NEW h \in Half, View(h)
  PROVE  /\ \A w \in Sweep : before[w] <= h
         /\ \A d \in Day : h \in {2 * d, 2 * d + 1} => ViewsOf(d) = TotalOf(d)
<1>1. h \in Nat /\ now \in Nat /\ now <= h + 2
  BY Halves DEF View, RetentionInv, DTypeOK
<1>2. \A w \in Sweep : before[w] <= h
  <2> SUFFICES ASSUME NEW w \in Sweep PROVE before[w] <= h
    OBVIOUS
  <2>1. before[w] \in Nat /\ (before[w] = 0 \/ before[w] + 2 * Keep <= now)
    BY Halves DEF RetentionInv, DTypeOK, CutoffsArePast
  <2>. QED
    BY <1>1, <2>1, Bounds
<1>3. ASSUME NEW d \in Day, h \in {2 * d, 2 * d + 1} PROVE ViewsOf(d) = TotalOf(d)
  <2>1. d \in Nat /\ h <= 2 * d + 1
    BY <1>3, Halves
  <2>2. ~(2 * d + 2 + 2 * Keep <= now)
    BY <1>1, <2>1, Bounds
  <2>3. ~(ViewsOf(d) < TotalOf(d))
    BY <2>2 DEF RetentionInv, DeletedIsPast
  <2>. QED
    BY <2>3, DayCounts DEF RetentionInv
<1>. QED
  BY <1>2, <1>3
\* A cutoff that is after the start of a day is after its end.
LEMMA WholeDays ==
  ASSUME CutoffsArePast, NEW w \in Sweep, NEW d \in Day, 2 * d < before[w]
  PROVE  2 * d + 2 <= before[w] /\ before[w] + 2 * Keep <= now
<1>1. PICK e \in Day : before[w] = 2 * e
  BY DEF CutoffsArePast
<1>2. d \in Nat /\ e \in Nat
  BY Halves
<1>3. before[w] = 0 \/ before[w] + 2 * Keep <= now
  BY DEF CutoffsArePast
<1>. QED
  BY <1>1, <1>2, <1>3

\* Pages are viewed.
LEMMA ViewKeeps ==
  ASSUME RetentionInv, NEW h \in Half, View(h)
  PROVE  RetentionInv'
<1> USE Bounds DEF RetentionInv
<1>1. /\ views' = [views EXCEPT ![h] = views[h] + 1]
      /\ total' = [total EXCEPT ![h] = total[h] + 1] /\ total[h] < MaxView
      /\ UNCHANGED <<now, daily, before, step, deaths>>
  BY DEF View
<1>2. /\ views \in [Half -> Nat] /\ total \in [Half -> Nat]
      /\ views[h] <= total[h]
  BY DEF DTypeOK, NoneInvented
<1>3. views[h] + 1 \in 0..MaxView /\ total[h] + 1 \in 0..MaxView
  BY <1>1, <1>2
<1>4. DTypeOK'
  BY <1>1, <1>3 DEF DTypeOK
<1>5. CutoffsArePast'
  BY <1>1 DEF CutoffsArePast
<1>6. ASSUME NEW d \in Day
      PROVE  /\ ViewsOf(d)' = IF h \in {2 * d, 2 * d + 1} THEN ViewsOf(d) + 1 ELSE ViewsOf(d)
             /\ TotalOf(d)' = IF h \in {2 * d, 2 * d + 1} THEN TotalOf(d) + 1 ELSE TotalOf(d)
  <2>1. 2 * d \in Half /\ 2 * d + 1 \in Half /\ d \in Nat /\ h \in Nat
    BY Halves
  <2>2. \A i \in Half : /\ views'[i] = IF i = h THEN views[i] + 1 ELSE views[i]
                        /\ total'[i] = IF i = h THEN total[i] + 1 ELSE total[i]
                        /\ views[i] \in Nat /\ total[i] \in Nat
    BY <1>1, <1>2
  <2>. QED
    BY <2>1, <2>2 DEF ViewsOf, TotalOf
<1>7. ASSUME NEW d \in Day
      PROVE  /\ ViewsOf(d) \in Nat /\ TotalOf(d) \in Nat /\ daily[d] \in Nat
             /\ h \in {2 * d, 2 * d + 1} => ViewsOf(d) = TotalOf(d)
  BY DayCounts, ViewIsRecent
<1>8. NoneInvented'
  <2>1. \A i \in Half : views'[i] <= total'[i]
    BY <1>1, <1>2 DEF NoneInvented
  <2>2. \A d \in Day : daily'[d] <= TotalOf(d)'
    BY <1>1, <1>6, <1>7 DEF NoneInvented
  <2>. QED
    BY <2>1, <2>2 DEF NoneInvented
<1>9. DeletedIsPast' /\ DaysAreWhole'
  BY <1>1, <1>6, <1>7 DEF DeletedIsPast, DaysAreWhole
<1>10. RolledIsWhole'
  <2> SUFFICES ASSUME NEW w \in Sweep, step[w] \in {"deleting", "deleted"},
                      NEW d \in Day, 2 * d < before[w]
               PROVE  daily[d] = TotalOf(d)'
    BY <1>1 DEF RolledIsWhole
  <2>1. daily[d] = TotalOf(d)
    BY DEF RolledIsWhole
  <2>2. 2 * d + 2 <= before[w] /\ before[w] <= h
    BY WholeDays, ViewIsRecent
  <2>3. h \notin {2 * d, 2 * d + 1}
    BY <2>2, Halves DEF DTypeOK
  <2>. QED
    BY <1>6, <2>1, <2>3
<1>. QED
  BY <1>4, <1>5, <1>8, <1>9, <1>10

\* A sweep rolls up the days before its cutoff.
LEMMA RollKeeps ==
  ASSUME RetentionInv, NEW w \in Sweep, Roll(w)
  PROVE  RetentionInv'
<1> USE Bounds DEF RetentionInv
<1>1. /\ daily' = [d \in Day |-> Rolled(d, Counted(d, before[w]))]
      /\ step' = [step EXCEPT ![w] = "deleting"]
      /\ UNCHANGED <<now, views, total, before, deaths>>
  BY DEF Roll
<1>2. ASSUME NEW d \in Day
      PROVE  /\ Counted(d, before[w]) \in Nat /\ Counted(d, before[w]) <= ViewsOf(d)
             /\ 2 * d < before[w] => Counted(d, before[w]) = ViewsOf(d)
  <2>1. 2 * d \in Half /\ 2 * d + 1 \in Half /\ d \in Nat /\ before[w] \in Nat
    BY Halves DEF DTypeOK
  <2>2. views[2 * d] \in Nat /\ views[2 * d + 1] \in Nat
    BY <2>1 DEF DTypeOK
  <2>3. 2 * d < before[w] => 2 * d + 2 <= before[w]
    BY WholeDays
  <2>. QED
    BY <2>1, <2>2, <2>3 DEF Counted, ViewsOf
<1>3. ASSUME NEW d \in Day
      PROVE  /\ daily'[d] \in Nat /\ daily'[d] <= TotalOf(d) /\ daily'[d] <= 2 * MaxView
             /\ daily[d] = TotalOf(d) => daily'[d] = TotalOf(d)
             /\ 2 * d < before[w] => daily'[d] = TotalOf(d)
  <2>1. /\ ViewsOf(d) \in Nat /\ TotalOf(d) \in Nat /\ daily[d] \in Nat
        /\ ViewsOf(d) <= TotalOf(d) /\ TotalOf(d) <= 2 * MaxView
    BY DayCounts
  <2>2. daily[d] <= TotalOf(d)
    BY DEF NoneInvented
  <2>3. daily'[d] = IF Counted(d, before[w]) > daily[d] THEN Counted(d, before[w]) ELSE daily[d]
    BY <1>1 DEF Rolled
  <2>4. ViewsOf(d) < TotalOf(d) => daily[d] = TotalOf(d)
    BY DEF DaysAreWhole
  <2>. QED
    BY <1>2, <2>1, <2>2, <2>3, <2>4
<1>4. daily' \in [Day -> 0..(2 * MaxView)]
  BY <1>1, <1>3
<1>5. DTypeOK' /\ CutoffsArePast'
  BY <1>1, <1>4 DEF DTypeOK, CutoffsArePast
<1>6. \A d \in Day : ViewsOf(d)' = ViewsOf(d) /\ TotalOf(d)' = TotalOf(d)
  BY <1>1 DEF ViewsOf, TotalOf
<1>7. NoneInvented' /\ DeletedIsPast' /\ DaysAreWhole'
  BY <1>1, <1>3, <1>6 DEF NoneInvented, DeletedIsPast, DaysAreWhole
<1>8. RolledIsWhole'
  <2> SUFFICES ASSUME NEW v \in Sweep, step'[v] \in {"deleting", "deleted"},
                      NEW d \in Day, 2 * d < before[v]
               PROVE  daily'[d] = TotalOf(d)
    BY <1>1, <1>6 DEF RolledIsWhole
  <2>1. CASE v = w
    BY <1>3, <2>1
  <2>2. CASE v # w
    BY <1>1, <1>3, <2>2 DEF RolledIsWhole, DTypeOK
  <2>. QED
    BY <2>1, <2>2
<1>. QED
  BY <1>5, <1>7, <1>8

\* A sweep deletes what is before its cutoff.
LEMMA DeleteKeeps ==
  ASSUME RetentionInv, NEW w \in Sweep, DeleteBatch(w)
  PROVE  RetentionInv'
<1> USE Bounds DEF RetentionInv
<1>1. PICK h \in Old(w) : views' = [views EXCEPT ![h] = views[h] - 1]
  BY DEF DeleteBatch
<1>2. /\ step[w] \in {"deleting", "deleted"}
      /\ step' = [step EXCEPT ![w] = "deleted"]
      /\ UNCHANGED <<now, total, daily, before, deaths>>
  BY DEF DeleteBatch
<1>3. h \in Half /\ h < before[w] /\ views[h] > 0
  BY DEF Old
<1>4. views \in [Half -> Nat] /\ views[h] <= MaxView
  BY <1>3 DEF DTypeOK
<1>5. views[h] - 1 \in 0..MaxView
  BY <1>3, <1>4
<1>6. DTypeOK' /\ CutoffsArePast'
  BY <1>1, <1>2, <1>5 DEF DTypeOK, CutoffsArePast
<1>7. ASSUME NEW d \in Day
      PROVE  /\ ViewsOf(d)' = IF h \in {2 * d, 2 * d + 1} THEN ViewsOf(d) - 1 ELSE ViewsOf(d)
             /\ TotalOf(d)' = TotalOf(d)
  <2>1. 2 * d \in Half /\ 2 * d + 1 \in Half /\ d \in Nat /\ h \in Nat
    BY <1>3, Halves
  <2>2. \A i \in Half : /\ views'[i] = IF i = h THEN views[i] - 1 ELSE views[i]
                        /\ views[i] \in Nat
    BY <1>1, <1>3, <1>4
  <2>. QED
    BY <1>2, <2>1, <2>2 DEF ViewsOf, TotalOf
<1>8. ASSUME NEW d \in Day, h \in {2 * d, 2 * d + 1}
      PROVE  daily[d] = TotalOf(d) /\ 2 * d + 2 + 2 * Keep <= now
  <2>1. d \in Nat /\ h \in Nat /\ before[w] \in Nat /\ now \in Nat
    BY <1>3, Halves DEF DTypeOK
  <2>2. 2 * d < before[w]
    BY <1>3, <1>8, <2>1
  <2>3. 2 * d + 2 <= before[w] /\ before[w] + 2 * Keep <= now
    BY <2>2, WholeDays
  <2>. QED
    BY <1>2, <2>1, <2>2, <2>3 DEF RolledIsWhole
<1>9. NoneInvented'
  <2>1. \A i \in Half : views'[i] <= total'[i]
    BY <1>1, <1>2, <1>3 DEF NoneInvented, DTypeOK
  <2>2. \A d \in Day : daily'[d] <= TotalOf(d)'
    BY <1>2, <1>7 DEF NoneInvented
  <2>. QED
    BY <2>1, <2>2 DEF NoneInvented
<1>10. DeletedIsPast' /\ DaysAreWhole'
  BY <1>2, <1>7, <1>8 DEF DeletedIsPast, DaysAreWhole
<1>11. RolledIsWhole'
  BY <1>2, <1>7 DEF RolledIsWhole, DTypeOK
<1>. QED
  BY <1>6, <1>9, <1>10, <1>11

\* Days pass; sweeps begin, end and die.
LEMMA OthersKeep ==
  ASSUME RetentionInv,
         \/ HalfDayPasses \/ UNCHANGED dvars
         \/ \E w \in Sweep : BeginSweep(w) \/ End(w) \/ SweepDies(w)
  PROVE  RetentionInv'
<1> USE Bounds DEF RetentionInv
<1>1. UNCHANGED <<views, total, daily>> /\ now \in Nat /\ now' \in Nat /\ now <= now'
  BY Halves DEF HalfDayPasses, BeginSweep, End, SweepDies, dvars, DTypeOK
<1>2. \A d \in Day : ViewsOf(d)' = ViewsOf(d) /\ TotalOf(d)' = TotalOf(d)
  BY <1>1 DEF ViewsOf, TotalOf
<1>3. NoneInvented' /\ DaysAreWhole'
  BY <1>1, <1>2 DEF NoneInvented, DaysAreWhole
<1>4. DeletedIsPast'
  <2> SUFFICES ASSUME NEW d \in Day, ViewsOf(d) < TotalOf(d)
               PROVE  2 * d + 2 + 2 * Keep <= now'
    BY <1>2 DEF DeletedIsPast
  <2>1. d \in Nat /\ 2 * d + 2 + 2 * Keep <= now
    BY Halves DEF DeletedIsPast
  <2>. QED
    BY <1>1, <2>1
<1>5. \A w \in Sweep : before[w] \in Nat
  BY Halves DEF DTypeOK
<1>6. CASE HalfDayPasses
  <2>1. now' = now + 1 /\ now < 2 * MaxDay + 1 /\ UNCHANGED <<before, step, deaths>>
    BY <1>6 DEF HalfDayPasses
  <2>2. DTypeOK'
    BY <1>1, <2>1 DEF DTypeOK, Half
  <2>3. CutoffsArePast'
    BY <1>1, <1>5, <2>1 DEF CutoffsArePast
  <2>4. RolledIsWhole'
    BY <1>1, <1>2, <2>1 DEF RolledIsWhole
  <2>. QED
    BY <1>3, <1>4, <2>2, <2>3, <2>4
<1>7. ASSUME NEW w \in Sweep, BeginSweep(w) PROVE RetentionInv'
  <2>1. /\ before' = [before EXCEPT ![w] = Cutoff(now)]
        /\ step' = [step EXCEPT ![w] = "rolling"] /\ UNCHANGED <<now, deaths>>
    BY <1>7 DEF BeginSweep
  <2>2. /\ Cutoff(now) \in Half /\ \E d \in Day : Cutoff(now) = 2 * d
        /\ Cutoff(now) = 0 \/ Cutoff(now) + 2 * Keep <= now
    BY Cutoffs DEF DTypeOK
  <2>3. DTypeOK'
    BY <1>1, <2>1, <2>2 DEF DTypeOK
  <2>4. \A v \in Sweep : before'[v] = IF v = w THEN Cutoff(now) ELSE before[v]
    BY <2>1 DEF DTypeOK
  <2>5. CutoffsArePast'
    BY <2>1, <2>2, <2>4 DEF CutoffsArePast
  <2>6. RolledIsWhole'
    BY <1>1, <1>2, <2>1, <2>4 DEF RolledIsWhole, DTypeOK
  <2>. QED
    BY <1>3, <1>4, <2>3, <2>5, <2>6
<1>8. ASSUME NEW w \in Sweep, End(w) \/ SweepDies(w) PROVE RetentionInv'
  <2>1. /\ step' = [step EXCEPT ![w] = "idle"] /\ UNCHANGED <<now, before>>
    BY <1>8 DEF End, SweepDies
  <2>2. deaths' \in 0..MaxDeath
    <3>1. deaths \in Nat /\ deaths <= MaxDeath
      BY DEF DTypeOK
    <3>2. deaths' = deaths \/ (deaths' = deaths + 1 /\ deaths < MaxDeath)
      BY <1>8 DEF End, SweepDies
    <3>. QED
      BY <3>1, <3>2
  <2>3. DTypeOK'
    BY <1>1, <2>1, <2>2 DEF DTypeOK
  <2>4. CutoffsArePast' /\ RolledIsWhole'
    BY <1>1, <1>2, <2>1 DEF CutoffsArePast, RolledIsWhole, DTypeOK
  <2>. QED
    BY <1>3, <1>4, <2>3, <2>4
<1>9. CASE UNCHANGED dvars
  BY <1>2, <1>3, <1>4, <1>9 DEF dvars, DTypeOK, CutoffsArePast, RolledIsWhole
<1>. QED
  BY <1>6, <1>7, <1>8, <1>9

LEMMA RetentionStep == RetentionInv /\ [DNext]_dvars => RetentionInv'
BY ViewKeeps, RollKeeps, DeleteKeeps, OthersKeep DEF DNext

\* THEOREM: every reachable state of the events, counts and sweeps has its types.
THEOREM RetentionTypeCorrect == DSpec => []DTypeOK
<1>1. RetentionInv => DTypeOK
  BY DEF RetentionInv
<1>. QED
  BY <1>1, RetentionBegins, RetentionStep, PTL DEF DSpec

\* THEOREM: the count of a day from which an event was deleted is its true one.
THEOREM DaysWhole == DSpec => []DaysAreWhole
<1>1. RetentionInv => DaysAreWhole
  BY DEF RetentionInv
<1>. QED
  BY <1>1, RetentionBegins, RetentionStep, PTL DEF DSpec
-----------------------------------------------------------------------------
(***************************************************************************)
(* The cached configuration.  A replica has seen no more changes than were *)
(* made: a change that has not bumped its generation yet holds a place.    *)
(***************************************************************************)
\* Changes that have not bumped the generation of their replica yet.
Unbumped == {q \in Request : stage[q] = "changed"}

GenerationsAreOfChanges ==
  /\ IsFiniteSet(Unbumped)
  /\ \A r \in Replica : generation[r] + Cardinality(Unbumped) <= changes

\* A request has seen a generation of its replica.
SeenBefore == \A q \in Request : seen[q] <= generation[home[q]]

RequestTypes ==
  /\ home \in [Request -> Replica]
  /\ stage \in [Request -> {"idle", "compiling", "comparing", "validating", "storing",
                            "changed", "deleting", "reading", "writing"}]
  /\ read \in [Request -> Config \cup {0}] /\ seen \in [Request -> Nat]
ConfigTypes ==
  /\ setting \in Config \cup {0} /\ hash \in Config \cup {0} /\ cache \in Config \cup {0}
  /\ generation \in [Replica -> Nat] /\ changes \in 0..MaxChange

ConfigInv == ConfigTypes /\ RequestTypes /\ GenerationsAreOfChanges /\ SeenBefore

LEMMA ConfigBegins == CInit => ConfigInv
<1> SUFFICES ASSUME CInit PROVE ConfigInv
  OBVIOUS
<1> USE ConfigAssumption DEF ConfigAssumption
<1>1. ConfigTypes /\ RequestTypes /\ SeenBefore
  BY DEF CInit, ConfigTypes, RequestTypes, SeenBefore
<1>2. Unbumped = {}
  BY DEF CInit, Unbumped
<1>3. GenerationsAreOfChanges
  BY <1>2, FS_EmptySet DEF CInit, GenerationsAreOfChanges
<1>. QED
  BY <1>1, <1>3 DEF ConfigInv

\* A request that neither makes a change nor bumps a generation.
LEMMA RequestGoesOn ==
  ASSUME ConfigInv, NEW q \in Request,
         \/ Miss(q) \/ Compile(q) \/ Compare(q) \/ Validate(q) \/ Store(q)
         \/ Delete(q) \/ Read(q) \/ WriteHash(q)
  PROVE  ConfigInv'
<1> USE DEF ConfigInv, ConfigTypes, RequestTypes
<1>1. UNCHANGED <<setting, generation, changes, home>>
  BY DEF Miss, Compile, Compare, Validate, Store, Delete, Read, WriteHash
<1>2. /\ hash' \in Config \cup {0} /\ cache' \in Config \cup {0}
      /\ read' \in [Request -> Config \cup {0}]
  BY DEF Miss, Compile, Compare, Validate, Store, Delete, Read, WriteHash
<1>3. PICK s \in {"idle", "compiling", "comparing", "validating", "storing",
                  "reading", "writing"} : Move(q, s)
  BY Zenon DEF Miss, Compile, Compare, Validate, Store, Delete, Read, WriteHash
<1>4. stage[q] # "changed"
  BY DEF In, Miss, Compile, Compare, Validate, Store, Delete, Read, WriteHash
<1>5. Unbumped' = Unbumped
  BY <1>3, <1>4 DEF Unbumped, Move
<1>6. seen' = seen \/ seen' = [seen EXCEPT ![q] = generation[home[q]]]
  BY DEF Miss, Compile, Compare, Validate, Store, Delete, Read, WriteHash
<1>7. seen' \in [Request -> Nat] /\ SeenBefore'
  BY <1>1, <1>6 DEF SeenBefore
<1>8. stage' \in [Request -> {"idle", "compiling", "comparing", "validating", "storing",
                              "changed", "deleting", "reading", "writing"}]
  BY <1>3 DEF Move
<1>9. GenerationsAreOfChanges'
  BY <1>1, <1>5 DEF GenerationsAreOfChanges
<1>. QED
  BY <1>1, <1>2, <1>7, <1>8, <1>9

\* The settings change.
LEMMA SettingsChange ==
  ASSUME ConfigInv, NEW q \in Request, Change(q)
  PROVE  ConfigInv'
<1> USE DEF ConfigInv, ConfigTypes, RequestTypes
<1>1. /\ stage[q] = "idle" /\ stage' = [stage EXCEPT ![q] = "changed"]
      /\ changes' = changes + 1 /\ changes < MaxChange /\ setting' \in Config \cup {0}
      /\ UNCHANGED <<hash, cache, generation, home, read, seen>>
  BY DEF Change, In, Move
<1>2. changes \in Nat /\ changes' \in 0..MaxChange
  BY <1>1, ConfigAssumption DEF ConfigAssumption
<1>3. Unbumped' = Unbumped \cup {q} /\ q \notin Unbumped
  BY <1>1 DEF Unbumped
<1>4. /\ IsFiniteSet(Unbumped') /\ Cardinality(Unbumped) \in Nat
      /\ Cardinality(Unbumped') = Cardinality(Unbumped) + 1
  BY <1>3, FS_AddElement, FS_CardinalityType DEF GenerationsAreOfChanges
<1>5. GenerationsAreOfChanges'
  BY <1>1, <1>2, <1>4 DEF GenerationsAreOfChanges
<1>6. ConfigTypes' /\ RequestTypes'
  BY <1>1, <1>2
<1>7. SeenBefore'
  BY <1>1 DEF SeenBefore
<1>. QED
  BY <1>5, <1>6, <1>7

\* ... and its replica notices.
LEMMA GenerationBumps ==
  ASSUME ConfigInv, NEW q \in Request, Bump(q)
  PROVE  ConfigInv'
<1> USE DEF ConfigInv, ConfigTypes, RequestTypes
<1>1. /\ stage[q] = "changed" /\ stage' = [stage EXCEPT ![q] = "deleting"]
      /\ generation' = [generation EXCEPT ![home[q]] = generation[home[q]] + 1]
      /\ seen' = [seen EXCEPT ![q] = generation[home[q]] + 1]
      /\ UNCHANGED <<setting, hash, cache, changes, home, read>>
  BY DEF Bump, In, Move
<1>2. Unbumped' = Unbumped \ {q} /\ q \in Unbumped
  BY <1>1 DEF Unbumped
<1>3. /\ IsFiniteSet(Unbumped') /\ Cardinality(Unbumped) \in Nat
      /\ Cardinality(Unbumped') = Cardinality(Unbumped) - 1
  BY <1>2, FS_RemoveElement, FS_CardinalityType DEF GenerationsAreOfChanges
<1>4. \A r \in Replica : /\ generation'[r] \in {generation[r], generation[r] + 1}
                         /\ generation[r] \in Nat
  BY <1>1
<1>5. changes \in Nat
  BY ConfigAssumption DEF ConfigAssumption
<1>6. GenerationsAreOfChanges'
  BY <1>1, <1>3, <1>4, <1>5 DEF GenerationsAreOfChanges
<1>7. ConfigTypes' /\ RequestTypes'
  BY <1>1
<1>8. \A p \in Request : seen[p] \in Nat /\ home[p] \in Replica
  OBVIOUS
<1>9. SeenBefore'
  BY <1>1, <1>4, <1>8 DEF SeenBefore
<1>. QED
  BY <1>6, <1>7, <1>9

LEMMA ConfigStep == ConfigInv /\ [CNext]_cvars => ConfigInv'
<1> SUFFICES ASSUME ConfigInv, [CNext]_cvars PROVE ConfigInv'
  OBVIOUS
<1>1. CASE Expire
  BY <1>1 DEF Expire, request, ConfigInv, ConfigTypes, RequestTypes, GenerationsAreOfChanges,
              SeenBefore, Unbumped
<1>2. CASE UNCHANGED cvars
  BY <1>2 DEF cvars, request, ConfigInv, ConfigTypes, RequestTypes, GenerationsAreOfChanges,
              SeenBefore, Unbumped
<1>. QED
  BY <1>1, <1>2, RequestGoesOn, SettingsChange, GenerationBumps DEF CNext, Proceed

\* THEOREM: every reachable state of the configuration, its copies and the
\* requests has its types, among them that no replica counts more changes than
\* may be made.
THEOREM ConfigTypeCorrect == CSpec => []CTypeOK
<1>1. ConfigInv => CTypeOK
  <2> SUFFICES ASSUME ConfigInv PROVE CTypeOK
    OBVIOUS
  <2> USE DEF ConfigInv, ConfigTypes, RequestTypes
  <2>1. changes \in Nat /\ changes <= MaxChange /\ MaxChange \in Nat /\ Cardinality(Unbumped) \in Nat
    BY ConfigAssumption, FS_CardinalityType DEF ConfigAssumption, GenerationsAreOfChanges
  <2>2. \A r \in Replica : generation[r] \in Nat /\ generation[r] <= MaxChange
    BY <2>1 DEF GenerationsAreOfChanges
  <2>3. \A q \in Request : seen[q] \in Nat /\ seen[q] <= MaxChange
    BY <2>1, <2>2 DEF SeenBefore
  <2>4. generation \in [Replica -> 0..MaxChange] /\ seen \in [Request -> 0..MaxChange]
    BY <2>2, <2>3
  <2>5. {setting, hash, cache} \subseteq Config \cup {0}
    BY Zenon
  <2>. QED
    BY <2>4, <2>5 DEF CTypeOK
<1>. QED
  BY <1>1, ConfigBegins, ConfigStep, PTL DEF CSpec
=============================================================================
