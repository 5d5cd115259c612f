--------------------------- MODULE AgentRunProofs ---------------------------
(***************************************************************************)
(* Proofs about AgentRun, for every set of runs and agents and any number  *)
(* of deliveries: the types, the dispatcher's mutual exclusion, and that   *)
(* the history of the runs implements RunLedger.                           *)
(*                                                                         *)
(* What a settlement needs to know, and what no handler checks, is that    *)
(* the run it settles exists and was delivered: Delivered carries that     *)
(* from the claim to the session and from the session to its events.       *)
(***************************************************************************)
EXTENDS AgentRun, TLAPS

Delivered ==
  \A r \in Run :
    /\ \A k \in Send : sess[r][k] # "none" => answer[r][k] # "none"
    /\ \A k \in Send : answer[r][k] # "none" => sends[r] > 0
    /\ sends[r] > 0 => status[r] # "none"
    /\ status[r] = "RUNNING" => sends[r] > 0
    /\ r \in blocked => status[r] # "none"

RInv == RTypeOK /\ Delivered

-----------------------------------------------------------------------------
\* A delivery number is a positive number, and the one after it is a delivery
\* number too while the run's bound allows it.
LEMMA SendNumbers ==
  /\ Send \subseteq Nat \ {0}
  /\ \A r \in Run, n \in {0} \cup Send : n < MaxSends[r] => n + 1 \in Send
<1>1. \A r \in Run : MaxSends[r] \in Nat
  BY RunAssumption
<1>2. \A n : n \in Send <=> \E r \in Run : n \in 1..MaxSends[r]
  BY DEF Send
<1>3. Send \subseteq Nat \ {0}
  BY <1>1, <1>2
<1>4. ASSUME NEW r \in Run, NEW n \in {0} \cup Send, n < MaxSends[r]
      PROVE  n + 1 \in Send
  <2>1. n + 1 \in 1..MaxSends[r]
    BY <1>1, <1>3, <1>4
  <2>. QED
    BY <1>2, <2>1
<1>. QED
  BY <1>3, <1>4

LEMMA SendsCount ==
  ASSUME RTypeOK, NEW r \in Run
  PROVE  sends[r] \in Nat
<1>1. sends[r] = 0 \/ sends[r] \in Send
  BY DEF RTypeOK
<1>2. CASE sends[r] = 0
  BY <1>2
<1>3. CASE sends[r] \in Send
  <2>1. \A n \in Send : n \in Nat
    BY SendNumbers
  <2>. QED
    BY <1>3, <2>1
<1>. QED
  BY <1>1, <1>2, <1>3

\* Appending an event keeps the types of the log and its counter.
LEMMA LogTypes ==
  ASSUME RTypeOK, NEW r \in Run, NEW id \in EventId, Log(r, id)
  PROVE  seq' \in [Run -> Nat] /\ log' \in [Run -> SUBSET (Nat \X EventId)]
BY DEF RTypeOK, Log

\* A settlement keeps the types of everything it may write.
LEMMA SettleTypes ==
  ASSUME RTypeOK, NEW r \in Run, NEW s \in Terminal, NEW id \in EventId,
         Settle(r, s, id)
  PROVE  /\ status' \in [Run -> {"none"} \cup Active \cup Terminal]
         /\ age' \in [Run -> {"null", "fresh", "stale", "overrun"}]
         /\ seq' \in [Run -> Nat]
         /\ log' \in [Run -> SUBSET (Nat \X EventId)]
         /\ byClaim' \subseteq Run
<1>1. CASE status[r] \in Terminal
  BY <1>1 DEF Settle, RTypeOK
<1>2. CASE status[r] \notin Terminal
  <2>1. Leave(r, s) /\ Log(r, id)
    BY <1>2 DEF Settle
  <2>2. seq' \in [Run -> Nat] /\ log' \in [Run -> SUBSET (Nat \X EventId)]
    BY <2>1, LogTypes
  <2>. QED
    BY <2>1, <2>2 DEF Leave, RTypeOK
<1>. QED
  BY <1>1, <1>2

LEMMA FailTypes ==
  ASSUME RTypeOK, NEW r \in Run, Fail(r) \/ Cancel(r)
  PROVE  /\ status' \in [Run -> {"none"} \cup Active \cup Terminal]
         /\ age' \in [Run -> {"null", "fresh", "stale", "overrun"}]
         /\ seq' \in [Run -> Nat]
         /\ log' \in [Run -> SUBSET (Nat \X EventId)]
         /\ byClaim' \subseteq Run
<1>1. <<"failed", 0>> \in EventId /\ <<"cancelled", 0>> \in EventId
  BY DEF EventId, TerminalId
<1>2. "FAILED" \in Terminal /\ "CANCELLED" \in Terminal
  BY DEF Terminal
<1>3. CASE Fail(r)
  BY <1>1, <1>2, <1>3, SettleTypes DEF Fail
<1>4. CASE Cancel(r)
  BY <1>1, <1>2, <1>4, SettleTypes DEF Cancel
<1>. QED
  BY <1>3, <1>4

LEMMA CreateTypes ==
  ASSUME RTypeOK, NEW r \in Run, Create(r), inserting' \subseteq Run
  PROVE  RTypeOK'
<1>1. <<0, <<"queued", 0>>>> \in Nat \X EventId
  BY DEF EventId
<1>. QED
  BY <1>1 DEF RTypeOK, Create, Leave, Active

-----------------------------------------------------------------------------
\* Every action keeps the types.  Recover is where Delivered is needed: the
\* event it appends is named after a delivery, so there must have been one.
LEMMA TypeStep == RInv /\ [RNext]_rvars => RTypeOK'
<1> SUFFICES ASSUME RTypeOK, Delivered, [RNext]_rvars PROVE RTypeOK'
    BY DEF RInv
<1>1. ASSUME NEW r \in Run, QueueByPerson(r) PROVE RTypeOK'
  BY <1>1, CreateTypes DEF QueueByPerson, RTypeOK
<1>2. ASSUME NEW r \in Run, QueueDue(r) PROVE RTypeOK'
  BY <1>2, CreateTypes DEF QueueDue, RTypeOK
<1>3. ASSUME NEW r \in Run, EventLook(r) PROVE RTypeOK'
  BY <1>3 DEF EventLook, RTypeOK
<1>4. ASSUME NEW r \in Run, EventInsert(r) PROVE RTypeOK'
  BY <1>4, CreateTypes DEF EventInsert, RTypeOK
<1>5. ASSUME NEW r \in Run, Claim(r) PROVE RTypeOK'
  <2>1. sends[r] + 1 \in Send
    BY <1>5, SendNumbers DEF Claim, RTypeOK
  <2>. QED
    BY <1>5, <2>1 DEF Claim, RTypeOK, Active
<1>6. ASSUME NEW r \in Run, FindBlocked(r) PROVE RTypeOK'
  BY <1>6 DEF FindBlocked, RTypeOK
<1>7. ASSUME NEW r \in Run, FailBlocked(r) PROVE RTypeOK'
  BY <1>7, FailTypes DEF FailBlocked, RTypeOK
<1>8. ASSUME NEW r \in Run, Ages(r) PROVE RTypeOK'
  BY <1>8 DEF Ages, RTypeOK
<1>9. ASSUME NEW r \in Run, Recover(r) PROVE RTypeOK'
  <2>1. CASE Cancel(r)
    BY <1>9, <2>1, FailTypes DEF Recover, RTypeOK
  <2>2. CASE Leave(r, "QUEUED") /\ Log(r, <<"recovered", sends[r]>>)
    <3>1. sends[r] \in Send
      BY <1>9, SendNumbers DEF Recover, Delivered, RTypeOK
    <3>2. <<"recovered", sends[r]>> \in EventId
      BY <3>1 DEF EventId
    <3>3. seq' \in [Run -> Nat] /\ log' \in [Run -> SUBSET (Nat \X EventId)]
      BY <2>2, <3>2, LogTypes
    <3>. QED
      BY <1>9, <2>2, <3>3 DEF Recover, Leave, RTypeOK, Active
  <2>. QED
    BY <1>9, <2>1, <2>2 DEF Recover
<1>10. ASSUME NEW r \in Run, TimeOut(r) PROVE RTypeOK'
  BY <1>10, FailTypes DEF TimeOut, RTypeOK
<1>11. ASSUME NEW r \in Run, NEW k \in Send, SessionOpens(r, k) PROVE RTypeOK'
  BY <1>11 DEF SessionOpens, RTypeOK
<1>12. ASSUME NEW r \in Run, NEW k \in Send, Linked(r, k) PROVE RTypeOK'
  BY <1>12 DEF Linked, RTypeOK
<1>13. ASSUME NEW r \in Run, NEW k \in Send, SendFails(r, k) PROVE RTypeOK'
  BY <1>13, FailTypes DEF SendFails, RTypeOK
<1>14. ASSUME NEW r \in Run, NEW k \in Send, SenderDies(r, k) PROVE RTypeOK'
  BY <1>14 DEF SenderDies, RTypeOK
<1>15. ASSUME NEW r \in Run, NEW k \in Send, HookStarted(r, k) PROVE RTypeOK'
  <2>1. <<"started", k>> \in EventId
    BY DEF EventId
  <2>2. seq' \in [Run -> Nat] /\ log' \in [Run -> SUBSET (Nat \X EventId)]
    BY <1>15, <2>1, LogTypes DEF HookStarted
  <2>. QED
    BY <1>15, <2>2 DEF HookStarted, RTypeOK, Active
<1>16. ASSUME NEW r \in Run, NEW k \in Send, HookStep(r, k) PROVE RTypeOK'
  <2>1. <<"step", k>> \in EventId
    BY DEF EventId
  <2>2. seq' \in [Run -> Nat] /\ log' \in [Run -> SUBSET (Nat \X EventId)]
    BY <1>16, <2>1, LogTypes DEF HookStep
  <2>. QED
    BY <1>16, <2>2 DEF HookStep, RTypeOK
<1>17. ASSUME NEW r \in Run, NEW k \in Send, SessionCompletes(r, k)
       PROVE  RTypeOK'
  BY <1>17 DEF SessionCompletes, RTypeOK
<1>18. ASSUME NEW r \in Run, NEW k \in Send, FinishRun(r, k) PROVE RTypeOK'
  <2>1. <<"completed", 0>> \in EventId /\ "SUCCEEDED" \in Terminal
    BY DEF EventId, TerminalId, Terminal
  <2>2. CASE Settle(r, "SUCCEEDED", <<"completed", 0>>)
    BY <1>18, <2>1, <2>2, SettleTypes DEF FinishRun, RTypeOK
  <2>3. CASE Fail(r)
    BY <1>18, <2>3, FailTypes DEF FinishRun, RTypeOK
  <2>. QED
    BY <1>18, <2>2, <2>3 DEF FinishRun
<1>19. ASSUME NEW r \in Run, NEW k \in Send, SessionFails(r, k) PROVE RTypeOK'
  BY <1>19, FailTypes DEF SessionFails, RTypeOK
<1>20. ASSUME NEW r \in Run, NEW k \in Send, TurnCancelled(r, k) PROVE RTypeOK'
  BY <1>20, FailTypes DEF TurnCancelled, RTypeOK
<1>21. ASSUME NEW r \in Run, Stop(r) PROVE RTypeOK'
  BY <1>21, FailTypes DEF Stop, RTypeOK
<1>22. ASSUME NEW a \in Agent, NEW from, NEW to \in AgentStatus,
              ChangeStatus(a, from, to)
       PROVE  RTypeOK'
  BY <1>22 DEF ChangeStatus, RTypeOK
<1>23. ASSUME NEW a \in Agent, Remove(a) PROVE RTypeOK'
  <2>1. <<"cancelled", 0>> \in EventId /\ "CANCELLED" \in Terminal
    BY DEF EventId, TerminalId, Terminal
  <2>2. seq' \in [Run -> Nat]
    BY <1>23 DEF Remove, RTypeOK
  <2>3. log' \in [Run -> SUBSET (Nat \X EventId)]
    <3>1. log' = [r \in Run |->
                    IF r \in Cancellable(a)
                    THEN log[r] \cup {<<seq[r] + 1, <<"cancelled", 0>>>>}
                    ELSE log[r]]
      BY <1>23 DEF Remove
    <3>2. \A r \in Run : <<seq[r] + 1, <<"cancelled", 0>>>> \in Nat \X EventId
      <4>1. \A r \in Run : seq[r] + 1 \in Nat
        BY DEF RTypeOK
      <4>. QED
        BY <2>1, <4>1
    <3>3. log \in [Run -> SUBSET (Nat \X EventId)]
      BY DEF RTypeOK
    <3>4. \A r \in Run : log'[r] \in SUBSET (Nat \X EventId)
      BY <3>1, <3>2, <3>3
    <3>. QED
      BY <3>1, <3>4
  <2>4. status' \in [Run -> {"none"} \cup Active \cup Terminal]
    <3>1. status' = [r \in Run |-> IF r \in Cancellable(a) THEN "CANCELLED"
                                  ELSE status[r]]
      BY <1>23 DEF Remove
    <3>2. status \in [Run -> {"none"} \cup Active \cup Terminal]
      BY DEF RTypeOK
    <3>. QED
      BY <2>1, <3>1, <3>2
  <2>5. age' \in [Run -> {"null", "fresh", "stale", "overrun"}]
    BY <1>23 DEF Remove, RTypeOK
  <2>6. byClaim' \subseteq Run /\ agentStatus' \in [Agent -> AgentStatus]
    BY <1>23 DEF Remove, RTypeOK, AgentStatus
  <2>. QED
    BY <1>23, <2>2, <2>3, <2>4, <2>5, <2>6 DEF Remove, RTypeOK
<1>24. CASE UNCHANGED rvars
  BY <1>24 DEF rvars, RTypeOK
<1>25. {"PAUSED", "LIVE", "ARCHIVED"} \subseteq AgentStatus
  BY DEF AgentStatus
<1>26. CASE Queueing
  BY <1>1, <1>2, <1>3, <1>4, <1>26 DEF Queueing
<1>27. CASE Delivering
  BY <1>5, <1>6, <1>7, <1>8, <1>9, <1>10, <1>11, <1>12, <1>13, <1>14, <1>27
     DEF Delivering
<1>28. CASE Answering
  BY <1>15, <1>16, <1>17, <1>18, <1>19, <1>20, <1>28 DEF Answering
<1>29. CASE Managing
  BY <1>21, <1>22, <1>23, <1>25, <1>29 DEF Managing
<1>. QED
  BY <1>24, <1>26, <1>27, <1>28, <1>29 DEF RNext

\* A settlement creates no run, and the run it settles exists already.
LEMMA SettleDelivered ==
  ASSUME RTypeOK, NEW r \in Run, status[r] # "none",
         \/ Fail(r) \/ Cancel(r) \/ Settle(r, "SUCCEEDED", <<"completed", 0>>)
  PROVE  \A q \in Run : /\ (status'[q] = "none") <=> (status[q] = "none")
                        /\ status'[q] = "RUNNING" => status[q] = "RUNNING"
BY DEF RTypeOK, Fail, Cancel, Settle, Leave, Terminal

\* Every action keeps Delivered: sessions and answers come from a claim, and a
\* claim from a row.
LEMMA DeliveredStep == RInv /\ [RNext]_rvars => Delivered'
<1> SUFFICES ASSUME RTypeOK, Delivered, [RNext]_rvars PROVE Delivered'
    BY DEF RInv
<1> USE DEF RTypeOK, Delivered
<1>1. ASSUME NEW r \in Run, Create(r) PROVE Delivered'
  BY <1>1 DEF Create, Leave
<1>2. ASSUME NEW r \in Run, EventLook(r) PROVE Delivered'
  BY <1>2 DEF EventLook
<1>3. ASSUME NEW r \in Run, Claim(r) PROVE Delivered'
  <2>1. sends[r] \in Nat
    BY SendsCount
  <2>2. /\ sends' = [sends EXCEPT ![r] = sends[r] + 1]
        /\ status' = [status EXCEPT ![r] = "RUNNING"]
        /\ UNCHANGED <<sess, blocked>>
    BY <1>3 DEF Claim
  <2>3. \A q \in Run, k \in Send :
          answer'[q][k] = IF q = r /\ k = sends[r] + 1 THEN "awaited"
                          ELSE answer[q][k]
    BY <1>3 DEF Claim
  <2>4. sends'[r] > 0 /\ \A q \in Run \ {r} : sends'[q] = sends[q]
    BY <2>1, <2>2
  <2>5. status'[r] = "RUNNING" /\ \A q \in Run \ {r} : status'[q] = status[q]
    BY <2>2
  <2>. QED
    BY <2>2, <2>3, <2>4, <2>5
<1>4. ASSUME NEW r \in Run, FindBlocked(r) PROVE Delivered'
  BY <1>4 DEF FindBlocked
<1>5. ASSUME NEW r \in Run, FailBlocked(r) PROVE Delivered'
  BY <1>5, SettleDelivered DEF FailBlocked
<1>6. ASSUME NEW r \in Run, Ages(r) PROVE Delivered'
  BY <1>6 DEF Ages
<1>7. ASSUME NEW r \in Run, Recover(r) PROVE Delivered'
  <2>1. CASE Cancel(r)
    BY <1>7, <2>1, SettleDelivered DEF Recover
  <2>2. CASE Leave(r, "QUEUED")
    BY <1>7, <2>2 DEF Recover, Leave
  <2>. QED
    BY <1>7, <2>1, <2>2 DEF Recover
<1>8. ASSUME NEW r \in Run, TimeOut(r) PROVE Delivered'
  BY <1>8, SettleDelivered DEF TimeOut
<1>9. ASSUME NEW r \in Run, NEW k \in Send, SessionOpens(r, k) PROVE Delivered'
  BY <1>9 DEF SessionOpens
<1>10. ASSUME NEW r \in Run, NEW k \in Send, Linked(r, k) PROVE Delivered'
  BY <1>10 DEF Linked
<1>11. ASSUME NEW r \in Run, NEW k \in Send, SendFails(r, k) PROVE Delivered'
  <2>1. status[r] # "none"
    BY <1>11 DEF SendFails
  <2>2. \A q \in Run : /\ (status'[q] = "none") <=> (status[q] = "none")
                       /\ status'[q] = "RUNNING" => status[q] = "RUNNING"
    BY <1>11, <2>1, SettleDelivered DEF SendFails
  <2>3. \A q \in Run, j \in Send : answer'[q][j] # "none" <=> answer[q][j] # "none"
    BY <1>11 DEF SendFails
  <2>. QED
    BY <1>11, <2>2, <2>3 DEF SendFails
<1>12. ASSUME NEW r \in Run, NEW k \in Send, SenderDies(r, k) PROVE Delivered'
  BY <1>12 DEF SenderDies
<1>13. ASSUME NEW r \in Run, NEW k \in Send, HookStarted(r, k) PROVE Delivered'
  BY <1>13 DEF HookStarted
<1>14. ASSUME NEW r \in Run, NEW k \in Send, HookStep(r, k) PROVE Delivered'
  BY <1>14 DEF HookStep
<1>15. ASSUME NEW r \in Run, NEW k \in Send, SessionCompletes(r, k)
       PROVE  Delivered'
  BY <1>15 DEF SessionCompletes
<1>16. ASSUME NEW r \in Run, NEW k \in Send, FinishRun(r, k) PROVE Delivered'
  BY <1>16, SettleDelivered DEF FinishRun
<1>17. ASSUME NEW r \in Run, NEW k \in Send, SessionFails(r, k) PROVE Delivered'
  BY <1>17, SettleDelivered DEF SessionFails
<1>18. ASSUME NEW r \in Run, NEW k \in Send, TurnCancelled(r, k) PROVE Delivered'
  <2>1. status[r] # "none"
    BY <1>18 DEF TurnCancelled
  <2>2. \A q \in Run : /\ (status'[q] = "none") <=> (status[q] = "none")
                       /\ status'[q] = "RUNNING" => status[q] = "RUNNING"
    BY <1>18, <2>1, SettleDelivered DEF TurnCancelled
  <2>. QED
    BY <1>18, <2>2 DEF TurnCancelled
<1>19. ASSUME NEW r \in Run, Stop(r) PROVE Delivered'
  <2>1. status[r] # "none"
    BY <1>19 DEF Stop, Active
  <2>2. \A q \in Run : /\ (status'[q] = "none") <=> (status[q] = "none")
                       /\ status'[q] = "RUNNING" => status[q] = "RUNNING"
    BY <1>19, <2>1, SettleDelivered DEF Stop
  <2>. QED
    BY <1>19, <2>2 DEF Stop
<1>20. ASSUME NEW a \in Agent, NEW from, NEW to, ChangeStatus(a, from, to)
       PROVE  Delivered'
  BY <1>20 DEF ChangeStatus
<1>21. ASSUME NEW a \in Agent, Remove(a) PROVE Delivered'
  <2>1. \A q \in Run : /\ (status'[q] = "none") <=> (status[q] = "none")
                       /\ status'[q] = "RUNNING" => status[q] = "RUNNING"
    BY <1>21 DEF Remove, Cancellable
  <2>. QED
    BY <1>21, <2>1 DEF Remove
<1>22. CASE UNCHANGED rvars
  BY <1>22 DEF rvars
<1>23. CASE Queueing
  BY <1>1, <1>2, <1>23
     DEF Queueing, QueueByPerson, QueueDue, EventInsert
<1>24. CASE Delivering
  BY <1>3, <1>4, <1>5, <1>6, <1>7, <1>8, <1>9, <1>10, <1>11, <1>12, <1>24
     DEF Delivering
<1>25. CASE Answering
  BY <1>13, <1>14, <1>15, <1>16, <1>17, <1>18, <1>25 DEF Answering
<1>26. CASE Managing
  BY <1>19, <1>20, <1>21, <1>26 DEF Managing
<1>. QED
  BY <1>22, <1>23, <1>24, <1>25, <1>26 DEF RNext

\* THEOREM: every reachable state of the runs has the types RTypeOK lists, and
\* nothing is sent, answered or settled for a run that was never delivered.
THEOREM RunTypeCorrect == RSpec => []RTypeOK /\ []Delivered
<1>1. RInit => RInv
  BY DEF RInit, RInv, RTypeOK, Delivered, AgentStatus
<1>2. RInv /\ [RNext]_rvars => RInv'
  BY TypeStep, DeliveredStep DEF RInv
<1>3. RInv => RTypeOK /\ Delivered
  BY DEF RInv
<1>. QED
  BY <1>1, <1>2, <1>3, PTL DEF RSpec

-----------------------------------------------------------------------------
(* Mutual exclusion of claims.                                             *)

ClaimsRun == \A r \in byClaim : status[r] = "RUNNING"

OneClaim == \A q, r \in byClaim : AgentOf[q] = AgentOf[r] => q = r

\* Leaving RUNNING gives the claim up, and touches no other run.
LEMMA LeaveClaims ==
  ASSUME RTypeOK, ClaimsRun, OneClaim, NEW r \in Run, NEW s, Leave(r, s)
  PROVE  ClaimsRun' /\ OneClaim'
BY DEF RTypeOK, ClaimsRun, OneClaim, Leave

LEMMA SettleClaims ==
  ASSUME RTypeOK, ClaimsRun, OneClaim, NEW r \in Run,
         \/ Fail(r) \/ Cancel(r) \/ Settle(r, "SUCCEEDED", <<"completed", 0>>)
  PROVE  ClaimsRun' /\ OneClaim'
<1>1. PICK s, id : Settle(r, s, id)
  BY DEF Fail, Cancel
<1>2. CASE status[r] \in Terminal
  BY <1>1, <1>2 DEF Settle, ClaimsRun, OneClaim
<1>3. CASE status[r] \notin Terminal
  BY <1>1, <1>3, LeaveClaims DEF Settle
<1>. QED
  BY <1>2, <1>3

\* The claim looks at the agent's other runs under the lock on the agent; every
\* other action gives claims up or leaves them alone.
LEMMA ClaimStep ==
  RTypeOK /\ ClaimsRun /\ OneClaim /\ [RNext]_rvars => ClaimsRun' /\ OneClaim'
<1> SUFFICES ASSUME RTypeOK, ClaimsRun, OneClaim, [RNext]_rvars
             PROVE  ClaimsRun' /\ OneClaim'
    OBVIOUS
<1>1. ASSUME UNCHANGED <<status, byClaim>> PROVE ClaimsRun' /\ OneClaim'
  BY <1>1 DEF ClaimsRun, OneClaim
<1>2. ASSUME NEW r \in Run, Claim(r) PROVE ClaimsRun' /\ OneClaim'
  <2>1. \A q \in byClaim : AgentOf[q] = AgentOf[r] => q = r
    BY <1>2 DEF Claim, ClaimsRun, RunsOf, RTypeOK
  <2>2. byClaim' = byClaim \cup {r} /\ status' = [status EXCEPT ![r] = "RUNNING"]
    BY <1>2 DEF Claim
  <2>3. ClaimsRun'
    BY <2>2 DEF ClaimsRun, RTypeOK
  <2>4. OneClaim'
    BY <2>1, <2>2 DEF OneClaim
  <2>. QED
    BY <2>3, <2>4
<1>3. ASSUME NEW r \in Run, NEW k \in Send, HookStarted(r, k)
      PROVE  ClaimsRun' /\ OneClaim'
  BY <1>3 DEF HookStarted, ClaimsRun, OneClaim, RTypeOK
<1>4. ASSUME NEW r \in Run, Recover(r) PROVE ClaimsRun' /\ OneClaim'
  BY <1>4, LeaveClaims, SettleClaims DEF Recover
<1>5. ASSUME NEW a \in Agent, Remove(a) PROVE ClaimsRun' /\ OneClaim'
  BY <1>5 DEF Remove, ClaimsRun, OneClaim, RTypeOK
<1>6. CASE Queueing
  BY <1>1, <1>6, LeaveClaims
     DEF Queueing, QueueByPerson, QueueDue, EventLook, EventInsert, Create
<1>7. CASE Delivering
  BY <1>1, <1>2, <1>4, <1>7, SettleClaims
     DEF Delivering, FindBlocked, FailBlocked, Ages, TimeOut, SessionOpens,
         Linked, SendFails, SenderDies
<1>8. CASE Answering
  BY <1>1, <1>3, <1>8, SettleClaims
     DEF Answering, HookStep, SessionCompletes, FinishRun, SessionFails,
         TurnCancelled
<1>9. CASE Managing
  BY <1>1, <1>5, <1>9, SettleClaims DEF Managing, Stop, ChangeStatus
<1>10. CASE UNCHANGED rvars
  BY <1>1, <1>10 DEF rvars
<1>. QED
  BY <1>6, <1>7, <1>8, <1>9, <1>10 DEF RNext

\* THEOREM: of the runs of an agent, at most one is RUNNING by a dispatcher's
\* claim, however many sweeps and routes dispatch at once.
THEOREM OneDispatchedHolds == RSpec => []OneDispatched
<1>1. RInit => ClaimsRun /\ OneClaim
  BY DEF RInit, ClaimsRun, OneClaim
<1>2. OneClaim => OneDispatched
  BY DEF OneClaim, OneDispatched, RunsOf
<1>. QED
  BY <1>1, <1>2, ClaimStep, RunTypeCorrect, PTL DEF RSpec

-----------------------------------------------------------------------------
(* Refinement of RunLedger.                                                *)

\* The mapped state of a run, by name.
Mapped(r) == IF status[r] = "none" THEN "absent"
             ELSE IF status[r] \in Active THEN "open" ELSE status[r]

\* A step that keeps every mapped state and every counter is a stutter.
LEMMA LedgerStutter ==
  ASSUME \A r \in Run : Mapped(r)' = Mapped(r), UNCHANGED seq
  PROVE  UNCHANGED Ledger!lvars
BY DEF Ledger!lvars, Mapped

\* Creating a row opens its history.
LEMMA LedgerOpen ==
  ASSUME RTypeOK, NEW r \in Run, Create(r)
  PROVE  Ledger!LNext
<1>1. Ledger!Open(r)
  BY DEF Ledger!Open, Create, Leave, RTypeOK, Active
<1>. QED
  BY <1>1 DEF Ledger!LNext

\* An event appended to a run that stays active is a note.
LEMMA LedgerNote ==
  ASSUME RTypeOK, NEW r \in Run, NEW id, Log(r, id),
         status[r] \in Active, status'[r] \in Active,
         status' \in [Run -> {"none"} \cup Active \cup Terminal],
         \A q \in Run \ {r} : status'[q] = status[q]
  PROVE  Ledger!LNext
<1>1. Ledger!Note(r)
  <2>1. \A q \in Run : Mapped(q)' = Mapped(q)
    BY DEF Mapped, Active
  <2>2. seq' = [seq EXCEPT ![r] = seq[r] + 1]
    BY DEF Log
  <2>. QED
    BY <2>1, <2>2 DEF Ledger!Note, Mapped, Active
<1>. QED
  BY <1>1 DEF Ledger!LNext

\* A settlement closes the run, or finds it closed and does nothing.
LEMMA LedgerClose ==
  ASSUME RTypeOK, NEW r \in Run, status[r] # "none",
         NEW s \in Terminal, NEW id, Settle(r, s, id)
  PROVE  [Ledger!LNext]_(Ledger!lvars)
<1>1. CASE status[r] \in Terminal
  <2>1. UNCHANGED <<status, seq>>
    BY <1>1 DEF Settle
  <2>. QED
    BY <2>1 DEF Ledger!lvars
<1>2. CASE status[r] \notin Terminal
  <2>1. /\ status[r] \in Active
        /\ status' = [status EXCEPT ![r] = s]
        /\ seq' = [seq EXCEPT ![r] = seq[r] + 1]
    BY <1>2 DEF Settle, Leave, Log, RTypeOK
  <2>2. s # "none" /\ s \notin Active
    BY DEF Terminal, Active
  <2>3. Ledger!Close({r}, s)
    BY <2>1, <2>2 DEF Ledger!Close, RTypeOK, Active
  <2>. QED
    BY <2>3 DEF Ledger!LNext
<1>. QED
  BY <1>1, <1>2

LEMMA LedgerSettle ==
  ASSUME RTypeOK, NEW r \in Run, status[r] # "none",
         \/ Fail(r) \/ Cancel(r) \/ Settle(r, "SUCCEEDED", <<"completed", 0>>)
  PROVE  [Ledger!LNext]_(Ledger!lvars)
<1>1. PICK s \in Terminal : \E id : Settle(r, s, id)
  <2>1. /\ "FAILED" \in Terminal
        /\ "CANCELLED" \in Terminal
        /\ "SUCCEEDED" \in Terminal
    BY DEF Terminal
  <2>. QED
    BY <2>1, Zenon DEF Fail, Cancel
<1>2. PICK id : Settle(r, s, id)
  BY <1>1
<1>. QED
  BY <1>2, LedgerClose

\* A deletion closes the runs it cancels together, all of them active.
LEMMA LedgerRemove ==
  ASSUME RTypeOK, NEW a \in Agent, Remove(a)
  PROVE  Ledger!LNext
<1> DEFINE S == Cancellable(a)
<1>1. S \in SUBSET Run /\ "CANCELLED" \in Terminal
  BY DEF Cancellable, RunsOf, Terminal
<1>2. \A r \in S : status[r] \in Active
  BY DEF Cancellable, Active
<1>3. /\ status' = [r \in Run |-> IF r \in S THEN "CANCELLED" ELSE status[r]]
      /\ seq' = [r \in Run |-> IF r \in S THEN seq[r] + 1 ELSE seq[r]]
  BY DEF Remove
<1> HIDE DEF S
<1>4. Ledger!Close(S, "CANCELLED")
  BY <1>1, <1>2, <1>3 DEF Ledger!Close, Active
<1>. QED
  BY <1>1, <1>4 DEF Ledger!LNext

\* Every step of the runs is a step of the ledger or leaves it alone.
LEMMA LedgerStep == RInv /\ RTypeOK' /\ [RNext]_rvars => [Ledger!LNext]_(Ledger!lvars)
<1> SUFFICES ASSUME RTypeOK, Delivered, RTypeOK', [RNext]_rvars
             PROVE  [Ledger!LNext]_(Ledger!lvars)
    BY DEF RInv
<1>1. ASSUME UNCHANGED <<status, seq>> PROVE [Ledger!LNext]_(Ledger!lvars)
  BY <1>1 DEF Ledger!lvars
<1>2. ASSUME NEW r \in Run, Claim(r) PROVE [Ledger!LNext]_(Ledger!lvars)
  <2>1. \A q \in Run : Mapped(q)' = Mapped(q)
    BY <1>2 DEF Claim, Mapped, Active, RTypeOK
  <2>. QED
    BY <1>2, <2>1, LedgerStutter DEF Claim
<1>3. ASSUME NEW r \in Run, Recover(r) PROVE [Ledger!LNext]_(Ledger!lvars)
  <2>1. status[r] \in Active /\ status[r] # "none"
    BY <1>3 DEF Recover, Active
  <2>2. CASE Cancel(r)
    BY <2>1, <2>2, LedgerSettle
  <2>3. CASE Leave(r, "QUEUED") /\ Log(r, <<"recovered", sends[r]>>)
    <3>1. status' = [status EXCEPT ![r] = "QUEUED"]
      BY <2>3 DEF Leave
    <3>2. status'[r] \in Active /\ \A q \in Run \ {r} : status'[q] = status[q]
      BY <3>1 DEF RTypeOK, Active
    <3>. QED
      BY <2>1, <2>3, <3>2, LedgerNote DEF RTypeOK
  <2>. QED
    BY <1>3, <2>2, <2>3 DEF Recover
<1>4. ASSUME NEW r \in Run, NEW k \in Send, HookStarted(r, k) \/ HookStep(r, k)
      PROVE  [Ledger!LNext]_(Ledger!lvars)
  <2>1. status[r] \in Active
    <3>1. status[r] # "none" /\ status[r] \notin Terminal
      BY <1>4 DEF HookStarted, HookStep, Delivered
    <3>. QED
      BY <3>1 DEF RTypeOK
  <2>2. PICK id : Log(r, id)
    BY <1>4 DEF HookStarted, HookStep
  <2>3. status' = status \/ status' = [status EXCEPT ![r] = "RUNNING"]
    BY <1>4 DEF HookStarted, HookStep
  <2>4. status'[r] \in Active /\ \A q \in Run \ {r} : status'[q] = status[q]
    BY <2>1, <2>3 DEF RTypeOK, Active
  <2>. QED
    BY <2>1, <2>2, <2>4, LedgerNote DEF RTypeOK
<1>5. CASE Queueing
  BY <1>1, <1>5, LedgerOpen
     DEF Queueing, QueueByPerson, QueueDue, EventLook, EventInsert
<1>6. CASE Delivering
  <2>1. ASSUME NEW r \in Run, FailBlocked(r) \/ TimeOut(r)
        PROVE  [Ledger!LNext]_(Ledger!lvars)
    BY <2>1, LedgerSettle DEF FailBlocked, TimeOut, Delivered
  <2>2. ASSUME NEW r \in Run, NEW k \in Send, SendFails(r, k)
        PROVE  [Ledger!LNext]_(Ledger!lvars)
    <3>1. status[r] # "none"
      BY <2>2 DEF SendFails, Delivered
    <3>. QED
      BY <2>2, <3>1, LedgerSettle DEF SendFails
  <2>. QED
    BY <1>1, <1>2, <1>3, <1>6, <2>1, <2>2
       DEF Delivering, FindBlocked, Ages, SessionOpens, Linked, SenderDies
<1>7. CASE Answering
  <2>1. ASSUME NEW r \in Run, NEW k \in Send,
               FinishRun(r, k) \/ SessionFails(r, k) \/ TurnCancelled(r, k)
        PROVE  [Ledger!LNext]_(Ledger!lvars)
    <3>1. sess[r][k] # "none"
      BY <2>1 DEF FinishRun, SessionFails, TurnCancelled
    <3>2. status[r] # "none"
      BY <3>1 DEF Delivered
    <3>. QED
      BY <2>1, <3>2, LedgerSettle DEF FinishRun, SessionFails, TurnCancelled
  <2>. QED
    BY <1>1, <1>4, <1>7, <2>1 DEF Answering, SessionCompletes
<1>8. CASE Managing
  <2>1. ASSUME NEW r \in Run, Stop(r) PROVE [Ledger!LNext]_(Ledger!lvars)
    BY <2>1, LedgerSettle DEF Stop, Active
  <2>. QED
    BY <1>1, <1>8, <2>1, LedgerRemove DEF Managing, ChangeStatus
<1>9. CASE UNCHANGED rvars
  BY <1>1, <1>9 DEF rvars
<1>. QED
  BY <1>5, <1>6, <1>7, <1>8, <1>9 DEF RNext

\* THEOREM: the history of the runs keeps the promise of RunLedger, whoever
\* settles, recovers, cancels or deletes: opened once, numbered one entry at a
\* time, closed once by the last entry.
THEOREM ImplementsLedger == RSpec => KeepsLedger
<1>1. RInit => Ledger!LInit
  BY DEF RInit, Ledger!LInit
<1>. QED
  BY <1>1, LedgerStep, RunTypeCorrect, PTL
     DEF RSpec, KeepsLedger, Ledger!LSpec, RInv

-----------------------------------------------------------------------------
(* The log of a run.  LogIsWhole is not inductive: that no recovery is     *)
(* noted twice hangs on the deliveries between them.                       *)

\* A recovery is of a delivery that was made, and one that has been noted is
\* not waiting for its session any more.
RecoveredOnce(r) ==
  \A e \in log[r] : e[2][1] = "recovered" =>
    /\ e[2][2] \in Nat /\ e[2][2] <= sends[r]
    /\ e[2][2] = sends[r] /\ status[r] = "RUNNING" => session[r] # 0

Whole(r) ==
  IF status[r] = "none" THEN seq[r] = 0
  ELSE /\ {e[1] : e \in log[r]} = 0..seq[r]
       /\ \A d, e \in log[r] : d[1] = e[1] \/ d[2] = e[2] => d = e
       /\ \A e \in log[r] : e[2] \in TerminalId => e[1] = seq[r]
       /\ (status[r] \in Terminal) <=> (\E e \in log[r] : e[2] \in TerminalId)

LogInv == \A r \in Run : Whole(r) /\ RecoveredOnce(r)

\* What a step may do with the log of a run: nothing, begin it, or append.
Unlogged(r) ==
  /\ log'[r] = log[r] /\ seq'[r] = seq[r] /\ sends'[r] >= sends[r]
  /\ (status'[r] = "none") <=> (status[r] = "none")
  /\ (status'[r] \in Terminal) <=> (status[r] \in Terminal)
  /\ sends'[r] = sends[r] /\ status'[r] = "RUNNING" =>
       status[r] = "RUNNING" /\ (session[r] # 0 => session'[r] # 0)
Begun(r) ==
  /\ status[r] = "none" /\ status'[r] = "QUEUED"
  /\ seq'[r] = seq[r] /\ log'[r] = {<<0, <<"queued", 0>>>>}
Appended(r, id) ==
  /\ status[r] \in Active /\ status'[r] # "none" /\ sends'[r] = sends[r]
  /\ seq'[r] = seq[r] + 1 /\ log'[r] = log[r] \cup {<<seq[r] + 1, id>>}
  /\ \A e \in log[r] : e[2] # id
  /\ (id \in TerminalId) <=> (status'[r] \in Terminal)
  /\ status'[r] = "RUNNING" => session'[r] # 0 \/ (status[r] = "RUNNING" /\ session'[r] = session[r])
  /\ id[1] = "recovered" => id[2] = sends[r] /\ status'[r] # "RUNNING"
Noted(r) == Unlogged(r) \/ Begun(r) \/ \E id \in EventId : Appended(r, id)

LEMMA EventIds ==
  /\ TerminalId \subseteq EventId
  /\ <<"failed", 0>> \in TerminalId /\ <<"cancelled", 0>> \in TerminalId /\ <<"completed", 0>> \in TerminalId
  /\ <<"queued", 0>> \notin TerminalId /\ <<"queued", 0>> \in EventId
  /\ \A k : \A w \in {"recovered", "started", "step"} : <<w, k>> \notin TerminalId
  /\ \A k \in Send : \A w \in {"recovered", "started", "step"} : <<w, k>> \in EventId
  /\ \A id \in TerminalId : id[1] # "recovered"
BY DEF TerminalId, EventId

\* Numbers and names stay different when the next number takes a new name.
LEMMA NextNumber ==
  ASSUME NEW n \in Nat, NEW L, NEW id, {e[1] : e \in L} = 0..n, \A e \in L : e[2] # id,
         \A d, e \in L : d[1] = e[1] \/ d[2] = e[2] => d = e
  PROVE  /\ {e[1] : e \in L \cup {<<n + 1, id>>}} = 0..(n + 1)
         /\ \A d, e \in L \cup {<<n + 1, id>>} : d[1] = e[1] \/ d[2] = e[2] => d = e
<1>1. \A e \in L : e[1] \in 0..n
  OBVIOUS
<1>2. 0..(n + 1) = (0..n) \cup {n + 1} /\ n + 1 \notin 0..n
  OBVIOUS
<1>3. {e[1] : e \in L \cup {<<n + 1, id>>}} = {e[1] : e \in L} \cup {n + 1}
  <2>1. PICK x : x = <<n + 1, id>>
    OBVIOUS
  <2>2. x[1] = n + 1
    BY <2>1
  <2>3. {e[1] : e \in L \cup {x}} = {e[1] : e \in L} \cup {x[1]}
    OBVIOUS
  <2>. QED
    BY <2>1, <2>2, <2>3
<1>4. \A e \in L : e[1] # n + 1
  BY <1>1, <1>2
<1>5. \A d, e \in L \cup {<<n + 1, id>>} : d[1] = e[1] \/ d[2] = e[2] => d = e
  BY <1>4
<1>. QED
  BY <1>2, <1>3, <1>5

\* However a log is noted, it is whole.
LEMMA NotedIsWhole ==
  ASSUME RTypeOK, NEW r \in Run, Whole(r), RecoveredOnce(r), Noted(r), sends'[r] \in Nat
  PROVE  Whole(r)' /\ RecoveredOnce(r)'
<1>1. sends[r] \in Nat /\ seq[r] \in Nat /\ status[r] \in {"none"} \cup Active \cup Terminal
  BY SendsCount DEF RTypeOK
<1>2. CASE Unlogged(r)
  <2>1. Whole(r)'
    BY <1>2 DEF Unlogged, Whole
  <2>2. RecoveredOnce(r)'
    BY <1>1, <1>2 DEF Unlogged, RecoveredOnce
  <2>. QED
    BY <2>1, <2>2
<1>3. CASE Begun(r)
  <2>1. seq'[r] = 0 /\ log'[r] = {<<0, <<"queued", 0>>>>} /\ status'[r] = "QUEUED"
    BY <1>3 DEF Begun, Whole
  <2>2. {e[1] : e \in log'[r]} = 0..0
    BY <2>1
  <2>3. status'[r] \notin Terminal
    BY <2>1 DEF Terminal
  <2>. QED
    BY <2>1, <2>2, <2>3, EventIds DEF Whole, RecoveredOnce
<1>4. ASSUME NEW id \in EventId, Appended(r, id) PROVE Whole(r)' /\ RecoveredOnce(r)'
  <2>1. /\ seq'[r] = seq[r] + 1 /\ log'[r] = log[r] \cup {<<seq[r] + 1, id>>} /\ status'[r] # "none"
        /\ sends'[r] = sends[r] /\ (id \in TerminalId <=> status'[r] \in Terminal)
    BY <1>4 DEF Appended
  <2>2. status[r] # "none" /\ status[r] \notin Terminal
    BY <1>4 DEF Appended, Active, Terminal
  <2>3. /\ {e[1] : e \in log'[r]} = 0..seq'[r]
        /\ \A d, e \in log'[r] : d[1] = e[1] \/ d[2] = e[2] => d = e
    <3>1. /\ {e[1] : e \in log[r]} = 0..seq[r] /\ \A e \in log[r] : e[2] # id
          /\ \A d, e \in log[r] : d[1] = e[1] \/ d[2] = e[2] => d = e
      BY <1>4, <2>2 DEF Whole, Appended
    <3>2. seq[r] \in Nat
      BY <1>1
    <3>3. /\ {e[1] : e \in log[r] \cup {<<seq[r] + 1, id>>}} = 0..(seq[r] + 1)
          /\ \A d, e \in log[r] \cup {<<seq[r] + 1, id>>} : d[1] = e[1] \/ d[2] = e[2] => d = e
      BY <3>1, <3>2, NextNumber
    <3>. QED
      BY <2>1, <3>3
  <2>4. \A e \in log[r] : e[2] \notin TerminalId
    BY <2>2 DEF Whole
  <2>5. Whole(r)'
    <3>1. \A e \in log'[r] : e[2] \in TerminalId => e[1] = seq'[r]
      BY <2>1, <2>4
    <3>2. (\E e \in log'[r] : e[2] \in TerminalId) <=> id \in TerminalId
      <4>1. PICK x : x = <<seq[r] + 1, id>>
        OBVIOUS
      <4>2. x[2] = id /\ log'[r] = log[r] \cup {x}
        BY <2>1, <4>1
      <4>. QED
        BY <2>4, <4>2
    <3>. QED
      BY <2>1, <2>3, <3>1, <3>2 DEF Whole
  <2>6. RecoveredOnce(r)'
    <3> SUFFICES ASSUME NEW e \in log'[r], e[2][1] = "recovered"
                 PROVE  /\ e[2][2] \in Nat /\ e[2][2] <= sends'[r]
                        /\ e[2][2] = sends'[r] /\ status'[r] = "RUNNING" => session'[r] # 0
      BY DEF RecoveredOnce
    <3>1. CASE e \in log[r]
      BY <1>4, <2>1, <3>1 DEF RecoveredOnce, Appended
    <3>2. CASE e = <<seq[r] + 1, id>>
      <4>1. id[1] = "recovered" /\ e[2][2] = id[2]
        BY <3>2
      <4>. QED
        BY <1>1, <1>4, <2>1, <4>1 DEF Appended
    <3>. QED
      BY <2>1, <3>1, <3>2
  <2>. QED
    BY <2>5, <2>6
<1>. QED
  BY <1>2, <1>3, <1>4 DEF Noted

LEMMA SettleNotes ==
  ASSUME RTypeOK, NEW r \in Run, NEW q \in Run, status[r] # "none", Whole(r),
         Fail(r) \/ Cancel(r) \/ Settle(r, "SUCCEEDED", <<"completed", 0>>), UNCHANGED <<session, sends>>
  PROVE  Noted(q)
<1>1. PICK s \in Terminal, id \in TerminalId : Settle(r, s, id)
  <2>1. "FAILED" \in Terminal /\ "CANCELLED" \in Terminal /\ "SUCCEEDED" \in Terminal
    BY DEF Terminal
  <2>. QED
    BY <2>1, EventIds, Zenon DEF Fail, Cancel
<1>2. sends[q] \in Nat
  BY SendsCount
<1>3. CASE status[r] \in Terminal
  <2>1. UNCHANGED <<status, seq, log>>
    BY <1>1, <1>3 DEF Settle
  <2>. QED
    BY <1>2, <2>1 DEF Noted, Unlogged
<1>4. CASE status[r] \notin Terminal
  <2>1. /\ status' = [status EXCEPT ![r] = s] /\ seq' = [seq EXCEPT ![r] = seq[r] + 1]
        /\ log' = [log EXCEPT ![r] = log[r] \cup {<<seq[r] + 1, id>>}]
    BY <1>1, <1>4 DEF Settle, Leave, Log
  <2>2. CASE q # r
    BY <1>2, <2>1, <2>2 DEF Noted, Unlogged, RTypeOK
  <2>3. CASE q = r
    <3>1. /\ status[r] \in Active /\ status'[r] = s /\ s # "none" /\ s # "RUNNING" /\ id[1] # "recovered"
          /\ seq'[r] = seq[r] + 1 /\ log'[r] = log[r] \cup {<<seq[r] + 1, id>>}
      BY <1>4, <2>1, EventIds DEF RTypeOK, Terminal
    <3>2. \A e \in log[r] : e[2] # id
      BY <1>4 DEF Whole
    <3>3. Appended(r, id)
      BY <3>1, <3>2 DEF Appended
    <3>. QED
      BY <2>3, <3>3, EventIds DEF Noted
  <2>. QED
    BY <2>2, <2>3
<1>. QED
  BY <1>3, <1>4

\* Each step notes nothing, or one event that was not there, in each log.
LEMMA StepNotes ==
  ASSUME RInv, LogInv, RNext, NEW q \in Run PROVE Noted(q)
<1> USE DEF RInv
<1>1. sends[q] \in Nat /\ Whole(q) /\ RecoveredOnce(q)
  BY SendsCount DEF LogInv
<1>2. ASSUME UNCHANGED <<status, session, seq, log, sends>> PROVE Noted(q)
  BY <1>1, <1>2 DEF Noted, Unlogged
<1>3. ASSUME NEW r \in Run, status[r] # "none", UNCHANGED <<session, sends>>,
             Fail(r) \/ Cancel(r) \/ Settle(r, "SUCCEEDED", <<"completed", 0>>)
      PROVE  Noted(q)
  BY <1>3, SettleNotes DEF LogInv
<1>4. ASSUME NEW r \in Run, Create(r) PROVE Noted(q)
  <2>1. /\ status[r] = "none" /\ status' = [status EXCEPT ![r] = "QUEUED"]
        /\ log' = [log EXCEPT ![r] = {<<0, <<"queued", 0>>>>}] /\ UNCHANGED <<seq, session, sends>>
    BY <1>4 DEF Create, Leave
  <2>. QED
    BY <1>1, <2>1 DEF RTypeOK, Noted, Begun, Unlogged
<1>5. ASSUME NEW r \in Run, Claim(r) PROVE Noted(q)
  <2>1. /\ status[r] = "QUEUED" /\ status' = [status EXCEPT ![r] = "RUNNING"]
        /\ sends' = [sends EXCEPT ![r] = sends[r] + 1] /\ UNCHANGED <<seq, log, session>>
    BY <1>5 DEF Claim
  <2>2. sends'[q] = IF q = r THEN sends[q] + 1 ELSE sends[q]
    BY <2>1 DEF RTypeOK
  <2>3. sends'[q] >= sends[q] /\ (q = r => sends'[q] # sends[q])
    BY <1>1, <2>2
  <2>. QED
    BY <2>1, <2>3 DEF RTypeOK, Noted, Unlogged, Terminal
<1>6. ASSUME NEW r \in Run, Recover(r) PROVE Noted(q)
  <2>1. status[r] = "RUNNING" /\ session[r] = 0 /\ UNCHANGED <<session, sends>>
    BY <1>6 DEF Recover
  <2>2. CASE Cancel(r)
    BY <1>3, <2>1, <2>2
  <2>3. CASE Leave(r, "QUEUED") /\ Log(r, <<"recovered", sends[r]>>)
    <3> DEFINE id == <<"recovered", sends[r]>>
    <3>1. /\ status' = [status EXCEPT ![r] = "QUEUED"] /\ seq' = [seq EXCEPT ![r] = seq[r] + 1]
          /\ log' = [log EXCEPT ![r] = log[r] \cup {<<seq[r] + 1, id>>}]
      BY <2>3 DEF Leave, Log
    <3>2. CASE q # r
      BY <1>1, <2>1, <3>1, <3>2 DEF RTypeOK, Noted, Unlogged
    <3>3. CASE q = r
      <4>1. id \in EventId /\ id \notin TerminalId
        <5>1. sends[r] \in Send
          BY <2>1 DEF RTypeOK, Delivered
        <5>. QED
          BY <5>1, EventIds
      <4>2. \A e \in log[r] : e[2] # id
        BY <1>1, <2>1, <3>3 DEF RecoveredOnce
      <4>3. /\ status[r] \in Active /\ status'[r] = "QUEUED" /\ "QUEUED" \notin Terminal
            /\ seq'[r] = seq[r] + 1 /\ log'[r] = log[r] \cup {<<seq[r] + 1, id>>}
        BY <2>1, <3>1 DEF RTypeOK, Active, Terminal
      <4>4. Appended(r, id)
        BY <2>1, <4>1, <4>2, <4>3 DEF Appended
      <4>. QED
        BY <3>3, <4>1, <4>4 DEF Noted
    <3>. QED
      BY <3>2, <3>3
  <2>. QED
    BY <1>6, <2>2, <2>3 DEF Recover
<1>7. ASSUME NEW r \in Run, NEW k \in Send, Linked(r, k) PROVE Noted(q)
  <2>1. k # 0 /\ UNCHANGED <<status, seq, log, sends>> /\ (session' = session \/ session' = [session EXCEPT ![r] = k])
    BY <1>7, SendNumbers DEF Linked
  <2>. QED
    BY <1>1, <2>1 DEF RTypeOK, Noted, Unlogged
<1>8. ASSUME NEW r \in Run, NEW k \in Send, NEW w \in {"started", "step"}, Log(r, <<w, k>>),
             ~HasEvent(r, <<w, k>>), status[r] \in Active, UNCHANGED sends,
             \/ status' = [status EXCEPT ![r] = "RUNNING"] /\ session' = [session EXCEPT ![r] = k]
             \/ UNCHANGED <<status, session>>
      PROVE  Noted(q)
  <2> DEFINE id == <<w, k>>
  <2>1. /\ seq' = [seq EXCEPT ![r] = seq[r] + 1]
        /\ log' = [log EXCEPT ![r] = log[r] \cup {<<seq[r] + 1, id>>}]
    BY <1>8 DEF Log
  <2>2. CASE q # r
    BY <1>1, <1>8, <2>1, <2>2 DEF RTypeOK, Noted, Unlogged
  <2>3. CASE q = r
    <3>1. id \in EventId /\ id \notin TerminalId /\ id[1] # "recovered" /\ k # 0
      BY <1>8, EventIds, SendNumbers
    <3>2. \A e \in log[r] : e[2] # id
      BY <1>8 DEF HasEvent
    <3>3. /\ seq'[r] = seq[r] + 1 /\ log'[r] = log[r] \cup {<<seq[r] + 1, id>>}
          /\ (status'[r] = status[r] /\ session'[r] = session[r]) \/ (status'[r] = "RUNNING" /\ session'[r] = k)
      BY <1>8, <2>1 DEF RTypeOK
    <3>4. status'[r] # "none" /\ status'[r] \notin Terminal
      BY <1>8, <3>3 DEF Active, Terminal
    <3>5. Appended(r, id)
      BY <1>8, <3>1, <3>2, <3>3, <3>4 DEF Appended
    <3>. QED
      BY <2>3, <3>1, <3>5 DEF Noted
  <2>. QED
    BY <2>2, <2>3
<1>9. ASSUME NEW r \in Run, NEW k \in Send, HookStarted(r, k) \/ HookStep(r, k) PROVE Noted(q)
  <2>1. sess[r][k] = "open" /\ status[r] \notin Terminal
    BY <1>9 DEF HookStarted, HookStep
  <2>2. status[r] \in Active
    BY <2>1 DEF Delivered, RTypeOK
  <2>. QED
    BY <1>8, <1>9, <2>2 DEF HookStarted, HookStep
<1>10. ASSUME NEW a \in Agent, Remove(a) PROVE Noted(q)
  <2>1. UNCHANGED <<session, sends>>
    BY <1>10 DEF Remove
  <2>2. CASE q \notin Cancellable(a)
    BY <1>1, <1>10, <2>1, <2>2 DEF Remove, Noted, Unlogged
  <2>3. CASE q \in Cancellable(a)
    <3> DEFINE id == <<"cancelled", 0>>
    <3>1. /\ status'[q] = "CANCELLED" /\ seq'[q] = seq[q] + 1 /\ log'[q] = log[q] \cup {<<seq[q] + 1, id>>}
          /\ status[q] \in {"QUEUED", "RUNNING"}
      BY <1>10, <2>3 DEF Remove, Cancellable
    <3>2. id \in EventId /\ id \in TerminalId /\ id[1] # "recovered"
      BY EventIds
    <3>3. \A e \in log[q] : e[2] # id
      BY <1>1, <3>1, <3>2 DEF Whole, Terminal
    <3>4. Appended(q, id)
      BY <2>1, <3>1, <3>2, <3>3 DEF Appended, Active, Terminal
    <3>. QED
      BY <3>2, <3>4 DEF Noted
  <2>. QED
    BY <2>2, <2>3
<1>11. CASE Queueing
  BY <1>2, <1>4, <1>11 DEF Queueing, QueueByPerson, QueueDue, EventLook, EventInsert
<1>12. CASE Delivering
  <2>1. ASSUME NEW r \in Run, FailBlocked(r) \/ TimeOut(r) PROVE Noted(q)
    BY <1>3, <2>1 DEF FailBlocked, TimeOut, Delivered
  <2>2. ASSUME NEW r \in Run, NEW k \in Send, SendFails(r, k) PROVE Noted(q)
    <3>1. status[r] # "none"
      BY <2>2 DEF SendFails, Delivered
    <3>. QED
      BY <1>3, <2>2, <3>1 DEF SendFails
  <2>. QED
    BY <1>2, <1>5, <1>6, <1>7, <1>12, <2>1, <2>2 DEF Delivering, FindBlocked, Ages, SessionOpens, SenderDies
<1>13. CASE Answering
  <2>1. ASSUME NEW r \in Run, NEW k \in Send, FinishRun(r, k) \/ SessionFails(r, k) \/ TurnCancelled(r, k)
        PROVE  Noted(q)
    <3>1. sess[r][k] # "none"
      BY <2>1 DEF FinishRun, SessionFails, TurnCancelled
    <3>2. status[r] # "none"
      BY <3>1 DEF Delivered
    <3>. QED
      BY <1>3, <2>1, <3>2 DEF FinishRun, SessionFails, TurnCancelled
  <2>. QED
    BY <1>2, <1>9, <1>13, <2>1 DEF Answering, SessionCompletes
<1>14. CASE Managing
  <2>1. ASSUME NEW r \in Run, Stop(r) PROVE Noted(q)
    BY <1>3, <2>1 DEF Stop, Active
  <2>. QED
    BY <1>2, <1>10, <1>14, <2>1 DEF Managing, ChangeStatus
<1>. QED
  BY <1>11, <1>12, <1>13, <1>14 DEF RNext

\* THEOREM: the log of every run is whole, whoever appends to it: numbered
\* without a gap, no event twice, a terminal event at its end and only there.
THEOREM LogWhole == RSpec => []LogIsWhole
<1>1. RInit => LogInv
  BY DEF RInit, LogInv, Whole, RecoveredOnce
<1>2. ASSUME RInv, RInv', LogInv, RNext PROVE LogInv'
  <2> SUFFICES ASSUME NEW r \in Run PROVE Whole(r)' /\ RecoveredOnce(r)'
    BY DEF LogInv
  <2>1. sends'[r] \in Nat
    <3>1. sends'[r] = 0 \/ sends'[r] \in Send
      BY <1>2 DEF RInv, RTypeOK
    <3>2. \A n \in Send : n \in Nat
      BY SendNumbers
    <3>3. CASE sends'[r] = 0
      BY <3>3
    <3>4. CASE sends'[r] \in Send
      BY <3>2, <3>4
    <3>. QED
      BY <3>1, <3>3, <3>4
  <2>2. Noted(r)
    BY <1>2, StepNotes
  <2>. QED
    BY <1>2, <2>1, <2>2, NotedIsWhole DEF RInv, LogInv
<1>3. ASSUME LogInv, UNCHANGED rvars PROVE LogInv'
  BY <1>3 DEF LogInv, Whole, RecoveredOnce, rvars
<1>4. LogInv => LogIsWhole
  BY DEF LogInv, LogIsWhole, Whole
<1>5. RSpec => []RInv
  BY RunTypeCorrect, PTL DEF RInv
<1>6. RInv /\ RInv' /\ LogInv /\ [RNext]_rvars => LogInv'
  BY <1>2, <1>3
<1>. QED
  BY <1>1, <1>4, <1>5, <1>6, PTL DEF RSpec

==============================================================================
