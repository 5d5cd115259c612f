------------------------------- MODULE MCAgents -------------------------------
(* How an agent comes to be, side by side: the conversation with the       *)
(* builder that drafts it, the versions and triggers that a person         *)
(* approves, and the channels of Slack that it may post to.  A behaviour   *)
(* is one of one part, with the others at rest.                            *)
EXTENDS BuilderConversation, AgentVersions, SlackInventory

CONSTANTS one, other, event, ta, tb, t1, t2, j1

VARIABLE part
allvars == <<part, bvars, vvars, ivars>>

Converses(A) == part = "conversation" /\ A /\ UNCHANGED <<part, vvars, ivars>>
Deploys(A) == part = "versions" /\ A /\ UNCHANGED <<part, bvars, ivars>>
Lists(A) == part = "channels" /\ A /\ UNCHANGED <<part, bvars, vvars>>

AllNext == Converses(BNext) \/ Deploys(VNext) \/ Lists(INext)

\* The workspace of Slack that is connected first has an open channel, the other
\* a private one.
AllInit ==
  /\ part \in {"conversation", "versions", "channels"} /\ BInit /\ VInit /\ IInit
  /\ slack = [c \in Channel |-> IF c[1] = ta THEN "public" ELSE "hidden"]
  /\ team[1] = IF part = "channels" THEN ta ELSE Nil

\* Who is at work on the channels goes on.
Works ==
  \/ \E k \in Link : LinkStep(k)
  \/ \E a \in Attempt : AttemptStep(a)
  \/ \E j \in Errand : ErrandStep(j)

\* Cron sweeps messages and triggers every minute, and a sweep ends.  Cron takes up
\* the inventory that is queued, an inventory goes on, time passes.  Sessions and
\* deliveries owe nothing.  (Actions of different parts share a condition: one part
\* moves.)
AllSpec ==
  /\ AllInit /\ [][AllNext]_allvars
  /\ WF_allvars(Converses(Open(SweepMessages)) \/ Lists(RequestStale))
  /\ WF_allvars(Lists(ThrottleEnds)) /\ WF_allvars(Lists(RowsAge))
  /\ WF_allvars(Deploys(QueueDue(one)) \/ Lists(BeginInventory))
  /\ WF_allvars(Deploys(QueueDue(other)) \/ Lists(Works))
  /\ \A t \in Trigger : WF_allvars(Deploys(\E w \in Sweep : ReadDue(w, t)))

\* The variables of all parts have their types.
AgentsTypeOK == BTypeOK /\ VTypeOK /\ ITypeOK
=============================================================================
