------------------------------- MODULE MCRecords -------------------------------
(* What requests, tasks and runs of agents write, side by side: the status *)
(* of a record's enrichment, the value of a custom field, the timeline of  *)
(* a deal, and the actions of a run, an activity and a Slack message.      *)
(* These parts share no state, so a behaviour is one of one part, with the *)
(* others at rest.                                                         *)
EXTENDS EnrichmentStatus, CustomFields, DealTimeline, RunActions

CONSTANTS profile, brand, record, acme, c1, c2, o1, o2, w1, agent, deal, r1, r2,
  post, note

MCKindOf == [t \in Task |-> IF t = brand THEN "brand" ELSE "company-profile"]
MCSubjectOf == [t \in Task |-> record]
MCActionType == [c \in Call |-> IF c = post THEN "slack" ELSE "activity"]

VARIABLE part
recordvars == <<part, allvars, ivars, tvars, avars>>

RecordsInit ==
  /\ part \in {"enrichment", "fields", "timeline", "actions"}
  /\ part # "timeline" => stage = [x \in Deal |-> "DEMO_BOOKED"]
  /\ SInit /\ IInit /\ TInit /\ AInit

Enriches(A) == part = "enrichment" /\ A /\ UNCHANGED <<part, ivars, tvars, avars>>
Fields(A) == part = "fields" /\ A /\ UNCHANGED <<part, allvars, tvars, avars>>
Timeline(A) == part = "timeline" /\ A /\ UNCHANGED <<part, allvars, ivars, avars>>
\* One of the two calls of a run is attempted twice at most.
Acts(A) ==
  /\ part = "actions" /\ A /\ UNCHANGED <<part, allvars, ivars, tvars>>
  /\ \E c \in Call : pc[c][MaxTries]' = "idle"

RecordsNext == Enriches(SNext) \/ Fields(INext) \/ Timeline(TNext) \/ Acts(ANext)
RecordsSpec == RecordsInit /\ [][RecordsNext]_recordvars

\* The variables of all parts have their types.
RecordsTypeOK == STypeOK /\ ITypeOK /\ TTypeOK /\ ATypeOK
=============================================================================
