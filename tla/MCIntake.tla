-------------------------------- MODULE MCIntake --------------------------------
(* What comes into the CRM by itself, side by side: the passes over a      *)
(* mailbox, the threads they write, the meetings of calendars, the forms   *)
(* of visitors.  These parts are composed by their calls only and share no *)
(* state here, so a behaviour is one of one part, with the others at rest. *)
EXTENDS MailboxSync, MailThreads, CalendarSync, VisitFiling

CONSTANTS one, two, ann, bob,
  Parts   \* the parts that are looked at

VARIABLE part
allvars == <<part, mbvars, tvars, calvars, gvars>>

AtRest(p) ==
  /\ p # "mailbox" => provider = "gmail" /\ kept = Mail
  /\ p # "threads" => box = [h \in Holder |-> Letter] /\ firm = FALSE /\ known = 0
  /\ p # "forms" => /\ address = [f \in Form |-> ann] /\ form = [d \in Delivery |-> one]
                    /\ made = [e \in Email |-> 0]

AllInit ==
  /\ part \in Parts /\ AtRest(part)
  /\ MbInit /\ TInit /\ CalInit /\ GInit

Mailbox(A) == part = "mailbox" /\ A /\ UNCHANGED <<part, tvars, calvars, gvars>>
Threads(A) == part = "threads" /\ A /\ UNCHANGED <<part, mbvars, calvars, gvars>>
Meetings(A) == part = "meetings" /\ A /\ UNCHANGED <<part, mbvars, tvars, gvars>>
Forms(A) == part = "forms" /\ A /\ UNCHANGED <<part, mbvars, tvars, calvars>>

AllNext == Mailbox(MbNext) \/ Threads(TNext) \/ Meetings(CalNext) \/ Forms(GNext)

\* Cron lists the mailboxes that are due every few minutes and time passes; a
\* pass goes on unless it fails or dies, which it does MaxFault times.
AllSpec ==
  /\ AllInit /\ [][AllNext]_allvars
  /\ WF_allvars(Mailbox(LeaseRunsOut)) /\ \A t \in Pass : WF_allvars(Mailbox(List(t) \/ Proceeds(t)))
  /\ \A g \in Guest : WF_allvars(Meetings(Walks(g)))

\* The variables of all parts have their types.
IntakeTypeOK == MbTypeOK /\ TTypeOK /\ CalTypeOK /\ GTypeOK
=============================================================================
