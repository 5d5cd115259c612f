-------------------------------- MODULE MCOffice --------------------------------
(* What an install keeps for everybody, side by side: the money of deals   *)
(* in the reporting currency, the workspace with its members and website,  *)
(* and the desktop build, which runs it all on one machine.  These parts   *)
(* share no state here, so a behaviour is one of one part, the others at   *)
(* rest.                                                                   *)
EXTENDS DealMoney, Workspace, DesktopRuntime

CONSTANTS usd, eur, a1, deal, e1, e2, adm, ann, bob, old, new, one, two

VARIABLE part
officevars == <<part, mvars, ovars, xvars>>

\* Which currency comes first, and which member, makes no difference; a deal is
\* there, in another currency, and can be deleted and created.
OfficeInit ==
  /\ part \in {"money", "workspace", "desktop"}
  /\ MInit /\ OInit /\ XInit
  /\ row = [x \in Deal |-> IF part = "money" THEN [amount |-> a1, currency |-> eur] ELSE None]
  /\ base = usd /\ role[ann] = "owner"

Money(A) == part = "money" /\ A /\ UNCHANGED <<part, ovars, xvars>>
Members(A) == part = "workspace" /\ A /\ UNCHANGED <<part, mvars, xvars>>
Desktop(A) == part = "desktop" /\ A /\ UNCHANGED <<part, mvars, ovars>>

OfficeNext == Money(MNext) \/ Members(ONext) \/ Desktop(XNext)

\* The daily job runs, its steps do not stop half way, and the provider answers
\* now and then.  Somebody signs in now and then, weeks pass, and a session that
\* was queued is opened and ends.  Programs end, a supervisor goes on, a window
\* that does not work is closed and one is opened again.  Requests owe nothing.
OfficeSpec ==
  /\ OfficeInit /\ [][OfficeNext]_officevars
  /\ WF_officevars(Money(RunDaily) \/ Members(SweepLooks) \/ Desktop(InitdbEnds))
  /\ WF_officevars(Money(Rates(Daily)) \/ Members(SweepQueues) \/ Desktop(\E w \in Window : OpenWindow(w)))
  /\ SF_officevars(Money(ProviderAnswers(Daily)))
  /\ WF_officevars(Members(WeekPasses))
  /\ WF_officevars(Members(OpenSession)) /\ WF_officevars(Members(EndSession))
  /\ \A p \in Window \cup {Stray} : WF_officevars(Desktop(PgCtlEnds(p)))
  /\ \A w \in Window : WF_officevars(Desktop(Supervises(w))) /\ WF_officevars(Desktop(GivesUp(w)))

\* The variables of all parts have their types.
OfficeTypeOK == MTypeOK /\ OTypeOK /\ XTypeOK
=============================================================================
