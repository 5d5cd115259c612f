------------------------------- MODULE DealMoney -------------------------------
(***************************************************************************)
(* What a deal is worth in the reporting currency.  A deal keeps what the  *)
(* customer pays, and a figure converted at the rate of the moment it was  *)
(* written.  People write deals; an admin changes the reporting currency   *)
(* and the rates; a daily job fetches rates and fills what is missing.     *)
(* None of them holds a lock from what it reads to what it writes.         *)
(*                                                                         *)
(* Left out: how large a rate is, so a rate is there or it is not, and a   *)
(* figure says of what it was converted; names, stages and other fields.   *)
(***************************************************************************)
EXTENDS Naturals, FiniteSets

CONSTANTS
  Currency,   \* CURRENCY_CODES
  Amount,     \* what a deal may be worth
  Deal,
  Editor,     \* requests that write a deal, at once
  Admin,      \* requests that change currencies or rates, at once
  Daily,      \* the cron job
  None,       \* NULL
  Same,       \* an input that was not given
  MaxCall,    \* bound: requests of people, of either kind
  MaxLost     \* bound: calls that throw or die

ASSUME MoneyAssumption ==
  /\ IsFiniteSet(Currency) /\ {None, Same} \cap (Currency \cup Amount) = {} /\ None # Same
  /\ None \notin [amount : Amount \cup {None}, currency : Currency]
  /\ Daily \notin Admin /\ {MaxCall, MaxLost} \subseteq Nat

VARIABLES
  base,        \* appSetting.reportingCurrency
  fetched,     \* <<base, quote>> pairs of exchangeRate, by source
  manual,
  row,         \* row[d]: amount and currency of the deal, or None
  figure,      \* figure[d]: baseAmount by what was converted, or None
  edit,        \* edit[e]: a create or update under way
  job,         \* job[j]: a call of the settings, or of the cron job
  calls, lost, \* bounded counts
  overlapped   \* history: deals that two edits wrote at once

counts == <<calls, lost>>
rates == <<base, fetched, manual>>
deals == <<row, figure, overlapped>>
mvars == <<rates, deals, edit, job, counts>>

Job == Admin \cup {Daily}
Idle == [step |-> "idle"]
EditIs(e, s) == edit[e].step = s
JobIs(j, s) == job[j].step = s

MInit ==
  /\ base \in Currency /\ fetched = {} /\ manual = {}
  /\ row \in [Deal -> [amount : Amount, currency : Currency] \cup {None}]
  /\ figure = [d \in Deal |-> None]
  /\ edit = [e \in Editor |-> Idle] /\ job = [j \in Job |-> Idle]
  /\ calls = 0 /\ lost = 0
  /\ overlapped = {}

\* resolveRate; a rate somebody entered goes first, which tells no two rates
\* apart here.
HasRate(b, c) == b = c \/ <<b, c>> \in manual \cup fetched

\* Mutant of Pending: { not: base } alone, which is NULL for a NULL.
PendingNotNull(d, b) ==
  row[d] # None /\ row[d].amount # None /\ figure[d] # None /\ figure[d].into # b

\* pendingWhere
Pending(d, b) ==
  row[d] # None /\ row[d].amount # None /\ (figure[d] = None \/ figure[d].into # b)

\* countedWhere
Counted(d, b) == figure[d] # None /\ figure[d].into = b

-----------------------------------------------------------------------------
(* create and update.                                                      *)

Writing(d) == {e \in Editor : ~EditIs(e, "idle") /\ edit[e].deal = d}

StartEdit(e, d, new, amount, currency, c) ==
  /\ EditIs(e, "idle") /\ calls < MaxCall
  /\ calls' = calls + 1
  /\ edit' = [edit EXCEPT ![e] =
       [step |-> "base", deal |-> d, new |-> new, amount |-> amount, currency |-> currency,
        of |-> IF amount = Same THEN row[d].amount ELSE amount, from |-> c, figure |-> None]]
  /\ overlapped' = IF Writing(d) = {} THEN overlapped ELSE overlapped \cup {d}
  /\ UNCHANGED <<rates, row, figure, job, lost>>

\* A new row, in the reporting currency if none is given.
CreateDeal(e, d) ==
  /\ row[d] = None /\ Writing(d) = {}
  /\ \E a \in Amount \cup {None}, c \in Currency : StartEdit(e, d, TRUE, a, c, c)

\* Mutant of FromCurrency: the amount alone is converted from the reporting
\* currency, whatever the deal's is.
FromReporting(d, currency) == IF currency = Same THEN base ELSE currency

\* The currency of which the amount will be: the one given, or that of the row.
FromCurrency(d, currency) == IF currency = Same THEN row[d].currency ELSE currency

\* The row is read for the half that is not given.
UpdateDeal(e, d) ==
  /\ row[d] # None
  /\ \E a \in Amount \cup {None, Same}, c \in Currency \cup {Same} :
       <<a, c>> # <<Same, Same>> /\ StartEdit(e, d, FALSE, a, c, FromCurrency(d, c))

\* convert: the reporting currency, ...
EditAsksBase(e) ==
  /\ EditIs(e, "base")
  /\ edit' = [edit EXCEPT ![e].step = "rate", ![e].figure =
       IF edit[e].of = None THEN None ELSE [of |-> edit[e].of, from |-> edit[e].from, into |-> base]]
  /\ UNCHANGED <<rates, deals, job, counts>>

\* ... and the rate: without one there is no figure.
EditAsksRate(e) ==
  /\ EditIs(e, "rate")
  /\ edit' = [edit EXCEPT ![e].step = "write", ![e].figure =
       IF @ # None /\ HasRate(@.into, @.from) THEN @ ELSE None]
  /\ UNCHANGED <<rates, deals, job, counts>>

EditWrites(e) ==
  LET d == edit[e].deal
      keep(new, old) == IF new = Same THEN old ELSE new
  IN
  /\ EditIs(e, "write") /\ (row[d] # None \/ edit[e].new)
  /\ row' = [row EXCEPT ![d] =
       [amount |-> IF edit[e].amount = Same THEN row[d].amount ELSE edit[e].amount,
        currency |-> IF edit[e].currency = Same THEN row[d].currency ELSE edit[e].currency]]
  /\ figure' = [figure EXCEPT ![d] = edit[e].figure]
  /\ edit' = [edit EXCEPT ![e] = Idle]
  /\ UNCHANGED <<rates, job, counts, overlapped>>

\* The deal is gone, or a statement failed.
EditFails(e) ==
  /\ ~EditIs(e, "idle")
  /\ \/ EditIs(e, "write") /\ row[edit[e].deal] = None /\ ~edit[e].new /\ UNCHANGED lost
     \/ lost < MaxLost /\ lost' = lost + 1
  /\ edit' = [edit EXCEPT ![e] = Idle]
  /\ UNCHANGED <<rates, deals, job, calls>>

DeleteDeal(d) ==
  /\ row[d] # None
  /\ row' = [row EXCEPT ![d] = None] /\ figure' = [figure EXCEPT ![d] = None]
  /\ UNCHANGED <<rates, edit, job, counts, overlapped>>

-----------------------------------------------------------------------------
(* The settings, and the daily job.  A call goes on from step to step; its *)
(* "all" says whether it rates all deals anew or fills what is missing.    *)

Begin(j, s, all) ==
  job' = [job EXCEPT ![j] = [step |-> s, all |-> all, under |-> None, codes |-> {}, code |-> None]]

GoOn(j, s, under) == job' = [job EXCEPT ![j].step = s, ![j].under = under, ![j].code = None]

CallSettings(j) ==
  /\ JobIs(j, "idle") /\ j # Daily /\ calls < MaxCall
  /\ calls' = calls + 1
  /\ UNCHANGED <<deals, edit, lost>>

\* setReportingCurrency: written at once, then refreshed and re-rated.
SetReportingCurrency(j, c) ==
  /\ CallSettings(j) /\ c # base
  /\ base' = c
  /\ Begin(j, "refresh", TRUE)
  /\ UNCHANGED <<fetched, manual>>

\* setManualRate and removeManualRate
SetManualRate(j, c) ==
  /\ CallSettings(j) /\ c # base
  /\ manual' = manual \cup {<<base, c>>}
  /\ Begin(j, "rating", FALSE)
  /\ UNCHANGED <<base, fetched>>

RemoveManualRate(j, c) ==
  /\ CallSettings(j) /\ <<base, c>> \in manual
  /\ manual' = manual \ {<<base, c>>}
  /\ UNCHANGED <<base, fetched, job>>

\* refresh, of an admin or the cron job
PressRefresh(j) ==
  CallSettings(j) /\ Begin(j, "refresh", FALSE) /\ UNCHANGED rates

RunDaily ==
  /\ JobIs(Daily, "idle") /\ Begin(Daily, "refresh", FALSE)
  /\ UNCHANGED <<rates, deals, edit, counts>>

\* The rates of this currency are asked for, ...
AskProvider(j) ==
  /\ JobIs(j, "refresh")
  /\ GoOn(j, "asked", base)
  /\ UNCHANGED <<rates, deals, edit, counts>>

\* ... and stored for it, ...
ProviderAnswers(j) ==
  /\ JobIs(j, "asked") /\ GoOn(j, "rating", None)
  /\ fetched' = fetched \cup {<<job[j].under, c>> : c \in Currency \ {job[j].under}}
  /\ UNCHANGED <<base, manual, deals, edit, counts>>

\* ... or not: a change of the reporting currency goes on without.
ProviderFails(j) ==
  /\ JobIs(j, "asked")
  /\ IF job[j].all THEN GoOn(j, "rating", None) ELSE job' = [job EXCEPT ![j] = Idle]
  /\ UNCHANGED <<rates, deals, edit, counts>>

\* rerate reads the reporting currency, ...
BeginRating(j) ==
  /\ JobIs(j, "rating")
  /\ GoOn(j, "group", base)
  /\ UNCHANGED <<rates, deals, edit, counts>>

\* ... which currencies there are to convert, ...
Group(j) ==
  /\ JobIs(j, "group")
  /\ job' = [job EXCEPT ![j].step = "each", ![j].codes =
       {row[d].currency : d \in {x \in Deal : /\ row[x] # None /\ row[x].amount # None
                                              /\ job[j].all \/ Pending(x, job[j].under)}}]
  /\ UNCHANGED <<rates, deals, edit, counts>>

\* ... and each one's rate.
FindRate(j) ==
  /\ JobIs(j, "each")
  /\ \E c \in job[j].codes :
       job' = [job EXCEPT ![j].codes = @ \ {c}, ![j].code = c, ![j].step =
         IF HasRate(job[j].under, c) THEN "write" ELSE IF job[j].all THEN "clear" ELSE "each"]
  /\ UNCHANGED <<rates, deals, edit, counts>>

\* The deals the statement takes: what a deal is by now decides.
Taken(j) ==
  {d \in Deal : /\ row[d] # None /\ row[d].currency = job[j].code /\ row[d].amount # None
                /\ job[j].all \/ Pending(d, job[j].under)}

\* write
WriteRate(j) ==
  /\ JobIs(j, "write") /\ GoOn(j, "each", job[j].under)
  /\ figure' = [d \in Deal |->
       IF d \in Taken(j) THEN [of |-> row[d].amount, from |-> row[d].currency, into |-> job[j].under]
       ELSE figure[d]]
  /\ UNCHANGED <<rates, row, overlapped, edit, counts>>

\* clear
ClearRate(j) ==
  /\ JobIs(j, "clear") /\ GoOn(j, "each", job[j].under)
  /\ figure' = [d \in Deal |->
       IF row[d] # None /\ row[d].currency = job[j].code THEN None ELSE figure[d]]
  /\ UNCHANGED <<rates, row, overlapped, edit, counts>>

JobEnds(j) ==
  /\ JobIs(j, "each") /\ job[j].codes = {}
  /\ job' = [job EXCEPT ![j] = Idle]
  /\ UNCHANGED <<rates, deals, edit, counts>>

\* A statement fails, or the process dies.
JobFails(j) ==
  /\ ~JobIs(j, "idle") /\ lost < MaxLost
  /\ lost' = lost + 1
  /\ job' = [job EXCEPT ![j] = Idle]
  /\ UNCHANGED <<rates, deals, edit, calls>>

Rates(j) ==
  \/ AskProvider(j) \/ BeginRating(j) \/ Group(j) \/ FindRate(j)
  \/ WriteRate(j) \/ ClearRate(j) \/ JobEnds(j)

MNext ==
  \/ \E e \in Editor : \/ \E d \in Deal : CreateDeal(e, d) \/ UpdateDeal(e, d)
                       \/ EditAsksBase(e) \/ EditAsksRate(e) \/ EditWrites(e) \/ EditFails(e)
  \/ \E d \in Deal : DeleteDeal(d)
  \/ \E j \in Job, c \in Currency :
       SetReportingCurrency(j, c) \/ SetManualRate(j, c) \/ RemoveManualRate(j, c)
  \/ \E j \in Job :
       PressRefresh(j) \/ ProviderAnswers(j) \/ ProviderFails(j) \/ JobFails(j) \/ Rates(j)
  \/ RunDaily

MSpec == MInit /\ [][MNext]_mvars

-----------------------------------------------------------------------------
(* Properties.                                                             *)

\* Every variable has its type.
MTypeOK ==
  LET Rows == [amount : Amount \cup {None}, currency : Currency]
      Figures == [of : Amount, from : Currency, into : Currency]
  IN
  /\ base \in Currency /\ fetched \cup manual \subseteq Currency \X Currency
  /\ row \in [Deal -> Rows \cup {None}] /\ figure \in [Deal -> Figures \cup {None}]
  /\ calls \in 0..MaxCall /\ lost \in 0..MaxLost
  /\ overlapped \subseteq Deal

\* A figure is that of the deal's own amount and currency (docs/currency.md:24-27),
\* however edits, fills and re-ratings interleave; unless two edits of a deal
\* overlap, each with half of what the other writes.
FigureIsOwn ==
  \A d \in Deal \ overlapped : figure[d] # None =>
    /\ row[d] # None
    /\ figure[d].of = row[d].amount /\ figure[d].from = row[d].currency

\* When people and admins have come to rest, every deal that can be converted is
\* counted in the totals: whatever a late call or a lost one left behind,
\* the daily job fills.
DealsAreCounted ==
  \A d \in Deal : <>[](row[d] # None /\ row[d].amount # None => Counted(d, base))

\* docs/currency.md:28: "fillMissing() never touches a converted deal", one whose
\* figure is in the reporting currency.
FillLeavesConverted ==
  [][\A j \in Job : WriteRate(j) /\ ~job[j].all =>
       \A d \in Deal : Counted(d, base) => figure'[d] = figure[d]]_mvars
=============================================================================
