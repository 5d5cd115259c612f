------------------------------ MODULE FactLedger ------------------------------
(***************************************************************************)
(* One field of a contact that has a column (title, linkedinUrl, ...): the *)
(* facts the agent offers for it, and what stands in the column.  The      *)
(* agent's calls of recordFact, the sweep that fills blanks, a rep who     *)
(* settles suggestions, and a person who types, all at once.               *)
(*                                                                         *)
(* What applies a fact, whoever does it, is a transaction of two           *)
(* statements: the standing facts of the field are marked superseded       *)
(* (Displace), then the fact and the column are written (Apply).  Under    *)
(* READ COMMITTED another transaction may commit in between, and the rows  *)
(* the first statement found stay locked until the second.                 *)
(*                                                                         *)
(* Values are compared in their canonical form, so a value is that form.   *)
(* A band is "strong" when it is VERIFIED; evidence below the floor is not *)
(* stored and is not an action.                                            *)
(***************************************************************************)
EXTENDS Naturals, FiniteSets

CONSTANTS
  Value,    \* canonical values
  Blank,    \* the empty column
  MaxFact,  \* bound: facts of the field
  MaxDecide, \* bound: decisions of the rep
  Caller    \* recordFact calls under way at once

CONSTANTS Sweeper, Rep  \* the other two that write

ASSUME FactAssumption ==
  /\ Blank \notin Value /\ MaxFact \in Nat \ {0} /\ MaxDecide \in Nat
  /\ Sweeper # Rep /\ {Sweeper, Rep} \cap Caller = {}

VARIABLES
  column,  \* contact[column]
  typed,   \* history: a person typed what is in the column
  unseen,  \* history: writers that read the contact before its last edit
  value,   \* value[f]
  status,  \* status[f], "none" before the row exists
  doing,   \* doing[w]: where a writer stands and what it has read
  decided  \* decisions the rep has begun

fvars == <<column, typed, unseen, value, status, doing, decided>>

Fact == 1..MaxFact
Writer == Caller \cup {Sweeper, Rep}
Status == {"none", "PROPOSED", "APPLIED", "SUPERSEDED", "DISMISSED"}

\* What a writer has read: the fact it works on or the group of them, its
\* value, the column, whether the field had an applied fact; and the rows
\* its transaction has locked.
Idle == [at |-> "idle", fact |-> 0, group |-> {}, value |-> Blank,
         strong |-> FALSE, column |-> Blank, agents |-> FALSE, rows |-> {}]

With(s) == {f \in Fact : status[f] = s}
Standing == With("APPLIED") \cup With("PROPOSED")
Fresh == {f \in With("none") : \A g \in Fact : g < f => status[g] # "none"}

\* Rows a transaction has updated and not committed, its own included.
Locked(w) == UNION {doing[v].rows : v \in Writer \ {w}}

\* The suggestions a field has are older than the sweep, or somebody cleared
\* the field since.
FInit ==
  /\ column \in Value \cup {Blank} /\ typed = (column # Blank)
  /\ unseen = {}
  /\ \E n \in 0..MaxFact :
       /\ value \in [Fact -> Value \cup {Blank}]
       /\ \A f \in Fact : (value[f] # Blank) = (f <= n)
       /\ status = [f \in Fact |-> IF f <= n THEN "PROPOSED" ELSE "none"]
  /\ doing = [w \in Writer |-> Idle] /\ decided = 0

-----------------------------------------------------------------------------
(* Who owns the field.                                                     *)

\* Mutant of HumanOwns: only a blank is looked for.
HumanOwnsNothing(col, agents) == FALSE

\* Once the agent has an applied fact the field counts as the agent's,
\* whoever wrote last.
HumanOwns(col, agents) == ~agents /\ col # Blank

\* Mutant of FillsBlank: a field is blank only while the agent has a fact.
FillsBlankOfAgent(col, agents) == ~HumanOwns(col, agents) /\ agents /\ col = Blank

FillsBlank(col, agents) == ~HumanOwns(col, agents) /\ ~agents /\ col = Blank

-----------------------------------------------------------------------------
(* recordFact.                                                             *)

ReadContact(c) ==
  /\ doing[c].at = "idle"
  /\ Cardinality(With("none")) > Cardinality({d \in Caller : doing[d].at # "idle"})
  /\ \E v \in Value, strong \in BOOLEAN :
       doing' = [doing EXCEPT ![c] =
         [Idle EXCEPT !.at = "looking", !.value = v, !.strong = strong,
                      !.column = column]]
  /\ unseen' = unseen \ {c}
  /\ UNCHANGED <<column, typed, value, status, decided>>

Dismissed(v) == \E f \in With("DISMISSED") : value[f] = v
OnRecord(v) == \E f \in With("APPLIED") : value[f] = v
Offered(v) == \E f \in With("PROPOSED") : value[f] = v

\* The facts are read and the call decides: it has nothing to say, or it
\* applies its value, or it offers it.
ReadFacts(c) ==
  LET d == doing[c]
      agents == With("APPLIED") # {}
      applies == d.strong \/ FillsBlank(d.column, agents)
  IN /\ c \in Caller /\ d.at = "looking"
     /\ doing' = [doing EXCEPT ![c] =
          IF Dismissed(d.value) \/ OnRecord(d.value) \/ HumanOwns(d.column, agents)
             \/ (~applies /\ Offered(d.value))
          THEN Idle
          ELSE [@ EXCEPT !.at = IF applies THEN "applying" ELSE "offering",
                         !.agents = agents]]
     /\ UNCHANGED <<column, typed, unseen, value, status, decided>>

\* A proposal for a rep.
Offer(c) ==
  /\ doing[c].at = "offering"
  /\ \E f \in Fresh : /\ value' = [value EXCEPT ![f] = doing[c].value]
                      /\ status' = [status EXCEPT ![f] = "PROPOSED"]
  /\ doing' = [doing EXCEPT ![c] = Idle]
  /\ UNCHANGED <<column, typed, unseen, decided>>

-----------------------------------------------------------------------------
(* The transaction that applies a fact: recordFact, fill, decideFact.      *)

Displace(w) ==
  /\ doing[w].at = "applying"
  /\ (Standing \ {doing[w].fact}) \cap Locked(w) = {}
  /\ doing' = [doing EXCEPT ![w].at = "applied",
                            ![w].rows = Standing \ {doing[w].fact}]
  /\ UNCHANGED <<column, typed, unseen, value, status, decided>>

\* recordFact creates its fact, the others have one, whatever its status is
\* by now.
Apply(w) ==
  /\ doing[w].at = "applied"
  /\ \E f \in IF doing[w].fact = 0 THEN Fresh ELSE {doing[w].fact} \ Locked(w) :
       /\ value' = [value EXCEPT ![f] = doing[w].value]
       /\ status' = [g \in Fact |-> IF g = f THEN "APPLIED"
                                    ELSE IF g \in doing[w].rows THEN "SUPERSEDED"
                                    ELSE status[g]]
  /\ column' = doing[w].value /\ typed' = FALSE
  /\ doing' = [doing EXCEPT ![w] = Idle]
  /\ UNCHANGED <<unseen, decided>>

\* Two transactions that each hold the other's fact: Postgres ends one.
Deadlocked(w, v) ==
  /\ doing[w].at = "applied" /\ doing[w].fact \in doing[v].rows
  /\ doing[v].at = "applied" /\ doing[v].fact \in doing[w].rows

Abort(w) ==
  /\ \E v \in Writer : Deadlocked(w, v)
  /\ doing' = [doing EXCEPT ![w] = Idle]
  /\ UNCHANGED <<column, typed, unseen, value, status, decided>>

-----------------------------------------------------------------------------
(* sweepBlankFacts.                                                        *)

SweepReads ==
  /\ doing[Sweeper].at = "idle" /\ With("PROPOSED") # {}
  /\ doing' = [doing EXCEPT ![Sweeper] =
       [Idle EXCEPT !.at = "looking", !.column = column, !.group = With("PROPOSED")]]
  /\ unseen' = unseen \ {Sweeper}
  /\ UNCHANGED <<column, typed, value, status, decided>>

\* redundant: what equals the record, and all but the first of equal values.
\* The group is ordered by score and best is its first.
Redundant(group, best, current) ==
  {f \in group :
     \/ value[f] = current
     \/ \E g \in group \ {f} :
          value[g] = value[f] /\ (g = best \/ (f # best /\ g < f))}

\* appliedValues, and the verdict on the group.
SweepDecides ==
  LET d == doing[Sweeper]
      agents == With("APPLIED") # {}
  IN /\ d.at = "looking"
     /\ \E best \in d.group, a \in With("APPLIED") \cup {0} :
          /\ (a = 0) = ~agents
          /\ LET stale == Redundant(d.group, best, IF a = 0 THEN d.column ELSE value[a])
             IN doing' = [doing EXCEPT ![Sweeper] =
                  IF FillsBlank(d.column, agents)
                  THEN [Idle EXCEPT !.at = "applying", !.fact = best, !.value = value[best]]
                  ELSE IF stale = {} THEN Idle
                  ELSE [Idle EXCEPT !.at = "settling", !.group = stale]]
     /\ UNCHANGED <<column, typed, unseen, value, status, decided>>

\* By id, whatever became of the facts.
SweepSettles ==
  /\ doing[Sweeper].at = "settling"
  /\ doing[Sweeper].group \cap Locked(Sweeper) = {}
  /\ status' = [f \in Fact |-> IF f \in doing[Sweeper].group THEN "SUPERSEDED"
                               ELSE status[f]]
  /\ doing' = [doing EXCEPT ![Sweeper] = Idle]
  /\ UNCHANGED <<column, typed, unseen, value, decided>>

-----------------------------------------------------------------------------
(* People.                                                                 *)

\* decideFact looks at the fact before its transaction.
Decide(f) ==
  /\ doing[Rep].at = "idle" /\ status[f] = "PROPOSED"
  /\ decided < MaxDecide /\ decided' = decided + 1
  /\ \E next \in {"applying", "dismissing"} :
       doing' = [doing EXCEPT ![Rep] =
                   [Idle EXCEPT !.at = next, !.fact = f, !.value = value[f]]]
  /\ UNCHANGED <<column, typed, unseen, value, status>>

Dismiss ==
  /\ doing[Rep].at = "dismissing" /\ doing[Rep].fact \notin Locked(Rep)
  /\ status' = [status EXCEPT ![doing[Rep].fact] = "DISMISSED"]
  /\ doing' = [doing EXCEPT ![Rep] = Idle]
  /\ UNCHANGED <<column, typed, unseen, value, decided>>

\* update, from the record page.
Edit ==
  /\ \E v \in Value \cup {Blank} : column' = v /\ typed' = (v # Blank)
  /\ unseen' = Caller \cup {Sweeper}
  /\ UNCHANGED <<value, status, doing, decided>>

FNext ==
  \/ \E c \in Caller : ReadContact(c) \/ ReadFacts(c) \/ Offer(c)
  \/ \E w \in Writer : Displace(w) \/ Apply(w) \/ Abort(w)
  \/ SweepReads \/ SweepDecides \/ SweepSettles
  \/ (\E f \in Fact : Decide(f)) \/ Dismiss \/ Edit

FSpec == FInit /\ [][FNext]_fvars

\* What is fair: the sweep comes round, and a transaction ends, that is, a
\* writer that waits for a row gets it or is the victim of a deadlock.
BlankSweep == SweepReads \/ SweepDecides \/ SweepSettles
Ending(w) == Displace(w) \/ Apply(w) \/ Abort(w)

-----------------------------------------------------------------------------
(* Properties.                                                             *)

\* Every variable has its type (schema.prisma, ContactFact).
FTypeOK ==
  /\ column \in Value \cup {Blank} /\ typed \in BOOLEAN
  /\ unseen \subseteq Writer
  /\ value \in [Fact -> Value \cup {Blank}] /\ status \in [Fact -> Status]
  /\ decided \in 0..MaxDecide
  /\ doing \in [Writer ->
       [at : {"idle", "looking", "offering", "settling", "dismissing", "applying", "applied"},
        fact : 0..MaxFact, group : SUBSET Fact, value : Value \cup {Blank},
        strong : BOOLEAN, column : Value \cup {Blank}, agents : BOOLEAN,
        rows : SUBSET Fact]]

\* w writes the column.
Overwrites(w) == doing[w].at = "applied" /\ doing'[w].at = "idle" /\ typed /\ ~typed'

\* What a person typed is overwritten by a rep who accepts a suggestion, by a
\* writer that read the contact before the person typed, or in a field for
\* which the agent had an applied fact: by nothing else, the sweep included
\* (facts.ts:157-176, blank-facts.ts:83-88).
PersonKeepsField ==
  [][\A w \in Writer : Overwrites(w) => w = Rep \/ w \in unseen \/ doing[w].agents]_fvars

\* docs/agent.md:157 says more: the agent never overwrites what a human typed,
\* if it could have seen it.
HumanNeverOverwritten ==
  [][\A w \in Writer : Overwrites(w) => w = Rep \/ w \in unseen]_fvars

IsBlank == column = Blank /\ With("APPLIED") = {}

\* A blank field for which there is a suggestion does not stay blank: the
\* sweep fills it unless people settle every suggestion (blank-facts.ts:44).
BlanksAreFilled == (IsBlank /\ With("PROPOSED") # {}) ~> ~(IsBlank /\ With("PROPOSED") # {})
=============================================================================
