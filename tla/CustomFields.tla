------------------------------ MODULE CustomFields ------------------------------
(***************************************************************************)
(* A field the workspace made up, its options, and the value it has on one *)
(* record.  Admins change the definition, people and the agent write the   *)
(* value; each reads the definition first and writes later, and a form     *)
(* shows the options of the moment it was opened.                          *)
(*                                                                         *)
(* Left out: labels, keys, positions, what is shown where, required        *)
(* fields, and types other than text and select.                           *)
(***************************************************************************)
EXTENDS Naturals, FiniteSets

CONSTANTS
  Option,    \* rows of fieldOption
  Change,    \* requests that change the definition, at once
  Writer,    \* requests that write the value, at once
  Agent,     \* the writer that is the agent
  None,      \* NULL, or nothing given
  MaxChange  \* bound: changes of the definition

ASSUME FieldsAssumption ==
  /\ IsFiniteSet(Option) /\ None \notin Option /\ Agent \in Writer /\ MaxChange \in Nat

VARIABLES
  field,    \* the definition: type, agentFilled, archived; or None
  option,   \* option[o]: "none" before it is made, "live", "archived"
  value,    \* the record's row, a column for each type; or None
  change,   \* change[c]: a request under way
  write,    \* write[w]: a request under way
  backfill, \* unfinished field-backfill tasks
  changes,  \* bounded count
  collided   \* history: a change of the type and another write overlapped

definition == <<field, option>>
requests == <<change, write>>
ivars == <<definition, value, requests, backfill, changes, collided>>

Type == {"text", "select"}
NoRequest == [step |-> "rest"]
Live == {o \in Option : option[o] = "live"}
Present == field # None /\ ~field.archived

IInit ==
  /\ field = None /\ option = [o \in Option |-> "none"] /\ value = None
  /\ change = [c \in Change |-> NoRequest] /\ write = [w \in Writer |-> NoRequest]
  /\ backfill = 0 /\ changes = 0 /\ collided = FALSE

Changing ==
  /\ changes < MaxChange /\ changes' = changes + 1
  /\ UNCHANGED <<value, write, collided>>

\* A change that has found no value, and will change the type.
Retype(c) == change[c].step = "write" /\ change[c].type # change[c].was

-----------------------------------------------------------------------------
(* The definition.                                                         *)

\* create: a select needs an option.  There is one field, which is made first.
\* One that the agent makes is the agent's to fill, and queues no task.
CreateField(c) ==
  /\ Changing /\ changes = 0 /\ change[c].step = "rest"
  /\ \E t \in Type, fill, byAgent \in BOOLEAN, O \in SUBSET {o \in Option : option[o] = "none"} :
       /\ t = "select" <=> O # {}
       /\ byAgent => fill
       /\ field' = [type |-> t, agentFilled |-> fill, archived |-> FALSE]
       /\ option' = [o \in Option |-> IF o \in O THEN "live" ELSE option[o]]
       /\ change' = [change EXCEPT ![c].step = IF fill /\ ~byAgent THEN "pending" ELSE "rest"]
  /\ UNCHANGED backfill

\* update reads the definition.  The options given are those of a form, which
\* may be of an earlier moment, and perhaps a new one; how many there are is
\* all that is looked at.
ReadForUpdate(c) ==
  /\ Changing /\ field # None /\ change[c].step = "rest"
  /\ \E t \in Type, retyped, fill, new \in BOOLEAN, keep \in SUBSET {o \in Option : option[o] # "none"} :
       LET given == keep # {} \/ new IN
       /\ retyped \/ t = field.type
       /\ t = "select" => given \/ Live # {}
       /\ change' = [change EXCEPT ![c] =
            [step |-> IF t # field.type THEN "count" ELSE "write", type |-> t, retyped |-> retyped,
             was |-> field.type, fill |-> fill, filled |-> field.agentFilled,
             given |-> given /\ t = "select", keep |-> keep, new |-> new]]
  /\ UNCHANGED <<definition, backfill>>

\* Mutant of CountValues: values do not keep a type from changing.
CountNothing(c) ==
  /\ change[c].step = "count"
  /\ change' = [change EXCEPT ![c].step = "write"]
  /\ UNCHANGED <<definition, value, write, backfill, changes, collided>>

\* A field that holds values keeps its type.
CountValues(c) ==
  /\ change[c].step = "count"
  /\ change' = [change EXCEPT ![c] = IF value # None THEN NoRequest ELSE [@ EXCEPT !.step = "write"]]
  /\ UNCHANGED <<definition, value, write, backfill, changes, collided>>

\* The transaction: options that are not in the list are archived, those that
\* are keep their state, a new one is made.
WriteUpdate(c) ==
  LET asked == change[c]
      type == IF asked.retyped THEN asked.type ELSE field.type
  IN
  /\ asked.step = "write" /\ field # None
  /\ field' = [field EXCEPT !.type = type, !.agentFilled = asked.fill]
  /\ \E made \in SUBSET {o \in Option : option[o] = "none"} :
       /\ Cardinality(made) = IF asked.given /\ asked.new THEN 1 ELSE 0
       /\ option' = [o \in Option |->
            CASE o \in made -> "live"
              [] asked.given /\ option[o] = "live" /\ o \notin made \cup asked.keep -> "archived"
              [] OTHER -> option[o]]
  /\ \E rebriefed \in BOOLEAN : change' = [change EXCEPT ![c] =
       [step |-> IF asked.fill /\ (rebriefed \/ ~asked.filled) THEN "pending" ELSE "rest"]]
  /\ collided' = (collided \/ (type # field.type /\
       (asked.was # field.type \/ \E w \in Writer : write[w].step = "write")))
  /\ UNCHANGED <<value, write, backfill, changes>>

\* The field is gone, or there is no row for a new option in this model.
UpdateFails(c) ==
  /\ change[c].step = "write" /\ (field = None \/ \A o \in Option : option[o] # "none")
  /\ change' = [change EXCEPT ![c] = NoRequest]
  /\ UNCHANGED <<definition, value, write, backfill, changes, collided>>

\* fieldBackfill looks for an unfinished task, ...
LookForBackfill(c) ==
  /\ change[c].step = "pending"
  /\ change' = [change EXCEPT ![c].step = IF backfill > 0 THEN "rest" ELSE "queue"]
  /\ UNCHANGED <<definition, value, write, backfill, changes, collided>>

\* ... and makes one, or fails, which is logged.
QueueBackfill(c) ==
  /\ change[c].step = "queue"
  /\ change' = [change EXCEPT ![c] = NoRequest]
  /\ backfill' \in {backfill, backfill + 1}
  /\ UNCHANGED <<definition, value, write, changes, collided>>

\* backfill: an admin asks for one.
AskBackfill(c) ==
  /\ Changing /\ change[c].step = "rest" /\ Present /\ field.agentFilled
  /\ change' = [change EXCEPT ![c] = [step |-> "pending"]]
  /\ UNCHANGED <<definition, backfill>>

FinishBackfill ==
  /\ backfill > 0 /\ backfill' = backfill - 1
  /\ UNCHANGED <<definition, value, requests, changes, collided>>

\* archive and restore, which the agent's tool does too
Archive ==
  /\ Changing /\ field # None
  /\ field' = [field EXCEPT !.archived = ~@]
  /\ UNCHANGED <<option, change, backfill>>

\* updateFieldBrief, of the agent: no task is queued.
UpdateBrief ==
  /\ Changing /\ field # None
  /\ field' = [field EXCEPT !.agentFilled = ~@]
  /\ UNCHANGED <<option, change, backfill>>

\* delete takes the options and the values along.
DeleteField ==
  /\ field # None /\ field' = None
  /\ option' = [o \in Option |-> "none"] /\ value' = None
  /\ UNCHANGED <<requests, backfill, changes, collided>>

-----------------------------------------------------------------------------
(* The value.                                                              *)

\* applyValues and writeField read the definition and check the value: a
\* blank, a text, a live option.  The agent leaves manual fields alone.
ReadForWrite(w) ==
  /\ write[w].step = "rest" /\ Present /\ (w = Agent => field.agentFilled)
  /\ \E v \in {None} \cup (IF field.type = "text" THEN {"text"} ELSE Live) :
       write' = [write EXCEPT ![w] = [step |-> "write", type |-> field.type, to |-> v]]
  /\ UNCHANGED <<definition, value, change, backfill, changes, collided>>

\* writeValues: the row is deleted, or its column for that type written and the
\* other columns left.
WriteValue(w) ==
  LET old == IF value = None THEN [text |-> None, select |-> None] ELSE value IN
  /\ write[w].step = "write" /\ field # None
  /\ write[w].type = "select" /\ write[w].to # None => option[write[w].to] # "none"
  /\ value' = IF write[w].to = None THEN None ELSE [old EXCEPT ![write[w].type] = write[w].to]
  /\ write' = [write EXCEPT ![w] = NoRequest]
  /\ collided' = (collided \/ write[w].type # field.type \/ \E c \in Change : Retype(c))
  /\ UNCHANGED <<definition, change, backfill, changes>>

WriteFails(w) ==
  /\ write[w].step = "write"
  /\ write' = [write EXCEPT ![w] = NoRequest]
  /\ UNCHANGED <<definition, value, change, backfill, changes, collided>>

INext ==
  \/ \E c \in Change : \/ CreateField(c) \/ ReadForUpdate(c) \/ CountValues(c) \/ WriteUpdate(c)
                       \/ UpdateFails(c) \/ LookForBackfill(c) \/ QueueBackfill(c) \/ AskBackfill(c)
  \/ \E w \in Writer : ReadForWrite(w) \/ WriteValue(w) \/ WriteFails(w)
  \/ FinishBackfill \/ Archive \/ UpdateBrief \/ DeleteField

ISpec == IInit /\ [][INext]_ivars

-----------------------------------------------------------------------------
(* Properties.                                                             *)

\* Every variable has its type.
ITypeOK ==
  /\ field \in [type : Type, agentFilled : BOOLEAN, archived : BOOLEAN] \cup {None}
  /\ option \in [Option -> {"none", "live", "archived"}]
  /\ value \in [text : {"text", None}, select : Option \cup {None}] \cup {None}
  /\ backfill \in 0..MaxChange /\ changes \in 0..MaxChange /\ collided \in BOOLEAN

\* fields.service.ts:165: "A select needs at least one option."
SelectHasOptions == field # None /\ field.type = "select" => Live # {}

\* A value that is stored is one of the field's type, which is what every reader
\* shows: nobody loses it to a change of the type (fields.service.ts:155), unless
\* that change overlapped a write of the value, or another change of the type.
TypeFitsValues == value # None /\ ~collided => value[field.type] # None
=============================================================================
