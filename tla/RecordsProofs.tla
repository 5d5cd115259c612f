----------------------------- MODULE RecordsProofs -----------------------------
(***************************************************************************)
(* Proofs about what requests and the agent write of a record: the value   *)
(* of a field the workspace made up (CustomFields), the timeline of a deal *)
(* (DealTimeline) and the status of the research (EnrichmentStatus), for   *)
(* any number of requests, options, deals, tasks and records.              *)
(***************************************************************************)
EXTENDS EnrichmentStatus, CustomFields, DealTimeline, TaskQueueProofs, FiniteSetTheorems, WellFoundedInduction

(***************************************************************************)
(* The value of a field.  A change of its type looks for a value long      *)
(* before it writes; what it found is still so unless a write of the value *)
(* came in between, which is when the two have collided.                   *)
(***************************************************************************)
FieldType == [type : Type, agentFilled : BOOLEAN, archived : BOOLEAN]
ValueType == [text : {"text", None}, select : Option \cup {None}]
Unwritten == [step : {"rest", "pending", "queue"}]
Asked == [step : {"count", "write"}, type : Type, retyped : BOOLEAN, was : Type, fill : BOOLEAN,
          filled : BOOLEAN, given : BOOLEAN, keep : SUBSET Option, new : BOOLEAN]
ToText == [step : {"write"}, type : {"text"}, to : {"text", None}]
ToSelect == [step : {"write"}, type : {"select"}, to : Option \cup {None}]

DefinitionTypes == field \in FieldType \cup {None} /\ option \in [Option -> {"none", "live", "archived"}]
ChangeTypes == change \in [Change -> Unwritten \cup Asked] /\ changes \in 0..MaxChange
WriteTypes == write \in [Writer -> [step : {"rest"}] \cup ToText \cup ToSelect]
ValueTypes == value \in ValueType \cup {None} /\ collided \in BOOLEAN

\* A value has a field, which has been made.
ValueHasItsField == (value # None => field \in FieldType) /\ (changes = 0 => field = None /\ value = None)

\* What a change of the type found is still so.
NoValueFound == ~collided => \A c \in Change : Retype(c) => value = None

\* Changes that are at something.
Busy == {c \in Change : change[c].step # "rest"}

\* Each backfill that is unfinished or to be queued is of a change of its own.
BackfillsAreAsked ==
  backfill \in Nat /\ IsFiniteSet(Busy) /\ backfill + Cardinality(Busy) <= changes

FieldTypes == DefinitionTypes /\ ChangeTypes /\ WriteTypes /\ ValueTypes
FieldInv == FieldTypes /\ ValueHasItsField /\ NoValueFound /\ BackfillsAreAsked /\ TypeFitsValues

LEMMA FieldBounds == MaxChange \in Nat /\ None \notin Option /\ IsFiniteSet(Option)
BY FieldsAssumption

\* The steps of a request that changes the definition.
Defines(c) ==
  \/ CreateField(c) \/ ReadForUpdate(c) \/ CountValues(c) \/ WriteUpdate(c)
  \/ UpdateFails(c) \/ LookForBackfill(c) \/ QueueBackfill(c) \/ AskBackfill(c)
Writes(w) == ReadForWrite(w) \/ WriteValue(w) \/ WriteFails(w)

LEMMA AskedIsAsked ==
  ASSUME ChangeTypes, NEW c \in Change, change[c].step \in {"count", "write"}
  PROVE  change[c] \in Asked
<1>1. change[c] \in Unwritten \cup Asked
  BY DEF ChangeTypes
<1>2. change[c] \notin Unwritten
  BY DEF Unwritten
<1>. QED
  BY <1>1, <1>2

LEMMA ChangesTyped ==
  ASSUME FieldTypes, NEW c \in Change, Defines(c)
  PROVE  ChangeTypes'
<1> USE FieldBounds DEF FieldTypes
<1>1. \A x \in Unwritten \cup Asked : [change EXCEPT ![c] = x] \in [Change -> Unwritten \cup Asked]
  BY DEF ChangeTypes
<1>2. changes \in 0..MaxChange /\ (Changing => changes' \in 0..MaxChange)
  BY DEF ChangeTypes, Changing
<1>3. NoRequest \in Unwritten /\ \A p \in {"rest", "pending", "queue"} : [step |-> p] \in Unwritten
  BY DEF NoRequest, Unwritten
<1>4. ASSUME NEW p \in {"rest", "pending", "queue"}, change[c].step \in {"rest", "pending"}
      PROVE  [change EXCEPT ![c].step = p] \in [Change -> Unwritten \cup Asked]
  <2>1. change[c] \in Unwritten
    BY <1>4 DEF ChangeTypes, Unwritten, Asked
  <2>2. [change[c] EXCEPT !.step = p] \in Unwritten
    BY <2>1 DEF Unwritten
  <2>. QED
    BY <1>1, <2>2
<1>5. CASE CreateField(c)
  BY <1>2, <1>4, <1>5 DEF CreateField, ChangeTypes
<1>6. CASE ReadForUpdate(c)
  <2>1. field \in FieldType
    BY <1>6 DEF ReadForUpdate, DefinitionTypes
  <2>2. PICK t \in Type, retyped, fill, new \in BOOLEAN, keep \in SUBSET {o \in Option : option[o] # "none"} :
          LET given == keep # {} \/ new IN
          /\ retyped \/ t = field.type
          /\ t = "select" => given \/ Live # {}
          /\ change' = [change EXCEPT ![c] =
               [step |-> IF t # field.type THEN "count" ELSE "write", type |-> t, retyped |-> retyped,
                was |-> field.type, fill |-> fill, filled |-> field.agentFilled,
                given |-> given /\ t = "select", keep |-> keep, new |-> new]]
    BY <1>6 DEF ReadForUpdate
  <2>3. field.type \in Type /\ field.agentFilled \in BOOLEAN /\ keep \in SUBSET Option
    BY <2>1 DEF FieldType
  <2>4. ((keep # {} \/ new) /\ t = "select") \in BOOLEAN
    OBVIOUS
  <2>5. [step |-> IF t # field.type THEN "count" ELSE "write", type |-> t, retyped |-> retyped,
         was |-> field.type, fill |-> fill, filled |-> field.agentFilled,
         given |-> (keep # {} \/ new) /\ t = "select", keep |-> keep, new |-> new] \in Asked
    BY <2>3, <2>4 DEF Asked
  <2>. QED
    BY <1>1, <1>2, <1>6, <2>2, <2>5 DEF ReadForUpdate, ChangeTypes
<1>7. CASE CountValues(c)
  <2>1. change[c] \in Asked
    BY <1>7, AskedIsAsked DEF CountValues
  <2>2. [change[c] EXCEPT !.step = "write"] \in Asked
    BY <2>1 DEF Asked
  <2>. QED
    BY <1>1, <1>2, <1>3, <1>7, <2>2 DEF CountValues, ChangeTypes
<1>8. CASE WriteUpdate(c)
  <2>1. PICK p \in {"rest", "pending", "queue"} : change' = [change EXCEPT ![c] = [step |-> p]]
    BY <1>8 DEF WriteUpdate
  <2>. QED
    BY <1>1, <1>2, <1>3, <1>8, <2>1 DEF WriteUpdate, ChangeTypes
<1>9. CASE UpdateFails(c) \/ QueueBackfill(c)
  BY <1>1, <1>2, <1>3, <1>9 DEF UpdateFails, QueueBackfill, ChangeTypes
<1>10. CASE LookForBackfill(c)
  BY <1>2, <1>4, <1>10 DEF LookForBackfill, ChangeTypes
<1>11. CASE AskBackfill(c)
  BY <1>1, <1>2, <1>3, <1>11 DEF AskBackfill, ChangeTypes
<1>. QED
  BY <1>5, <1>6, <1>7, <1>8, <1>9, <1>10, <1>11 DEF Defines

LEMMA DefinitionTyped == ASSUME FieldTypes, INext PROVE DefinitionTypes'
<1> USE DEF FieldTypes, DefinitionTypes, definition
<1>1. ASSUME NEW c \in Change, CreateField(c) PROVE DefinitionTypes'
  BY <1>1 DEF CreateField, FieldType
<1>2. ASSUME NEW c \in Change, WriteUpdate(c) PROVE DefinitionTypes'
  <2>1. change[c] \in Asked
    BY <1>2, AskedIsAsked DEF WriteUpdate
  <2>2. field \in FieldType
    BY <1>2 DEF WriteUpdate
  <2>3. /\ (IF change[c].retyped THEN change[c].type ELSE field.type) \in Type
        /\ change[c].fill \in BOOLEAN
    BY <2>1, <2>2 DEF Asked, FieldType
  <2>4. field' \in FieldType
    BY <1>2, <2>2, <2>3 DEF WriteUpdate, FieldType
  <2>5. option' \in [Option -> {"none", "live", "archived"}]
    <3>1. PICK made \in SUBSET {o \in Option : option[o] = "none"} :
            option' = [o \in Option |->
              CASE o \in made -> "live"
                [] change[c].given /\ option[o] = "live" /\ o \notin made \cup change[c].keep -> "archived"
                [] OTHER -> option[o]]
      BY <1>2 DEF WriteUpdate
    <3>2. \A o \in Option : option'[o] \in {"none", "live", "archived"}
      BY <3>1
    <3>. QED
      BY <3>1, <3>2
  <2>. QED
    BY <2>4, <2>5
<1>3. ASSUME NEW c \in Change, \/ ReadForUpdate(c) \/ CountValues(c) \/ UpdateFails(c) \/ LookForBackfill(c)
                               \/ QueueBackfill(c) \/ AskBackfill(c)
      PROVE  DefinitionTypes'
  BY <1>3 DEF ReadForUpdate, CountValues, UpdateFails, LookForBackfill, QueueBackfill, AskBackfill
<1>4. ASSUME NEW w \in Writer, Writes(w) PROVE DefinitionTypes'
  BY <1>4 DEF Writes, ReadForWrite, WriteValue, WriteFails
<1>5. CASE Archive \/ UpdateBrief
  BY <1>5 DEF Archive, UpdateBrief, FieldType
<1>6. CASE FinishBackfill \/ DeleteField
  BY <1>6 DEF FinishBackfill, DeleteField
<1>. QED
  BY <1>1, <1>2, <1>3, <1>4, <1>5, <1>6 DEF INext, Writes

LEMMA WrittenValue ==
  ASSUME FieldTypes, NEW w \in Writer, WriteValue(w)
  PROVE  /\ write[w].type \in Type
         /\ write[w].to = None => value' = None
         /\ write[w].to # None => value' \in ValueType /\ value'[write[w].type] = write[w].to
<1> DEFINE old == IF value = None THEN [text |-> None, select |-> None] ELSE value
<1>1. old \in ValueType
  BY DEF FieldTypes, ValueTypes, ValueType
<1>2. write[w] \in ToText \cup ToSelect
  <2>1. write[w] \in [step : {"rest"}] \cup ToText \cup ToSelect
    BY DEF FieldTypes, WriteTypes
  <2>. QED
    BY <2>1 DEF WriteValue
<1>3. value' = IF write[w].to = None THEN None ELSE [old EXCEPT ![write[w].type] = write[w].to]
  BY DEF WriteValue
<1> HIDE DEF old
<1>4. CASE write[w] \in ToText
  <2>1. write[w].type = "text" /\ write[w].to \in {"text", None}
    BY <1>4 DEF ToText
  <2>2. [old EXCEPT !["text"] = write[w].to] \in ValueType /\ [old EXCEPT !["text"] = write[w].to]["text"] = write[w].to
    BY <1>1, <2>1 DEF ValueType
  <2>. QED
    BY <1>3, <2>1, <2>2 DEF Type
<1>5. CASE write[w] \in ToSelect
  <2>1. write[w].type = "select" /\ write[w].to \in Option \cup {None}
    BY <1>5 DEF ToSelect
  <2>2. [old EXCEPT !["select"] = write[w].to] \in ValueType /\ [old EXCEPT !["select"] = write[w].to]["select"] = write[w].to
    BY <1>1, <2>1 DEF ValueType
  <2>. QED
    BY <1>3, <2>1, <2>2 DEF Type
<1>. QED
  BY <1>2, <1>4, <1>5

LEMMA WritesTyped == ASSUME FieldTypes, INext PROVE WriteTypes' /\ ValueTypes'
<1> USE DEF FieldTypes, requests
<1>1. ASSUME NEW c \in Change, Defines(c) PROVE WriteTypes' /\ ValueTypes'
  BY <1>1 DEF Defines, CreateField, ReadForUpdate, CountValues, WriteUpdate, UpdateFails, LookForBackfill,
     QueueBackfill, AskBackfill, Changing, WriteTypes, ValueTypes
<1>2. NoRequest \in [step : {"rest"}]
  BY DEF NoRequest
<1>3. ASSUME NEW w \in Writer, ReadForWrite(w) PROVE WriteTypes' /\ ValueTypes'
  <2>1. field \in FieldType
    BY <1>3 DEF ReadForWrite, Present, DefinitionTypes
  <2>2. PICK v \in {None} \cup (IF field.type = "text" THEN {"text"} ELSE Live) :
          write' = [write EXCEPT ![w] = [step |-> "write", type |-> field.type, to |-> v]]
    BY <1>3 DEF ReadForWrite
  <2>3. [step |-> "write", type |-> field.type, to |-> v] \in ToText \cup ToSelect
    BY <2>1, <2>2 DEF FieldType, Type, ToText, ToSelect, Live
  <2>. QED
    BY <1>3, <2>2, <2>3 DEF ReadForWrite, WriteTypes, ValueTypes
<1>4. ASSUME NEW w \in Writer, WriteValue(w) PROVE WriteTypes' /\ ValueTypes'
  <2>1. value' \in ValueType \cup {None}
    BY <1>4, WrittenValue
  <2>2. collided' \in BOOLEAN
    BY <1>4 DEF WriteValue, ValueTypes
  <2>. QED
    BY <1>2, <1>4, <2>1, <2>2 DEF WriteValue, WriteTypes, ValueTypes
<1>5. ASSUME NEW w \in Writer, WriteFails(w) PROVE WriteTypes' /\ ValueTypes'
  BY <1>2, <1>5 DEF WriteFails, WriteTypes, ValueTypes
<1>6. CASE FinishBackfill \/ Archive \/ UpdateBrief \/ DeleteField
  BY <1>6 DEF FinishBackfill, Archive, UpdateBrief, DeleteField, Changing, WriteTypes, ValueTypes
<1>. QED
  BY <1>1, <1>3, <1>4, <1>5, <1>6 DEF INext, Defines

LEMMA FieldStaysOne ==
  ASSUME FieldTypes, ValueHasItsField, INext PROVE ValueHasItsField'
<1> USE FieldBounds DEF FieldTypes, ValueHasItsField, definition, requests
<1>1. changes \in Nat
  BY DEF ChangeTypes
<1>2. ASSUME NEW c \in Change, CreateField(c) PROVE ValueHasItsField'
  BY <1>1, <1>2 DEF CreateField, Changing
<1>3. ASSUME NEW c \in Change, WriteUpdate(c) PROVE ValueHasItsField'
  <2>1. field \in FieldType /\ changes # 0 /\ UNCHANGED <<value, changes>>
    BY <1>3 DEF WriteUpdate, DefinitionTypes
  <2>2. change[c] \in Asked
    BY <1>3, AskedIsAsked DEF WriteUpdate
  <2>3. field' \in FieldType
    BY <1>3, <2>1, <2>2 DEF WriteUpdate, FieldType, Asked
  <2>. QED
    BY <2>1, <2>3
<1>4. ASSUME NEW c \in Change, ReadForUpdate(c) \/ AskBackfill(c) PROVE ValueHasItsField'
  BY <1>1, <1>4 DEF ReadForUpdate, AskBackfill, Changing
<1>5. ASSUME NEW c \in Change, CountValues(c) \/ UpdateFails(c) \/ LookForBackfill(c) \/ QueueBackfill(c)
      PROVE  ValueHasItsField'
  BY <1>5 DEF CountValues, UpdateFails, LookForBackfill, QueueBackfill
<1>6. ASSUME NEW w \in Writer, ReadForWrite(w) \/ WriteFails(w) PROVE ValueHasItsField'
  BY <1>6 DEF ReadForWrite, WriteFails
<1>7. ASSUME NEW w \in Writer, WriteValue(w) PROVE ValueHasItsField'
  BY <1>7 DEF WriteValue, DefinitionTypes
<1>8. CASE Archive \/ UpdateBrief
  <2>1. field # None /\ UNCHANGED value /\ changes' = changes + 1
    BY <1>8 DEF Archive, UpdateBrief, Changing
  <2>2. field \in FieldType
    BY <2>1 DEF DefinitionTypes
  <2>3. field' \in FieldType
    BY <1>8, <2>2 DEF Archive, UpdateBrief, FieldType
  <2>. QED
    BY <1>1, <2>1, <2>3
<1>9. CASE FinishBackfill \/ DeleteField
  BY <1>9 DEF FinishBackfill, DeleteField
<1>. QED
  BY <1>2, <1>3, <1>4, <1>5, <1>6, <1>7, <1>8, <1>9 DEF INext

\* A step of one request changes no other.
LEMMA OneDefines ==
  ASSUME FieldTypes, NEW c \in Change, Defines(c)
  PROVE  \A o \in Change \ {c} : change'[o] = change[o]
BY DEF FieldTypes, ChangeTypes, Defines, CreateField, ReadForUpdate, CountValues, WriteUpdate, UpdateFails,
   LookForBackfill, QueueBackfill, AskBackfill

\* Only a change that has just counted, and found nothing, is to change the type.
LEMMA RetypesFoundNothing ==
  ASSUME FieldTypes, NEW c \in Change, Defines(c), Retype(c)'
  PROVE  value = None /\ UNCHANGED value
<1> USE DEF Retype, FieldTypes, ChangeTypes, NoRequest
<1>1. CASE CountValues(c)
  BY <1>1 DEF CountValues
<1>2. CASE ReadForUpdate(c)
  <2>1. PICK t \in Type, retyped, fill, new \in BOOLEAN, keep \in SUBSET {o \in Option : option[o] # "none"} :
          LET given == keep # {} \/ new IN
          /\ retyped \/ t = field.type
          /\ t = "select" => given \/ Live # {}
          /\ change' = [change EXCEPT ![c] =
               [step |-> IF t # field.type THEN "count" ELSE "write", type |-> t, retyped |-> retyped,
                was |-> field.type, fill |-> fill, filled |-> field.agentFilled,
                given |-> given /\ t = "select", keep |-> keep, new |-> new]]
    BY <1>2 DEF ReadForUpdate
  <2>2. /\ change'[c].step = IF t # field.type THEN "count" ELSE "write"
        /\ change'[c].type = t /\ change'[c].was = field.type
    BY <2>1
  <2>. QED
    BY <2>2
<1>3. CASE CreateField(c) \/ LookForBackfill(c)
  <2>1. change[c] \in Unwritten
    BY <1>3 DEF CreateField, LookForBackfill, Unwritten, Asked
  <2>2. PICK p \in {"rest", "pending", "queue"} : change' = [change EXCEPT ![c].step = p]
    BY <1>3 DEF CreateField, LookForBackfill
  <2>3. change'[c].step = p
    BY <2>1, <2>2 DEF Unwritten
  <2>. QED
    BY <2>3
<1>4. CASE WriteUpdate(c)
  <2>1. PICK p \in {"rest", "pending", "queue"} : change' = [change EXCEPT ![c] = [step |-> p]]
    BY <1>4 DEF WriteUpdate
  <2>. QED
    BY <2>1
<1>5. CASE UpdateFails(c) \/ QueueBackfill(c) \/ AskBackfill(c)
  BY <1>5 DEF UpdateFails, QueueBackfill, AskBackfill
<1>. QED
  BY <1>1, <1>2, <1>3, <1>4, <1>5 DEF Defines

LEMMA NothingFoundKept ==
  ASSUME FieldTypes, NoValueFound, INext PROVE NoValueFound'
<1>1. CASE UNCHANGED change /\ (UNCHANGED <<value, collided>> \/ value' = None)
  <2>1. \A c \in Change : Retype(c)' <=> Retype(c)
    BY <1>1 DEF Retype
  <2>. QED
    BY <1>1, <2>1 DEF NoValueFound
<1>2. ASSUME NEW w \in Writer, WriteValue(w) PROVE NoValueFound'
  <2>1. ~collided' => \A c \in Change : ~Retype(c)
    BY <1>2 DEF WriteValue
  <2>2. \A c \in Change : Retype(c)' <=> Retype(c)
    BY <1>2 DEF WriteValue, Retype
  <2>. QED
    BY <2>1, <2>2 DEF NoValueFound
<1>3. ASSUME NEW c \in Change, Defines(c) PROVE NoValueFound'
  <2>1. UNCHANGED value /\ (~collided' => ~collided)
    BY <1>3 DEF Defines, CreateField, ReadForUpdate, CountValues, WriteUpdate, UpdateFails, LookForBackfill,
       QueueBackfill, AskBackfill, Changing, FieldTypes, ValueTypes
  <2>2. Retype(c)' => value = None
    BY <1>3, RetypesFoundNothing
  <2>3. \A o \in Change \ {c} : Retype(o)' <=> Retype(o)
    BY <1>3, OneDefines DEF Retype
  <2>. QED
    BY <2>1, <2>2, <2>3 DEF NoValueFound
<1>4. ASSUME NEW w \in Writer, ReadForWrite(w) \/ WriteFails(w) PROVE NoValueFound'
  BY <1>1, <1>4 DEF ReadForWrite, WriteFails
<1>5. CASE FinishBackfill \/ Archive \/ UpdateBrief \/ DeleteField
  BY <1>1, <1>5 DEF FinishBackfill, Archive, UpdateBrief, DeleteField, Changing, requests
<1>. QED
  BY <1>2, <1>3, <1>4, <1>5 DEF INext, Defines

LEMMA TypeFitsKept ==
  ASSUME FieldTypes, ValueHasItsField, NoValueFound, TypeFitsValues, INext PROVE TypeFitsValues'
<1> USE DEF FieldTypes, TypeFitsValues, ValueHasItsField
<1>1. ASSUME UNCHANGED value, value # None => field'.type = field.type, ~collided' => ~collided
      PROVE  TypeFitsValues'
  BY <1>1
<1>2. ASSUME NEW c \in Change, WriteUpdate(c) PROVE TypeFitsValues'
  <2> SUFFICES ASSUME value' # None, ~collided' PROVE value'[field'.type] # None
    OBVIOUS
  <2>1. UNCHANGED value /\ ~collided /\ field \in FieldType
    BY <1>2 DEF WriteUpdate, DefinitionTypes, ValueTypes
  <2>2. /\ field'.type = IF change[c].retyped THEN change[c].type ELSE field.type
        /\ field'.type # field.type => change[c].was = field.type
    BY <1>2, <2>1 DEF WriteUpdate, FieldType
  <2>3. field'.type = field.type
    <3> SUFFICES ASSUME field'.type # field.type PROVE FALSE
      OBVIOUS
    <3>1. Retype(c)
      BY <1>2, <2>2 DEF WriteUpdate, Retype
    <3>. QED
      BY <2>1, <3>1 DEF NoValueFound
  <2>. QED
    BY <2>1, <2>3
<1>3. ASSUME NEW c \in Change, CreateField(c) PROVE TypeFitsValues'
  BY <1>1, <1>3 DEF CreateField, Changing
<1>4. ASSUME NEW c \in Change, \/ ReadForUpdate(c) \/ CountValues(c) \/ UpdateFails(c) \/ LookForBackfill(c)
                               \/ QueueBackfill(c) \/ AskBackfill(c)
      PROVE  TypeFitsValues'
  BY <1>1, <1>4 DEF ReadForUpdate, CountValues, UpdateFails, LookForBackfill, QueueBackfill, AskBackfill,
     Changing, definition
<1>5. ASSUME NEW w \in Writer, WriteValue(w) PROVE TypeFitsValues'
  <2>1. ~collided' => write[w].type = field.type
    BY <1>5 DEF WriteValue
  <2>. QED
    BY <1>5, <2>1, WrittenValue DEF WriteValue, definition
<1>6. ASSUME NEW w \in Writer, ReadForWrite(w) \/ WriteFails(w) PROVE TypeFitsValues'
  BY <1>1, <1>6 DEF ReadForWrite, WriteFails, definition
<1>7. CASE Archive \/ UpdateBrief
  <2>1. UNCHANGED <<value, collided>> /\ (field \in FieldType => field'.type = field.type)
    BY <1>7 DEF Archive, UpdateBrief, Changing, FieldType
  <2>. QED
    BY <1>1, <2>1
<1>8. CASE FinishBackfill \/ DeleteField
  BY <1>1, <1>8 DEF FinishBackfill, DeleteField, definition
<1>. QED
  BY <1>2, <1>3, <1>4, <1>5, <1>6, <1>7, <1>8 DEF INext

\* A request comes, goes on or is over.
LEMMA BusyOnes ==
  ASSUME FieldTypes, BackfillsAreAsked, NEW c \in Change, \A o \in Change \ {c} : change'[o] = change[o],
         backfill' \in Nat
  PROVE  /\ changes' = changes + 1 /\ backfill' <= backfill => BackfillsAreAsked'
         /\ change[c].step # "rest" /\ changes' = changes /\ backfill' <= backfill => BackfillsAreAsked'
         /\ change[c].step # "rest" /\ change'[c].step = "rest" /\ changes' = changes /\ backfill' <= backfill + 1
              => BackfillsAreAsked'
<1>1. changes \in Nat /\ backfill \in Nat /\ IsFiniteSet(Busy) /\ backfill + Cardinality(Busy) <= changes
  BY FieldBounds DEF FieldTypes, ChangeTypes, BackfillsAreAsked
<1>2. Busy' \subseteq Busy \cup {c}
  BY DEF Busy
<1>3. /\ IsFiniteSet(Busy \cup {c}) /\ Cardinality(Busy) \in Nat
      /\ Cardinality(Busy \cup {c}) = IF c \in Busy THEN Cardinality(Busy) ELSE Cardinality(Busy) + 1
  BY <1>1, FS_AddElement, FS_CardinalityType
<1>4. IsFiniteSet(Busy') /\ Cardinality(Busy') <= Cardinality(Busy \cup {c}) /\ Cardinality(Busy') \in Nat
  BY <1>2, <1>3, FS_Subset, FS_CardinalityType
<1>5. changes' = changes + 1 /\ backfill' <= backfill => BackfillsAreAsked'
  BY <1>1, <1>3, <1>4 DEF BackfillsAreAsked
<1>6. change[c].step # "rest" /\ changes' = changes /\ backfill' <= backfill => BackfillsAreAsked'
  <2>1. change[c].step # "rest" => c \in Busy
    BY DEF Busy
  <2>. QED
    BY <1>1, <1>3, <1>4, <2>1 DEF BackfillsAreAsked
<1>7. ASSUME change[c].step # "rest", change'[c].step = "rest", changes' = changes, backfill' <= backfill + 1
      PROVE  BackfillsAreAsked'
  <2>1. Busy' = Busy \ {c} /\ c \in Busy
    BY <1>7 DEF Busy
  <2>2. Cardinality(Busy') = Cardinality(Busy) - 1
    BY <1>1, <2>1, FS_RemoveElement
  <2>. QED
    BY <1>1, <1>3, <1>4, <1>7, <2>2 DEF BackfillsAreAsked
<1>. QED
  BY <1>5, <1>6, <1>7

LEMMA BackfillsKept == ASSUME FieldTypes, BackfillsAreAsked, INext PROVE BackfillsAreAsked'
<1>1. backfill \in Nat /\ changes \in Nat
  BY FieldBounds DEF BackfillsAreAsked, FieldTypes, ChangeTypes
<1>2. ASSUME NEW c \in Change, CreateField(c) \/ ReadForUpdate(c) \/ AskBackfill(c) PROVE BackfillsAreAsked'
  <2>1. changes' = changes + 1 /\ backfill' = backfill
    BY <1>2 DEF CreateField, ReadForUpdate, AskBackfill, Changing
  <2>2. \A o \in Change \ {c} : change'[o] = change[o]
    BY <1>2, OneDefines DEF Defines
  <2>. QED
    BY <1>1, <2>1, <2>2, BusyOnes
<1>3. ASSUME NEW c \in Change, CountValues(c) \/ WriteUpdate(c) \/ UpdateFails(c) \/ LookForBackfill(c)
      PROVE  BackfillsAreAsked'
  <2>1. changes' = changes /\ backfill' = backfill /\ change[c].step # "rest"
    BY <1>3 DEF CountValues, WriteUpdate, UpdateFails, LookForBackfill
  <2>2. \A o \in Change \ {c} : change'[o] = change[o]
    BY <1>3, OneDefines DEF Defines
  <2>. QED
    BY <1>1, <2>1, <2>2, BusyOnes
<1>4. ASSUME NEW c \in Change, QueueBackfill(c) PROVE BackfillsAreAsked'
  <2>1. changes' = changes /\ backfill' \in {backfill, backfill + 1} /\ change[c].step # "rest"
    BY <1>4 DEF QueueBackfill
  <2>2. change'[c].step = "rest"
    BY <1>4 DEF QueueBackfill, NoRequest, FieldTypes, ChangeTypes
  <2>3. \A o \in Change \ {c} : change'[o] = change[o]
    BY <1>4, OneDefines DEF Defines
  <2>4. backfill' \in Nat /\ backfill' <= backfill + 1
    BY <1>1, <2>1
  <2>. QED
    BY <2>1, <2>2, <2>3, <2>4, BusyOnes
<1>5. ASSUME UNCHANGED change, backfill' \in Nat, backfill' <= backfill, changes' \in {changes, changes + 1}
      PROVE  BackfillsAreAsked'
  <2>1. Busy' = Busy /\ Cardinality(Busy) \in Nat
    BY <1>5, FS_CardinalityType DEF Busy, BackfillsAreAsked
  <2>. QED
    BY <1>1, <1>5, <2>1 DEF BackfillsAreAsked
<1>6. ASSUME NEW w \in Writer, Writes(w) PROVE BackfillsAreAsked'
  BY <1>1, <1>5, <1>6 DEF Writes, ReadForWrite, WriteValue, WriteFails
<1>7. CASE FinishBackfill
  <2>1. backfill' \in Nat /\ backfill' <= backfill /\ UNCHANGED <<change, changes>>
    BY <1>1, <1>7 DEF FinishBackfill, requests
  <2>. QED
    BY <1>5, <2>1
<1>8. CASE Archive \/ UpdateBrief \/ DeleteField
  BY <1>1, <1>5, <1>8 DEF Archive, UpdateBrief, DeleteField, Changing, requests
<1>. QED
  BY <1>2, <1>3, <1>4, <1>6, <1>7, <1>8 DEF INext, Writes

LEMMA FieldInductive == ISpec => []FieldInv
<1>1. IInit => FieldInv
  <2> SUFFICES ASSUME IInit PROVE FieldInv
      OBVIOUS
  <2> USE FieldBounds DEF IInit
  <2>1. NoRequest \in Unwritten /\ NoRequest.step = "rest" /\ NoRequest \in [step : {"rest"}] /\ 0 \in 0..MaxChange
    BY DEF NoRequest, Unwritten
  <2>2. FieldTypes
    BY <2>1 DEF FieldTypes, DefinitionTypes, ChangeTypes, WriteTypes, ValueTypes
  <2>3. ValueHasItsField /\ TypeFitsValues
    BY DEF ValueHasItsField, TypeFitsValues
  <2>4. NoValueFound
    BY DEF NoValueFound
  <2>5. Busy = {}
    BY <2>1 DEF Busy
  <2>6. BackfillsAreAsked
    BY <2>5, FS_EmptySet DEF BackfillsAreAsked
  <2>. QED
    BY <2>2, <2>3, <2>4, <2>6 DEF FieldInv
<1>2. FieldInv /\ [INext]_ivars => FieldInv'
  <2> SUFFICES ASSUME FieldInv, [INext]_ivars PROVE FieldInv'
      OBVIOUS
  <2>1. CASE UNCHANGED ivars
    BY <2>1 DEF ivars, definition, requests, FieldInv, FieldTypes, DefinitionTypes, ChangeTypes, WriteTypes,
       ValueTypes, ValueHasItsField, NoValueFound, Retype, BackfillsAreAsked, Busy, TypeFitsValues
  <2>2. CASE INext
    <3>1. ChangeTypes'
      <4>1. ASSUME NEW c \in Change, Defines(c) PROVE ChangeTypes'
        BY <4>1, ChangesTyped DEF FieldInv
      <4>2. changes \in 0..MaxChange /\ (Changing => changes' \in 0..MaxChange)
        BY FieldBounds DEF FieldInv, FieldTypes, ChangeTypes, Changing
      <4>3. ASSUME NEW w \in Writer, Writes(w) PROVE ChangeTypes'
        BY <4>3 DEF Writes, ReadForWrite, WriteValue, WriteFails, FieldInv, FieldTypes, ChangeTypes
      <4>4. CASE FinishBackfill \/ Archive \/ UpdateBrief \/ DeleteField
        BY <4>2, <4>4 DEF FinishBackfill, Archive, UpdateBrief, DeleteField, requests, FieldInv, FieldTypes, ChangeTypes
      <4>. QED
        BY <2>2, <4>1, <4>3, <4>4 DEF INext, Defines, Writes
    <3>2. DefinitionTypes' /\ WriteTypes' /\ ValueTypes'
      BY <2>2, DefinitionTyped, WritesTyped DEF FieldInv
    <3>. QED
      BY <2>2, <3>1, <3>2, FieldStaysOne, NothingFoundKept, TypeFitsKept, BackfillsKept DEF FieldInv, FieldTypes
  <2>. QED
    BY <2>1, <2>2
<1>. QED
  BY <1>1, <1>2, PTL DEF ISpec

\* THEOREM: every reachable state of a field, its options and its value has its
\* types, among them that there are no more backfills than changes of the
\* definition.
THEOREM FieldTypeCorrect == ISpec => []ITypeOK
<1>1. FieldInv => ITypeOK
  <2> SUFFICES ASSUME FieldInv PROVE ITypeOK
      OBVIOUS
  <2>1. backfill \in 0..MaxChange
    <3>1. /\ backfill \in Nat /\ Cardinality(Busy) \in Nat /\ backfill + Cardinality(Busy) <= changes
          /\ changes \in Nat /\ changes <= MaxChange /\ MaxChange \in Nat
      BY FieldBounds, FS_CardinalityType DEF FieldInv, BackfillsAreAsked, FieldTypes, ChangeTypes
    <3>. QED
      BY <3>1
  <2>. QED
    BY <2>1 DEF ITypeOK, FieldInv, FieldTypes, DefinitionTypes, ChangeTypes, ValueTypes, FieldType, ValueType
<1>. QED
  BY <1>1, FieldInductive, PTL

\* THEOREM: however many requests change the definition and write the value at
\* once, a value that is stored is one of the field's type, unless a change of
\* the type overlapped a write of the value, or another change of the type.
THEOREM TypeFitsItsValues == ISpec => []TypeFitsValues
BY FieldInductive, PTL DEF FieldInv

-----------------------------------------------------------------------------
(***************************************************************************)
(* The timeline of a deal.                                                 *)
(***************************************************************************)
Row == [at : Nat, deal : Deal \cup {Null}, from : Stage \cup {Null}, to : Stage \cup {Null}, mail : BOOLEAN]
Moving == [step : {"stage"}, deal : Deal, from : Stage, to : Stage]
Touching == [step : {"touch"}, at : Nat, left : SUBSET Target]
\* A request that is at something knows what; what it found is of rows there were.
Knows(it) ==
  /\ it.step \in {"rest", "stage", "touch", "recompute", "restamp"}
  /\ it.step = "stage" => it \in Moving
  /\ it.step = "touch" => it \in Touching /\ it.at <= clock
  /\ it.step = "recompute" => it.left \subseteq Target
  /\ it.step = "restamp" =>
       /\ DOMAIN it.max \subseteq Target
       /\ \A t \in DOMAIN it.max : it.max[t] \in Nat /\ it.max[t] <= clock

RequestTypes == DOMAIN request = Request /\ \A r \in Request : Knows(request[r])
DealTypes ==
  /\ stage \in [Deal -> Stage \cup {Null}] /\ born \in [Deal -> Stage] /\ announced \in [Deal -> BOOLEAN]
  /\ locked \in [Deal -> Request \cup {Null}]
StampTypes == stamp \in [Target -> Nat] /\ \A t \in Target : stamp[t] <= clock
ClockTypes == clock \in Nat /\ clock <= MaxWrite /\ deaths \in Nat /\ deaths <= MaxDeath /\ crossed \in BOOLEAN
RowTypes == activity \subseteq Row /\ \A a \in activity : 1 <= a.at /\ a.at <= clock

\* Rows are of different moments; of a deal that is there; mail is no change.
RowsDiffer == \A a, b \in activity : a.at = b.at => a = b
RowsOfADeal == \A a \in activity : a.deal # Null => stage[a.deal] # Null
MailIsNoChange == \A a \in activity : a.mail => a.to = Null

\* A request that moves a deal holds its row and knows its stage.
MoverHoldsTheRow ==
  \A r \in Request : request[r].step = "stage" =>
    /\ locked[request[r].deal] = r
    /\ stage[request[r].deal] = request[r].from

\* What a recomputation found is no earlier than any row there is.
RestampsKnow ==
  ~crossed => \A r \in Request : request[r].step = "restamp" =>
    \A t \in DOMAIN request[r].max : \A a \in activity : t \in Targets(a) => a.at <= request[r].max[t]

TimelineTypes == RequestTypes /\ DealTypes /\ StampTypes /\ ClockTypes /\ RowTypes

TimelineInv ==
  /\ TimelineTypes
  /\ RowsDiffer /\ RowsOfADeal /\ MailIsNoChange /\ MoverHoldsTheRow /\ RestampsKnow
  /\ StageHistoryIsAChain /\ StampIsNotBehind

-----------------------------------------------------------------------------
LEMMA TimelineBounds ==
  /\ MaxWrite \in Nat /\ MaxDeath \in Nat /\ TheCompany \notin Deal /\ Closed \subseteq Stage
  /\ Null \notin Deal /\ Null \notin Stage /\ Null \notin Request
<1>1. MaxWrite \in Nat /\ MaxDeath \in Nat
  BY TimelineAssumption
<1>. QED
  BY <1>1, TimelineAssumption

\* Numbers that are bounded have a last one.
LEMMA HasLast ==
  ASSUME NEW n \in Nat, NEW S \in SUBSET (0..n), S # {}
  PROVE  \E m \in S : \A x \in S : x <= m
<1> DEFINE Below == {n - x : x \in S}
<1>1. Below \subseteq Nat /\ Below # {}
  <2>1. \A x \in S : n - x \in Nat
    OBVIOUS
  <2>2. PICK x \in S : TRUE
    OBVIOUS
  <2>3. n - x \in Below
    OBVIOUS
  <2>. QED
    BY <2>1, <2>3
<1>2. PICK b \in Below : \A u \in Below : ~(<<u, b>> \in OpToRel(<, Nat))
  BY <1>1, WFMin, NatLessThanWellFounded
<1>3. \A u \in Below : u >= b
  <2> SUFFICES ASSUME NEW u \in Below, u < b PROVE FALSE
    BY <1>1
  <2>1. <<u, b>> \in {ss \in Nat \X Nat : ss[1] < ss[2]}
    BY <1>1
  <2>. QED
    BY <1>2, <2>1 DEF OpToRel
<1>4. PICK m \in S : b = n - m
  OBVIOUS
<1>5. \A x \in S : x <= m
  <2> TAKE x \in S
  <2>1. n - x >= n - m
    BY <1>3, <1>4
  <2>. QED
    BY <2>1
<1>. QED
  BY <1>5

LEMMA NewestIsNewest ==
  ASSUME RowTypes, clock \in Nat, NEW A \in SUBSET activity
  PROVE  Newest(A) \in Nat /\ Newest(A) <= clock /\ \A a \in A : a.at <= Newest(A)
<1>1. CASE A = {}
  BY <1>1 DEF Newest
<1>2. CASE A # {}
  <2> DEFINE S == {a.at : a \in A}
  <2>1. \A a \in A : a.at \in Nat /\ a.at <= clock
    BY DEF RowTypes, Row
  <2>2. S \in SUBSET (0..clock) /\ S # {}
    BY <1>2, <2>1
  <2>3. \E m \in S : \A x \in S : x <= m
    BY <2>2, HasLast
  <2>4. \E n \in S : \A a \in A : a.at <= n
    BY <2>3
  <2>5. Newest(A) = CHOOSE n \in S : \A a \in A : a.at <= n
    BY <1>2 DEF Newest
  <2>6. Newest(A) \in S /\ \A a \in A : a.at <= Newest(A)
    BY <2>4, <2>5
  <2>. QED
    BY <2>2, <2>6
<1>. QED
  BY <1>1, <1>2

\* The row written last is the last one.
LEMMA LastIsLast ==
  ASSUME NEW A, NEW n, n.at \in Nat, \A a \in A : a.at \in Nat /\ a.at < n.at
  PROVE  (CHOOSE a \in A \cup {n} : a.at = Newest(A \cup {n})) = n
<1> DEFINE B == A \cup {n}
           S == {a.at : a \in B}
<1>1. n \in B /\ \A a \in B : a.at <= n.at /\ (a.at = n.at => a = n)
  OBVIOUS
<1>2. n.at \in S /\ \A x \in S : x \in Nat
  OBVIOUS
<1>3. \A m \in S : (\A a \in B : a.at <= m) <=> m = n.at
  <2> TAKE m \in S
  <2>1. PICK c \in B : m = c.at
    OBVIOUS
  <2>. QED
    BY <1>1, <1>2, <2>1
<1>4. Newest(B) = CHOOSE m \in S : \A a \in B : a.at <= m
  BY <1>1 DEF Newest
<1>5. Newest(B) = n.at
  BY <1>2, <1>3, <1>4
<1>. QED
  BY <1>1, <1>5

LEMMA TargetsAreTargets == ASSUME NEW a \in Row PROVE Targets(a) \subseteq Target
BY DEF Targets, Target, Row

-----------------------------------------------------------------------------
(* What each step does, for one row that is written or some that are gone. *)

\* A row is written, by a request that has begun nothing or moves a deal.
LEMMA RowWritten ==
  ASSUME TimelineTypes, NEW r \in Request, CommitStage(r) \/ WriteNote(r)
  PROVE  \E a \in Row :
           /\ a.at = clock + 1 /\ clock' = clock + 1 /\ clock < MaxWrite
           /\ activity' = activity \cup {a}
           /\ request' = [request EXCEPT ![r] = [step |-> "touch", at |-> a.at, left |-> Targets(a)]]
           /\ crossed' = (crossed \/ \E t \in Targets(a) : Recomputing(t))
           /\ request[r].step \in {"rest", "stage"}
           /\ a.deal # Null => stage[a.deal] # Null /\ stage'[a.deal] # Null
           /\ a.mail => a.to = Null
           /\ WriteNote(r) => a.to = Null
           /\ CommitStage(r) => /\ a.deal = request[r].deal /\ a.from = request[r].from /\ a.to = request[r].to
                                /\ a.to \in Stage /\ a.deal \in Deal
           /\ UNCHANGED <<stamp, born, deaths>>
<1> USE TimelineBounds
<1>1. clock \in Nat
  BY DEF TimelineTypes, ClockTypes
<1>2. CASE CommitStage(r)
  <2>1. request[r] \in Moving
    BY <1>2 DEF CommitStage, TimelineTypes, RequestTypes, Knows
  <2> DEFINE a == [at |-> clock + 1, deal |-> request[r].deal, from |-> request[r].from,
                   to |-> request[r].to, mail |-> FALSE]
  <2>2. a \in Row /\ a.deal \in Deal /\ a.to \in Stage
    BY <1>1, <2>1 DEF Row, Moving
  <2>3. stage[a.deal] # Null /\ stage'[a.deal] # Null
    BY <1>2, <2>1, <2>2 DEF CommitStage, TimelineTypes, DealTypes
  <2>4. Log(r, a) /\ request[r].step = "stage" /\ UNCHANGED <<stamp, born, deaths>>
    BY <1>2 DEF CommitStage
  <2>5. ~WriteNote(r)
    BY <2>4 DEF WriteNote, Rest
  <2>. QED
    BY <2>2, <2>3, <2>4, <2>5 DEF Log
<1>3. CASE WriteNote(r)
  <2>1. PICK d \in {x \in Deal : stage[x] # Null} \cup {Null}, mail \in BOOLEAN :
          /\ mail => d = Null
          /\ Log(r, [at |-> clock + 1, deal |-> d, from |-> Null, to |-> Null, mail |-> mail])
    BY <1>3 DEF WriteNote
  <2> DEFINE a == [at |-> clock + 1, deal |-> d, from |-> Null, to |-> Null, mail |-> mail]
  <2>2. a \in Row
    BY <1>1, <2>1 DEF Row
  <2>3. request[r].step = "rest" /\ ~CommitStage(r)
    BY <1>3 DEF WriteNote, Rest, CommitStage
  <2>4. UNCHANGED <<stage, stamp, born, deaths>>
    BY <1>3 DEF WriteNote
  <2>. QED
    BY <2>1, <2>2, <2>3, <2>4 DEF Log
<1>. QED
  BY <1>2, <1>3

\* Rows are gone: those of a deal that is deleted, or mail.
LEMMA RowsRemoved ==
  ASSUME TimelineTypes, NEW r \in Request, PurgeMail(r) \/ \E d \in Deal : DeleteDeal(r, d)
  PROVE  \E T \in SUBSET Target :
           /\ clock' = clock + 1 /\ clock < MaxWrite
           /\ activity' \subseteq activity
           /\ request' = [request EXCEPT ![r] = [step |-> "recompute", left |-> T]]
           /\ ~crossed' => ~crossed
           /\ crossed' \in BOOLEAN
           /\ request[r].step = "rest"
           /\ UNCHANGED <<born, announced, locked, deaths>>
<1> USE TimelineBounds
<1>1. activity \subseteq Row /\ crossed \in BOOLEAN
  BY DEF TimelineTypes, RowTypes, ClockTypes
<1>2. ASSUME NEW A, NEW T \in SUBSET Target, Remove(r, A, T)
      PROVE  /\ clock' = clock + 1 /\ clock < MaxWrite
             /\ activity' \subseteq activity
             /\ request' = [request EXCEPT ![r] = [step |-> "recompute", left |-> T]]
             /\ ~crossed' => ~crossed
             /\ crossed' \in BOOLEAN
  BY <1>1, <1>2 DEF Remove
<1>3. CASE PurgeMail(r)
  <2>1. PICK A, T : /\ A = {a \in activity : a.mail}
                    /\ T = {TheCompany} \cup {d \in Deal : stage[d] # Null} /\ Remove(r, A, T)
    BY <1>3 DEF PurgeMail
  <2>2. T \in SUBSET Target
    BY <2>1 DEF Target
  <2>3. /\ clock' = clock + 1 /\ clock < MaxWrite
        /\ activity' \subseteq activity
        /\ request' = [request EXCEPT ![r] = [step |-> "recompute", left |-> T]]
        /\ ~crossed' => ~crossed
        /\ crossed' \in BOOLEAN
    BY <1>2, <2>1, <2>2
  <2>4. request[r].step = "rest" /\ UNCHANGED <<born, announced, locked, deaths>>
    BY <1>3 DEF PurgeMail, Rest
  <2>. QED
    BY <2>2, <2>3, <2>4
<1>4. ASSUME NEW d \in Deal, DeleteDeal(r, d)
      PROVE  \E T \in SUBSET Target :
               /\ clock' = clock + 1 /\ clock < MaxWrite
               /\ activity' \subseteq activity
               /\ request' = [request EXCEPT ![r] = [step |-> "recompute", left |-> T]]
               /\ ~crossed' => ~crossed
               /\ crossed' \in BOOLEAN
               /\ request[r].step = "rest"
               /\ UNCHANGED <<born, announced, locked, deaths>>
  <2>1. PICK A, T : /\ A = {a \in activity : a.deal = d}
                    /\ T = UNION {Targets(a) : a \in A} \ {d} /\ Remove(r, A, T)
    BY <1>4 DEF DeleteDeal
  <2>2. T \in SUBSET Target
    BY <1>1, <2>1, TargetsAreTargets
  <2>. QED
    BY <1>2, <1>4, <2>1, <2>2 DEF DeleteDeal, Rest
<1>. QED
  BY <1>3, <1>4

LEMMA OneRequestTyped ==
  ASSUME RequestTypes, NEW r \in Request, clock \in Nat, clock' \in Nat, clock <= clock',
         DOMAIN request' = Request, \A o \in Request \ {r} : request'[o] = request[o], Knows(request[r])'
  PROVE  RequestTypes'
<1>1. ASSUME NEW o \in Request \ {r} PROVE Knows(request[o])'
  <2>1. Knows(request[o]) /\ request'[o] = request[o]
    BY DEF RequestTypes
  <2>. QED
    BY <2>1 DEF Knows, Touching
<1>. QED
  BY <1>1 DEF RequestTypes

LEMMA RequestsTyped == ASSUME TimelineTypes, TNext PROVE RequestTypes'
<1> USE TimelineBounds DEF TimelineTypes, ClockTypes
<1>1. DOMAIN request = Request /\ \A r \in Request : Knows(request[r])
  BY DEF RequestTypes
<1>2. ASSUME NEW r \in Request, UNCHANGED clock, Knows(request[r])', DOMAIN request' = Request,
             \A o \in Request \ {r} : request'[o] = request[o]
      PROVE  RequestTypes'
  BY <1>2, OneRequestTyped
<1>3. ASSUME NEW r \in Request, NEW d \in Deal, NEW to \in Stage, LockDeal(r, d, to) PROVE RequestTypes'
  <2>1. /\ request' = [request EXCEPT ![r] = [step |-> "stage", deal |-> d, from |-> stage[d], to |-> to]]
        /\ stage[d] \in Stage /\ UNCHANGED clock
    BY <1>3 DEF LockDeal, DealTypes
  <2>2. [step |-> "stage", deal |-> d, from |-> stage[d], to |-> to] \in Moving
    BY <2>1 DEF Moving
  <2>3. Knows(request[r])'
    BY <1>1, <2>1, <2>2 DEF Knows
  <2>. QED
    BY <1>1, <1>2, <2>1, <2>3
<1>4. ASSUME NEW r \in Request, CommitStage(r) \/ WriteNote(r) PROVE RequestTypes'
  <2>1. PICK a \in Row : /\ a.at = clock + 1 /\ clock' = clock + 1
                         /\ request' = [request EXCEPT ![r] = [step |-> "touch", at |-> a.at, left |-> Targets(a)]]
    BY <1>4, RowWritten
  <2>2. request'[r] = [step |-> "touch", at |-> a.at, left |-> Targets(a)] /\ a.at = clock' /\ a.at \in Nat
    BY <1>1, <2>1
  <2>3. request'[r] \in Touching
    BY <2>2, TargetsAreTargets DEF Touching
  <2>4. Knows(request[r])'
    BY <2>2, <2>3 DEF Knows
  <2>. QED
    BY <1>1, <2>1, <2>4, OneRequestTyped
<1>5. ASSUME NEW r \in Request, PurgeMail(r) \/ \E d \in Deal : DeleteDeal(r, d) PROVE RequestTypes'
  <2>1. PICK T \in SUBSET Target : /\ clock' = clock + 1
                                   /\ request' = [request EXCEPT ![r] = [step |-> "recompute", left |-> T]]
    BY <1>5, RowsRemoved
  <2>2. Knows(request[r])'
    BY <1>1, <2>1 DEF Knows
  <2>. QED
    BY <1>1, <2>1, <2>2, OneRequestTyped
<1>6. ASSUME NEW r \in Request, RollBack(r) \/ Restamp(r) \/ Die(r) PROVE RequestTypes'
  <2>1. request' = [request EXCEPT ![r] = Rest] /\ UNCHANGED clock
    BY <1>6 DEF RollBack, Restamp, Die, Return
  <2>2. Knows(request[r])'
    BY <1>1, <2>1 DEF Knows, Rest
  <2>. QED
    BY <1>1, <1>2, <2>1, <2>2
<1>7. ASSUME NEW r \in Request, NEW t \in Target, Touch(r, t) PROVE RequestTypes'
  <2>1. request[r] \in Touching /\ request[r].at <= clock /\ UNCHANGED clock
    BY <1>1, <1>7 DEF Touch, Knows
  <2>2. PICK it : /\ it = IF request[r].left \ {t} = {} THEN Rest
                          ELSE [request[r] EXCEPT !.left = request[r].left \ {t}]
                  /\ request' = [request EXCEPT ![r] = it]
    BY <1>7 DEF Touch
  <2>3. [request[r] EXCEPT !.left = request[r].left \ {t}] \in Touching
        /\ [request[r] EXCEPT !.left = request[r].left \ {t}].at = request[r].at
        /\ [request[r] EXCEPT !.left = request[r].left \ {t}].step = "touch"
    BY <2>1 DEF Touching
  <2>4. it = Rest \/ (it \in Touching /\ it.at <= clock /\ it.step = "touch")
    BY <2>1, <2>2, <2>3
  <2>5. request'[r] = it
    BY <1>1, <2>2
  <2>6. Knows(request[r])'
    BY <2>1, <2>4, <2>5 DEF Knows, Rest
  <2>. QED
    BY <1>1, <1>2, <2>1, <2>2, <2>6
<1>8. ASSUME NEW r \in Request, BeginRestamp(r) PROVE RequestTypes'
  <2>1. request[r].left \subseteq Target /\ UNCHANGED clock
    BY <1>1, <1>8 DEF BeginRestamp, Knows
  <2>2. PICK f : /\ f = [t \in request[r].left |-> Newest({a \in activity : t \in Targets(a)})]
                 /\ request' = [request EXCEPT ![r] = [step |-> "restamp", max |-> f]]
    BY <1>8 DEF BeginRestamp
  <2>3. DOMAIN f = request[r].left /\ \A t \in DOMAIN f : f[t] \in Nat /\ f[t] <= clock
    BY <2>2, NewestIsNewest
  <2>4. request'[r].step = "restamp" /\ request'[r].max = f
    BY <1>1, <2>2
  <2>5. Knows(request[r])'
    BY <2>1, <2>3, <2>4 DEF Knows
  <2>. QED
    BY <1>1, <1>2, <2>1, <2>2, <2>5
<1>. QED
  BY <1>3, <1>4, <1>5, <1>6, <1>7, <1>8 DEF TNext

LEMMA DealsTyped == ASSUME TimelineTypes, TNext PROVE DealTypes'
<1> USE TimelineBounds DEF TimelineTypes, DealTypes
<1>1. ASSUME NEW r \in Request, NEW d \in Deal, NEW to \in Stage, LockDeal(r, d, to) PROVE DealTypes'
  BY <1>1 DEF LockDeal
<1>2. ASSUME NEW r \in Request, CommitStage(r) PROVE DealTypes'
  <2>1. request[r] \in Moving
    BY <1>2 DEF CommitStage, RequestTypes, Knows
  <2>2. request[r].deal \in Deal /\ request[r].to \in Stage
    BY <2>1 DEF Moving
  <2>. QED
    BY <1>2, <2>2 DEF CommitStage
<1>3. ASSUME NEW r \in Request, RollBack(r) PROVE DealTypes'
  BY <1>3 DEF RollBack
<1>4. ASSUME NEW r \in Request, NEW d \in Deal, DeleteDeal(r, d) PROVE DealTypes'
  BY <1>4 DEF DeleteDeal
<1>5. ASSUME NEW r \in Request, WriteNote(r) \/ PurgeMail(r) \/ BeginRestamp(r) \/ Restamp(r) \/ Die(r)
      PROVE  DealTypes'
  BY <1>5 DEF WriteNote, PurgeMail, BeginRestamp, Restamp, Die
<1>6. ASSUME NEW r \in Request, NEW t \in Target, Touch(r, t) PROVE DealTypes'
  BY <1>6 DEF Touch
<1>. QED
  BY <1>1, <1>2, <1>3, <1>4, <1>5, <1>6 DEF TNext

LEMMA RowsTyped == ASSUME TimelineTypes, TNext PROVE StampTypes' /\ ClockTypes' /\ RowTypes'
<1> USE TimelineBounds DEF TimelineTypes, StampTypes, ClockTypes, RowTypes
<1>1. activity \subseteq Row /\ \A a \in activity : a.at \in Nat
  BY DEF Row
<1>2. ASSUME NEW r \in Request, CommitStage(r) \/ WriteNote(r)
      PROVE  StampTypes' /\ ClockTypes' /\ RowTypes'
  <2>1. PICK a \in Row :
          /\ a.at = clock + 1 /\ clock' = clock + 1 /\ clock < MaxWrite
          /\ activity' = activity \cup {a} /\ UNCHANGED <<stamp, deaths>>
          /\ crossed' = (crossed \/ \E t \in Targets(a) : Recomputing(t))
    BY <1>2, RowWritten
  <2>2. ClockTypes'
    BY <2>1
  <2>3. StampTypes' /\ RowTypes'
    BY <1>1, <2>1
  <2>. QED
    BY <2>2, <2>3
<1>3. ASSUME NEW r \in Request, PurgeMail(r) \/ \E d \in Deal : DeleteDeal(r, d)
      PROVE  StampTypes' /\ ClockTypes' /\ RowTypes'
  <2>1. /\ clock' = clock + 1 /\ clock < MaxWrite /\ activity' \subseteq activity
        /\ UNCHANGED deaths /\ crossed' \in BOOLEAN
    BY <1>3, RowsRemoved
  <2>2. ClockTypes' /\ RowTypes'
    BY <1>1, <2>1
  <2>3. stamp' = stamp \/ \E d \in Deal : stamp' = [stamp EXCEPT ![d] = 0]
    BY <1>3 DEF PurgeMail, DeleteDeal
  <2>4. StampTypes'
    BY <2>1, <2>3
  <2>. QED
    BY <2>2, <2>4
<1>4. ASSUME NEW r \in Request, NEW t \in Target, Touch(r, t)
      PROVE  StampTypes' /\ ClockTypes' /\ RowTypes'
  <2>1. request[r].at \in Nat /\ request[r].at <= clock
    BY <1>4 DEF Touch, RequestTypes, Knows, Touching
  <2>2. StampTypes'
    BY <1>4, <2>1 DEF Touch
  <2>3. ClockTypes' /\ RowTypes'
    BY <1>4 DEF Touch
  <2>. QED
    BY <2>2, <2>3
<1>5. ASSUME NEW r \in Request, Restamp(r) PROVE StampTypes' /\ ClockTypes' /\ RowTypes'
  <2>1. \A t \in DOMAIN request[r].max : request[r].max[t] \in Nat /\ request[r].max[t] <= clock
    BY <1>5 DEF Restamp, RequestTypes, Knows
  <2>2. \A t \in Target : stamp'[t] \in Nat /\ stamp'[t] <= clock
    BY <1>5, <2>1 DEF Restamp
  <2>3. stamp' = [t \in Target |-> stamp'[t]]
    BY <1>5 DEF Restamp
  <2>4. UNCHANGED clock
    BY <1>5 DEF Restamp
  <2>5. StampTypes'
    BY <2>2, <2>3, <2>4
  <2>6. ClockTypes' /\ RowTypes'
    BY <1>5 DEF Restamp
  <2>. QED
    BY <2>5, <2>6
<1>6. ASSUME NEW r \in Request, Die(r) PROVE StampTypes' /\ ClockTypes' /\ RowTypes'
  BY <1>6 DEF Die
<1>7. ASSUME NEW r \in Request, RollBack(r) \/ BeginRestamp(r) PROVE StampTypes' /\ ClockTypes' /\ RowTypes'
  BY <1>7 DEF RollBack, BeginRestamp
<1>8. ASSUME NEW r \in Request, NEW d \in Deal, NEW to \in Stage, LockDeal(r, d, to)
      PROVE  StampTypes' /\ ClockTypes' /\ RowTypes'
  BY <1>8 DEF LockDeal
<1>. QED
  BY <1>2, <1>3, <1>4, <1>5, <1>6, <1>7, <1>8 DEF TNext

-----------------------------------------------------------------------------
(* Rows and locks.                                                         *)

LEMMA RowsStayDifferent ==
  ASSUME TimelineTypes, RowsDiffer, RowsOfADeal, MailIsNoChange, TNext
  PROVE  RowsDiffer' /\ RowsOfADeal' /\ MailIsNoChange'
<1> USE TimelineBounds DEF RowsDiffer, RowsOfADeal, MailIsNoChange
<1>1. \A a \in activity : a.at \in Nat /\ a.at <= clock /\ a.deal \in Deal \cup {Null}
  BY DEF TimelineTypes, RowTypes, Row
<1>2. clock \in Nat /\ stage \in [Deal -> Stage \cup {Null}]
  BY DEF TimelineTypes, ClockTypes, DealTypes
<1>3. ASSUME NEW r \in Request, CommitStage(r) \/ WriteNote(r)
      PROVE  RowsDiffer' /\ RowsOfADeal' /\ MailIsNoChange'
  <2>1. PICK a \in Row :
          /\ a.at = clock + 1 /\ activity' = activity \cup {a}
          /\ a.deal # Null => stage'[a.deal] # Null
          /\ a.mail => a.to = Null
    BY <1>3, RowWritten
  <2>2. RowsDiffer' /\ MailIsNoChange'
    BY <1>1, <1>2, <2>1
  <2>3. \A d \in Deal : stage[d] # Null => stage'[d] # Null
    <3>1. CASE WriteNote(r)
      BY <3>1 DEF WriteNote
    <3>2. CASE CommitStage(r)
      <4>1. request[r] \in Moving
        BY <3>2 DEF CommitStage, TimelineTypes, RequestTypes, Knows
      <4>2. request[r].to \in Stage
        BY <4>1 DEF Moving
      <4>. QED
        BY <1>2, <3>2, <4>2 DEF CommitStage
    <3>. QED
      BY <1>3, <3>1, <3>2
  <2>4. RowsOfADeal'
    BY <1>1, <2>1, <2>3
  <2>. QED
    BY <2>2, <2>4
<1>4. ASSUME NEW r \in Request, PurgeMail(r) PROVE RowsDiffer' /\ RowsOfADeal' /\ MailIsNoChange'
  BY <1>4 DEF PurgeMail, Remove
<1>5. ASSUME NEW r \in Request, NEW d \in Deal, DeleteDeal(r, d)
      PROVE  RowsDiffer' /\ RowsOfADeal' /\ MailIsNoChange'
  <2>1. activity' = activity \ {a \in activity : a.deal = d} /\ stage' = [stage EXCEPT ![d] = Null]
    BY <1>5 DEF DeleteDeal, Remove
  <2>. QED
    BY <1>1, <1>2, <2>1
<1>6. ASSUME UNCHANGED <<activity, stage>> PROVE RowsDiffer' /\ RowsOfADeal' /\ MailIsNoChange'
  BY <1>6
<1>7. ASSUME NEW r \in Request, RollBack(r) \/ BeginRestamp(r) \/ Restamp(r) \/ Die(r)
      PROVE  RowsDiffer' /\ RowsOfADeal' /\ MailIsNoChange'
  BY <1>6, <1>7 DEF RollBack, BeginRestamp, Restamp, Die
<1>8. ASSUME NEW r \in Request, (\E d \in Deal, to \in Stage : LockDeal(r, d, to)) \/ \E t \in Target : Touch(r, t)
      PROVE  RowsDiffer' /\ RowsOfADeal' /\ MailIsNoChange'
  BY <1>6, <1>8 DEF LockDeal, Touch
<1>. QED
  BY <1>3, <1>4, <1>5, <1>7, <1>8 DEF TNext

\* The row of a deal is written by the request that holds it, or by none.
LEMMA MoversKeepTheRow ==
  ASSUME TimelineTypes, MoverHoldsTheRow, TNext PROVE MoverHoldsTheRow'
<1> USE TimelineBounds DEF MoverHoldsTheRow
<1>1. /\ stage \in [Deal -> Stage \cup {Null}] /\ locked \in [Deal -> Request \cup {Null}]
      /\ DOMAIN request = Request
  BY DEF TimelineTypes, DealTypes, RequestTypes
<1>2. \A r \in Request : request[r].step = "stage" => request[r].deal \in Deal
  BY DEF TimelineTypes, RequestTypes, Knows, Moving
<1>3. ASSUME NEW r \in Request, NEW d \in Deal, NEW to \in Stage, LockDeal(r, d, to) PROVE MoverHoldsTheRow'
  <2>1. /\ locked[d] = Null /\ locked' = [locked EXCEPT ![d] = r] /\ stage' = stage
        /\ request' = [request EXCEPT ![r] = [step |-> "stage", deal |-> d, from |-> stage[d], to |-> to]]
    BY <1>3 DEF LockDeal
  <2>2. locked'[d] = r /\ request'[r].deal = d /\ request'[r].from = stage[d]
    BY <1>1, <2>1
  <2>3. \A o \in Request \ {r} : request'[o] = request[o]
    BY <1>1, <2>1
  <2>. QED
    BY <1>1, <1>2, <2>1, <2>2, <2>3
<1>4. ASSUME NEW r \in Request, CommitStage(r) PROVE MoverHoldsTheRow'
  <2>1. request'[r].step = "touch" /\ \A o \in Request \ {r} : request'[o] = request[o]
    BY <1>1, <1>4 DEF CommitStage, Log
  <2>2. PICK d \in Deal : d = request[r].deal /\ locked[d] = r
    BY <1>2, <1>4 DEF CommitStage
  <2>3. \A e \in Deal \ {d} : stage'[e] = stage[e] /\ locked'[e] = locked[e]
    BY <1>1, <1>4, <2>2 DEF CommitStage
  <2>. QED
    BY <1>2, <2>1, <2>2, <2>3
<1>5. ASSUME NEW r \in Request, RollBack(r) PROVE MoverHoldsTheRow'
  <2>1. request'[r].step = "rest" /\ \A o \in Request \ {r} : request'[o] = request[o]
    BY <1>1, <1>5 DEF RollBack, Return, Rest
  <2>. QED
    BY <1>2, <1>5, <2>1 DEF RollBack
<1>6. ASSUME NEW r \in Request, WriteNote(r) PROVE MoverHoldsTheRow'
  <2>1. PICK a \in Row : request' = [request EXCEPT ![r] = [step |-> "touch", at |-> a.at, left |-> Targets(a)]]
    BY <1>6, RowWritten
  <2>. QED
    BY <1>1, <1>6, <2>1 DEF WriteNote
<1>7. ASSUME NEW r \in Request, PurgeMail(r) PROVE MoverHoldsTheRow'
  <2>1. PICK T \in SUBSET Target : request' = [request EXCEPT ![r] = [step |-> "recompute", left |-> T]]
    BY <1>7, RowsRemoved
  <2>. QED
    BY <1>1, <1>7, <2>1 DEF PurgeMail
<1>8. ASSUME NEW r \in Request, NEW d \in Deal, DeleteDeal(r, d) PROVE MoverHoldsTheRow'
  <2>1. PICK T \in SUBSET Target : request' = [request EXCEPT ![r] = [step |-> "recompute", left |-> T]]
    BY <1>8, RowsRemoved
  <2>2. locked[d] = Null /\ locked' = locked /\ stage' = [stage EXCEPT ![d] = Null]
    BY <1>8 DEF DeleteDeal
  <2>. QED
    BY <1>1, <1>2, <2>1, <2>2
<1>9. ASSUME NEW r \in Request, NEW t \in Target, Touch(r, t) PROVE MoverHoldsTheRow'
  <2>1. request[r] \in Touching
    BY <1>9 DEF Touch, TimelineTypes, RequestTypes, Knows
  <2>2. [request[r] EXCEPT !.left = request[r].left \ {t}].step = "touch"
    BY <2>1 DEF Touching
  <2>3. request'[r].step # "stage" /\ \A o \in Request \ {r} : request'[o] = request[o]
    BY <1>1, <1>9, <2>2 DEF Touch, Rest
  <2>. QED
    BY <1>9, <2>3 DEF Touch
<1>10. ASSUME NEW r \in Request, BeginRestamp(r) \/ Restamp(r) \/ Die(r) PROVE MoverHoldsTheRow'
  BY <1>1, <1>10 DEF BeginRestamp, Restamp, Die, Return, Rest
<1>. QED
  BY <1>3, <1>4, <1>5, <1>6, <1>7, <1>8, <1>9, <1>10 DEF TNext

\* A recomputation that nothing crossed has seen every row there is.
LEMMA RestampsStayRight ==
  ASSUME TimelineTypes, RestampsKnow, TNext PROVE RestampsKnow'
<1> USE DEF RestampsKnow
<1>1. DOMAIN request = Request /\ crossed \in BOOLEAN
  BY DEF TimelineTypes, RequestTypes, ClockTypes
<1>2. ASSUME NEW r \in Request, activity' \subseteq activity, ~crossed' => ~crossed,
             request'[r].step # "restamp", \A o \in Request \ {r} : request'[o] = request[o]
      PROVE  RestampsKnow'
  BY <1>2
<1>3. ASSUME NEW r \in Request, CommitStage(r) \/ WriteNote(r) PROVE RestampsKnow'
  <2>1. PICK a \in Row :
          /\ activity' = activity \cup {a} /\ request[r].step \in {"rest", "stage"}
          /\ request' = [request EXCEPT ![r] = [step |-> "touch", at |-> a.at, left |-> Targets(a)]]
          /\ crossed' = (crossed \/ \E t \in Targets(a) : Recomputing(t))
    BY <1>3, RowWritten
  <2>2. request'[r].step = "touch" /\ \A o \in Request \ {r} : request'[o] = request[o]
    BY <1>1, <2>1
  <2> SUFFICES ASSUME ~crossed', NEW o \in Request, request'[o].step = "restamp", NEW t \in DOMAIN request'[o].max,
                      NEW b \in activity', t \in Targets(b)
               PROVE  b.at <= request'[o].max[t]
    BY DEF RestampsKnow
  <2>3. o # r /\ request'[o] = request[o] /\ ~crossed
    BY <2>1, <2>2
  <2>4. Recomputing(t)
    BY <2>3 DEF Recomputing
  <2>5. b # a
    BY <2>1, <2>4
  <2>. QED
    BY <2>1, <2>3, <2>5
<1>4. ASSUME NEW r \in Request, PurgeMail(r) \/ \E d \in Deal : DeleteDeal(r, d) PROVE RestampsKnow'
  <2>1. PICK T \in SUBSET Target :
          /\ request' = [request EXCEPT ![r] = [step |-> "recompute", left |-> T]]
          /\ activity' \subseteq activity /\ (~crossed' => ~crossed)
    BY <1>4, RowsRemoved
  <2>. QED
    BY <1>1, <1>2, <2>1
<1>5. ASSUME NEW r \in Request, NEW d \in Deal, NEW to \in Stage, LockDeal(r, d, to) PROVE RestampsKnow'
  BY <1>1, <1>2, <1>5 DEF LockDeal
<1>6. ASSUME NEW r \in Request, RollBack(r) \/ Die(r) \/ Restamp(r) PROVE RestampsKnow'
  BY <1>1, <1>2, <1>6 DEF RollBack, Die, Restamp, Return, Rest
<1>7. ASSUME NEW r \in Request, NEW t \in Target, Touch(r, t) PROVE RestampsKnow'
  <2>1. request[r] \in Touching
    BY <1>7 DEF Touch, TimelineTypes, RequestTypes, Knows
  <2>2. [request[r] EXCEPT !.left = request[r].left \ {t}].step = "touch"
    BY <2>1 DEF Touching
  <2>3. request'[r].step # "restamp" /\ \A o \in Request \ {r} : request'[o] = request[o]
    BY <1>1, <1>7, <2>2 DEF Touch, Rest
  <2>. QED
    BY <1>2, <1>7, <2>3 DEF Touch
<1>8. ASSUME NEW r \in Request, BeginRestamp(r) PROVE RestampsKnow'
  <2>1. PICK f : /\ f = [t \in request[r].left |-> Newest({a \in activity : t \in Targets(a)})]
                 /\ request' = [request EXCEPT ![r] = [step |-> "restamp", max |-> f]]
    BY <1>8 DEF BeginRestamp
  <2>2. request'[r].max = f /\ \A o \in Request \ {r} : request'[o] = request[o]
    BY <1>1, <2>1
  <2>3. ASSUME NEW t \in DOMAIN f, NEW a \in activity, t \in Targets(a) PROVE a.at <= f[t]
    <3>1. f[t] = Newest({x \in activity : t \in Targets(x)})
      BY <2>1
    <3>. QED
      BY <2>3, <3>1, NewestIsNewest DEF TimelineTypes, ClockTypes
  <2>. QED
    BY <1>8, <2>2, <2>3 DEF BeginRestamp
<1>. QED
  BY <1>3, <1>4, <1>5, <1>6, <1>7, <1>8 DEF TNext

-----------------------------------------------------------------------------
(* The history of a deal's stage.                                          *)

Fits(d) ==
  stage[d] # Null =>
    /\ \A a \in Changes(d) : a.from = StageAt(d, Before(a))
    /\ stage[d] = StageAt(d, Changes(d))
    /\ announced[d] <=> stage[d] \in Closed

\* The history of a deal is as before if nothing of the deal is written.
LEMMA UntouchedFits ==
  ASSUME NEW d \in Deal, Fits(d), born' = born, Changes(d)' = Changes(d),
         stage'[d] = stage[d], announced'[d] = announced[d]
  PROVE  Fits(d)'
<1> SUFFICES ASSUME stage[d] # Null
             PROVE  /\ \A a \in Changes(d)' : a.from = StageAt(d, Before(a))'
                    /\ stage'[d] = StageAt(d, Changes(d))'
                    /\ announced'[d] <=> stage'[d] \in Closed
  BY DEF Fits
<1>1. ASSUME NEW a \in Changes(d)' PROVE a.from = StageAt(d, Before(a))'
  <2>1. a \in Changes(d) /\ a.deal = d
    BY <1>1 DEF Changes
  <2>2. Before(a)' = Before(a)
    BY <2>1 DEF Before
  <2>3. StageAt(d, Before(a))' = StageAt(d, Before(a))
    BY <2>2 DEF StageAt
  <2>. QED
    BY <2>1, <2>3 DEF Fits
<1>2. StageAt(d, Changes(d))' = StageAt(d, Changes(d))
  BY DEF StageAt
<1>3. stage'[d] = StageAt(d, Changes(d))'
  BY <1>2 DEF Fits
<1>4. announced'[d] <=> stage'[d] \in Closed
  BY DEF Fits
<1>. QED
  BY <1>1, <1>3, <1>4

\* A change of stage is the last of the deal's, from where the one before left it.
LEMMA CommittedFits ==
  ASSUME TimelineTypes, MoverHoldsTheRow, NEW r \in Request, CommitStage(r),
         NEW d \in Deal, d = request[r].deal, Fits(d)
  PROVE  Fits(d)'
<1>1. PICK n \in Row :
        /\ n.at = clock + 1 /\ activity' = activity \cup {n} /\ UNCHANGED born
        /\ n.deal = d /\ n.from = request[r].from /\ n.to = request[r].to /\ n.to \in Stage
  BY RowWritten
<1>2. stage[d] # Null /\ stage[d] = n.from
  BY <1>1 DEF CommitStage, MoverHoldsTheRow
<1>3. stage'[d] = n.to
  BY <1>1 DEF CommitStage, TimelineTypes, DealTypes
<1>4. clock \in Nat /\ \A a \in activity : a.at \in Nat /\ a.at <= clock
  BY DEF TimelineTypes, ClockTypes, RowTypes, Row
<1>5. Changes(d)' = Changes(d) \cup {n}
  BY <1>1, TimelineBounds DEF Changes
<1>6. \A a \in Changes(d) : a.deal = d /\ a.at \in Nat /\ a.at < n.at
  BY <1>1, <1>4 DEF Changes
<1>7. ASSUME NEW a \in Changes(d)' PROVE a.from = StageAt(d, Before(a))'
  <2>1. CASE a \in Changes(d)
    <3>1. Before(a)' = Before(a)
      <4>1. a.deal = d /\ ~(n.at < a.at)
        BY <1>1, <1>4, <1>6, <2>1
      <4>2. Before(a)' = {x \in Changes(d) \cup {n} : x.at < a.at}
        BY <1>5, <4>1 DEF Before
      <4>3. Before(a) = {x \in Changes(d) : x.at < a.at}
        BY <4>1 DEF Before
      <4>. QED
        BY <4>1, <4>2, <4>3
    <3>2. StageAt(d, Before(a))' = StageAt(d, Before(a))
      BY <1>1, <3>1 DEF StageAt
    <3>. QED
      BY <1>2, <2>1, <3>2 DEF Fits
  <2>2. CASE a = n
    <3>1. Before(a)' = Changes(d)
      <4>1. a.deal = d /\ ~(n.at < n.at)
        BY <1>1, <1>4, <2>2
      <4>2. Before(a)' = {x \in Changes(d) \cup {n} : x.at < n.at}
        BY <1>5, <2>2, <4>1 DEF Before
      <4>. QED
        BY <1>6, <4>1, <4>2
    <3>2. StageAt(d, Before(a))' = StageAt(d, Changes(d))
      BY <1>1, <3>1 DEF StageAt
    <3>. QED
      BY <1>2, <2>2, <3>2 DEF Fits
  <2>. QED
    BY <1>5, <1>7, <2>1, <2>2
<1>8. stage'[d] = StageAt(d, Changes(d))'
  <2>1. (CHOOSE a \in Changes(d) \cup {n} : a.at = Newest(Changes(d) \cup {n})) = n
    BY <1>1, <1>4, <1>6, LastIsLast
  <2>2. StageAt(d, Changes(d))' = n.to
    BY <1>5, <2>1 DEF StageAt
  <2>. QED
    BY <1>3, <2>2
<1>9. announced'[d] <=> stage'[d] \in Closed
  <2>1. announced[d] <=> n.from \in Closed
    BY <1>2 DEF Fits
  <2>2. announced'[d] = IF n.from \notin Closed /\ n.to \in Closed THEN TRUE
                        ELSE IF n.from \in Closed /\ n.to \notin Closed THEN FALSE ELSE announced[d]
    BY <1>1 DEF CommitStage, TimelineTypes, DealTypes
  <2>3. announced[d] \in BOOLEAN
    BY DEF TimelineTypes, DealTypes
  <2>4. announced'[d] <=> n.to \in Closed
    BY <2>1, <2>2, <2>3
  <2>. QED
    BY <1>3, <2>4
<1>. QED
  BY <1>7, <1>8, <1>9 DEF Fits

LEMMA ChainKept ==
  ASSUME TimelineTypes, MailIsNoChange, MoverHoldsTheRow, StageHistoryIsAChain, TNext
  PROVE  StageHistoryIsAChain'
<1> SUFFICES ASSUME NEW d \in Deal, Fits(d) PROVE Fits(d)'
  BY DEF StageHistoryIsAChain, Fits
<1> USE TimelineBounds
<1>1. ASSUME NEW r \in Request, CommitStage(r) PROVE Fits(d)'
  <2>1. CASE d = request[r].deal
    BY <1>1, <2>1, CommittedFits
  <2>2. CASE d # request[r].deal
    <3>1. PICK n : activity' = activity \cup {n} /\ n.deal = request[r].deal /\ UNCHANGED born
      BY <1>1, RowWritten
    <3>2. Changes(d)' = Changes(d)
      BY <2>2, <3>1 DEF Changes
    <3>3. stage'[d] = stage[d] /\ announced'[d] = announced[d]
      BY <1>1, <2>2 DEF CommitStage, TimelineTypes, DealTypes
    <3>. QED
      BY <3>1, <3>2, <3>3, UntouchedFits
  <2>. QED
    BY <2>1, <2>2
<1>2. ASSUME NEW r \in Request, WriteNote(r) PROVE Fits(d)'
  <2>1. PICK n : activity' = activity \cup {n} /\ n.to = Null
    BY <1>2, RowWritten
  <2>2. Changes(d)' = Changes(d)
    BY <2>1 DEF Changes
  <2>. QED
    BY <1>2, <2>2, UntouchedFits DEF WriteNote
<1>3. ASSUME NEW r \in Request, PurgeMail(r) PROVE Fits(d)'
  <2>1. activity' = activity \ {a \in activity : a.mail} /\ UNCHANGED <<born, stage, announced>>
    BY <1>3 DEF PurgeMail, Remove
  <2>2. Changes(d)' = Changes(d)
    BY <2>1 DEF Changes, MailIsNoChange
  <2>. QED
    BY <2>1, <2>2, UntouchedFits
<1>4. ASSUME NEW r \in Request, NEW e \in Deal, DeleteDeal(r, e) PROVE Fits(d)'
  <2>1. /\ activity' = activity \ {a \in activity : a.deal = e}
        /\ stage' = [stage EXCEPT ![e] = Null] /\ UNCHANGED <<born, announced>>
    BY <1>4 DEF DeleteDeal, Remove
  <2>2. stage \in [Deal -> Stage \cup {Null}]
    BY DEF TimelineTypes, DealTypes
  <2>3. CASE d = e
    BY <2>1, <2>2, <2>3 DEF Fits
  <2>4. CASE d # e
    <3>1. Changes(d)' = Changes(d)
      BY <2>1, <2>4 DEF Changes
    <3>. QED
      BY <2>1, <2>2, <2>4, <3>1, UntouchedFits
  <2>. QED
    BY <2>3, <2>4
<1>5. ASSUME UNCHANGED <<activity, stage, born, announced>> PROVE Fits(d)'
  <2>1. Changes(d)' = Changes(d)
    BY <1>5 DEF Changes
  <2>. QED
    BY <1>5, <2>1, UntouchedFits
<1>6. ASSUME NEW r \in Request,
             \/ RollBack(r) \/ BeginRestamp(r) \/ Restamp(r) \/ Die(r)
             \/ (\E e \in Deal, to \in Stage : LockDeal(r, e, to)) \/ \E t \in Target : Touch(r, t)
      PROVE  Fits(d)'
  BY <1>5, <1>6 DEF RollBack, BeginRestamp, Restamp, Die, LockDeal, Touch
<1>. QED
  BY <1>1, <1>2, <1>3, <1>4, <1>6 DEF TNext

-----------------------------------------------------------------------------
(* lastActivityAt.                                                         *)

Told(t, at) == stamp[t] >= at \/ Pending(t, at)

LEMMA StaysTold ==
  ASSUME NEW r \in Request, NEW t, NEW at, Told(t, at),
         \A o \in Request \ {r} : request'[o] = request[o],
         request[r].step # "touch", stamp'[t] = stamp[t]
  PROVE  Told(t, at)'
BY DEF Told, Pending

\* A step of a touch leaves it to do, or the column as new.
LEMMA TouchTells ==
  ASSUME TimelineTypes, RowsOfADeal, NEW r \in Request, NEW x \in Target, Touch(r, x),
         NEW a \in activity, NEW t \in Targets(a), Told(t, a.at)
  PROVE  Told(t, a.at)'
<1> USE TimelineBounds
<1>1. a \in Row /\ t \in Target /\ (t \in Deal => stage[t] # Null)
  <2>1. a \in Row
    BY DEF TimelineTypes, RowTypes
  <2>2. t \in Target
    BY <2>1, TargetsAreTargets
  <2>3. t \in Deal => t = a.deal
    BY DEF Targets
  <2>. QED
    BY <2>1, <2>2, <2>3 DEF RowsOfADeal
<1>2. request[r] \in Touching /\ DOMAIN request = Request /\ stamp \in [Target -> Nat] /\ a.at \in Nat
  BY <1>1 DEF Touch, TimelineTypes, RequestTypes, Knows, StampTypes, Row
<1>3. request[r].at \in Nat /\ request[r].left \subseteq Target
  BY <1>2 DEF Touching
<1>4. \A o \in Request \ {r} : request'[o] = request[o]
  BY <1>2 DEF Touch
<1>5. stamp'[t] \in Nat /\ stamp'[t] >= stamp[t] /\ (t = x => stamp'[t] >= request[r].at)
  BY <1>1, <1>2, <1>3 DEF Touch, Later
<1>6. CASE stamp[t] >= a.at
  <2>1. stamp'[t] >= a.at
    BY <1>1, <1>2, <1>5, <1>6
  <2>. QED
    BY <2>1 DEF Told
<1>7. CASE Pending(t, a.at)
  <2>1. PICK o \in Request : request[o].step = "touch" /\ t \in request[o].left /\ request[o].at >= a.at
    BY <1>7 DEF Pending
  <2>2. CASE o # r
    BY <1>4, <2>1, <2>2 DEF Told, Pending
  <2>3. CASE o = r /\ t = x
    <3>1. stamp'[t] >= a.at
      BY <1>2, <1>3, <1>5, <2>1, <2>3
    <3>. QED
      BY <3>1 DEF Told
  <2>4. CASE o = r /\ t # x
    <3>1. request[r].left \ {x} # {}
      BY <2>1, <2>4
    <3>2. request'[r] = [request[r] EXCEPT !.left = request[r].left \ {x}]
      BY <1>2, <3>1 DEF Touch
    <3>3. /\ request'[r].step = "touch" /\ request'[r].at = request[r].at
          /\ request'[r].left = request[r].left \ {x}
      BY <1>2, <3>2 DEF Touching
    <3>. QED
      BY <2>1, <2>4, <3>3 DEF Told, Pending
  <2>. QED
    BY <2>2, <2>3, <2>4
<1>. QED
  BY <1>6, <1>7 DEF Told

LEMMA StampKept ==
  ASSUME TimelineTypes, RowsOfADeal, RestampsKnow, StampIsNotBehind, TNext
  PROVE  StampIsNotBehind'
<1> USE TimelineBounds
<1>1. /\ DOMAIN request = Request /\ crossed \in BOOLEAN /\ deaths \in Nat /\ clock \in Nat
      /\ stamp \in [Target -> Nat] /\ \A a \in activity : a \in Row
  BY DEF TimelineTypes, RequestTypes, ClockTypes, StampTypes, RowTypes
<1>2. ~crossed /\ deaths = 0 => \A a \in activity : \A t \in Targets(a) : Told(t, a.at)
  BY DEF StampIsNotBehind, Told
<1>3. ASSUME NEW r \in Request, activity' \subseteq activity, ~crossed' => ~crossed, deaths' = deaths,
             \A o \in Request \ {r} : request'[o] = request[o], request[r].step # "touch",
             \A a \in activity' : \A t \in Targets(a) : stamp'[t] = stamp[t]
      PROVE  StampIsNotBehind'
  <2> SUFFICES ASSUME ~crossed', deaths' = 0, NEW a \in activity', NEW t \in Targets(a)
               PROVE  Told(t, a.at)'
    BY DEF StampIsNotBehind, Told
  <2>1. Told(t, a.at)
    BY <1>2, <1>3
  <2>. QED
    BY <1>3, <2>1, StaysTold
<1>4. ASSUME NEW r \in Request, CommitStage(r) \/ WriteNote(r) PROVE StampIsNotBehind'
  <2>1. PICK n \in Row :
          /\ activity' = activity \cup {n} /\ request[r].step \in {"rest", "stage"}
          /\ request' = [request EXCEPT ![r] = [step |-> "touch", at |-> n.at, left |-> Targets(n)]]
          /\ crossed' = (crossed \/ \E t \in Targets(n) : Recomputing(t))
          /\ UNCHANGED <<stamp, deaths>>
    BY <1>4, RowWritten
  <2>2. /\ request'[r] = [step |-> "touch", at |-> n.at, left |-> Targets(n)]
        /\ \A o \in Request \ {r} : request'[o] = request[o]
    BY <1>1, <2>1
  <2> SUFFICES ASSUME ~crossed', deaths' = 0, NEW a \in activity', NEW t \in Targets(a)
               PROVE  Told(t, a.at)'
    BY DEF StampIsNotBehind, Told
  <2>3. CASE a \in activity
    <3>1. Told(t, a.at)
      BY <1>2, <2>1, <2>3
    <3>. QED
      BY <2>1, <2>2, <3>1, StaysTold
  <2>4. CASE a = n
    <3>1. n.at \in Nat /\ n.at >= n.at
      BY DEF Row
    <3>. QED
      BY <2>2, <2>4, <3>1 DEF Told, Pending
  <2>. QED
    BY <2>1, <2>3, <2>4
<1>5. ASSUME NEW r \in Request, PurgeMail(r) PROVE StampIsNotBehind'
  <2>1. PICK T \in SUBSET Target :
          /\ request' = [request EXCEPT ![r] = [step |-> "recompute", left |-> T]]
          /\ activity' \subseteq activity /\ (~crossed' => ~crossed)
    BY <1>5, RowsRemoved
  <2>2. request[r].step # "touch" /\ UNCHANGED <<stamp, deaths>>
    BY <1>5 DEF PurgeMail, Rest
  <2>3. \A o \in Request \ {r} : request'[o] = request[o]
    BY <1>1, <2>1
  <2>. QED
    BY <1>3, <2>1, <2>2, <2>3
<1>6. ASSUME NEW r \in Request, NEW d \in Deal, DeleteDeal(r, d) PROVE StampIsNotBehind'
  <2>1. PICK T \in SUBSET Target :
          /\ request' = [request EXCEPT ![r] = [step |-> "recompute", left |-> T]]
          /\ activity' \subseteq activity /\ (~crossed' => ~crossed)
    BY <1>6, RowsRemoved
  <2>2. /\ request[r].step # "touch" /\ stamp' = [stamp EXCEPT ![d] = 0] /\ UNCHANGED deaths
        /\ \A a \in activity' : a.deal # d
    BY <1>6 DEF DeleteDeal, Remove, Rest
  <2>3. \A a \in activity' : \A t \in Targets(a) : stamp'[t] = stamp[t]
    BY <1>1, <2>2 DEF Targets
  <2>4. \A o \in Request \ {r} : request'[o] = request[o]
    BY <1>1, <2>1
  <2>. QED
    BY <1>3, <2>1, <2>2, <2>3, <2>4
<1>7. ASSUME NEW r \in Request, NEW d \in Deal, NEW to \in Stage, LockDeal(r, d, to) PROVE StampIsNotBehind'
  BY <1>1, <1>3, <1>7 DEF LockDeal, Rest
<1>8. ASSUME NEW r \in Request, RollBack(r) \/ BeginRestamp(r) PROVE StampIsNotBehind'
  BY <1>1, <1>3, <1>8 DEF RollBack, BeginRestamp, Return
<1>9. ASSUME NEW r \in Request, NEW x \in Target, Touch(r, x) PROVE StampIsNotBehind'
  <2>1. UNCHANGED <<activity, deaths>> /\ (~crossed' => ~crossed)
    BY <1>1, <1>9 DEF Touch
  <2> SUFFICES ASSUME ~crossed', deaths' = 0, NEW a \in activity', NEW t \in Targets(a)
               PROVE  Told(t, a.at)'
    BY DEF StampIsNotBehind, Told
  <2>2. a \in activity /\ Told(t, a.at)
    BY <1>2, <2>1
  <2>. QED
    BY <1>9, <2>2, TouchTells
<1>10. ASSUME NEW r \in Request, Restamp(r) PROVE StampIsNotBehind'
  <2>1. /\ UNCHANGED <<activity, deaths>> /\ (~crossed' => ~crossed) /\ request[r].step = "restamp"
        /\ \A o \in Request \ {r} : request'[o] = request[o]
    BY <1>1, <1>10 DEF Restamp, Return
  <2> SUFFICES ASSUME ~crossed', deaths' = 0, NEW a \in activity', NEW t \in Targets(a)
               PROVE  Told(t, a.at)'
    BY DEF StampIsNotBehind, Told
  <2>2. a \in activity /\ Told(t, a.at)
    BY <1>2, <2>1
  <2>3. t \in Target
    BY <1>1, <2>2, TargetsAreTargets
  <2>4. stamp'[t] = IF t \in DOMAIN request[r].max /\ (t \in Deal => stage[t] # Null)
                    THEN request[r].max[t] ELSE stamp[t]
    BY <1>10, <2>3 DEF Restamp
  <2>5. CASE stamp'[t] = stamp[t]
    BY <2>1, <2>2, <2>5, StaysTold
  <2>6. CASE t \in DOMAIN request[r].max /\ stamp'[t] = request[r].max[t]
    <3>1. a.at <= request[r].max[t]
      BY <2>1, <2>2, <2>6 DEF RestampsKnow
    <3>2. a.at \in Nat /\ request[r].max[t] \in Nat
      BY <1>1, <2>1, <2>2, <2>6 DEF Row, TimelineTypes, RequestTypes, Knows
    <3>3. stamp'[t] >= a.at
      BY <2>6, <3>1, <3>2
    <3>. QED
      BY <3>3 DEF Told
  <2>. QED
    BY <2>4, <2>5, <2>6
<1>11. ASSUME NEW r \in Request, Die(r) PROVE StampIsNotBehind'
  <2>1. deaths' # 0
    BY <1>1, <1>11 DEF Die
  <2>. QED
    BY <2>1 DEF StampIsNotBehind
<1>. QED
  BY <1>4, <1>5, <1>6, <1>7, <1>8, <1>9, <1>10, <1>11 DEF TNext

-----------------------------------------------------------------------------
LEMMA TimelineBegins == TInit => TimelineInv
<1> SUFFICES ASSUME TInit PROVE TimelineInv
  OBVIOUS
<1> USE TimelineBounds
<1>1. /\ stage \in [Deal -> Stage] /\ born = stage /\ announced = [d \in Deal |-> stage[d] \in Closed]
      /\ activity = {} /\ stamp = [t \in Target |-> 0] /\ clock = 0 /\ deaths = 0 /\ crossed = FALSE
      /\ locked = [d \in Deal |-> Null] /\ DOMAIN request = Request
      /\ \A r \in Request : request[r] = Rest
  BY DEF TInit
<1> HIDE DEF TInit
<1>2. RequestTypes
  BY <1>1 DEF RequestTypes, Knows, Rest
<1>3. announced \in [Deal -> BOOLEAN]
  BY <1>1
<1>4. DealTypes
  BY <1>1, <1>3 DEF DealTypes
<1>5. StampTypes /\ ClockTypes
  <2>1. stamp \in [Target -> Nat] /\ \A t \in Target : stamp[t] = 0
    BY <1>1
  <2>2. crossed \in BOOLEAN
    BY <1>1
  <2>3. ClockTypes
    BY <1>1, <2>2 DEF ClockTypes
  <2>. QED
    BY <1>1, <2>1, <2>3 DEF StampTypes
<1>6. RowTypes /\ RowsDiffer /\ RowsOfADeal /\ MailIsNoChange
  BY <1>1 DEF RowTypes, RowsDiffer, RowsOfADeal, MailIsNoChange
<1>7. MoverHoldsTheRow /\ RestampsKnow
  BY <1>1 DEF MoverHoldsTheRow, RestampsKnow, Rest
<1>8. ASSUME NEW d \in Deal PROVE Fits(d)
  <2>1. Changes(d) = {}
    BY <1>1 DEF Changes
  <2>2. StageAt(d, Changes(d)) = stage[d]
    BY <1>1, <2>1 DEF StageAt
  <2>3. announced[d] <=> stage[d] \in Closed
    BY <1>1
  <2>. QED
    BY <2>1, <2>2, <2>3 DEF Fits
<1>9. StageHistoryIsAChain
  BY <1>8 DEF StageHistoryIsAChain, Fits
<1>10. StampIsNotBehind
  BY <1>1 DEF StampIsNotBehind
<1>. QED
  BY <1>2, <1>4, <1>5, <1>6, <1>7, <1>9, <1>10 DEF TimelineInv, TimelineTypes

LEMMA TimelineInductive == TSpec => []TimelineInv
<1>1. ASSUME TimelineInv, TNext PROVE TimelineInv'
  <2>1. TimelineTypes'
    BY <1>1, RequestsTyped, DealsTyped, RowsTyped DEF TimelineInv, TimelineTypes
  <2>2. RowsDiffer' /\ RowsOfADeal' /\ MailIsNoChange'
    BY <1>1, RowsStayDifferent DEF TimelineInv
  <2>3. MoverHoldsTheRow' /\ RestampsKnow'
    BY <1>1, MoversKeepTheRow, RestampsStayRight DEF TimelineInv
  <2>4. StageHistoryIsAChain'
    BY <1>1, ChainKept DEF TimelineInv
  <2>5. StampIsNotBehind'
    BY <1>1, StampKept DEF TimelineInv
  <2>. QED
    BY <2>1, <2>2, <2>3, <2>4, <2>5 DEF TimelineInv
<1>2. ASSUME TimelineInv, UNCHANGED tvars PROVE TimelineInv'
  <2> USE <1>2 DEF tvars
  <2>1. TimelineTypes'
    BY DEF TimelineInv, TimelineTypes, RequestTypes, Knows, DealTypes, StampTypes, ClockTypes, RowTypes
  <2>2. RowsDiffer' /\ RowsOfADeal' /\ MailIsNoChange' /\ MoverHoldsTheRow' /\ RestampsKnow'
    BY DEF TimelineInv, RowsDiffer, RowsOfADeal, MailIsNoChange, MoverHoldsTheRow, RestampsKnow
  <2>3. ASSUME NEW d \in Deal, Fits(d) PROVE Fits(d)'
    <3>1. Changes(d)' = Changes(d)
      BY DEF Changes
    <3>. QED
      BY <2>3, <3>1, UntouchedFits
  <2>4. StageHistoryIsAChain'
    BY <2>3 DEF TimelineInv, StageHistoryIsAChain, Fits
  <2>5. StampIsNotBehind'
    BY DEF TimelineInv, StampIsNotBehind, Pending
  <2>. QED
    BY <2>1, <2>2, <2>4, <2>5 DEF TimelineInv
<1>3. TimelineInv /\ [TNext]_tvars => TimelineInv'
  BY <1>1, <1>2
<1>. QED
  BY TimelineBegins, <1>3, PTL DEF TSpec

\* THEOREM: every variable of the timeline has its type.
THEOREM TimelineTypeCorrect == TSpec => []TTypeOK
<1>1. ASSUME TimelineInv PROVE TTypeOK
  <2> USE TimelineBounds, <1>1 DEF TimelineInv, TimelineTypes
  <2>1. \A n \in Nat, m \in Nat : n <= m => n \in 0..m /\ (1 <= n => n \in 1..m)
    OBVIOUS
  <2>2. /\ clock \in Nat /\ clock <= MaxWrite /\ deaths \in Nat /\ deaths <= MaxDeath /\ crossed \in BOOLEAN
        /\ \A n \in Nat : n <= clock => n <= MaxWrite
    BY DEF ClockTypes
  <2>3. clock \in 0..MaxWrite /\ deaths \in 0..MaxDeath
    BY <2>1, <2>2
  <2>4. stamp \in [Target -> 0..MaxWrite]
    <3>1. stamp \in [Target -> Nat] /\ \A t \in Target : stamp[t] \in Nat /\ stamp[t] <= MaxWrite
      BY <2>2 DEF StampTypes
    <3>2. \A t \in Target : stamp[t] \in 0..MaxWrite
      BY <2>1, <3>1
    <3>. QED
      BY <3>1, <3>2
  <2>5. activity \subseteq [at : 1..MaxWrite, deal : Deal \cup {Null}, from : Stage \cup {Null},
                            to : Stage \cup {Null}, mail : BOOLEAN]
    <3> SUFFICES ASSUME NEW a \in activity
                 PROVE  a \in [at : 1..MaxWrite, deal : Deal \cup {Null}, from : Stage \cup {Null},
                               to : Stage \cup {Null}, mail : BOOLEAN]
      OBVIOUS
    <3>1. a \in Row /\ 1 <= a.at /\ a.at <= clock /\ a.at \in Nat
      BY DEF RowTypes, Row
    <3>2. a.at \in 1..MaxWrite
      BY <2>1, <2>2, <3>1
    <3>. QED
      BY <3>1, <3>2 DEF Row
  <2>. QED
    BY <2>2, <2>3, <2>4, <2>5 DEF TTypeOK, DealTypes
<1>. QED
  BY <1>1, TimelineInductive, PTL

\* THEOREM: however many requests move a deal at once, for any deals and stages,
\* its timeline tells how it got from the stage it was created in to the one it
\* is in, and the events told last whether it is closed.
THEOREM StageChain == TSpec => []StageHistoryIsAChain
BY TimelineInductive, PTL DEF TimelineInv

\* THEOREM: in whatever order any number of requests touch lastActivityAt, it is
\* no earlier than any activity on the timeline once they have gone on, unless
\* one dies or a recomputation is crossed by a write.
THEOREM StampNotBehind == TSpec => []StampIsNotBehind
BY TimelineInductive, PTL DEF TimelineInv

-----------------------------------------------------------------------------
(***************************************************************************)
(* The status of the research.  The queue under it takes the queue's own   *)
(* steps, so what TaskQueueProofs keeps is kept here.                      *)
(***************************************************************************)
StatusTypes ==
  /\ status \in [Subject -> {"PENDING", "RUNNING", "COMPLETE", "FAILED", "SKIPPED"}]
  /\ endedAfter \in [Subject -> SUBSET Task] /\ stale \in [Subject -> SUBSET Task]
  /\ settling \subseteq Settlement /\ requesting \subseteq Subject \X RequestKinds
  /\ lookup \in [Task -> [Attempt -> {"none", "asking", "answered"}]] /\ asked \subseteq Subject

\* An attempt looks nothing up before it runs.
LookupAfterStart == \A t \in Task, k \in Attempt : phase[t][k] \in {"none", "claimed"} => lookup[t][k] = "none"

\* What had ended before a request has not ended after it.
StaleIsOver ==
  \A s \in Subject : \A t \in stale[s] : st[t] = "finished" /\ t \notin endedAfter[s]

\* A settlement as COMPLETE is of the caller that finished the row.
CompletionsAreTrue ==
  \A m \in settling : m.to = "COMPLETE" =>
    st[m.task] = "finished" /\ outcome[m.task] = "ran" /\ m.by \in finisher[m.task]

\* An attempt that has not touched the record.
Fresh(t, k) == phase[t][k] = "claimed" \/ (KindOf[t] = BrandKind /\ Direct(t) /\ phase[t][k] = "running" /\ lookup[t][k] = "none")
Ahead(t) == st[t] = "open" /\ \A k \in Attempt : phase[t][k] \in Active => Fresh(t, k)

\* Every kind that was asked for is to be queued, or has a row that is all ahead.
EveryKindIsAhead ==
  \A s \in asked :
    status[s] = "PENDING" /\ (\A t \in Task : SubjectOf[t] = s => outcome[t] # "retired") =>
      \A kind \in RequestKinds :
        <<s, kind>> \in requesting \/ \E t \in Task : KindOf[t] = kind /\ SubjectOf[t] = s /\ Ahead(t)

StatusInv ==
  /\ QInv /\ UnfinishedRows /\ StatusTypes
  /\ LookupAfterStart /\ StaleIsOver /\ CompletionsAreTrue /\ EveryKindIsAhead

-----------------------------------------------------------------------------
LEMMA QueueSteps == ASSUME [SNext]_allvars PROVE [Next]_vars
<1>1. ASSUME NEW s \in Subject, NEW kind \in RequestKinds, RequestEnqueue(s, kind) PROVE [Next]_vars
  BY <1>1 DEF RequestEnqueue, Next, Queueing
<1>2. CASE Queueing \/ Clock \/ \E t \in Task : ClaimDue(t)
  BY <1>2 DEF Next, Sweeping
<1>3. CASE RetireAbandoned
  BY <1>3 DEF RetireAbandoned, Next, Sweeping
<1>4. ASSUME NEW t \in Task, NEW k \in Attempt,
             BeginResearch(t, k) \/ BeginDirect(t, k) \/ Finish(t, k) \/ Drop(t, k) \/ Book(t, k)
      PROVE  [Next]_vars
  BY <1>4 DEF BeginResearch, BeginDirect, Finish, Drop, Book, Next, Working
<1>5. CASE UNCHANGED vars
  BY <1>5
<1>. QED
  BY <1>1, <1>2, <1>3, <1>4, <1>5
     DEF SNext, RequestLook, WriteOther, BrandNowhere, BrandLook, BrandAnswer, TurnFails, ReadEnded,
         ReadOpenRequest, SettleWrite, SettleLost, allvars

LEMMA QueueKept == ASSUME QInv, UnfinishedRows, [SNext]_allvars PROVE QInv' /\ UnfinishedRows'
BY QueueSteps, TypeStep, FinisherStep, OrderStep, CoverStep, UnfinishedStep DEF QInv

\* What becomes of the settlements in flight.
LEMMA SettlingKept ==
  ASSUME QInv, StatusTypes, CompletionsAreTrue, SNext
  PROVE  settling' \subseteq Settlement /\ CompletionsAreTrue'
<1> DEFINE True(m) == m.to = "COMPLETE" =>
             st'[m.task] = "finished" /\ outcome'[m.task] = "ran" /\ m.by \in finisher'[m.task]
<1>1. TypeOK /\ settling \subseteq Settlement /\ [Next]_vars
  BY QueueSteps DEF QInv, StatusTypes
<1>2. ASSUME NEW m \in settling PROVE True(m)
  <2>1. m.task \in Task
    BY <1>1 DEF Settlement
  <2>. QED
    BY <1>1, <2>1, FinalStep DEF CompletionsAreTrue
<1>3. SUFFICES ASSUME NEW m \in settling', m \notin settling PROVE m \in Settlement /\ True(m)
  BY <1>1, <1>2 DEF CompletionsAreTrue
<1>4. ASSUME NEW S \in SUBSET Task, NEW by \in 0..MaxAttempts, NEW to \in {"COMPLETE", "FAILED"}, Settle(S, by, to)
      PROVE  m \in Settlement /\ m.task \in S /\ m.by = by /\ m.to = to
  BY <1>3, <1>4 DEF Settle, Settlement
<1>5. ASSUME NEW S \in SUBSET Task, NEW by \in 0..MaxAttempts, Settle(S, by, "FAILED")
      PROVE  m \in Settlement /\ True(m)
  BY <1>4, <1>5
<1>6. MaxAttempts \in Nat /\ 0 \in 0..MaxAttempts /\ \A k \in Attempt : k \in 0..MaxAttempts
  BY QueueAssumption DEF Attempt
<1>7. CASE RetireAbandoned
  <2>1. Exhausted \in SUBSET Task
    BY DEF Exhausted
  <2>. QED
    BY <1>5, <1>6, <1>7, <2>1 DEF RetireAbandoned
<1>8. ASSUME NEW t \in Task, NEW k \in Attempt, Finish(t, k) PROVE m \in Settlement /\ True(m)
  <2>1. st[t] = "open" /\ Settle({t}, k, "COMPLETE")
    BY <1>3, <1>8 DEF Finish
  <2>2. m \in Settlement /\ m.task = t /\ m.by = k
    <3>1. {t} \in SUBSET Task /\ k \in 0..MaxAttempts
      BY <1>6
    <3>. QED
      BY <1>4, <2>1, <3>1
  <2>3. st'[t] = "finished" /\ outcome'[t] = "ran" /\ k \in finisher'[t]
    BY <1>1, <1>8, <2>1 DEF Finish, Complete, CompleteTask, TypeOK
  <2>. QED
    BY <2>2, <2>3
<1>9. ASSUME NEW t \in Task, NEW k \in Attempt, Drop(t, k) \/ TurnFails(t, k) PROVE m \in Settlement /\ True(m)
  <2>1. Settle({t}, k, "FAILED")
    BY <1>3, <1>9 DEF Drop, TurnFails
  <2>2. {t} \in SUBSET Task /\ k \in 0..MaxAttempts
    BY <1>6
  <2>. QED
    BY <1>5, <2>1, <2>2
<1>10. ASSUME NEW n \in settling, ReadEnded(n) \/ ReadOpenRequest(n) PROVE m \in Settlement /\ True(m)
  <2>1. PICK g \in {"ended", "running", "orPending"} : m = [n EXCEPT !.guard = g]
    BY <1>3, <1>10 DEF ReadEnded, ReadOpenRequest, Advance
  <2>2. m \in Settlement /\ m.task = n.task /\ m.to = n.to /\ m.by = n.by
    BY <1>1, <2>1 DEF Settlement
  <2>. QED
    BY <1>2, <2>2
<1>11. CASE settling' \subseteq settling
  BY <1>3, <1>11
<1>. QED
  BY <1>7, <1>8, <1>9, <1>10, <1>11
     DEF SNext, RequestLook, WriteOther, RequestEnqueue, BeginResearch, BeginDirect, BrandNowhere, BrandLook,
         BrandAnswer, Book, SettleWrite, SettleLost, svars

\* What is written of a record, whoever writes it.
LEMMA StatusTyped ==
  ASSUME QInv, StatusTypes, CompletionsAreTrue, SNext PROVE StatusTypes'
<1> DEFINE Statuses == {"PENDING", "RUNNING", "COMPLETE", "FAILED", "SKIPPED"}
           RecordTypes == status \in [Subject -> Statuses] /\ endedAfter \in [Subject -> SUBSET Task]
<1>1. RecordTypes /\ \A m \in settling : m.to \in {"COMPLETE", "FAILED"}
  BY DEF StatusTypes, Settlement
<1>2. ASSUME NEW x, NEW state \in Statuses, Write(x, state) PROVE RecordTypes'
  BY <1>1, <1>2 DEF Write
<1>3. ASSUME NEW S \in SUBSET Task, Ended(S), UNCHANGED status PROVE RecordTypes'
  BY <1>1, <1>3 DEF Ended
<1>4. ASSUME UNCHANGED <<status, endedAfter>> PROVE RecordTypes'
  BY <1>1, <1>4
<1> HIDE DEF RecordTypes
<1>5. RecordTypes'
  <2>1. ASSUME NEW x \in Subject, RequestLook(x) PROVE RecordTypes'
    BY <1>2, <2>1 DEF RequestLook
  <2>2. ASSUME NEW x \in Subject, WriteOther(x) PROVE RecordTypes'
    BY <1>1, <2>2 DEF WriteOther, RecordTypes
  <2>3. CASE RetireAbandoned
    BY <1>3, <2>3 DEF RetireAbandoned, Exhausted
  <2>4. ASSUME NEW t \in Task, NEW k \in Attempt,
               BeginResearch(t, k) \/ BrandNowhere(t, k) \/ BrandLook(t, k) \/ BrandAnswer(t, k)
        PROVE  RecordTypes'
    BY <1>2, <1>4, <2>4 DEF BeginResearch, BrandNowhere, BrandLook, BrandAnswer
  <2>5. ASSUME NEW t \in Task, NEW k \in Attempt, Finish(t, k) PROVE RecordTypes'
    BY <1>3, <1>4, <2>5 DEF Finish
  <2>6. ASSUME NEW m \in settling, SettleWrite(m) PROVE RecordTypes'
    BY <1>1, <1>2, <1>4, <2>6 DEF SettleWrite
  <2>. QED
    BY <1>4, <2>1, <2>2, <2>3, <2>4, <2>5, <2>6
       DEF SNext, RequestEnqueue, BeginDirect, Drop, TurnFails, Book, ReadEnded, ReadOpenRequest, SettleLost, svars
<1>6. lookup' \in [Task -> [Attempt -> {"none", "asking", "answered"}]]
  <2>1. \/ UNCHANGED lookup
        \/ \E t \in Task, k \in Attempt, v \in {"none", "asking", "answered"} : lookup' = [lookup EXCEPT ![t][k] = v]
    BY DEF LookupOver, SNext, RequestLook, WriteOther,
       RequestEnqueue, RetireAbandoned, BeginResearch, BeginDirect, BrandNowhere,
       BrandLook, BrandAnswer, Finish, Drop, TurnFails, Book, ReadEnded, ReadOpenRequest, SettleWrite, SettleLost, svars
  <2>. QED
    BY <2>1 DEF StatusTypes
<1>7. /\ requesting' \subseteq Subject \X RequestKinds /\ asked' \subseteq Subject
      /\ stale' \in [Subject -> SUBSET Task]
  <2>1. ASSUME NEW x \in Subject, RequestLook(x)
        PROVE  /\ requesting' \subseteq Subject \X RequestKinds /\ asked' \subseteq Subject
               /\ stale' \in [Subject -> SUBSET Task]
    BY <2>1 DEF RequestLook, StatusTypes
  <2>2. CASE \E x \in Subject, kind \in RequestKinds : RequestEnqueue(x, kind)
    BY <2>2 DEF RequestEnqueue, StatusTypes
  <2>3. CASE UNCHANGED <<requesting, asked, stale>>
    BY <2>3 DEF StatusTypes
  <2>. QED
    BY <2>1, <2>2, <2>3
       DEF SNext, WriteOther, RetireAbandoned, BeginResearch, BeginDirect, BrandNowhere, BrandLook, BrandAnswer,
           Finish, Drop, TurnFails, Book, ReadEnded, ReadOpenRequest, SettleWrite, SettleLost, svars
<1>. QED
  BY <1>5, <1>6, <1>7, SettlingKept DEF StatusTypes, RecordTypes

LEMMA LookupKept ==
  ASSUME QInv, StatusTypes, LookupAfterStart, SNext PROVE LookupAfterStart'
<1> USE DEF LookupAfterStart
<1>1. phase \in [Task -> [Attempt -> Phase]] /\ lookup \in [Task -> [Attempt -> {"none", "asking", "answered"}]]
  BY DEF QInv, TypeOK, StatusTypes
<1>2. ASSUME NEW t \in Task, ClaimDue(t), UNCHANGED svars PROVE LookupAfterStart'
  <2>1. phase[t][attempts[t] + 1] = "none" /\ attempts[t] + 1 \in Attempt
    BY <1>2, QueueAssumption DEF QInv, TypeOK, AttemptsInOrder, ClaimDue, Claimable, Attempt
  <2>. QED
    BY <1>1, <1>2, <2>1 DEF ClaimDue, svars
<1>3. ASSUME NEW t \in Task, NEW k \in Attempt, NEW p \in Phase \ {"none", "claimed"},
             phase' = [phase EXCEPT ![t][k] = p],
             UNCHANGED lookup \/ LookupOver(t, k)
      PROVE  LookupAfterStart'
  BY <1>1, <1>3 DEF LookupOver
<1>4. ASSUME NEW t \in Task, NEW k \in Attempt,
             BeginResearch(t, k) \/ BeginDirect(t, k) \/ Finish(t, k) \/ Drop(t, k) \/ Book(t, k)
      PROVE  LookupAfterStart'
  <2>1. /\ UNCHANGED lookup \/ LookupOver(t, k)
        /\ \E p \in Phase \ {"none", "claimed"} : phase' = [phase EXCEPT ![t][k] = p]
    BY <1>4 DEF BeginResearch, BeginDirect, Start, Finish, Complete, Drop, Abandon, Book, BookLook, BookMove,
       BookCreate, Phase, svars
  <2>. QED
    BY <1>3, <2>1
<1>5. ASSUME NEW t \in Task, NEW k \in Attempt, BrandNowhere(t, k) \/ BrandLook(t, k) \/ BrandAnswer(t, k)
      PROVE  LookupAfterStart'
  <2>1. /\ UNCHANGED phase /\ phase[t][k] = "running"
        /\ \E v \in {"asking", "answered"} : lookup' = [lookup EXCEPT ![t][k] = v]
    BY <1>5 DEF BrandNowhere, BrandLook, BrandAnswer, CanLookUp, vars
  <2>. QED
    BY <1>1, <2>1
<1>6. ASSUME UNCHANGED <<phase, lookup>> PROVE LookupAfterStart'
  BY <1>6
<1>7. ASSUME Queueing \/ Clock, UNCHANGED svars PROVE LookupAfterStart'
  BY <1>6, <1>7 DEF Queueing, Clock, Enqueue, EnqueueEvent, BackfillCreate, BackfillLook, DueDateComes, LeaseExpires, svars
<1>8. ASSUME NEW x \in Subject, NEW kind \in RequestKinds, RequestEnqueue(x, kind) PROVE LookupAfterStart'
  BY <1>6, <1>8 DEF RequestEnqueue, Enqueue, vars
<1>. QED
  BY <1>2, <1>4, <1>5, <1>6, <1>7, <1>8
     DEF SNext, RequestLook, WriteOther, RetireAbandoned, RetireExhausted, TurnFails, ReadEnded, ReadOpenRequest,
         SettleWrite, SettleLost, vars

LEMMA StaleKept ==
  ASSUME QInv, StatusTypes, StaleIsOver, SNext PROVE StaleIsOver'
<1> SUFFICES ASSUME NEW s \in Subject, NEW t \in stale'[s] PROVE st'[t] = "finished" /\ t \notin endedAfter'[s]
  BY DEF StaleIsOver
<1>1. TypeOK /\ [Next]_vars /\ endedAfter \in [Subject -> SUBSET Task] /\ stale \in [Subject -> SUBSET Task]
  BY QueueSteps DEF QInv, StatusTypes
<1>2. CASE RequestLook(s)
  BY <1>1, <1>2 DEF RequestLook, Write, vars
<1>3. CASE ~RequestLook(s)
  <2>1. UNCHANGED stale \/ \E x \in Subject \ {s} : RequestLook(x)
    BY <1>3 DEF SNext, WriteOther, RequestEnqueue, RetireAbandoned, BeginResearch, BeginDirect, BrandNowhere,
       BrandLook, BrandAnswer, Finish, Drop, TurnFails, Book, ReadEnded, ReadOpenRequest, SettleWrite, SettleLost, svars
  <2>2. t \in stale[s]
    BY <1>1, <2>1 DEF RequestLook
  <2>3. t \in Task /\ st[t] = "finished" /\ t \notin endedAfter[s]
    BY <1>1, <2>2 DEF StaleIsOver
  <2>4. st'[t] = "finished"
    BY <1>1, <2>3, FinalStep
  <2>5. endedAfter'[s] \subseteq endedAfter[s] \cup {u \in Task : st[u] = "open"}
    <3>1. ASSUME NEW S, Ended(S), S \subseteq {u \in Task : st[u] = "open"}
          PROVE  endedAfter'[s] \subseteq endedAfter[s] \cup {u \in Task : st[u] = "open"}
      BY <3>1 DEF Ended
    <3>2. ASSUME NEW x, NEW state, Write(x, state)
          PROVE  endedAfter'[s] \subseteq endedAfter[s]
      BY <1>1, <3>2 DEF Write
    <3>3. ASSUME NEW x \in Subject, WriteOther(x) PROVE endedAfter'[s] \subseteq endedAfter[s]
      BY <1>1, <3>3 DEF WriteOther
    <3>4. CASE RetireAbandoned
      BY <3>1, <3>4 DEF RetireAbandoned, Exhausted
    <3>5. ASSUME NEW u \in Task, NEW k \in Attempt, Finish(u, k)
          PROVE  endedAfter'[s] \subseteq endedAfter[s] \cup {v \in Task : st[v] = "open"}
      BY <3>1, <3>5 DEF Finish
    <3>6. CASE endedAfter' = endedAfter
      BY <3>6
    <3>. QED
      BY <3>2, <3>3, <3>4, <3>5, <3>6
         DEF SNext, RequestLook, RequestEnqueue, BeginResearch, BeginDirect, BrandNowhere, BrandLook, BrandAnswer,
             Drop, TurnFails, Book, ReadEnded, ReadOpenRequest, SettleWrite, SettleLost, svars
  <2>. QED
    BY <2>3, <2>4, <2>5
<1>. QED
  BY <1>2, <1>3

\* A row that is all ahead stays so, until it is retired or its record touched.
LEMMA AheadStays ==
  ASSUME QInv, StatusTypes, LookupAfterStart, SNext, NEW t \in Task, Ahead(t),
         SubjectOf[t] \in Subject, KindOf[t] \in RequestKinds,
         status'[SubjectOf[t]] = "PENDING", outcome'[t] # "retired"
  PROVE  Ahead(t)'
<1>1. /\ TypeOK /\ status \in [Subject -> {"PENDING", "RUNNING", "COMPLETE", "FAILED", "SKIPPED"}]
      /\ lookup \in [Task -> [Attempt -> {"none", "asking", "answered"}]]
  BY DEF QInv, StatusTypes
<1>2. ASSUME st'[t] = "open", phase'[t] = phase[t], lookup'[t] = lookup[t] PROVE Ahead(t)'
  BY <1>2 DEF Ahead, Fresh
<1>3. ASSUME NEW u \in Task, NEW k \in Attempt, phase[u][k] \in Turn, ~Direct(u) \/ phase[u][k] # "running"
      PROVE  u # t
  BY <1>3 DEF Ahead, Fresh, Turn, Active
<1>4. ASSUME NEW v, v # "PENDING", Write(SubjectOf[t], v) PROVE FALSE
  BY <1>1, <1>4 DEF Write
<1>5. ASSUME NEW x \in Subject, NEW kind \in RequestKinds, RequestEnqueue(x, kind) PROVE Ahead(t)'
  BY <1>1, <1>2, <1>5 DEF RequestEnqueue, Enqueue, CreateRow, vars, Ahead, TypeOK
<1>6. ASSUME Queueing \/ Clock, UNCHANGED svars PROVE Ahead(t)'
  <2>1. UNCHANGED phase /\ (UNCHANGED st \/ \E u \in Task : CreateRow(u, TRUE))
    BY <1>6 DEF Queueing, Clock, Enqueue, EnqueueEvent, BackfillCreate, BackfillLook, DueDateComes, LeaseExpires
  <2>2. st'[t] = "open"
    BY <1>1, <2>1 DEF CreateRow, Ahead, TypeOK
  <2>. QED
    BY <1>2, <1>6, <2>1, <2>2 DEF svars
<1>7. ASSUME NEW u \in Task, ClaimDue(u), UNCHANGED svars PROVE Ahead(t)'
  <2>1. /\ UNCHANGED <<st, lookup>>
        /\ \A k \in Attempt : phase'[t][k] = phase[t][k] \/ phase'[t][k] = "claimed"
    BY <1>1, <1>7 DEF ClaimDue, svars, TypeOK
  <2>. QED
    BY <2>1 DEF Ahead, Fresh
<1>8. CASE RetireAbandoned
  <2>1. t \notin Exhausted
    BY <1>1, <1>8 DEF RetireAbandoned, RetireExhausted
  <2>. QED
    BY <1>2, <1>8, <2>1 DEF RetireAbandoned, RetireExhausted, Ahead
<1>9. ASSUME NEW u \in Task, NEW k \in Attempt, BeginResearch(u, k) PROVE Ahead(t)'
  <2>1. u # t
    BY <1>4, <1>9 DEF BeginResearch, HasSubject
  <2>. QED
    BY <1>1, <1>2, <1>9, <2>1 DEF BeginResearch, Start, TypeOK, Ahead
<1>10. ASSUME NEW u \in Task, NEW k \in Attempt, BeginDirect(u, k) PROVE Ahead(t)'
  <2>1. /\ UNCHANGED <<st, lookup>> /\ phase' = [phase EXCEPT ![u][k] = "running"]
        /\ phase[u][k] = "claimed" /\ Direct(u)
    BY <1>10 DEF BeginDirect, Start, svars
  <2>2. CASE u = t
    <3>1. KindOf[t] = BrandKind /\ lookup[t][k] = "none"
      BY <2>1, <2>2, RequestAssumption DEF Direct, LookupAfterStart
    <3>2. \A j \in Attempt : phase'[t][j] = phase[t][j] \/ (j = k /\ phase'[t][j] = "running")
      BY <1>1, <2>1, <2>2 DEF TypeOK
    <3>. QED
      BY <2>1, <2>2, <3>1, <3>2 DEF Ahead, Fresh, Direct
  <2>3. CASE u # t
    BY <1>1, <1>2, <2>1, <2>3 DEF TypeOK, Ahead
  <2>. QED
    BY <2>2, <2>3
<1>11. ASSUME NEW u \in Task, NEW k \in Attempt, BrandNowhere(u, k) \/ BrandLook(u, k) \/ BrandAnswer(u, k)
       PROVE  Ahead(t)'
  <2>1. /\ UNCHANGED <<st, phase>> /\ \E v \in {"asking", "answered"} : lookup' = [lookup EXCEPT ![u][k] = v]
        /\ \E v \in {"SKIPPED", "RUNNING", "FAILED", "COMPLETE"} : Write(SubjectOf[u], v)
    BY <1>11 DEF BrandNowhere, BrandLook, BrandAnswer, vars
  <2>2. u # t
    BY <1>4, <2>1
  <2>. QED
    BY <1>1, <1>2, <2>1, <2>2 DEF Ahead
<1>12. ASSUME NEW u \in Task, NEW k \in Attempt, Finish(u, k) PROVE Ahead(t)'
  <2>1. phase[u][k] \in Turn /\ (KindOf[u] = BrandKind => lookup[u][k] = "answered")
    BY <1>12 DEF Finish, Complete
  <2>2. u # t
    BY <2>1 DEF Ahead, Fresh, Turn, Active
  <2>. QED
    BY <1>1, <1>2, <1>12, <2>2 DEF Finish, LookupOver, Complete, CompleteTask, TypeOK, Ahead
<1>13. ASSUME NEW u \in Task, NEW k \in Attempt, Drop(u, k) PROVE Ahead(t)'
  <2>1. /\ UNCHANGED st /\ phase' = [phase EXCEPT ![u][k] = "over"]
        /\ lookup' = [lookup EXCEPT ![u][k] = "none"]
    BY <1>13 DEF Drop, Abandon, LookupOver
  <2>2. \A j \in Attempt : \/ phase'[t][j] = phase[t][j] /\ lookup'[t][j] = lookup[t][j]
                          \/ phase'[t][j] = "over"
    BY <1>1, <2>1 DEF TypeOK
  <2>. QED
    BY <2>1, <2>2 DEF Ahead, Fresh, Active
<1>14. ASSUME NEW u \in Task, NEW k \in Attempt, Book(u, k) PROVE Ahead(t)'
  <2>1. u # t
    BY <1>3, <1>14 DEF Book, BookLook, BookMove, BookCreate, Turn
  <2>2. UNCHANGED lookup /\ (UNCHANGED st \/ \E r \in Task : CreateRow(r, FALSE)) /\ phase'[t] = phase[t]
    BY <1>1, <1>14, <2>1 DEF Book, BookLook, BookMove, BookCreate, svars, TypeOK
  <2>3. st'[t] = "open"
    BY <1>1, <2>2 DEF CreateRow, Ahead, TypeOK
  <2>. QED
    BY <1>2, <2>2, <2>3
<1>15. ASSUME UNCHANGED <<vars, lookup>> PROVE Ahead(t)'
  BY <1>2, <1>15 DEF vars, Ahead
<1>. QED
  BY <1>5, <1>6, <1>7, <1>8, <1>9, <1>10, <1>11, <1>12, <1>13, <1>14, <1>15
     DEF SNext, RequestLook, WriteOther, TurnFails, ReadEnded, ReadOpenRequest, SettleWrite, SettleLost

\* Only a request leaves a record PENDING.
LEMMA OnlyRequestsAsk ==
  ASSUME StatusTypes, SNext, NEW s \in Subject, ~RequestLook(s), status'[s] = "PENDING"
  PROVE  status[s] = "PENDING"
<1>1. /\ status \in [Subject -> {"PENDING", "RUNNING", "COMPLETE", "FAILED", "SKIPPED"}]
      /\ \A m \in settling : m.to \in {"COMPLETE", "FAILED"}
  BY DEF StatusTypes, Settlement
<1>2. ASSUME NEW x, NEW v, Write(x, v), v # "PENDING" PROVE status[s] = "PENDING"
  BY <1>1, <1>2 DEF Write
<1>3. ASSUME NEW x \in Subject, RequestLook(x) PROVE status[s] = "PENDING"
  BY <1>1, <1>3 DEF RequestLook, Write
<1>4. ASSUME NEW m \in settling, SettleWrite(m) PROVE status[s] = "PENDING"
  BY <1>1, <1>2, <1>4 DEF SettleWrite
<1>5. ASSUME NEW t \in Task, NEW k \in Attempt,
             BeginResearch(t, k) \/ BrandNowhere(t, k) \/ BrandLook(t, k) \/ BrandAnswer(t, k)
      PROVE  status[s] = "PENDING"
  BY <1>2, <1>5 DEF BeginResearch, BrandNowhere, BrandLook, BrandAnswer
<1>6. CASE UNCHANGED status
  BY <1>6
<1>. QED
  BY <1>3, <1>4, <1>5, <1>6
     DEF SNext, WriteOther, RequestEnqueue, RetireAbandoned, BeginDirect, Finish, Drop, TurnFails, Book, ReadEnded,
         ReadOpenRequest, SettleLost, svars

LEMMA KindsStayAhead ==
  ASSUME QInv, UnfinishedRows, StatusTypes, LookupAfterStart, EveryKindIsAhead, SNext
  PROVE  EveryKindIsAhead'
<1> SUFFICES ASSUME NEW s \in asked', status'[s] = "PENDING",
                    \A t \in Task : SubjectOf[t] = s => outcome'[t] # "retired",
                    NEW kind \in RequestKinds, <<s, kind>> \notin requesting'
             PROVE  \E t \in Task : KindOf[t] = kind /\ SubjectOf[t] = s /\ Ahead(t)'
  BY DEF EveryKindIsAhead
<1>1. TypeOK /\ [Next]_vars /\ asked \subseteq Subject
  BY QueueSteps DEF QInv, StatusTypes
<1>2. /\ s \in Subject /\ ~RequestLook(s) /\ s \in asked
      /\ (<<s, kind>> \in requesting => RequestEnqueue(s, kind))
  <2>1. ~RequestLook(s)
    BY DEF RequestLook
  <2>2. ASSUME NEW x \in Subject, RequestLook(x) PROVE s \in asked /\ <<s, kind>> \notin requesting
    BY <2>1, <2>2 DEF RequestLook
  <2>3. ASSUME NEW x \in Subject, NEW kd \in RequestKinds, RequestEnqueue(x, kd)
        PROVE  s \in asked /\ (<<s, kind>> \in requesting => RequestEnqueue(s, kind))
    BY <2>3 DEF RequestEnqueue
  <2>4. ASSUME UNCHANGED <<asked, requesting>>
        PROVE  s \in asked /\ <<s, kind>> \notin requesting
    BY <2>4
  <2>5. s \in asked /\ (<<s, kind>> \in requesting => RequestEnqueue(s, kind))
    BY <2>2, <2>3, <2>4
       DEF SNext, WriteOther, RetireAbandoned, BeginResearch, BeginDirect, BrandNowhere, BrandLook, BrandAnswer,
           Finish, Drop, TurnFails, Book, ReadEnded, ReadOpenRequest, SettleWrite, SettleLost, svars
  <2>6. s \in Subject
    BY <1>1, <2>5
  <2>. QED
    BY <2>1, <2>5, <2>6
<1>3. status[s] = "PENDING"
  BY <1>2, OnlyRequestsAsk
<1>4. \A t \in Task : SubjectOf[t] = s => outcome[t] # "retired"
  <2> SUFFICES ASSUME NEW t \in Task, SubjectOf[t] = s, outcome[t] = "retired" PROVE FALSE
    OBVIOUS
  <2>1. st[t] = "finished"
    BY DEF UnfinishedRows
  <2>. QED
    BY <1>1, <2>1, FinalStep
<1>5. CASE <<s, kind>> \notin requesting
  <2>1. PICK t \in Task : KindOf[t] = kind /\ SubjectOf[t] = s /\ Ahead(t)
    BY <1>2, <1>3, <1>4, <1>5 DEF EveryKindIsAhead
  <2>2. Ahead(t)'
    BY <1>2, <2>1, AheadStays
  <2>. QED
    BY <2>1, <2>2
<1>6. CASE <<s, kind>> \in requesting
  <2>1. RequestEnqueue(s, kind)
    BY <1>2, <1>6
  <2>2. ~UnderWay(kind, s)
    BY <2>1 DEF RequestEnqueue
  <2>3. ASSUME NEW t \in OpenRows(kind, s), UNCHANGED vars
        PROVE  KindOf[t] = kind /\ SubjectOf[t] = s /\ t \in Task /\ Ahead(t)'
    BY <2>2, <2>3 DEF UnderWay, OpenRows, Ahead, vars
  <2>4. ASSUME NEW t \in Task, Enqueue(t)
        PROVE  Ahead(t)'
    <3>1. st'[t] = "open" /\ UNCHANGED phase /\ st[t] = "absent"
      BY <1>1, <2>4 DEF Enqueue, CreateRow, TypeOK
    <3>2. \A k \in Attempt : phase[t][k] = "none"
      BY <3>1 DEF UnfinishedRows
    <3>. QED
      BY <3>1, <3>2 DEF Ahead, Active
  <2>. QED
    BY <2>1, <2>3, <2>4 DEF RequestEnqueue
<1>. QED
  BY <1>5, <1>6

LEMMA StatusBegins == SInit => StatusInv
<1> SUFFICES ASSUME SInit PROVE StatusInv
  OBVIOUS
<1>1. /\ Init /\ settling = {} /\ requesting = {} /\ asked = {}
      /\ status = [s \in Subject |-> "PENDING"] /\ endedAfter = [s \in Subject |-> {}]
      /\ stale = [s \in Subject |-> {}] /\ lookup = [t \in Task |-> [k \in Attempt |-> "none"]]
  BY DEF SInit
<1>2. UnfinishedRows
  BY <1>1 DEF Init, UnfinishedRows
<1> HIDE DEF SInit
<1>3. StatusTypes
  BY <1>1 DEF StatusTypes
<1>4. LookupAfterStart /\ StaleIsOver /\ CompletionsAreTrue /\ EveryKindIsAhead
  BY <1>1 DEF LookupAfterStart, StaleIsOver, CompletionsAreTrue, EveryKindIsAhead
<1>. QED
  BY <1>1, <1>2, <1>3, <1>4, QInvBegins DEF StatusInv

LEMMA StatusInductive == SSpec => []StatusInv
<1>1. ASSUME StatusInv, SNext PROVE StatusInv'
  <2> USE <1>1 DEF StatusInv
  <2>1. QInv' /\ UnfinishedRows'
    BY QueueKept
  <2>2. StatusTypes' /\ CompletionsAreTrue'
    BY StatusTyped, SettlingKept
  <2>3. LookupAfterStart' /\ StaleIsOver' /\ EveryKindIsAhead'
    BY LookupKept, StaleKept, KindsStayAhead
  <2>. QED
    BY <2>1, <2>2, <2>3
<1>2. ASSUME StatusInv, UNCHANGED allvars PROVE StatusInv'
  <2> USE <1>2 DEF StatusInv
  <2>1. QInv' /\ UnfinishedRows'
    BY QueueKept
  <2>2. UNCHANGED <<st, outcome, phase, finisher>> /\ UNCHANGED svars
    BY DEF allvars, vars
  <2>3. StatusTypes'
    BY <2>2 DEF StatusTypes, svars
  <2>4. LookupAfterStart' /\ StaleIsOver' /\ CompletionsAreTrue'
    BY <2>2 DEF LookupAfterStart, StaleIsOver, CompletionsAreTrue, svars
  <2>5. EveryKindIsAhead'
    BY <2>2 DEF EveryKindIsAhead, Ahead, Fresh, svars
  <2>. QED
    BY <2>1, <2>3, <2>4, <2>5
<1>3. StatusInv /\ [SNext]_allvars => StatusInv'
  BY <1>1, <1>2
<1>. QED
  BY StatusBegins, <1>3, PTL DEF SSpec

\* THEOREM: the records, their settlements and lookups take nothing from the queue
\* and add nothing to it: with them it is still the TaskQueue, whose theorems hold.
THEOREM StatusRunsTheQueue == SSpec => Spec
<1>1. [SNext]_allvars => [Next]_vars
  BY QueueSteps
<1>2. SInit => Init
  BY DEF SInit
<1>. QED
  BY <1>1, <1>2, PTL DEF SSpec, Spec

\* THEOREM: so the tasks of a record are delivered as TaskDelivery promises: handed
\* out MaxAttempts times at most, and closed once.
THEOREM StatusDeliversTasks == SSpec => DeliversTasks
BY StatusRunsTheQueue, ImplementsDelivery, PTL

\* THEOREM: every variable of the research status, and of the queue, has its type.
THEOREM StatusTypeCorrect == SSpec => []STypeOK
<1>1. StatusInv => STypeOK
  BY DEF StatusInv, QInv, StatusTypes, STypeOK
<1>. QED
  BY <1>1, StatusInductive, PTL

\* THEOREM: a request for a fresh look leaves an open task of each kind it asks
\* for, however the queue and the settlements move on meanwhile, unless the task
\* it met was under way or one was retired.
THEOREM RequestQueued == SSpec => []RequestIsQueued
<1>1. ASSUME StatusInv PROVE RequestIsQueued
  <2> SUFFICES ASSUME NEW s \in asked, status[s] = "PENDING", \A r \in requesting : r[1] # s,
                      \A t \in Task : SubjectOf[t] = s => outcome[t] # "retired", NEW kind \in RequestKinds
               PROVE  OpenRows(kind, s) # {}
    BY DEF RequestIsQueued
  <2>1. <<s, kind>> \notin requesting
    OBVIOUS
  <2>2. PICK t \in Task : KindOf[t] = kind /\ SubjectOf[t] = s /\ Ahead(t)
    BY <1>1, <2>1 DEF StatusInv, EveryKindIsAhead
  <2>. QED
    BY <2>2 DEF Ahead, OpenRows
<1>. QED
  BY <1>1, StatusInductive, PTL

\* THEOREM: however late a settlement runs, a task that had ended before a fresh
\* request does not fail the record, and only the caller that finished a row
\* turns its record COMPLETE.
THEOREM SettledByTheirOwn == SSpec => SettledByItsOwn
<1> DEFINE ByItsOwn(s) == ~LookupAnswers(s) =>
             /\ status[s] = "PENDING" /\ status'[s] = "FAILED" => \E m \in Settled(s) : m.task \notin stale[s]
             /\ status[s] # "COMPLETE" /\ status'[s] = "COMPLETE" =>
                  \E m \in Settled(s) : outcome[m.task] = "ran" /\ m.by \in finisher[m.task]
<1>1. ASSUME StatusInv, SNext, NEW s \in Subject PROVE ByItsOwn(s)
  <2>1. /\ status \in [Subject -> {"PENDING", "RUNNING", "COMPLETE", "FAILED", "SKIPPED"}]
        /\ lookup \in [Task -> [Attempt -> {"none", "asking", "answered"}]] /\ settling \subseteq Settlement
    BY <1>1 DEF StatusInv, StatusTypes
  <2>2. ASSUME NEW x, NEW v, Write(x, v), v \in {"PENDING", "RUNNING", "SKIPPED"} PROVE ByItsOwn(s)
    BY <2>1, <2>2 DEF Write
  <2>3. ASSUME NEW t \in Task, NEW k \in Attempt, BrandAnswer(t, k) PROVE ByItsOwn(s)
    <3>1. CASE SubjectOf[t] = s
      <4>1. lookup[t][k] = "asking" /\ lookup'[t][k] = "answered"
        BY <2>1, <2>3 DEF BrandAnswer
      <4>2. LookupAnswers(s)
        BY <3>1, <4>1 DEF LookupAnswers
      <4>. QED
        BY <4>2
    <3>2. CASE SubjectOf[t] # s
      BY <2>1, <2>3, <3>2 DEF BrandAnswer, Write
    <3>. QED
      BY <3>1, <3>2
  <2>4. ASSUME NEW m \in settling, SettleWrite(m), status'[s] # status[s] PROVE ByItsOwn(s)
    <3>1. s = SubjectOf[m.task] /\ status'[s] = m.to /\ Settleable(m) /\ settling' = settling \ {m}
      BY <2>1, <2>4 DEF SettleWrite, Write
    <3>2. m \in Settled(s)
      BY <3>1 DEF Settled
    <3>3. m.to = "COMPLETE" => outcome[m.task] = "ran" /\ m.by \in finisher[m.task]
      BY <1>1 DEF StatusInv, CompletionsAreTrue
    <3>4. status[s] = "PENDING" => m.task \notin stale[s]
      BY <1>1, <3>1 DEF Settleable, StatusInv, StaleIsOver
    <3>. QED
      BY <3>1, <3>2, <3>3, <3>4
  <2>5. ASSUME status'[s] = status[s] PROVE ByItsOwn(s)
    BY <2>5
  <2> HIDE DEF ByItsOwn
  <2>6. ASSUME NEW x \in Subject, RequestLook(x) PROVE ByItsOwn(s)
    BY <2>2, <2>6 DEF RequestLook
  <2>7. ASSUME NEW t \in Task, NEW k \in Attempt,
               BeginResearch(t, k) \/ BrandNowhere(t, k) \/ BrandLook(t, k)
        PROVE  ByItsOwn(s)
    BY <2>2, <2>5, <2>7 DEF BeginResearch, BrandNowhere, BrandLook
  <2>. QED
    BY <1>1, <2>3, <2>4, <2>5, <2>6, <2>7
       DEF SNext, WriteOther, RequestEnqueue, RetireAbandoned, BeginDirect, Finish, Drop, TurnFails, Book, ReadEnded,
           ReadOpenRequest, SettleLost, svars
<1>2. StatusInv /\ [SNext]_allvars => [\A s \in Subject : ByItsOwn(s)]_allvars
  BY <1>1
<1>. QED
  BY <1>2, StatusInductive, PTL DEF SSpec, SettledByItsOwn

==============================================================================
