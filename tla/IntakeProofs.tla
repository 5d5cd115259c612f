----------------------------- MODULE IntakeProofs -----------------------------
(***************************************************************************)
(* Proofs about what comes into the CRM by itself: forms of visitors       *)
(* (VisitFiling), the cursor of a mailbox (MailboxSync), the count of a    *)
(* thread of mail (MailThreads) and meetings (CalendarSync), for any number *)
(* of submissions, deliveries, passes, messages, meetings and reps.        *)
(***************************************************************************)
EXTENDS VisitFiling, MailboxSync, MailThreads, CalendarSync, TLAPS, FiniteSetTheorems, WellFoundedInduction

(***************************************************************************)
(* Forms.  A delivery holds a slot of an hour in the three places between  *)
(* taking it and making a contact or giving it back; it is the only one to *)
(* write a note between claiming the row and writing it.                   *)
(***************************************************************************)
Places ==
  Ended \cup {"looking", "finding", "taking", "skipping", "creating", "releasing", "givingUp",
              "racing", "attaching", "attachingNew", "noting", "notingNew", "queueing"}

FormTypes == address \in [Form -> Email] /\ form \in [Delivery -> Form]
RowTypes == filed \cup skipped \subseteq stored /\ stored \subseteq Form /\ notes \in [Form -> Nat]
ContactTypes ==
  /\ contact \in [Email -> 0..MaxMade] /\ made \in [Email -> 0..MaxMade]
  /\ suppressed \subseteq Email /\ found \in [Delivery -> 0..MaxMade]
SlotTypes ==
  /\ window \in Window /\ charged \in [Window -> 0..Cap]
  /\ slot \in [Delivery -> 0..MaxWindow] /\ at \in [Delivery -> Places]
  /\ created \in [Window -> Nat] /\ lost \in [Window -> Nat]

FilingTypes == FormTypes /\ RowTypes /\ ContactTypes /\ SlotTypes

\* A delivery holds a slot exactly where it has one to lose.
SlotsAreHeld == \A d \in Delivery : slot[d] # 0 <=> at[d] \in {"creating", "releasing", "givingUp"}

Noting(d) == at[d] \in {"noting", "notingNew"}

\* One delivery of a submission writes its note, once.
OneNotes ==
  \A d \in Delivery : Noting(d) =>
    /\ form[d] \in filed /\ notes[form[d]] = 0
    /\ \A e \in Delivery : Noting(e) /\ form[e] = form[d] => e = d

QueueingIsFiled == \A d \in Delivery : at[d] = "queueing" => form[d] \in filed

DeliveredIsStored == \A d \in Delivery : at[d] # "idle" => form[d] \in stored

GInv == /\ FilingTypes /\ DeliveredIsStored /\ SlotsAreHeld
        /\ OneNotes /\ QueueingIsFiled /\ FilingIsExact

-----------------------------------------------------------------------------
LEMMA FilingBounds ==
  /\ Cap \in Nat /\ MaxWindow \in Nat /\ MaxMade \in Nat
  /\ Cap >= 1 /\ MaxWindow >= 1 /\ MaxMade >= 1 /\ IsFiniteSet(Delivery)
BY FilingAssumption

\* Only these change a slot, its hour or its count.
SlotStep(d) == Take(d) \/ Create(d) \/ Release(d) \/ Die(d)

LEMMA PlacesKept ==
  ASSUME FilingTypes, GNext
  PROVE  at' \in [Delivery -> Places] /\ found' \in [Delivery -> 0..MaxMade]
<1> USE FilingBounds DEF FilingTypes, SlotTypes, ContactTypes, FormTypes, To, Here, Holds,
        Forgets, Places, Ended
<1>1. ASSUME NEW d \in Delivery,
             \/ Deliver(d) \/ LookSuppressed(d) \/ Skip(d) \/ CreateFails(d) \/ Take(d) \/ Release(d)
      PROVE  at' \in [Delivery -> Places] /\ found' = found
  BY <1>1 DEF Deliver, LookSuppressed, Skip, CreateFails, Take, Release
<1>2. ASSUME NEW d \in Delivery, FindContact(d) \/ Raced(d) \/ Create(d)
      PROVE  at' \in [Delivery -> Places] /\ found' \in [Delivery -> 0..MaxMade]
  <2>1. address[form[d]] \in Email
    OBVIOUS
  <2>2. at' \in [Delivery -> Places]
    BY <1>2 DEF FindContact, Raced, Create
  <2>3. found' \in [Delivery -> 0..MaxMade]
    <3>1. CASE FindContact(d) \/ Raced(d)
      BY <2>1, <3>1 DEF FindContact, Raced
    <3>2. CASE Create(d)
      <4>1. CASE contact[address[form[d]]] = 0
        <5>1. made[address[form[d]]] + 1 \in 0..MaxMade
          BY <2>1, <3>2, <4>1 DEF Create
        <5>. QED
          BY <3>2, <4>1, <5>1 DEF Create
      <4>2. CASE contact[address[form[d]]] # 0
        BY <3>2, <4>2 DEF Create
      <4>. QED
        BY <4>1, <4>2
    <3>. QED
      BY <1>2, <3>1, <3>2
  <2>. QED
    BY <2>2, <2>3
<1>3. ASSUME NEW d \in Delivery, Claim(d) \/ WriteNote(d) \/ QueueResearch(d) \/ Die(d)
      PROVE  at' \in [Delivery -> Places] /\ found' \in [Delivery -> 0..MaxMade]
  <2>1. at' \in [Delivery -> Places]
    BY <1>3 DEF Claim, WriteNote, QueueResearch, Die, After
  <2>2. Forgets(d)
    BY <1>3 DEF Claim, WriteNote, QueueResearch, Die
  <2>3. 0 \in 0..MaxMade
    OBVIOUS
  <2>4. \E x \in 0..MaxMade : found' = [found EXCEPT ![d] = x]
    BY <2>2, <2>3
  <2>. QED
    BY <2>1, <2>4
<1>4. CASE (\E e \in Email : DeleteContact(e)) \/ HourEnds
  BY <1>4 DEF DeleteContact, HourEnds
<1>. QED
  BY <1>1, <1>2, <1>3, <1>4 DEF GNext

\* A row is there before it is marked.
LEMMA RowsKept ==
  ASSUME FilingTypes, DeliveredIsStored, GNext
  PROVE  RowTypes' /\ DeliveredIsStored' /\ FormTypes'
<1> USE DEF FilingTypes, FormTypes, RowTypes, SlotTypes, DeliveredIsStored, Here, To
<1>1. \A d \in Delivery : form[d] \in Form
  OBVIOUS
<1>2. ASSUME NEW d \in Delivery, Deliver(d) PROVE RowTypes' /\ DeliveredIsStored' /\ FormTypes'
  BY <1>1, <1>2 DEF Deliver, given
<1>3. ASSUME NEW d \in Delivery, Skip(d) PROVE RowTypes' /\ DeliveredIsStored' /\ FormTypes'
  BY <1>3 DEF Skip, given
<1>4. ASSUME NEW d \in Delivery, Claim(d) PROVE RowTypes' /\ DeliveredIsStored' /\ FormTypes'
  <2>1. form[d] \in stored /\ UNCHANGED <<given, stored, notes>>
    BY <1>4 DEF Claim, Attaching
  <2>2. filed' \cup skipped' \subseteq stored
    BY <1>4, <2>1 DEF Claim
  <2>3. \A e \in Delivery : at'[e] # "idle" => at[e] # "idle"
    BY <1>4 DEF Claim, Attaching, After
  <2>. QED
    BY <2>1, <2>2, <2>3 DEF given
<1>5. ASSUME NEW d \in Delivery, WriteNote(d) PROVE RowTypes' /\ DeliveredIsStored' /\ FormTypes'
  <2>1. UNCHANGED <<given, rows>>
    BY <1>5 DEF WriteNote
  <2>2. \A e \in Delivery : at'[e] # "idle" => at[e] # "idle"
    BY <1>5 DEF WriteNote, After
  <2>3. notes' \in [Form -> Nat]
    <3>1. notes' = notes \/ notes' = [notes EXCEPT ![form[d]] = @ + 1]
      BY <1>5 DEF WriteNote
    <3>. QED
      BY <1>1, <3>1
  <2>. QED
    BY <2>1, <2>2, <2>3 DEF given, rows
<1>6. ASSUME UNCHANGED <<given, rows, notes>>, NEW d \in Delivery, at[d] # "idle",
             \A e \in Delivery \ {d} : at'[e] = at[e]
      PROVE  RowTypes' /\ DeliveredIsStored' /\ FormTypes'
  BY <1>6 DEF given, rows
<1>7. ASSUME NEW d \in Delivery,
             \/ LookSuppressed(d) \/ FindContact(d) \/ Take(d) \/ Create(d) \/ CreateFails(d)
             \/ Release(d) \/ Raced(d) \/ QueueResearch(d) \/ Die(d)
      PROVE  RowTypes' /\ DeliveredIsStored' /\ FormTypes'
  <2>1. UNCHANGED <<given, rows, notes>> /\ at[d] # "idle"
    BY <1>7 DEF LookSuppressed, FindContact, Take, Create, CreateFails, Release, Raced,
       QueueResearch, Die, Ended
  <2>2. \A e \in Delivery \ {d} : at'[e] = at[e]
    BY <1>7 DEF LookSuppressed, FindContact, Take, Create, CreateFails, Release, Raced,
       QueueResearch, Die
  <2>. QED
    BY <1>6, <2>1, <2>2
<1>8. CASE (\E e \in Email : DeleteContact(e)) \/ HourEnds
  BY <1>8 DEF DeleteContact, HourEnds, given, rows
<1>. QED
  BY <1>2, <1>3, <1>4, <1>5, <1>7, <1>8 DEF GNext

LEMMA ContactsKept ==
  ASSUME FilingTypes, GNext
  PROVE  /\ contact' \in [Email -> 0..MaxMade] /\ made' \in [Email -> 0..MaxMade]
         /\ suppressed' \subseteq Email
<1> USE FilingBounds DEF FilingTypes, ContactTypes, FormTypes
<1>1. ASSUME NEW d \in Delivery, Create(d)
      PROVE  contact' \in [Email -> 0..MaxMade] /\ made' \in [Email -> 0..MaxMade] /\ suppressed' = suppressed
  <2>1. address[form[d]] \in Email
    OBVIOUS
  <2>2. CASE contact[address[form[d]]] = 0
    <3>1. made[address[form[d]]] + 1 \in 0..MaxMade
      BY <1>1, <2>1, <2>2 DEF Create
    <3>. QED
      BY <1>1, <2>2, <3>1 DEF Create
  <2>3. CASE contact[address[form[d]]] # 0
    BY <1>1, <2>3 DEF Create
  <2>. QED
    BY <2>2, <2>3
<1>2. ASSUME NEW e \in Email, DeleteContact(e)
      PROVE  contact' \in [Email -> 0..MaxMade] /\ made' \in [Email -> 0..MaxMade] /\ suppressed' \subseteq Email
  <2>1. 0 \in 0..MaxMade
    OBVIOUS
  <2>. QED
    BY <1>2, <2>1 DEF DeleteContact
<1>3. CASE ~(\E d \in Delivery : Create(d)) /\ ~(\E e \in Email : DeleteContact(e))
  <2>1. UNCHANGED people
    BY <1>3 DEF GNext, Deliver, LookSuppressed, FindContact, Take, Skip, CreateFails, Release,
       Raced, Claim, WriteNote, QueueResearch, Die, HourEnds
  <2>. QED
    BY <2>1 DEF people
<1>. QED
  BY <1>1, <1>2, <1>3

-----------------------------------------------------------------------------
\* Taking a slot of an hour adds its holder to that hour's, and giving it back
\* takes the holder away.
LEMMA HoldersFinite == ASSUME NEW w PROVE IsFiniteSet(Holding(w)) /\ Cardinality(Holding(w)) \in Nat
<1>1. Holding(w) \in SUBSET Delivery
  BY DEF Holding
<1>2. IsFiniteSet(Holding(w))
  BY <1>1, FS_Subset, FilingBounds
<1>. QED
  BY <1>2, FS_CardinalityType

LEMMA SlotTaken ==
  ASSUME SlotTypes, NEW d \in Delivery, NEW w \in Window, slot[d] = 0,
         slot' = [slot EXCEPT ![d] = w]
  PROVE  /\ Cardinality(Holding(w)') = Cardinality(Holding(w)) + 1
         /\ \A v \in Window \ {w} : Cardinality(Holding(v)') = Cardinality(Holding(v))
<1>1. 0 \notin Window
  BY FilingBounds DEF Window
<1>2. Holding(w)' = Holding(w) \cup {d} /\ d \notin Holding(w)
  BY <1>1 DEF Holding, SlotTypes
<1>3. \A v \in Window \ {w} : Holding(v)' = Holding(v)
  BY <1>1 DEF Holding, SlotTypes
<1>. QED
  BY <1>2, <1>3, HoldersFinite, FS_AddElement

LEMMA SlotGivenUp ==
  ASSUME SlotTypes, NEW d \in Delivery, NEW w \in Window, slot[d] = w,
         slot' = [slot EXCEPT ![d] = 0]
  PROVE  /\ Cardinality(Holding(w)') = Cardinality(Holding(w)) - 1
         /\ \A v \in Window \ {w} : Cardinality(Holding(v)') = Cardinality(Holding(v))
         /\ Cardinality(Holding(w)) \in Nat \ {0}
<1>1. 0 \notin Window
  BY FilingBounds DEF Window
<1>2. Holding(w)' = Holding(w) \ {d} /\ d \in Holding(w)
  BY <1>1 DEF Holding, SlotTypes
<1>3. \A v \in Window \ {w} : Holding(v)' = Holding(v)
  BY <1>1 DEF Holding, SlotTypes
<1>4. Cardinality(Holding(w)) # 0
  BY <1>2, HoldersFinite, FS_EmptySet
<1>5. Cardinality(Holding(w) \ {d}) = Cardinality(Holding(w)) - 1
  BY <1>2, HoldersFinite, FS_RemoveElement
<1>. QED
  BY <1>2, <1>3, <1>4, <1>5, HoldersFinite

\* Slots pass from the counter to a delivery, and from there to a contact, back
\* or away.
LEMMA SlotStepKeeps ==
  ASSUME FilingTypes, SlotsAreHeld, SlotsAreAccounted, NEW d \in Delivery, SlotStep(d)
  PROVE  /\ window' \in Window /\ charged' \in [Window -> 0..Cap] /\ slot' \in [Delivery -> 0..MaxWindow]
         /\ created' \in [Window -> Nat] /\ lost' \in [Window -> Nat]
         /\ SlotsAreHeld' /\ SlotsAreAccounted'
<1> USE FilingBounds DEF FilingTypes, SlotTypes, To, Here
<1> PICK w \in 0..MaxWindow : w = slot[d]
  OBVIOUS
<1> DEFINE Typed ==
               /\ window' \in Window /\ charged' \in [Window -> 0..Cap]
               /\ slot' \in [Delivery -> 0..MaxWindow]
               /\ created' \in [Window -> Nat] /\ lost' \in [Window -> Nat]
<1>0. /\ w \in Window <=> at[d] \in {"creating", "releasing", "givingUp"}
      /\ \A v \in Window : v \in 0..MaxWindow /\ v # 0
  BY DEF SlotsAreHeld, Window
<1>1. \A v : Cardinality(Holding(v)) \in Nat
  BY HoldersFinite
<1>2. ASSUME UNCHANGED <<charged, slot, created, lost>>, window' = window,
             at'[d] \in {"creating", "releasing", "givingUp"} <=>
               at[d] \in {"creating", "releasing", "givingUp"},
             \A e \in Delivery \ {d} : at'[e] = at[e]
      PROVE  Typed /\ SlotsAreHeld' /\ SlotsAreAccounted'
  BY <1>2 DEF SlotsAreHeld, SlotsAreAccounted, Holding
<1>3. ASSUME NEW v \in Window, Cardinality(Holding(v)') = Cardinality(Holding(v)) + 1,
             \A x \in Window \ {v} : Cardinality(Holding(x)') = Cardinality(Holding(x)),
             charged' = [charged EXCEPT ![v] = @ + 1], UNCHANGED <<created, lost>>
      PROVE  SlotsAreAccounted'
  <2> SUFFICES ASSUME NEW x \in Window
               PROVE  charged'[x] = created[x] + Cardinality(Holding(x)') + lost[x]
    BY <1>3 DEF SlotsAreAccounted
  <2>1. /\ charged[x] = created[x] + Cardinality(Holding(x)) + lost[x]
        /\ created[x] \in Nat /\ lost[x] \in Nat /\ Cardinality(Holding(x)) \in Nat
    BY <1>1 DEF SlotsAreAccounted
  <2>2. charged'[x] = IF x = v THEN charged[x] + 1 ELSE charged[x]
    BY <1>3
  <2>3. CASE x = v
    BY <1>3, <2>1, <2>2, <2>3
  <2>4. CASE x # v
    BY <1>3, <2>1, <2>2, <2>4
  <2>. QED
    BY <2>3, <2>4
<1>4. ASSUME w \in Window, slot' = [slot EXCEPT ![d] = 0],
             \/ charged' = charged /\ created' = [created EXCEPT ![w] = @ + 1] /\ lost' = lost
             \/ charged' = charged /\ created' = created /\ lost' = [lost EXCEPT ![w] = @ + 1]
             \/ charged' = [charged EXCEPT ![w] = @ - 1] /\ created' = created /\ lost' = lost
      PROVE  SlotsAreAccounted'
  <2> SUFFICES ASSUME NEW x \in Window
               PROVE  charged'[x] = created'[x] + Cardinality(Holding(x)') + lost'[x]
    BY DEF SlotsAreAccounted
  <2>1. /\ charged[x] = created[x] + Cardinality(Holding(x)) + lost[x]
        /\ created[x] \in Nat /\ lost[x] \in Nat /\ Cardinality(Holding(x)) \in Nat
    BY <1>1 DEF SlotsAreAccounted
  <2>2. /\ Cardinality(Holding(w)') = Cardinality(Holding(w)) - 1
        /\ \A v \in Window \ {w} : Cardinality(Holding(v)') = Cardinality(Holding(v))
    BY <1>4, SlotGivenUp
  <2>3. CASE x = w
    <3>1. charged'[x] - created'[x] - lost'[x] = charged[x] - created[x] - lost[x] - 1
          /\ charged'[x] \in Int /\ created'[x] \in Int /\ lost'[x] \in Int
      BY <1>4, <2>1, <2>3
    <3>. QED
      BY <2>1, <2>2, <2>3, <3>1
  <2>4. CASE x # w
    <3>1. charged'[x] = charged[x] /\ created'[x] = created[x] /\ lost'[x] = lost[x]
      BY <1>4, <2>4
    <3>. QED
      BY <2>1, <2>2, <2>4, <3>1
  <2>. QED
    BY <2>3, <2>4
<1>5. CASE Take(d)
  <2>1. ASSUME charged[window] < Cap,
               charged' = [charged EXCEPT ![window] = @ + 1],
               slot' = [slot EXCEPT ![d] = window], at' = [at EXCEPT ![d] = "creating"], lost' = lost
        PROVE  Typed /\ SlotsAreHeld' /\ SlotsAreAccounted'
    <3>1. UNCHANGED <<window, created, lost>> /\ at[d] = "taking"
      BY <1>5, <2>1 DEF Take
    <3>2. Typed
      BY <1>0, <2>1, <3>1
    <3>3. SlotsAreHeld'
      BY <1>0, <2>1, <3>1 DEF SlotsAreHeld
    <3>4. slot[d] = 0
      BY <3>1 DEF SlotsAreHeld
    <3>5. SlotsAreAccounted'
      <4>1. PICK v \in Window : v = window
        OBVIOUS
      <4>2. /\ Cardinality(Holding(v)') = Cardinality(Holding(v)) + 1
            /\ \A x \in Window \ {v} : Cardinality(Holding(x)') = Cardinality(Holding(x))
        BY <2>1, <3>4, <4>1, SlotTaken
      <4>. QED
        BY <1>3, <2>1, <3>1, <4>1, <4>2
    <3>. QED
      BY <3>2, <3>3, <3>5
  <2>2. ASSUME charged[window] < Cap,
               charged' = [charged EXCEPT ![window] = @ + 1], lost' = [lost EXCEPT ![window] = @ + 1],
               at' = [at EXCEPT ![d] = "skipping"], slot' = slot
        PROVE  Typed /\ SlotsAreHeld' /\ SlotsAreAccounted'
    <3>1. UNCHANGED <<window, created>> /\ at[d] = "taking"
      BY <1>5 DEF Take
    <3>2. Typed /\ SlotsAreHeld'
      BY <2>2, <3>1 DEF SlotsAreHeld
    <3>3. ASSUME NEW x \in Window PROVE charged'[x] = created'[x] + Cardinality(Holding(x)') + lost'[x]
      <4>1. /\ charged[x] = created[x] + Cardinality(Holding(x)) + lost[x]
            /\ created[x] \in Nat /\ lost[x] \in Nat /\ Cardinality(Holding(x)) \in Nat
        BY <1>1 DEF SlotsAreAccounted
      <4>2. Holding(x)' = Holding(x) /\ created'[x] = created[x]
        BY <2>2, <3>1 DEF Holding
      <4>3. CASE x = window
        BY <2>2, <4>1, <4>2, <4>3
      <4>4. CASE x # window
        BY <2>2, <4>1, <4>2, <4>4
      <4>. QED
        BY <4>3, <4>4
    <3>. QED
      BY <3>2, <3>3 DEF SlotsAreAccounted
  <2>3. ASSUME UNCHANGED <<charged, slot, lost>>, at' = [at EXCEPT ![d] = "skipping"]
        PROVE  Typed /\ SlotsAreHeld' /\ SlotsAreAccounted'
    BY <1>2, <1>5, <2>3 DEF Take
  <2>. QED
    BY <1>5, <2>1, <2>2, <2>3 DEF Take
<1>6. CASE Create(d)
  <2>1. CASE contact[address[form[d]]] = 0
    <3>1. /\ created' = [created EXCEPT ![w] = @ + 1]
          /\ slot' = [slot EXCEPT ![d] = 0] /\ at' = [at EXCEPT ![d] = "attachingNew"]
          /\ UNCHANGED <<window, charged, lost>> /\ w \in Window
      BY <1>0, <1>6, <2>1 DEF Create
    <3>2. Typed /\ SlotsAreHeld'
      BY <3>1 DEF SlotsAreHeld
    <3>3. SlotsAreAccounted'
      BY <1>4, <3>1
    <3>. QED
      BY <3>2, <3>3
  <2>2. CASE contact[address[form[d]]] # 0
    BY <1>2, <1>6, <2>2 DEF Create
  <2>. QED
    BY <2>1, <2>2
<1>7. CASE Release(d)
  <2>1. /\ slot' = [slot EXCEPT ![d] = 0] /\ at'[d] \in {"racing", "failed"}
        /\ \A e \in Delivery \ {d} : at'[e] = at[e]
        /\ UNCHANGED <<window, created>> /\ w \in Window
    BY <1>0, <1>7 DEF Release
  <2>2. charged[w] = created[w] + Cardinality(Holding(w)) + lost[w] /\ Cardinality(Holding(w)) # 0
    BY <2>1, SlotGivenUp DEF SlotsAreAccounted
  <2>3. charged[w] # 0
    <3>1. /\ charged[w] \in Nat /\ created[w] \in Nat /\ lost[w] \in Nat
          /\ Cardinality(Holding(w)) \in Nat
      BY <1>1, <2>1
    <3>. QED
      BY <2>2, <3>1
  <2>4. \/ charged' = [charged EXCEPT ![w] = @ - 1] /\ lost' = lost
        \/ charged' = charged /\ lost' = [lost EXCEPT ![w] = @ + 1]
    BY <1>7, <2>3 DEF Release
  <2>5. Typed /\ SlotsAreHeld'
    BY <2>1, <2>3, <2>4 DEF SlotsAreHeld
  <2>6. SlotsAreAccounted'
    BY <1>4, <2>1, <2>4
  <2>. QED
    BY <2>5, <2>6
<1>8. CASE Die(d)
  <2>1. at'[d] = "failed" /\ (\A e \in Delivery \ {d} : at'[e] = at[e])
        /\ UNCHANGED <<window, charged, created>>
    BY <1>8 DEF Die
  <2>2. CASE w = 0
    <3>1. UNCHANGED <<slot, lost>> /\ at[d] \notin {"creating", "releasing", "givingUp"}
      BY <1>8, <2>2 DEF Die, SlotsAreHeld
    <3>. QED
      BY <1>2, <2>1, <3>1
  <2>3. CASE w # 0
    <3>1. /\ w \in Window
          /\ lost' = [lost EXCEPT ![w] = @ + 1] /\ slot' = [slot EXCEPT ![d] = 0]
      BY <1>0, <1>8, <2>3 DEF Die, SlotsAreHeld
    <3>2. Typed /\ SlotsAreHeld'
      BY <2>1, <3>1 DEF SlotsAreHeld
    <3>3. SlotsAreAccounted'
      BY <1>4, <2>1, <3>1
    <3>. QED
      BY <3>2, <3>3
  <2>. QED
    BY <2>2, <2>3
<1>. QED
  BY <1>5, <1>6, <1>7, <1>8 DEF SlotStep

\* Nobody else touches them.
LEMMA SlotsKept ==
  ASSUME FilingTypes, SlotsAreHeld, SlotsAreAccounted, GNext
  PROVE  SlotTypes' /\ SlotsAreHeld' /\ SlotsAreAccounted'
<1> USE FilingBounds DEF FilingTypes, SlotTypes, To, Here
<1>1. at' \in [Delivery -> Places]
  BY PlacesKept
<1>2. ASSUME NEW d \in Delivery,
             \/ Deliver(d) \/ LookSuppressed(d) \/ FindContact(d) \/ Skip(d) \/ CreateFails(d)
             \/ Raced(d) \/ Claim(d) \/ WriteNote(d) \/ QueueResearch(d)
      PROVE  SlotTypes' /\ SlotsAreHeld' /\ SlotsAreAccounted'
  <2>1. UNCHANGED slots
    BY <1>2 DEF Deliver, LookSuppressed, FindContact, Skip, CreateFails, Raced, Claim, WriteNote,
       QueueResearch
  <2>2. \A e \in Delivery \ {d} : at'[e] = at[e]
    BY <1>2 DEF Deliver, LookSuppressed, FindContact, Skip, CreateFails, Raced, Claim, WriteNote,
       QueueResearch
  <2>3. at'[d] \in {"creating", "releasing", "givingUp"} <=>
          at[d] \in {"creating", "releasing", "givingUp"}
    BY <1>2 DEF Deliver, LookSuppressed, FindContact, Skip, CreateFails, Raced, Claim, WriteNote,
       QueueResearch, Attaching, After
  <2>. QED
    BY <1>1, <2>1, <2>2, <2>3 DEF slots, SlotsAreHeld, SlotsAreAccounted, Holding
<1>3. ASSUME NEW e \in Email, DeleteContact(e)
      PROVE  SlotTypes' /\ SlotsAreHeld' /\ SlotsAreAccounted'
  BY <1>3 DEF DeleteContact, slots, SlotsAreHeld, SlotsAreAccounted, Holding
<1>4. CASE HourEnds
  BY <1>4 DEF HourEnds, SlotsAreHeld, SlotsAreAccounted, Holding, Window
<1>. QED
  BY <1>1, <1>2, <1>3, <1>4, SlotStepKeeps DEF GNext, SlotStep

-----------------------------------------------------------------------------
\* The note: who claims the row is alone with it.
NotesAreOnce == OneNotes /\ OneNote /\ QueueingIsFiled /\ NothingFallsThrough

LEMMA NotesKept == ASSUME FilingTypes, NotesAreOnce, GNext PROVE NotesAreOnce'
<1> USE DEF FilingTypes, SlotTypes, RowTypes, FormTypes, NotesAreOnce, OneNotes, OneNote,
        QueueingIsFiled, NothingFallsThrough, To, Here, Noting
<1>1. ASSUME UNCHANGED <<given, filed, notes>>, filed \cup skipped \subseteq filed' \cup skipped',
             NEW d \in Delivery, \A e \in Delivery \ {d} : at'[e] = at[e],
             ~Noting(d)', at'[d] = "queueing" => form[d] \in filed,
             at'[d] = "done" => form[d] \in filed' \cup skipped'
      PROVE  NotesAreOnce'
  BY <1>1 DEF given
<1>2. ASSUME NEW d \in Delivery,
             \/ Deliver(d) \/ LookSuppressed(d) \/ FindContact(d) \/ Take(d) \/ Skip(d)
      PROVE  NotesAreOnce'
  <2>1. UNCHANGED <<given, filed, notes>> /\ skipped \subseteq skipped'
    BY <1>2 DEF Deliver, LookSuppressed, FindContact, Take, Skip, rows
  <2>2. /\ \A e \in Delivery \ {d} : at'[e] = at[e]
        /\ at'[d] \in {"done", "looking", "skipping", "finding", "attaching", "taking", "creating"}
        /\ at'[d] = "done" => form[d] \in filed \cup skipped'
    BY <1>2 DEF Deliver, LookSuppressed, FindContact, Take, Skip
  <2>. QED
    BY <1>1, <2>1, <2>2
<1>3. ASSUME NEW d \in Delivery, Create(d) \/ CreateFails(d) \/ Release(d) \/ Raced(d) \/ Die(d)
      PROVE  NotesAreOnce'
  <2>1. UNCHANGED <<given, rows, notes>>
    BY <1>3 DEF Create, CreateFails, Release, Raced, Die
  <2>2. /\ \A e \in Delivery \ {d} : at'[e] = at[e]
        /\ at'[d] \in {"attachingNew", "releasing", "givingUp", "racing", "failed", "attaching"}
    BY <1>3 DEF Create, CreateFails, Release, Raced, Die
  <2>. QED
    BY <1>1, <2>1, <2>2 DEF rows
<1>4. ASSUME NEW d \in Delivery, Claim(d) PROVE NotesAreOnce'
  <2>1. CASE form[d] \in filed \/ ~IsThere(d)
    <3>1. UNCHANGED <<given, rows, notes>> /\ \A e \in Delivery \ {d} : at'[e] = at[e]
      BY <1>4, <2>1 DEF Claim, rows
    <3>2. at'[d] = "failed" \/ (at'[d] \in {"queueing", "done"} /\ form[d] \in filed)
      BY <1>4, <2>1 DEF Claim, After
    <3>. QED
      BY <1>1, <3>1, <3>2 DEF rows
  <2>2. CASE form[d] \notin filed /\ IsThere(d)
    <3>1. /\ filed' = filed \cup {form[d]} /\ skipped' = skipped \ {form[d]}
          /\ UNCHANGED <<given, notes>> /\ \A e \in Delivery \ {d} : at'[e] = at[e]
      BY <1>4, <2>2 DEF Claim
    <3>2. at'[d] \in {"noting", "notingNew"}
      BY <1>4, <2>2 DEF Claim
    <3>3. form[d] \in Form /\ notes[form[d]] = 0
      <4>1. form[d] \in Form /\ notes[form[d]] \in Nat
        OBVIOUS
      <4>2. notes[form[d]] <= 1 /\ notes[form[d]] # 1
        BY <2>2, <4>1
      <4>. QED
        BY <4>1, <4>2
    <3>4. \A e \in Delivery : Noting(e) => form[e] # form[d]
      BY <2>2
    <3>5. OneNotes'
      BY <3>1, <3>2, <3>3, <3>4 DEF given
    <3>6. OneNote'
      BY <3>1 DEF given
    <3>7. QueueingIsFiled' /\ NothingFallsThrough'
      BY <3>1, <3>2 DEF given
    <3>. QED
      BY <3>5, <3>6, <3>7
  <2>. QED
    BY <2>1, <2>2
<1>5. ASSUME NEW d \in Delivery, WriteNote(d) PROVE NotesAreOnce'
  <2>1. /\ UNCHANGED <<given, rows>> /\ \A e \in Delivery \ {d} : at'[e] = at[e]
        /\ at'[d] \in {"queueing", "done", "failed"}
    BY <1>5 DEF WriteNote, After
  <2>2. /\ form[d] \in filed /\ notes[form[d]] = 0 /\ form[d] \in Form
        /\ \A e \in Delivery \ {d} : Noting(e) => form[e] # form[d]
    BY <1>5 DEF WriteNote
  <2>3. notes' = notes \/ notes' = [notes EXCEPT ![form[d]] = 1]
    BY <1>5, <2>2 DEF WriteNote
  <2>4. OneNotes'
    BY <2>1, <2>2, <2>3 DEF given, rows
  <2>5. OneNote'
    BY <2>1, <2>2, <2>3 DEF given, rows
  <2>6. QueueingIsFiled' /\ NothingFallsThrough'
    BY <2>1, <2>2 DEF given, rows
  <2>. QED
    BY <2>4, <2>5, <2>6
<1>6. ASSUME NEW d \in Delivery, QueueResearch(d) PROVE NotesAreOnce'
  <2>1. UNCHANGED <<given, rows, notes>> /\ at'[d] = "done" /\ at[d] = "queueing"
        /\ \A e \in Delivery \ {d} : at'[e] = at[e]
    BY <1>6 DEF QueueResearch
  <2>. QED
    BY <1>1, <2>1 DEF rows
<1>7. CASE (\E e \in Email : DeleteContact(e)) \/ HourEnds
  BY <1>7 DEF DeleteContact, HourEnds, given, rows
<1>. QED
  BY <1>2, <1>3, <1>4, <1>5, <1>6, <1>7 DEF GNext

LEMMA FilingInductive == GSpec => []GInv
<1>1. GInit => GInv
  <2> SUFFICES ASSUME GInit PROVE GInv
      OBVIOUS
  <2> USE FilingBounds DEF GInit
  <2>1. 0 \in 0..MaxMade /\ 1 \in Window /\ 0 \in 0..Cap /\ 0 \in 0..MaxWindow
    BY DEF Window
  <2>2. FormTypes /\ RowTypes /\ SlotTypes
    BY <2>1 DEF FormTypes, RowTypes, SlotTypes, Places, Ended
  <2>3. ContactTypes
    <3>1. \A e \in Email : made[e] \in 0..MaxMade
      OBVIOUS
    <3>. QED
      BY <2>1, <3>1 DEF ContactTypes
  <2>4. DeliveredIsStored /\ SlotsAreHeld /\ OneNotes /\ QueueingIsFiled
    BY DEF DeliveredIsStored, SlotsAreHeld, OneNotes, QueueingIsFiled, Noting
  <2>5. SlotsAreAccounted
    <3>1. ASSUME NEW w \in Window PROVE Cardinality(Holding(w)) = 0
      <4>1. Holding(w) = {}
        BY DEF Holding, Window
      <4>. QED
        BY <4>1, FS_EmptySet
    <3>2. \A w \in Window : charged[w] = 0 /\ created[w] = 0 /\ lost[w] = 0
      OBVIOUS
    <3>. QED
      BY <3>1, <3>2 DEF SlotsAreAccounted
  <2>6. OneNote /\ NothingFallsThrough
    BY DEF OneNote, NothingFallsThrough
  <2>. QED
    BY <2>2, <2>3, <2>4, <2>5, <2>6 DEF GInv, FilingTypes, FilingIsExact
<1>2. GInv /\ [GNext]_gvars => GInv'
  <2> SUFFICES ASSUME GInv, [GNext]_gvars PROVE GInv'
      OBVIOUS
  <2>1. CASE UNCHANGED gvars
    BY <2>1 DEF gvars, given, rows, people, slots, GInv, FilingTypes, FormTypes, RowTypes,
       ContactTypes, SlotTypes, DeliveredIsStored, SlotsAreHeld, OneNotes, Noting,
       QueueingIsFiled, FilingIsExact, OneNote, NothingFallsThrough, SlotsAreAccounted, Holding
  <2>2. CASE GNext
    BY <2>2, PlacesKept, RowsKept, ContactsKept, SlotsKept, NotesKept
       DEF GInv, FilingTypes, ContactTypes, NotesAreOnce, FilingIsExact
  <2>. QED
    BY <2>1, <2>2
<1>. QED
  BY <1>1, <1>2, PTL DEF GSpec

\* THEOREM: every reachable state of the submissions and their deliveries has its
\* types, among them that the cap of no hour is passed.
THEOREM FilingTypeCorrect == GSpec => []GTypeOK
<1>1. GInv => GTypeOK
  BY DEF GInv, FilingTypes, FormTypes, RowTypes, ContactTypes, SlotTypes, GTypeOK
<1>. QED
  BY <1>1, FilingInductive, PTL

\* THEOREM: however many deliveries of however many submissions run at once, and
\* die where they may, each submission is filed once and not lost, and every slot
\* of the cap is a contact's, a delivery's or lost to a death or a failed statement.
THEOREM FilingExact == GSpec => []FilingIsExact
BY FilingInductive, PTL DEF GInv

(***************************************************************************)
(* The cursor of a mailbox.  A pass settles long after it read the cursor, *)
(* on a row that others wrote meanwhile.  What makes its cursor good is    *)
(* not the row but what the pass itself knows: all up to where it started  *)
(* is in the CRM or excused, and all from there to its head is, or is      *)
(* still in its batch, or is on a page it has not asked for.  Both only    *)
(* become truer.                                                           *)
(***************************************************************************)
Steps == {"idle", "listed", "begun", "reading", "settling"}
Statuses == {"gone", "IDLE", "RUNNING", "FAILED", "NEEDS_RECONNECT"}
Leases == {"none", "held", "over"}

BoxTypes ==
  provider \in {"gmail", "outlook"} /\ kept \subseteq Mail /\ arrived \in Cursor /\ granted \in BOOLEAN
MailRowTypes == status \in Statuses /\ lease \in Leases /\ cursor \in Cursor \cup {None}
ReadTypes ==
  synced \subseteq kept /\ passed \subseteq Mail /\ overlooked \subseteq Mail /\ faults \in 0..MaxFault
PassTypes ==
  /\ fresh \subseteq Pass /\ knows \subseteq Pass /\ claimed \subseteq Pass
  /\ step \in [Pass -> Steps] /\ from \in [Pass -> Cursor \cup {None}]
  /\ head \in [Pass -> Cursor] /\ left \in [Pass -> SUBSET Mail]
  /\ beyond \in [Pass -> SUBSET Mail]

MailboxTypes == BoxTypes /\ MailRowTypes /\ ReadTypes /\ PassTypes

\* Every message to be kept up to the cursor c is in the CRM, or is excused.
Covered(c) == \A m \in kept : m <= c => m \in synced \cup Excused

StartIsCovered == \A t \in Pass : from[t] # None => Covered(from[t])

BatchReachesHead ==
  \A t \in Pass : step[t] = "settling" /\ from[t] # None =>
    \A m \in kept : m <= head[t] => m \in synced \cup Excused \cup left[t] \cup beyond[t]

\* Outlook is asked for page after page.
OutlookIsWhole ==
  provider # "gmail" => overlooked = {} /\ \A t \in Pass : beyond[t] = {}

CursorInv == OnlyLaterPagesAreLost /\ StartIsCovered /\ BatchReachesHead /\ OutlookIsWhole

MbInv == MailboxTypes /\ CursorInv

LEMMA MailboxBounds == MaxMail \in Nat /\ Batch \in Nat /\ Batch >= 1 /\ MaxFault \in Nat /\ HistoryPage \in Nat
BY MailboxAssumption

\* A set of messages has a last one.
LEMMA HasLast ==
  ASSUME NEW S \in SUBSET Cursor, S # {}
  PROVE  \E m \in S : \A n \in S : n <= m
<1> USE MailboxBounds DEF Cursor
<1> DEFINE Below == {MaxMail - x : x \in S}
<1>1. Below \subseteq Nat /\ Below # {}
  <2>1. \A x \in S : MaxMail - x \in Nat
    OBVIOUS
  <2>2. PICK x \in S : TRUE
    OBVIOUS
  <2>3. MaxMail - x \in Below
    OBVIOUS
  <2>. QED
    BY <2>1, <2>3
<1>2. PICK b \in Below : \A u \in Below : ~(<<u, b>> \in OpToRel(<, Nat))
  BY <1>1, WFMin, NatLessThanWellFounded
<1>3. \A u \in Below : u >= b
  <2> SUFFICES ASSUME NEW u \in Below, u < b PROVE FALSE
    BY <1>1
  <2>1. <<u, b>> \in {ss \in Nat \X Nat : ss[1] < ss[2]}
    BY <1>1
  <2>. QED
    BY <1>2, <2>1 DEF OpToRel
<1>4. PICK m \in S : b = MaxMail - m
  OBVIOUS
<1>5. \A n \in S : n <= m
  <2> TAKE n \in S
  <2>1. MaxMail - n \in Below
    OBVIOUS
  <2> HIDE DEF Below
  <2>2. m \in Nat /\ n \in Nat
    OBVIOUS
  <2>3. MaxMail - n >= MaxMail - m
    BY <1>3, <1>4, <2>1
  <2>. QED
    BY <2>2, <2>3
<1>. QED
  BY <1>5

\* The first messages of a set are its beginning.
LEMMA FirstIsABeginning ==
  ASSUME NEW b \in Nat, NEW S \in SUBSET Mail, NEW m \in First(b, S), NEW n \in S, n < m
  PROVE  n \in First(b, S)
<1> DEFINE Before(x) == {y \in S : y < x}
<1>1. IsFiniteSet(Mail)
  BY MailboxBounds, FS_Interval DEF Mail
<1>2. m \in S /\ Cardinality(Before(m)) < b
  BY DEF First
<1>3. Before(n) \subseteq Before(m) /\ Before(m) \subseteq Mail
  <2>1. Before(m) \subseteq Mail /\ m \in Mail /\ n \in Mail
    BY <1>2
  <2>2. \A y \in Mail : y \in Nat
    BY MailboxBounds DEF Mail
  <2>3. \A y \in S : y \in Mail /\ (y < n => y < m)
    BY <2>1, <2>2
  <2>. QED
    BY <2>1, <2>3
<1>4. IsFiniteSet(Before(m))
  BY <1>1, <1>3, FS_Subset
<1>5. IsFiniteSet(Before(n)) /\ Cardinality(Before(n)) <= Cardinality(Before(m))
  BY <1>3, <1>4, FS_Subset
<1>6. Cardinality(Before(n)) \in Nat /\ Cardinality(Before(m)) \in Nat
  BY <1>4, <1>5, FS_CardinalityType
<1>7. Cardinality(Before(n)) < b
  BY <1>2, <1>5, <1>6
<1>. QED
  BY <1>7 DEF First

LEMMA ListedAreMail ==
  ASSUME BoxTypes, NEW t \in Pass, NEW n \in 1..HistoryPage
  PROVE  /\ Listed(t, n) \subseteq NewMail(t) /\ NewMail(t) \subseteq 1..arrived
         /\ Pending(t, n) \subseteq Listed(t, n) /\ ToRead(t, n) \subseteq Pending(t, n)
         /\ 1..arrived \subseteq Mail
BY MailboxBounds DEF BoxTypes, NewMail, First, Listed, Pending, ToRead, Mail, Cursor

\* Where a pass will settle: up to there, it has all or is going to read it, but
\* for what is on a later page of Gmail's.
LEMMA ReachedIsCovered ==
  ASSUME BoxTypes, NEW t \in Pass, from[t] \in Cursor, Covered(from[t]), NEW n \in 1..HistoryPage
  PROVE  /\ Reached(t, n) \in Cursor
         /\ \A m \in kept : m <= Reached(t, n) => m \in synced \cup Excused \cup ToRead(t, n) \cup Beyond(t, n)
         /\ provider # "gmail" => Beyond(t, n) = {}
<1> USE MailboxBounds
<1> DEFINE r == Reached(t, n)
<1>1. /\ arrived \in Nat /\ arrived \in Cursor /\ kept \subseteq Mail /\ from[t] \in Nat
      /\ \A m \in Mail : m \in Nat /\ m >= 1
  BY DEF BoxTypes, Cursor, Mail
<1>2. \A m \in kept : m <= from[t] => m \in synced \cup Excused
  BY DEF Covered
<1>3. \A m \in kept : m > from[t] /\ m <= arrived => m \in NewMail(t)
  BY <1>1 DEF NewMail
<1>4. CASE provider = "gmail"
  <2>1. CASE ToRead(t, n) = Pending(t, n)
    <3>1. r = arrived
      BY <1>4, <2>1 DEF Reached
    <3>2. ASSUME NEW m \in kept, m <= r, m > from[t]
          PROVE  m \in synced \cup ToRead(t, n) \cup Beyond(t, n)
      <4>1. m \in NewMail(t)
        BY <1>3, <3>1, <3>2
      <4>2. CASE m \in Listed(t, n)
        BY <1>4, <2>1, <4>2 DEF Pending
      <4>3. CASE m \notin Listed(t, n)
        BY <3>2, <4>1, <4>3 DEF Beyond
      <4>. QED
        BY <4>2, <4>3
    <3>3. r \in Cursor /\ r \in Nat
      BY <1>1, <3>1
    <3> HIDE DEF r
    <3>4. \A m \in kept : m <= r => m \in synced \cup Excused \cup ToRead(t, n) \cup Beyond(t, n)
      BY <1>1, <1>2, <3>2, <3>3
    <3>. QED
      BY <1>4, <3>3, <3>4 DEF r
  <2>2. CASE ToRead(t, n) # Pending(t, n)
    <3>1. Reached(t, n) = from[t]
      BY <1>4, <2>2 DEF Reached
    <3>. QED
      BY <1>2, <1>4, <3>1
  <2>. QED
    BY <2>1, <2>2
<1>5. CASE provider # "gmail"
  <2> DEFINE F == ToRead(t, n)
             S == F \cup {from[t]}
  <2>1. Listed(t, n) = NewMail(t) /\ Pending(t, n) = NewMail(t) /\ F = First(Batch, NewMail(t))
    BY <1>5 DEF ToRead, Pending, Listed
  <2>2. NewMail(t) \subseteq Mail /\ Mail \subseteq Cursor /\ F \subseteq NewMail(t)
    BY <2>1, ListedAreMail DEF Mail, Cursor
  <2>3. S \in SUBSET Cursor /\ S # {}
    BY <2>2
  <2>4. r = CHOOSE m \in S : \A k \in S : k <= m
    BY <1>5 DEF Reached
  <2>5. \E m \in S : \A k \in S : k <= m
    BY <2>3, HasLast
  <2>6. r \in S /\ \A k \in S : k <= r
    BY <2>4, <2>5
  <2>7. r \in Nat
    BY <2>3, <2>6 DEF Cursor
  <2>8. Beyond(t, n) = {}
    BY <2>1 DEF Beyond
  <2> HIDE DEF r
  <2>9. ASSUME NEW m \in kept, m <= r, m > from[t]
        PROVE  m \in F
    <3>1. r \in F
      BY <1>1, <2>6, <2>7, <2>9
    <3>2. r <= arrived
      BY <2>2, <3>1 DEF NewMail
    <3>3. m \in NewMail(t)
      BY <1>1, <1>3, <2>7, <2>9, <3>2
    <3>4. CASE m = r
      BY <3>1, <3>4
    <3>5. CASE m < r
      BY <2>1, <2>2, <3>1, <3>3, <3>5, FirstIsABeginning
    <3>. QED
      BY <1>1, <2>7, <2>9, <3>4, <3>5
  <2>10. \A m \in kept : m <= r => m \in synced \cup Excused \cup F
    BY <1>1, <1>2, <2>7, <2>9
  <2>. QED
    BY <2>3, <2>6, <2>8, <2>10 DEF r
<1>. QED
  BY <1>4, <1>5

\* What a pass that lists its mail knows of its batch.
LEMMA BatchTypes ==
  ASSUME BoxTypes, StartIsCovered, NEW t \in Pass, from[t] \in Cursor, from[t] # None,
         NEW n \in 1..HistoryPage
  PROVE  ToRead(t, n) \in SUBSET Mail /\ Beyond(t, n) \in SUBSET Mail /\ Reached(t, n) \in Cursor
<1>1. ToRead(t, n) \subseteq Mail /\ Beyond(t, n) \subseteq Mail
  BY ListedAreMail DEF Beyond
<1>2. Covered(from[t])
  BY DEF StartIsCovered
<1>. QED
  BY <1>1, <1>2, ReachedIsCovered

LEMMA WorldKept == ASSUME MailboxTypes, MbNext PROVE BoxTypes' /\ ReadTypes'
<1> USE MailboxBounds DEF MailboxTypes, BoxTypes, ReadTypes, mailbox, unread
<1>1. faults \in 0..MaxFault /\ (Fault => faults' \in 0..MaxFault)
  BY DEF Fault
<1>2. ASSUME NEW t \in Pass, List(t) \/ SyncNow(t) \/ ClaimRow(t) \/ ReadRow(t) \/ NotConnected(t) \/ ListMail(t)
      PROVE  BoxTypes' /\ ReadTypes'
  BY <1>2 DEF List, SyncNow, ClaimRow, ReadRow, NotConnected, ListMail
<1>3. ASSUME NEW t \in Pass, ReadMail(t) PROVE BoxTypes' /\ ReadTypes'
  BY <1>3 DEF ReadMail
<1>4. ASSUME NEW t \in Pass, SkipMail(t) PROVE BoxTypes' /\ ReadTypes'
  <2>1. left[t] \subseteq Mail
    BY DEF PassTypes
  <2>. QED
    BY <1>1, <1>4, <2>1 DEF SkipMail
<1>5. ASSUME NEW t \in Pass, Settle(t) PROVE BoxTypes' /\ ReadTypes'
  <2>1. head[t] \in Cursor
    BY DEF PassTypes
  <2>2. 1..head[t] \subseteq Mail
    BY <2>1 DEF Cursor, Mail
  <2>3. beyond[t] \subseteq Mail
    BY DEF PassTypes
  <2>. QED
    BY <1>5, <2>2, <2>3 DEF Settle
<1>6. ASSUME NEW t \in Pass, Fails(t) \/ Throws(t) \/ Dies(t) PROVE BoxTypes' /\ ReadTypes'
  BY <1>1, <1>6 DEF Fails, Throws, Dies
<1>7. CASE Arrive
  BY <1>7 DEF Arrive, Cursor
<1>8. CASE LeaseRunsOut \/ Grant \/ Ensure
  BY <1>8 DEF LeaseRunsOut, Grant, Ensure
<1>9. CASE Disconnect \/ Ungrant
  BY <1>1, <1>9 DEF Disconnect, Ungrant
<1>. QED
  BY <1>2, <1>3, <1>4, <1>5, <1>6, <1>7, <1>8, <1>9 DEF MbNext, Proceeds

LEMMA MailRowKept == ASSUME MailboxTypes, MbNext PROVE MailRowTypes' /\ fresh' \subseteq Pass
<1> USE DEF MailboxTypes, MailRowTypes, Statuses, Leases, row, Write
<1>1. fresh \subseteq Pass
  BY DEF PassTypes
<1>2. ASSUME NEW t \in Pass, List(t) \/ SyncNow(t) \/ ClaimRow(t) \/ ReadRow(t) \/ NotConnected(t) \/ ListMail(t)
      PROVE  MailRowTypes' /\ fresh' \subseteq Pass
  BY <1>1, <1>2 DEF List, SyncNow, ClaimRow, ReadRow, NotConnected, ListMail
<1>3. ASSUME NEW t \in Pass, ReadMail(t) \/ SkipMail(t) \/ Dies(t)
      PROVE  MailRowTypes' /\ fresh' \subseteq Pass
  BY <1>1, <1>3 DEF ReadMail, SkipMail, Dies
<1>4. ASSUME NEW t \in Pass, Settle(t) PROVE MailRowTypes' /\ fresh' \subseteq Pass
  <2>1. head[t] \in Cursor
    BY DEF PassTypes
  <2>. QED
    BY <1>1, <1>4, <2>1 DEF Settle
<1>5. ASSUME NEW t \in Pass, Fails(t) \/ Throws(t) PROVE MailRowTypes' /\ fresh' \subseteq Pass
  BY <1>1, <1>5 DEF Fails, Answer, Throws
<1>6. CASE Arrive \/ LeaseRunsOut \/ Disconnect \/ Ungrant \/ Grant \/ Ensure
  BY <1>1, <1>6 DEF Arrive, LeaseRunsOut, Disconnect, Ungrant, Grant, Ensure
<1>. QED
  BY <1>2, <1>3, <1>4, <1>5, <1>6 DEF MbNext, Proceeds

LEMMA PassesKept == ASSUME MailboxTypes, StartIsCovered, MbNext PROVE PassTypes'
<1>0. fresh' \subseteq Pass
  BY MailRowKept
<1> DEFINE TurnTypes ==
      /\ knows \subseteq Pass /\ claimed \subseteq Pass
      /\ step \in [Pass -> Steps] /\ from \in [Pass -> Cursor \cup {None}]
      /\ head \in [Pass -> Cursor] /\ left \in [Pass -> SUBSET Mail]
      /\ beyond \in [Pass -> SUBSET Mail]
<1> USE DEF PassTypes, MailboxTypes, Steps, Go
<1>1. ASSUME NEW t \in Pass, Leave(t) PROVE TurnTypes'
  <2>1. 0 \in Cursor
    BY MailboxBounds DEF Cursor
  <2>. QED
    BY <1>1, <2>1 DEF Leave
<1>2. ASSUME NEW t \in Pass, List(t) \/ SyncNow(t) PROVE TurnTypes'
  BY <1>2 DEF List, SyncNow, reading
<1>3. ASSUME NEW t \in Pass, ClaimRow(t) PROVE TurnTypes'
  BY <1>1, <1>3 DEF ClaimRow, reading
<1>4. ASSUME NEW t \in Pass, ReadRow(t) PROVE TurnTypes'
  BY <1>1, <1>4 DEF ReadRow, MailRowTypes
<1>5. ASSUME NEW t \in Pass, ListMail(t) PROVE TurnTypes'
  <2>1. CASE t \notin knows
    BY <1>1, <1>5, <2>1 DEF ListMail
  <2>2. CASE t \in knows /\ from[t] = None
    BY <1>5, <2>2 DEF ListMail, BoxTypes
  <2>3. CASE t \in knows /\ from[t] # None
    <3>1. \A n \in 1..HistoryPage : ToRead(t, n) \in SUBSET Mail /\ Beyond(t, n) \in SUBSET Mail /\ Reached(t, n) \in Cursor
      BY <2>3, BatchTypes
    <3>. QED
      BY <1>5, <2>3, <3>1 DEF ListMail
  <2>. QED
    BY <2>1, <2>2, <2>3
<1>6. ASSUME NEW t \in Pass, ReadMail(t) \/ SkipMail(t) PROVE TurnTypes'
  BY <1>6 DEF ReadMail, SkipMail
<1>7. ASSUME NEW t \in Pass, NotConnected(t) \/ Settle(t) \/ Fails(t) \/ Throws(t) \/ Dies(t) PROVE TurnTypes'
  BY <1>1, <1>7 DEF NotConnected, Settle, Fails, Throws, Dies
<1>8. CASE Arrive \/ LeaseRunsOut \/ Disconnect \/ Ungrant \/ Grant \/ Ensure
  BY <1>8 DEF Arrive, LeaseRunsOut, Disconnect, Ungrant, Grant, Ensure, reading
<1>. QED
  BY <1>0, <1>2, <1>3, <1>4, <1>5, <1>6, <1>7, <1>8 DEF MbNext, Proceeds

\* What keeps the invariant unless a pass lists its mail or settles: it has what
\* it had, reads the cursor or leaves, and a letter that leaves its batch is in
\* the CRM, was passed or is not to be kept.
LEMMA CoverKept ==
  ASSUME MbInv,
         kept' = kept, synced \subseteq synced', passed \subseteq passed', overlooked' = overlooked,
         provider' = provider, cursor' \in {cursor, None},
         \A t \in Pass : from'[t] \in {None, from[t], cursor} /\ beyond'[t] \in {{}, beyond[t]},
         \A t \in Pass : step'[t] = "settling" /\ from'[t] # None =>
           /\ step[t] = "settling" /\ from'[t] = from[t] /\ head'[t] = head[t] /\ beyond'[t] = beyond[t]
           /\ \A m \in left[t] \cap kept : m \in left'[t] \cup synced' \cup passed'
  PROVE  CursorInv'
<1> USE DEF MbInv, CursorInv, Excused
<1>1. OnlyLaterPagesAreLost'
  BY DEF OnlyLaterPagesAreLost
<1>2. StartIsCovered'
  BY DEF OnlyLaterPagesAreLost, StartIsCovered, Covered
<1>3. BatchReachesHead'
  BY DEF BatchReachesHead
<1>4. OutlookIsWhole'
  BY DEF OutlookIsWhole
<1>. QED
  BY <1>1, <1>2, <1>3, <1>4

LEMMA OneListsItsMail == ASSUME MbInv, NEW t \in Pass, ListMail(t) PROVE CursorInv'
<1> USE DEF MbInv, CursorInv
<1>1. /\ kept' = kept /\ provider' = provider /\ synced' = synced /\ passed' = passed /\ overlooked' = overlooked
      /\ cursor' = cursor
      /\ \A o \in Pass : from'[o] \in {None, from[o]}
      /\ \A o \in Pass \ {t} : /\ step'[o] = step[o] /\ from'[o] = from[o] /\ head'[o] = head[o]
                              /\ left'[o] = left[o] /\ beyond'[o] = beyond[o]
  BY DEF ListMail, Write, Leave, Go, row, mailbox, unread, MailboxTypes, PassTypes
<1>2. OnlyLaterPagesAreLost'
  BY <1>1 DEF OnlyLaterPagesAreLost, Excused
<1>3. StartIsCovered'
  BY <1>1 DEF StartIsCovered, Covered, Excused
<1>4. CASE t \notin knows
  <2>1. step'[t] = "idle" /\ beyond'[t] = {}
    BY <1>4 DEF ListMail, Leave, Go, MailboxTypes, PassTypes
  <2>. QED
    BY <1>1, <1>2, <1>3, <2>1 DEF BatchReachesHead, OutlookIsWhole, Excused
<1>5. CASE t \in knows /\ from[t] = None
  <2>1. from'[t] = None /\ beyond' = beyond
    BY <1>5 DEF ListMail
  <2>. QED
    BY <1>1, <1>2, <1>3, <2>1 DEF BatchReachesHead, OutlookIsWhole, Excused
<1>6. CASE t \in knows /\ from[t] # None
  <2>1. PICK n \in 1..HistoryPage :
          from'[t] = from[t] /\ left'[t] = ToRead(t, n) /\ head'[t] = Reached(t, n) /\ beyond'[t] = Beyond(t, n)
    BY <1>6 DEF ListMail, MailboxTypes, PassTypes
  <2>2. from[t] \in Cursor /\ Covered(from[t])
    BY <1>6 DEF MailboxTypes, PassTypes, StartIsCovered
  <2>3. /\ \A m \in kept : m <= head'[t] => m \in synced \cup Excused \cup left'[t] \cup beyond'[t]
        /\ provider # "gmail" => beyond'[t] = {}
    BY <2>1, <2>2, ReachedIsCovered DEF MailboxTypes
  <2>. QED
    BY <1>1, <1>2, <1>3, <2>3 DEF BatchReachesHead, OutlookIsWhole, Excused
<1>. QED
  BY <1>4, <1>5, <1>6

LEMMA OneSettles == ASSUME MbInv, NEW t \in Pass, Settle(t) PROVE CursorInv'
<1> USE DEF MbInv, CursorInv
<1>1. /\ kept' = kept /\ provider' = provider /\ synced' = synced /\ passed \subseteq passed'
      /\ overlooked \subseteq overlooked' /\ overlooked' \subseteq overlooked \cup beyond[t]
      /\ cursor' \in {cursor, head[t]}
      /\ step'[t] = "idle" /\ from'[t] = None /\ beyond'[t] = {}
      /\ \A o \in Pass \ {t} : /\ step'[o] = step[o] /\ from'[o] = from[o] /\ head'[o] = head[o]
                              /\ left'[o] = left[o] /\ beyond'[o] = beyond[o]
  BY DEF Settle, Write, Leave, Go, row, mailbox, MailboxTypes, PassTypes
<1>2. OutlookIsWhole'
  BY <1>1 DEF OutlookIsWhole
<1>3. (\A m \in kept : cursor' # None /\ m <= cursor' => m \in synced' \cup Excused') => OnlyLaterPagesAreLost'
  <2>1. provider \in {"gmail", "outlook"}
    BY DEF MailboxTypes, BoxTypes
  <2>. QED
    BY <1>1, <1>2, <2>1 DEF OnlyLaterPagesAreLost, OutlookIsWhole
<1>4. ASSUME t \notin knows PROVE OnlyLaterPagesAreLost'
  <2>1. cursor' = cursor
    BY <1>4 DEF Settle, Write, row
  <2>. QED
    BY <1>1, <1>3, <2>1 DEF OnlyLaterPagesAreLost, Excused
<1>5. ASSUME t \in knows, from[t] = None PROVE OnlyLaterPagesAreLost'
  <2>1. cursor' = head[t] /\ 1..head[t] \subseteq passed'
    BY <1>5 DEF Settle, Write
  <2>2. head[t] \in Nat /\ kept \subseteq Mail /\ \A m \in Mail : m \in Nat /\ m >= 1
    BY MailboxBounds DEF MailboxTypes, PassTypes, BoxTypes, Cursor, Mail
  <2>3. \A m \in kept : m <= head[t] => m \in 1..head[t]
    BY <2>2
  <2>. QED
    BY <1>1, <1>3, <2>1, <2>3 DEF Excused
<1>6. ASSUME t \in knows, from[t] # None PROVE OnlyLaterPagesAreLost'
  <2>1. cursor' = head[t] /\ left[t] = {} /\ overlooked' = overlooked \cup beyond[t]
    BY <1>6 DEF Settle, Write
  <2>2. \A m \in kept : m <= head[t] => m \in synced \cup Excused \cup beyond[t]
    BY <1>6, <2>1 DEF Settle, BatchReachesHead
  <2>. QED
    BY <1>1, <1>3, <2>1, <2>2 DEF Excused
<1>7. OnlyLaterPagesAreLost'
  BY <1>4, <1>5, <1>6
<1>8. StartIsCovered'
  BY <1>1 DEF StartIsCovered, Covered, Excused
<1>9. BatchReachesHead'
  BY <1>1 DEF BatchReachesHead, Excused
<1>. QED
  BY <1>2, <1>7, <1>8, <1>9

LEMMA CursorKept == ASSUME MbInv, MbNext PROVE CursorInv'
<1> DEFINE Kept == /\ kept' = kept /\ provider' = provider /\ synced \subseteq synced'
                   /\ passed \subseteq passed' /\ overlooked' = overlooked
           NotMoved == cursor' \in {cursor, None}
           Starts == \A t \in Pass : from'[t] \in {None, from[t], cursor} /\ beyond'[t] \in {{}, beyond[t]}
           Batches == \A t \in Pass : step'[t] = "settling" /\ from'[t] # None =>
             /\ step[t] = "settling" /\ from'[t] = from[t] /\ head'[t] = head[t] /\ beyond'[t] = beyond[t]
             /\ \A m \in left[t] \cap kept : m \in left'[t] \cup synced' \cup passed'
<1>1. Kept /\ NotMoved /\ Starts /\ Batches => CursorInv'
  BY CoverKept
<1> USE DEF MbInv, MailboxTypes, PassTypes, Go, row, mailbox, reading, unread
<1>2. ASSUME NEW t \in Pass, List(t) \/ SyncNow(t) PROVE CursorInv'
  <2>1. Kept /\ NotMoved /\ Starts /\ Batches
    BY <1>2 DEF List, SyncNow
  <2>. QED
    BY <1>1, <2>1
<1>3. ASSUME NEW t \in Pass, ClaimRow(t) \/ ReadRow(t) PROVE CursorInv'
  <2>1. Kept /\ NotMoved /\ Starts /\ Batches
    BY <1>3 DEF ClaimRow, ReadRow, Leave, Write
  <2>. QED
    BY <1>1, <2>1
<1>4. ASSUME NEW t \in Pass, ReadMail(t) \/ SkipMail(t) PROVE CursorInv'
  <2>1. Kept /\ NotMoved /\ Starts
    BY <1>4 DEF ReadMail, SkipMail
  <2>2. Batches
    BY <1>4 DEF ReadMail, SkipMail
  <2>. QED
    BY <1>1, <2>1, <2>2
<1>5. ASSUME NEW t \in Pass, Leave(t) PROVE Starts /\ Batches
  BY <1>5 DEF Leave
<1>6. ASSUME NEW t \in Pass, NotConnected(t) \/ Fails(t) \/ Throws(t) \/ Dies(t) PROVE CursorInv'
  <2>1. Leave(t)
    BY <1>6 DEF NotConnected, Fails, Throws, Dies
  <2>2. Kept /\ NotMoved
    BY <1>6 DEF NotConnected, Fails, Answer, Throws, Dies, Write
  <2>. QED
    BY <1>1, <1>5, <2>1, <2>2
<1>7. CASE Arrive \/ LeaseRunsOut \/ Disconnect \/ Ungrant \/ Grant \/ Ensure
  <2>1. Kept /\ NotMoved /\ Starts /\ Batches
    BY <1>7 DEF Arrive, LeaseRunsOut, Disconnect, Ungrant, Grant, Ensure
  <2>. QED
    BY <1>1, <2>1
<1>. QED
  BY <1>2, <1>3, <1>4, <1>6, <1>7, OneListsItsMail, OneSettles DEF MbNext, Proceeds

LEMMA MailboxInductive == MbSpec => []MbInv
<1>1. MbInit => MbInv
  <2> SUFFICES ASSUME MbInit PROVE MbInv
      OBVIOUS
  <2> USE MailboxBounds DEF MbInit
  <2>1. 0 \in Cursor /\ 0 \in 0..MaxFault
    BY DEF Cursor
  <2>2. BoxTypes /\ MailRowTypes /\ ReadTypes
    BY <2>1 DEF BoxTypes, MailRowTypes, ReadTypes, Statuses, Leases
  <2>3. PassTypes
    BY <2>1 DEF PassTypes, Steps
  <2>4. CursorInv
    BY DEF CursorInv, OnlyLaterPagesAreLost, StartIsCovered, BatchReachesHead, OutlookIsWhole
  <2>. QED
    BY <2>2, <2>3, <2>4 DEF MbInv, MailboxTypes
<1>2. MbInv /\ [MbNext]_mbvars => MbInv'
  <2> SUFFICES ASSUME MbInv, [MbNext]_mbvars PROVE MbInv'
      OBVIOUS
  <2>1. CASE UNCHANGED mbvars
    BY <2>1 DEF mbvars, mailbox, row, reading, unread, MbInv, MailboxTypes, BoxTypes, MailRowTypes,
       ReadTypes, PassTypes, CursorInv, OnlyLaterPagesAreLost, Excused, StartIsCovered, Covered, BatchReachesHead,
       OutlookIsWhole
  <2>2. CASE MbNext
    BY <2>2, WorldKept, MailRowKept, PassesKept, CursorKept DEF MbInv, MailboxTypes, CursorInv
  <2>. QED
    BY <2>1, <2>2
<1>. QED
  BY <1>1, <1>2, PTL DEF MbSpec

\* THEOREM: every reachable state of a mailbox and the passes over it has its
\* types.
THEOREM MailboxTypeCorrect == MbSpec => []MbTypeOK
<1>1. MbInv => MbTypeOK
  BY DEF MbInv, MailboxTypes, BoxTypes, MailRowTypes, ReadTypes, PassTypes, MbTypeOK, Steps, Statuses, Leases
<1>. QED
  BY <1>1, MailboxInductive, PTL

\* THEOREM: however many passes over however much mail overlap, fail, die and
\* settle late, the cursor passes a message to be kept that is not in the CRM only
\* if it came before the connection, if Gmail did not give it, or if it stood on a
\* page of Gmail's history after the first; Outlook's cursor passes none of those
\* last (gmail-sync.service.ts:131, 164-170).
THEOREM CursorLosesOnlyLaterPages == MbSpec => []OnlyLaterPagesAreLost
BY MailboxInductive, PTL DEF MbInv, CursorInv

-----------------------------------------------------------------------------
(***************************************************************************)
(* The count of a thread.  As long as nothing is raced, a purge is alone   *)
(* and nothing is stored under it: what it found, deleted and counted is   *)
(* what is there when it commits.  So the two ends that a race leads to, a *)
(* thread gone before its lock and nothing left to count, are not reached. *)
(***************************************************************************)
LetterPlaces == {"idle", "looking", "matching", "making", "storing"}
PurgePlaces == {"none", "dropping", "waiting", "dropped", "reading", "writing", "counted", "written"}

HolderTypes ==
  /\ box \in [Holder -> SUBSET Letter] /\ heard \subseteq Holder /\ firm \in BOOLEAN
  /\ passedBy \in [Holder -> SUBSET Letter] /\ upsets \in Nat /\ upsets <= MaxUpset
PersonTypes ==
  /\ contacts \in Nat /\ contacts <= MaxContact /\ barred \in BOOLEAN
  /\ known \in Nat /\ known <= contacts /\ about \in Nat /\ about <= contacts
  /\ target \in [Holder -> Nat] /\ \A h \in Holder : target[h] <= contacts
  /\ activity # Nobody => activity \in Nat /\ activity <= contacts
ThreadTypes ==
  /\ threads \in Nat /\ thread \in Nat /\ thread <= threads
  /\ into \in [Holder -> Nat] /\ \A h \in Holder : into[h] <= threads
  /\ purging \in [Holder -> Nat] /\ \A h \in Holder : purging[h] <= threads
LetterTypes ==
  /\ syncedBy \in [Letter -> Holder \cup {Nobody}]
  /\ letter \in [Holder -> SUBSET Letter] /\ place \in [Holder -> LetterPlaces]
PurgeTypes ==
  /\ count \in Nat /\ count <= Cardinality(Letter)
  /\ rest \in [Holder -> Nat] /\ \A h \in Holder : rest[h] <= Cardinality(Letter)
  /\ deleted \in [Holder -> SUBSET Letter] /\ purge \in [Holder -> PurgePlaces]
  /\ locked \in Holder \cup {Nobody} /\ raced \in BOOLEAN

ConversationTypes == HolderTypes /\ PersonTypes /\ ThreadTypes /\ LetterTypes /\ PurgeTypes

PurgeIsAlone == \A h, g \in Holder : Purging(h) /\ Purging(g) => g = h

\* What a purge found is still so.
FoundIsSo(h) ==
  /\ purging[h] = thread /\ deleted[h] = Mine(h)
  /\ purge[h] \in {"waiting", "dropped"} => Stored \subseteq deleted[h]
  /\ purge[h] \in {"reading", "writing", "written"} => ~(Stored \subseteq deleted[h])
  /\ purge[h] \in {"writing", "written"} => rest[h] = Cardinality(Stored \ deleted[h])
  /\ purge[h] # "counted"

PurgeIsTrue == ~raced => PurgeIsAlone /\ \A h \in Holder : Purging(h) => FoundIsSo(h)

TInv == ConversationTypes /\ CountIsExact /\ PurgeIsTrue

LEMMA ThreadBounds == MaxContact \in Nat /\ MaxContact >= 1 /\ MaxUpset \in Nat /\ Nobody \notin Nat /\ Nobody \notin Holder
BY ThreadAssumption

LEMMA LettersAreCounted ==
  ASSUME NEW S \in SUBSET Letter
  PROVE  /\ Cardinality(S) \in Nat /\ Cardinality(S) <= Cardinality(Letter)
         /\ Cardinality(S) = 0 <=> S = {}
<1>1. IsFiniteSet(S) /\ Cardinality(S) <= Cardinality(Letter)
  BY ThreadAssumption, FS_Subset
<1>. QED
  BY <1>1, FS_CardinalityType, FS_EmptySet

LEMMA StoredAreLetters ==
  /\ Stored \subseteq Letter
  /\ \A h \in Holder : Mine(h) \subseteq Stored
BY ThreadBounds DEF Stored, Mine

LEMMA CountedIsBound ==
  ASSUME LetterTypes, NEW h \in Holder
  PROVE  Counted(h) \in Nat /\ Counted(h) <= Cardinality(Letter)
<1>1. (Stored \cup IF into[h] = 0 THEN letter[h] ELSE {}) \in SUBSET Letter
  BY StoredAreLetters DEF LetterTypes
<1>. QED
  BY <1>1, LettersAreCounted DEF Counted

\* Steps of a pass up to the transaction, and its end.
Prepares(h) == ReadContext(h) \/ TakeUp(h) \/ Look(h) \/ Match(h) \/ MakeContact(h) \/ PassFails(h)

\* Steps of a purge up to its end.
Purges(h) == PurgeMine(h) \/ FindEmpty(h) \/ DropThread(h) \/ ReadRest(h)

LEMMA PreparesTypes ==
  ASSUME ConversationTypes, NEW h \in Holder, Prepares(h)
  PROVE  ConversationTypes' /\ UNCHANGED <<conversation, purges, raced>>
<1> USE ThreadBounds DEF ConversationTypes, HolderTypes, PersonTypes, ThreadTypes, LetterTypes, PurgeTypes,
        LetterPlaces, conversation, work, purges, person, GoTo, Aim
<1>1. CASE ReadContext(h)
  BY <1>1 DEF ReadContext
<1>2. CASE TakeUp(h)
  BY <1>2 DEF TakeUp
<1>3. ASSUME Rests(h) PROVE place' \in [Holder -> LetterPlaces] /\ letter' \in [Holder -> SUBSET Letter]
        /\ into' \in [Holder -> Nat] /\ (\A g \in Holder : into'[g] <= threads)
        /\ target' \in [Holder -> Nat] /\ (\A g \in Holder : target'[g] <= contacts)
  BY <1>3 DEF Rests
<1>4. ASSUME Passes(h) \/ Rejects(h) PROVE Rests(h) /\ passedBy' \in [Holder -> SUBSET Letter]
  BY <1>4 DEF Passes, Rejects
<1>5. CASE Look(h)
  BY <1>3, <1>4, <1>5 DEF Look
<1>6. CASE Match(h)
  BY <1>3, <1>4, <1>6 DEF Match
<1>7. CASE MakeContact(h)
  BY <1>7 DEF MakeContact
<1>8. CASE PassFails(h)
  BY <1>3, <1>4, <1>8 DEF PassFails
<1>. QED
  BY <1>1, <1>2, <1>5, <1>6, <1>7, <1>8 DEF Prepares

LEMMA StoreTypes == ASSUME ConversationTypes, NEW h \in Holder, Store(h) PROVE ConversationTypes'
<1> USE ThreadBounds DEF ConversationTypes
<1>1. UNCHANGED <<box, firm, person, heard, purges, upsets>>
  BY DEF Store
<1>2. Rests(h) /\ passedBy' \in [Holder -> SUBSET Letter]
  BY DEF Store, Passes, Rejects, HolderTypes, LetterTypes
<1>3. /\ place' \in [Holder -> LetterPlaces] /\ letter' \in [Holder -> SUBSET Letter]
      /\ into' \in [Holder -> Nat] /\ (\A g \in Holder : into'[g] <= threads)
      /\ target' \in [Holder -> Nat] /\ (\A g \in Holder : target'[g] <= contacts)
  BY <1>2 DEF Rests, GoTo, Aim, LetterTypes, ThreadTypes, PersonTypes, LetterPlaces
<1>4. UNCHANGED <<conversation, raced>> \/ Written(h)
  BY DEF Store
<1>5. HolderTypes'
  BY <1>1, <1>2 DEF HolderTypes
<1>6. syncedBy' \in [Letter -> Holder \cup {Nobody}]
  BY <1>4 DEF conversation, Written, LetterTypes
<1>7. LetterTypes'
  BY <1>3, <1>6 DEF LetterTypes
<1>8. threads' \in Nat /\ threads' >= threads /\ thread' \in Nat /\ thread' <= threads'
  BY DEF Store, conversation, ThreadTypes
<1>9. ThreadTypes'
  BY <1>1, <1>3, <1>8 DEF ThreadTypes, purges
<1>10. PersonTypes'
  <2>1. about' \in Nat /\ about' <= contacts
    BY DEF Store, conversation, PersonTypes
  <2>2. activity' # Nobody => activity' \in Nat /\ activity' <= contacts
    BY <1>4 DEF Written, conversation, PersonTypes
  <2>. QED
    BY <1>1, <1>3, <2>1, <2>2 DEF PersonTypes, person
<1>11. PurgeTypes'
  <2>1. count' \in Nat /\ count' <= Cardinality(Letter) /\ raced' \in BOOLEAN
    BY <1>4, CountedIsBound DEF Written, conversation, PurgeTypes
  <2>. QED
    BY <1>1, <2>1 DEF PurgeTypes, purges
<1>. QED
  BY <1>5, <1>7, <1>9, <1>10, <1>11

LEMMA PurgesTypes ==
  ASSUME ConversationTypes, NEW h \in Holder, Purges(h) \/ WriteRest(h) \/ CommitPurge(h) \/ PurgeFails(h)
  PROVE  ConversationTypes'
<1> USE ThreadBounds DEF ConversationTypes
<1>1. UNCHANGED <<box, firm, person, threads, heard, work, passedBy>>
  BY DEF Purges, PurgeMine, FindEmpty, DropThread, ReadRest, WriteRest, CommitPurge, PurgeFails, conversation
<1>2. HolderTypes'
  <2>1. upsets' \in Nat /\ upsets' <= MaxUpset
    BY DEF Purges, PurgeMine, FindEmpty, DropThread, ReadRest, WriteRest, CommitPurge, PurgeFails, HolderTypes
  <2>. QED
    BY <1>1, <2>1 DEF HolderTypes
<1>3. PersonTypes'
  <2>1. (UNCHANGED <<about, activity>>) \/ (about' = 0 /\ activity' = Nobody)
    BY DEF Purges, PurgeMine, FindEmpty, DropThread, ReadRest, WriteRest, CommitPurge, PurgeFails, conversation
  <2>. QED
    BY <1>1, <2>1 DEF PersonTypes, person, work
<1>4. LetterTypes'
  <2>1. syncedBy' \in [Letter -> Holder \cup {Nobody}]
    BY DEF Purges, PurgeMine, FindEmpty, DropThread, ReadRest, WriteRest, CommitPurge, PurgeFails, conversation,
       LetterTypes
  <2>. QED
    BY <1>1, <2>1 DEF LetterTypes, work
<1>5. ThreadTypes'
  <2>1. thread' \in {0, thread} /\ \A g \in Holder : purging'[g] \in {0, thread, purging[g]}
    BY DEF Purges, PurgeMine, FindEmpty, DropThread, ReadRest, WriteRest, CommitPurge, PurgeFails, conversation,
       ThreadTypes, Over
  <2>2. purging' \in [Holder -> Nat]
    BY DEF Purges, PurgeMine, FindEmpty, DropThread, ReadRest, WriteRest, CommitPurge, PurgeFails, ThreadTypes, Over
  <2>. QED
    BY <1>1, <2>1, <2>2 DEF ThreadTypes, work
<1>6. PurgeTypes'
  <2>1. deleted' \in [Holder -> SUBSET Letter]
    BY StoredAreLetters DEF Purges, PurgeMine, FindEmpty, DropThread, ReadRest, WriteRest, CommitPurge, PurgeFails,
       PurgeTypes, Over
  <2>2. purge' \in [Holder -> PurgePlaces] /\ locked' \in Holder \cup {Nobody} /\ raced' \in BOOLEAN
    BY DEF Purges, PurgeMine, FindEmpty, DropThread, ReadRest, WriteRest, CommitPurge, PurgeFails,
       PurgeTypes, Over, At, PurgePlaces
  <2>3. Cardinality(Stored \ deleted[h]) \in Nat /\ Cardinality(Stored \ deleted[h]) <= Cardinality(Letter)
    <3>1. (Stored \ deleted[h]) \in SUBSET Letter
      BY StoredAreLetters
    <3>. QED
      BY <3>1, LettersAreCounted
  <2>4. Cardinality(Letter) \in Nat
    BY LettersAreCounted
  <2>5. rest' \in [Holder -> Nat] /\ \A g \in Holder : rest'[g] <= Cardinality(Letter)
    BY <2>3, <2>4 DEF Purges, PurgeMine, FindEmpty, DropThread, ReadRest, WriteRest, CommitPurge, PurgeFails,
       PurgeTypes, Over
  <2>6. count' \in Nat /\ count' <= Cardinality(Letter)
    BY <2>4 DEF Purges, PurgeMine, FindEmpty, DropThread, ReadRest, WriteRest, CommitPurge, PurgeFails,
       PurgeTypes, Left, conversation
  <2>. QED
    BY <2>1, <2>2, <2>5, <2>6 DEF PurgeTypes
<1>. QED
  BY <1>2, <1>3, <1>4, <1>5, <1>6

LEMMA DeletePersonTypes ==
  ASSUME ConversationTypes, DeletePerson
  PROVE  ConversationTypes' /\ UNCHANGED <<thread, count, syncedBy, purges, raced>>
BY ThreadBounds DEF ConversationTypes, HolderTypes, PersonTypes, ThreadTypes, LetterTypes, PurgeTypes,
   DeletePerson, work, purges

LEMMA PreparesKept ==
  ASSUME TInv, UNCHANGED <<thread, count, syncedBy, purges, raced>>
  PROVE  CountIsExact' /\ PurgeIsTrue'
BY DEF TInv, CountIsExact, PurgeIsTrue, PurgeIsAlone, FoundIsSo, Purging, Stored, Mine, purges

LEMMA StoreKept == ASSUME TInv, NEW h \in Holder, Store(h) PROVE CountIsExact' /\ PurgeIsTrue'
<1>1. CASE UNCHANGED <<conversation, raced>>
  <2>1. UNCHANGED <<thread, count, syncedBy, purges, raced>>
    BY <1>1 DEF Store, conversation
  <2>. QED
    BY <2>1, PreparesKept
<1>2. CASE /\ ~(into[h] = 0 /\ letter[h] \subseteq Stored)
           /\ into[h] \in {0, thread} /\ Written(h)
           /\ IF thread = 0 THEN threads' = threads + 1 /\ thread' = threads' ELSE UNCHANGED thread
  <2>1. UNCHANGED purges /\ letter[h] \subseteq Letter /\ threads \in Nat
    BY DEF Store, TInv, ConversationTypes, LetterTypes, ThreadTypes
  <2>2. ASSUME ~raced' PROVE CountIsExact'
    <3>1. CASE into[h] = 0
      <4>1. Stored' = Stored \cup letter[h]
        BY <1>2, <2>1, <3>1, ThreadBounds DEF Written, Stored, TInv, ConversationTypes, LetterTypes
      <4>2. count' = Cardinality(Stored')
        BY <1>2, <3>1, <4>1 DEF Written, Counted
      <4>3. Stored' # {}
        BY <1>2, <3>1, <4>1
      <4>4. thread' # 0
        BY <1>2, <2>1
      <4>. QED
        BY <4>2, <4>3, <4>4 DEF CountIsExact
    <3>2. CASE into[h] # 0
      <4>1. ~raced /\ thread # 0 /\ thread' = thread
        BY <1>2, <2>2, <3>2 DEF Written
      <4>2. Stored' = Stored
        BY <1>2, <3>2 DEF Written, Stored, TInv, ConversationTypes, LetterTypes
      <4>3. count' = Cardinality(Stored')
        BY <1>2, <3>2, <4>2 DEF Written, Counted
      <4>. QED
        BY <4>1, <4>2, <4>3 DEF TInv, CountIsExact
    <3>. QED
      BY <3>1, <3>2
  <2>3. ASSUME ~raced', NEW g \in Holder PROVE ~Purging(g)'
    BY <1>2, <2>1, <2>3 DEF Written, Purging, purges
  <2>. QED
    BY <2>2, <2>3 DEF CountIsExact, PurgeIsTrue, PurgeIsAlone
<1>. QED
  BY <1>1, <1>2 DEF Store

\* Steps of a purge leave the letters and their thread as they are.
LEMMA PurgesKept == ASSUME TInv, NEW h \in Holder, Purges(h) \/ WriteRest(h) \/ PurgeFails(h) PROVE CountIsExact' /\ PurgeIsTrue'
<1>1. UNCHANGED <<thread, count, syncedBy>> /\ (~raced' => ~raced)
  <2>1. CASE PurgeMine(h)
    <3>1. raced \in BOOLEAN
      BY DEF TInv, ConversationTypes, PurgeTypes
    <3>. QED
      BY <2>1, <3>1 DEF PurgeMine, conversation
  <2>2. CASE FindEmpty(h) \/ DropThread(h) \/ ReadRest(h) \/ WriteRest(h) \/ PurgeFails(h)
    BY <2>2 DEF FindEmpty, DropThread, ReadRest, WriteRest, PurgeFails, conversation
  <2>. QED
    BY <2>1, <2>2 DEF Purges
<1>2. CountIsExact'
  BY <1>1 DEF TInv, CountIsExact, Stored
<1>3. Stored' = Stored /\ \A g \in Holder : Mine(g)' = Mine(g)
  BY <1>1 DEF Stored, Mine
<1>4. \A g \in Holder \ {h} : purge'[g] = purge[g] /\ purging'[g] = purging[g] /\ deleted'[g] = deleted[g] /\ rest'[g] = rest[g]
  BY DEF Purges, PurgeMine, FindEmpty, DropThread, ReadRest, WriteRest, PurgeFails, Over, At, TInv,
     ConversationTypes, PurgeTypes, ThreadTypes
<1>5. ASSUME ~raced', Purging(h)' PROVE FoundIsSo(h)' /\ \A g \in Holder : Purging(g)' => g = h
  <2>1. ~raced /\ (CountIsExact /\ PurgeIsAlone) /\ (Purging(h) => FoundIsSo(h))
    BY <1>1, <1>5 DEF TInv, PurgeIsTrue
  <2>2. /\ purge \in [Holder -> PurgePlaces] /\ purging \in [Holder -> Nat]
        /\ deleted \in [Holder -> SUBSET Letter] /\ rest \in [Holder -> Nat]
    BY DEF TInv, ConversationTypes, PurgeTypes, ThreadTypes
  <2>3. CASE PurgeMine(h)
    <3>1. purge'[h] = "dropping" /\ purging'[h] = thread /\ deleted'[h] = Mine(h)
      BY <2>2, <2>3 DEF PurgeMine, At
    <3>2. FoundIsSo(h)'
      BY <1>1, <1>3, <3>1 DEF FoundIsSo
    <3>3. \A g \in Holder \ {h} : ~Purging(g)
      BY <1>5, <2>3 DEF PurgeMine
    <3>. QED
      BY <1>4, <3>2, <3>3 DEF Purging
  <2>4. CASE FindEmpty(h)
    <3>1. /\ purging'[h] = purging[h] /\ deleted'[h] = deleted[h] /\ purge[h] = "dropping"
          /\ purge'[h] = IF purging[h] = thread /\ Stored \subseteq deleted[h] THEN "waiting" ELSE "reading"
      BY <2>2, <2>4 DEF FindEmpty, At
    <3>2. FoundIsSo(h) /\ \A g \in Holder : Purging(g) => g = h
      BY <2>1, <3>1 DEF Purging, PurgeIsAlone
    <3>3. FoundIsSo(h)'
      BY <1>1, <1>3, <3>1, <3>2 DEF FoundIsSo
    <3>. QED
      BY <1>4, <3>2, <3>3 DEF Purging
  <2>5. CASE DropThread(h)
    <3>1. /\ purging'[h] = purging[h] /\ deleted'[h] = deleted[h] /\ purge[h] = "waiting"
          /\ purge'[h] = IF purging[h] = thread THEN "dropped" ELSE "counted"
      BY <2>2, <2>5 DEF DropThread, At
    <3>2. FoundIsSo(h) /\ \A g \in Holder : Purging(g) => g = h
      BY <2>1, <3>1 DEF Purging, PurgeIsAlone
    <3>3. FoundIsSo(h)'
      BY <1>1, <1>3, <3>1, <3>2 DEF FoundIsSo
    <3>. QED
      BY <1>4, <3>2, <3>3 DEF Purging
  <2>6. CASE ReadRest(h)
    <3>1. /\ purging'[h] = purging[h] /\ deleted'[h] = deleted[h] /\ purge[h] = "reading"
          /\ rest'[h] = Cardinality(Stored \ deleted[h])
          /\ purge'[h] = IF purging[h] # thread \/ rest'[h] = 0 THEN "counted" ELSE "writing"
      BY <2>2, <2>6 DEF ReadRest, At
    <3>2. FoundIsSo(h) /\ \A g \in Holder : Purging(g) => g = h
      BY <2>1, <3>1 DEF Purging, PurgeIsAlone
    <3>3. rest'[h] # 0
      <4>1. Stored \ deleted[h] # {} /\ (Stored \ deleted[h]) \in SUBSET Letter
        BY <3>1, <3>2, StoredAreLetters DEF FoundIsSo
      <4>. QED
        BY <3>1, <4>1, LettersAreCounted
    <3>4. FoundIsSo(h)'
      BY <1>1, <1>3, <3>1, <3>2, <3>3 DEF FoundIsSo
    <3>. QED
      BY <1>4, <3>2, <3>4 DEF Purging
  <2>7. CASE WriteRest(h)
    <3>1. purge[h] = "writing"
      BY <2>7 DEF WriteRest
    <3>2. FoundIsSo(h) /\ \A g \in Holder : Purging(g) => g = h
      BY <2>1, <3>1 DEF Purging, PurgeIsAlone
    <3>3. purge'[h] = "written" /\ UNCHANGED <<purging, deleted, rest>>
      BY <2>2, <2>7, <3>2 DEF WriteRest, At, FoundIsSo
    <3>4. FoundIsSo(h)'
      BY <1>1, <1>3, <3>1, <3>2, <3>3 DEF FoundIsSo
    <3>. QED
      BY <1>4, <3>2, <3>4 DEF Purging
  <2>8. CASE PurgeFails(h)
    BY <1>5, <2>2, <2>8 DEF PurgeFails, Over, At, Purging
  <2>. QED
    BY <2>3, <2>4, <2>5, <2>6, <2>7, <2>8 DEF Purges
<1>6. ASSUME ~raced', ~Purging(h)' PROVE PurgeIsTrue'
  <2>1. ~raced
    BY <1>1, <1>6
  <2>2. \A g \in Holder : Purging(g)' => g # h /\ Purging(g)
    BY <1>4, <1>6 DEF Purging
  <2>3. \A g \in Holder \ {h} : FoundIsSo(g) => FoundIsSo(g)'
    BY <1>1, <1>3, <1>4 DEF FoundIsSo
  <2>4. PurgeIsAlone /\ \A g \in Holder : Purging(g) => FoundIsSo(g)
    BY <2>1 DEF TInv, PurgeIsTrue
  <2>. QED
    BY <2>2, <2>3, <2>4 DEF PurgeIsTrue, PurgeIsAlone
<1>. QED
  BY <1>2, <1>5, <1>6 DEF PurgeIsTrue, PurgeIsAlone

LEMMA CommitKept == ASSUME TInv, NEW h \in Holder, CommitPurge(h) PROVE CountIsExact' /\ PurgeIsTrue'
<1> SUFFICES ASSUME ~raced' PROVE CountIsExact' /\ PurgeIsTrue'
  BY DEF CountIsExact, PurgeIsTrue
<1>1. ~raced /\ purge[h] \in {"dropped", "counted", "written"}
  BY DEF CommitPurge
<1>2. FoundIsSo(h) /\ \A g \in Holder : Purging(g) => g = h
  BY <1>1 DEF TInv, PurgeIsTrue, PurgeIsAlone, Purging
<1>3. purge' = [purge EXCEPT ![h] = "none"] /\ purge \in [Holder -> PurgePlaces]
  BY DEF CommitPurge, Over, At, TInv, ConversationTypes, PurgeTypes
<1>4. \A g \in Holder : ~Purging(g)'
  BY <1>2, <1>3 DEF Purging
<1>5. CountIsExact'
  <2>1. CASE purge[h] = "dropped"
    <3>1. Stored' = {} /\ thread' = 0 /\ count' = 0
      BY <2>1 DEF CommitPurge, Stored
    <3>. QED
      BY <3>1, FS_EmptySet DEF CountIsExact
  <2>2. CASE purge[h] = "written"
    <3>1. Stored' = Stored \ deleted[h]
      BY <2>2 DEF CommitPurge, Stored, TInv, ConversationTypes, LetterTypes
    <3>2. count' = Cardinality(Stored') /\ Stored' # {} /\ thread' = thread
      BY <1>2, <2>2, <3>1 DEF CommitPurge, Left, FoundIsSo
    <3>3. thread # 0
      BY <1>1, <3>1, <3>2 DEF TInv, CountIsExact
    <3>. QED
      BY <3>2, <3>3 DEF CountIsExact
  <2>. QED
    BY <1>1, <1>2, <2>1, <2>2 DEF FoundIsSo
<1>. QED
  BY <1>4, <1>5 DEF PurgeIsTrue, PurgeIsAlone

LEMMA ThreadsInductive == TSpec => []TInv
<1>1. TInit => TInv
  <2> SUFFICES ASSUME TInit PROVE TInv
      OBVIOUS
  <2> USE ThreadBounds DEF TInit
  <2>1. HolderTypes /\ LetterTypes
    BY DEF HolderTypes, LetterTypes, LetterPlaces
  <2>2. PersonTypes
    <3>1. known \in Nat /\ known <= 1 /\ contacts = known /\ about = 0 /\ activity = Nobody /\ barred = FALSE
      OBVIOUS
    <3>2. target \in [Holder -> Nat] /\ \A h \in Holder : target[h] = 0
      OBVIOUS
    <3>3. about <= contacts /\ known <= contacts /\ contacts \in Nat /\ about \in Nat
      BY <3>1
    <3>4. barred \in BOOLEAN
      BY <3>1
    <3>5. contacts <= MaxContact
      BY <3>1
    <3>6. \A h \in Holder : target[h] <= contacts
      BY <3>2, <3>3
    <3> HIDE DEF TInit
    <3>. QED
      BY <3>1, <3>2, <3>3, <3>4, <3>5, <3>6 DEF PersonTypes
  <2>3. ThreadTypes
    BY DEF ThreadTypes
  <2>4. Cardinality(Letter) \in Nat
    BY LettersAreCounted
  <2>5. PurgeTypes
    <3>1. rest \in [Holder -> Nat] /\ \A h \in Holder : rest[h] = 0
      OBVIOUS
    <3>2. deleted \in [Holder -> SUBSET Letter] /\ purge \in [Holder -> PurgePlaces]
      BY DEF PurgePlaces
    <3>3. count = 0 /\ locked = Nobody /\ raced = FALSE
      OBVIOUS
    <3>4. count \in Nat /\ count <= Cardinality(Letter) /\ \A h \in Holder : rest[h] <= Cardinality(Letter)
      BY <2>4, <3>1, <3>3
    <3>5. raced \in BOOLEAN /\ locked \in Holder \cup {Nobody}
      BY <3>3
    <3> HIDE DEF TInit
    <3>. QED
      BY <3>1, <3>2, <3>4, <3>5 DEF PurgeTypes
  <2>6. Stored = {}
    BY DEF Stored
  <2>7. CountIsExact /\ PurgeIsTrue
    BY <2>6, FS_EmptySet DEF CountIsExact, PurgeIsTrue, PurgeIsAlone, Purging
  <2>. QED
    BY <2>1, <2>2, <2>3, <2>5, <2>7 DEF TInv, ConversationTypes
<1>2. TInv /\ [TNext]_tvars => TInv'
  <2> SUFFICES ASSUME TInv, [TNext]_tvars PROVE TInv'
      OBVIOUS
  <2>1. CASE UNCHANGED tvars
    <3>1. ConversationTypes'
      BY <2>1 DEF tvars, person, conversation, work, purges, TInv, ConversationTypes, HolderTypes, PersonTypes,
         ThreadTypes, LetterTypes, PurgeTypes
    <3>2. UNCHANGED <<thread, count, syncedBy, purges, raced>>
      BY <2>1 DEF tvars, conversation
    <3>. QED
      BY <3>1, <3>2, PreparesKept DEF TInv
  <2>2. ASSUME NEW h \in Holder, Prepares(h) PROVE TInv'
    <3>1. ConversationTypes' /\ UNCHANGED <<conversation, purges, raced>>
      BY <2>2, PreparesTypes DEF TInv
    <3>. QED
      BY <3>1, PreparesKept DEF TInv, conversation
  <2>3. ASSUME NEW h \in Holder, Store(h) PROVE TInv'
    BY <2>3, StoreTypes, StoreKept DEF TInv
  <2>4. ASSUME NEW h \in Holder, Purges(h) \/ WriteRest(h) \/ PurgeFails(h) PROVE TInv'
    BY <2>4, PurgesTypes, PurgesKept DEF TInv
  <2>5. ASSUME NEW h \in Holder, CommitPurge(h) PROVE TInv'
    BY <2>5, PurgesTypes, CommitKept DEF TInv
  <2>6. CASE DeletePerson
    BY <2>6, DeletePersonTypes, PreparesKept DEF TInv
  <2>. QED
    BY <2>1, <2>2, <2>3, <2>4, <2>5, <2>6 DEF TNext, Prepares, Purges
<1>. QED
  BY <1>1, <1>2, PTL DEF TSpec

\* THEOREM: every reachable state of a thread and of the passes and purges at it
\* has its types.
THEOREM ThreadTypeCorrect == TSpec => []TTypeOK
<1>1. TInv => TTypeOK
  <2> SUFFICES ASSUME TInv PROVE TTypeOK
      OBVIOUS
  <2> USE DEF TInv, ConversationTypes
  <2>1. /\ box \in [Holder -> SUBSET Letter] /\ firm \in BOOLEAN /\ barred \in BOOLEAN
        /\ heard \subseteq Holder /\ passedBy \in [Holder -> SUBSET Letter]
    BY DEF HolderTypes, PersonTypes
  <2>2. /\ contacts \in 0..MaxContact /\ known \in 0..contacts /\ about \in 0..contacts
        /\ activity \in 0..contacts \cup {Nobody} /\ target \in [Holder -> 0..contacts]
    BY ThreadBounds DEF PersonTypes
  <2>3. /\ thread \in 0..threads /\ into \in [Holder -> 0..threads] /\ purging \in [Holder -> 0..threads]
    BY DEF ThreadTypes
  <2>4. Cardinality(Letter) \in Nat
    BY LettersAreCounted
  <2>5. count \in 0..Cardinality(Letter) /\ rest \in [Holder -> 0..Cardinality(Letter)]
    BY <2>4 DEF PurgeTypes
  <2>6. /\ syncedBy \in [Letter -> Holder \cup {Nobody}] /\ letter \in [Holder -> SUBSET Letter]
        /\ deleted \in [Holder -> SUBSET Letter] /\ locked \in Holder \cup {Nobody} /\ raced \in BOOLEAN
    BY DEF LetterTypes, PurgeTypes
  <2>7. upsets \in 0..MaxUpset
    BY ThreadBounds DEF HolderTypes
  <2>. QED
    BY <2>1, <2>2, <2>3, <2>5, <2>6, <2>7 DEF TTypeOK, LetterTypes, PurgeTypes, LetterPlaces, PurgePlaces
<1>. QED
  BY <1>1, ThreadsInductive, PTL

\* THEOREM: however many reps' passes and purges follow one another, a thread
\* counts the letters it has, and has some, unless a purge overlapped with a
\* store or another purge and no letter came since.
THEOREM ThreadCountExact == TSpec => []CountIsExact
BY ThreadsInductive, PTL DEF TInv

LEMMA PassedIsShown ==
  ASSUME ConversationTypes, [TNext]_tvars,
         NEW h \in Holder, passedBy'[h] # passedBy[h], place[h] # "matching"
  PROVE  activity' # Nobody /\ \A l \in letter[h] : into[h] # 0 \/ syncedBy'[l] # Nobody
<1>1. PICK o \in Holder : Look(o) \/ Match(o) \/ Store(o)
  BY DEF TNext, tvars, ReadContext, TakeUp, MakeContact, PassFails, Rejects, PurgeMine, FindEmpty, DropThread,
     ReadRest, WriteRest, CommitPurge, PurgeFails, DeletePerson
<1>2. o = h /\ Passes(h)
  <2>1. passedBy \in [Holder -> SUBSET Letter]
    BY DEF ConversationTypes, HolderTypes
  <2>2. Passes(o) \/ UNCHANGED passedBy
    BY <1>1 DEF Look, Match, Store, Rejects
  <2>3. Passes(o) => \A g \in Holder \ {o} : passedBy'[g] = passedBy[g]
    BY <2>1 DEF Passes
  <2>. QED
    BY <2>2, <2>3
<1>3. letter[h] \subseteq Letter /\ target[h] \in Nat /\ Nobody \notin Nat /\ h # Nobody
  BY ThreadBounds DEF ConversationTypes, LetterTypes, PersonTypes
<1>4. CASE Look(h)
  <2>1. letter[h] \subseteq Stored /\ activity # Nobody /\ UNCHANGED <<syncedBy, activity>>
    BY <1>4 DEF Look, conversation
  <2>. QED
    BY <2>1 DEF Stored
<1>5. CASE Store(h)
  <2>1. CASE into[h] = 0 /\ letter[h] \subseteq Stored
    <3>1. UNCHANGED <<syncedBy, activity>> /\ activity # Nobody
      BY <1>5, <2>1 DEF Store, Rejects, conversation
    <3>. QED
      BY <2>1, <3>1 DEF Stored
  <2>2. CASE Written(h)
    BY <1>3, <2>2 DEF Written
  <2>. QED
    BY <1>5, <2>1, <2>2 DEF Store, Rejects
<1>. QED
  BY <1>1, <1>2, <1>4, <1>5 DEF Match

\* THEOREM: a letter a pass is through with, but for one of nobody, is in the CRM
\* at that moment, unless it was purged while its thread was repaired, and on a
\* timeline.
THEOREM PassedMailIsShown == TSpec => StoredIsShown
<1>1. TInv /\ [TNext]_tvars =>
      [\A h \in Holder : passedBy'[h] # passedBy[h] /\ place[h] # "matching" =>
         activity' # Nobody /\ \A l \in letter[h] : into[h] # 0 \/ syncedBy'[l] # Nobody]_tvars
  BY PassedIsShown DEF TInv
<1>. QED
  BY <1>1, ThreadsInductive, PTL DEF TSpec, StoredIsShown

-----------------------------------------------------------------------------
(***************************************************************************)
(* Meetings.  A version the CRM keeps is one a calendar had, because a     *)
(* pass that applies has a page in hand.                                   *)
(***************************************************************************)
LEMMA CalendarBounds ==
  /\ Budget \in Nat /\ MaxEdit \in Nat /\ MaxOutage \in Nat
  /\ 0 \in Version /\ \A n \in Version : n \in Nat
BY CalendarAssumption DEF CalendarAssumption, Version

LEMMA CalendarBegins == CalInit => CalTypeOK
<1> SUFFICES ASSUME CalInit PROVE CalTypeOK
  OBVIOUS
<1>1. 0 \in 0..Budget /\ 0 \in 0..MaxOutage
  BY CalendarBounds
<1>2. touched \in [Guest -> [Meeting -> Version]]
  BY CalendarBounds DEF CalInit
<1>. QED
  BY <1>1, <1>2, CalendarBounds DEF CalInit, CalTypeOK

\* The calendars change.
LEMMA OrganizersType ==
  ASSUME CalTypeOK, NEW e \in Meeting, Organize(e) \/ \E g \in Guest : TakeOff(g, e)
  PROVE  CalTypeOK'
<1> USE CalendarBounds
<1>1. edits' \in Version /\ edits' = edits + 1
  <2>1. edits \in Nat /\ edits < MaxEdit /\ edits' = edits + 1
    BY DEF CalTypeOK, Organize, TakeOff
  <2>. QED
    BY <2>1 DEF Version
<1>2. CASE Organize(e)
  <2>1. version' \in [Meeting -> Version]
    BY <1>1, <1>2 DEF Organize, CalTypeOK
  <2>2. live' \subseteq Meeting
    BY <1>2 DEF Organize, CalTypeOK
  <2>3. touched' \in [Guest -> [Meeting -> Version]]
    <3>1. touched' = [g \in Guest |->
             [touched[g] EXCEPT ![e] = IF e \in off[g] THEN touched[g][e] ELSE edits']]
      BY <1>2 DEF Organize
    <3>2. ASSUME NEW g \in Guest
          PROVE  [touched[g] EXCEPT ![e] = IF e \in off[g] THEN touched[g][e] ELSE edits']
                   \in [Meeting -> Version]
      <4>1. touched[g] \in [Meeting -> Version]
        BY DEF CalTypeOK
      <4>. QED
        BY <1>1, <4>1
    <3>. QED
      BY <3>1, <3>2
  <2>. QED
    BY <1>1, <1>2, <2>1, <2>2, <2>3 DEF Organize, CalTypeOK, walk, crm
<1>3. ASSUME NEW g \in Guest, TakeOff(g, e) PROVE CalTypeOK'
  <2>1. off' \in [Guest -> SUBSET Meeting]
    BY <1>3 DEF TakeOff, CalTypeOK
  <2>2. touched' \in [Guest -> [Meeting -> Version]]
    <3>1. touched[g] \in [Meeting -> Version]
      BY DEF CalTypeOK
    <3>2. [touched[g] EXCEPT ![e] = edits'] \in [Meeting -> Version]
      BY <1>1, <3>1
    <3>3. touched' = [touched EXCEPT ![g] = [touched[g] EXCEPT ![e] = edits']]
      BY <1>3 DEF TakeOff
    <3>. QED
      BY <3>2, <3>3 DEF CalTypeOK
  <2>. QED
    BY <1>1, <1>3, <2>1, <2>2 DEF TakeOff, CalTypeOK, walk, crm
<1>. QED
  BY <1>2, <1>3

\* A pass that ends leaves nothing of its own.
LEMMA EndTypes ==
  ASSUME CalTypeOK, NEW g \in Guest, Ends(g)
  PROVE  /\ doing' \in [Guest -> {"idle", "listing", "applying", "projecting"}]
         /\ through' \in [Guest -> Version] /\ todo' \in [Guest -> SUBSET Meeting]
         /\ pages' \in [Guest -> 0..Budget] /\ page' \in [Guest -> Page \cup {NoPage}]
         /\ \A o \in Guest : doing'[o] \in {"applying", "projecting"} => page'[o] \in Page
<1>1. doing' = [doing EXCEPT ![g] = "idle"] /\ page' = [page EXCEPT ![g] = NoPage]
  BY DEF Ends, Step
<1>2. \A o \in Guest : doing'[o] \in {"applying", "projecting"} => page'[o] = page[o] /\ doing'[o] = doing[o]
  BY <1>1 DEF CalTypeOK
<1>3. 0 \in 0..Budget
  BY CalendarBounds
<1>. QED
  BY <1>1, <1>2, <1>3, CalendarBounds DEF Ends, CalTypeOK

\* A pass lists, applies and ends.
LEMMA PassesType ==
  ASSUME CalTypeOK, NEW g \in Guest, Walks(g) \/ Fail(g)
  PROVE  CalTypeOK'
<1> USE CalendarBounds
<1>1. CASE Begin(g)
  <2>1. Changed(g) \in SUBSET Meeting
    BY DEF Changed
  <2>2. todo' \in [Guest -> SUBSET Meeting] /\ through' \in [Guest -> Version]
    BY <1>1, <2>1 DEF Begin, CalTypeOK
  <2>3. doing' = [doing EXCEPT ![g] = "listing"] /\ page' = page
    BY <1>1 DEF Begin, Step
  <2>4. \A o \in Guest : doing'[o] \in {"applying", "projecting"} => doing'[o] = doing[o]
    BY <2>3 DEF CalTypeOK
  <2>. QED
    BY <1>1, <2>2, <2>3, <2>4 DEF Begin, CalTypeOK, calendar, crm
<1>2. CASE ReadPage(g)
  <2>1. PICK e \in todo[g] : /\ page' = [page EXCEPT ![g] = AsItIs(g, e)]
                             /\ todo' = [todo EXCEPT ![g] = todo[g] \ {e}]
    BY <1>2 DEF ReadPage
  <2>2. e \in Meeting
    BY DEF CalTypeOK
  <2>3. (e \notin live \/ e \in off[g]) \in BOOLEAN /\ version[e] \in Version
    BY <2>2 DEF CalTypeOK
  <2>4. AsItIs(g, e) \in Page
    BY <2>2, <2>3 DEF AsItIs, Page
  <2>5. pages' \in [Guest -> 0..Budget]
    <3>1. pages[g] \in Nat /\ pages[g] < Budget
      BY <1>2 DEF ReadPage, CalTypeOK
    <3>2. pages[g] + 1 \in 0..Budget
      BY <3>1
    <3>. QED
      BY <1>2, <3>2 DEF ReadPage, CalTypeOK
  <2>6. doing' = [doing EXCEPT ![g] = "applying"]
    BY <1>2 DEF ReadPage, Step
  <2>7. \A o \in Guest : doing'[o] \in {"applying", "projecting"} =>
          (page'[o] = AsItIs(g, e) /\ o = g) \/ (page'[o] = page[o] /\ doing'[o] = doing[o])
    <3>1. \A o \in Guest \ {g} : page'[o] = page[o] /\ doing'[o] = doing[o]
      BY <2>1, <2>6 DEF CalTypeOK
    <3>2. page'[g] = AsItIs(g, e)
      BY <2>1 DEF CalTypeOK
    <3>. QED
      BY <3>1, <3>2
  <2>8. todo' \in [Guest -> SUBSET Meeting] /\ page' \in [Guest -> Page \cup {NoPage}]
    BY <2>1, <2>4 DEF CalTypeOK
  <2>. QED
    BY <1>2, <2>4, <2>5, <2>6, <2>7, <2>8 DEF ReadPage, CalTypeOK, calendar, crm
<1>3. CASE Apply(g) \/ (Project(g) /\ ~Ends(g))
  <2>1. page[g] \in Page /\ page' = page
    BY <1>3 DEF Apply, Project, CalTypeOK
  <2>2. page[g].version \in Version
    BY <2>1 DEF Page
  <2>3. event' \in [Meeting -> Version] /\ shown' \in [Meeting -> Version]
    BY <1>3, <2>2 DEF Apply, Project, Put, Drop, CalTypeOK
  <2>4. Step(g, "listing") \/ Step(g, "projecting")
    BY <1>3 DEF Apply, Project
  <2>5. /\ doing' \in [Guest -> {"idle", "listing", "applying", "projecting"}]
        /\ \A o \in Guest : o = g \/ doing'[o] = doing[o]
    BY <2>4 DEF Step, CalTypeOK
  <2>6. UNCHANGED <<calendar, bookmark, through, todo, pages, page, outages>>
    BY <1>3 DEF Apply, Project
  <2>. QED
    BY <2>1, <2>3, <2>5, <2>6 DEF CalTypeOK, calendar
<1>4. CASE Ends(g) /\ (Project(g) \/ Through(g) \/ BudgetReached(g) \/ Fail(g))
  <2>1. /\ doing' \in [Guest -> {"idle", "listing", "applying", "projecting"}]
        /\ through' \in [Guest -> Version] /\ todo' \in [Guest -> SUBSET Meeting]
        /\ pages' \in [Guest -> 0..Budget] /\ page' \in [Guest -> Page \cup {NoPage}]
        /\ \A o \in Guest : doing'[o] \in {"applying", "projecting"} => page'[o] \in Page
    BY <1>4, EndTypes
  <2>2. UNCHANGED calendar /\ UNCHANGED event
    BY <1>4 DEF Project, Through, BudgetReached, Fail, crm
  <2>3. shown' \in [Meeting -> Version]
    <3>1. CASE shown' = shown
      BY <3>1 DEF CalTypeOK
    <3>2. CASE Project(g) /\ shown' # shown
      BY <3>2 DEF Project, Put, Page, CalTypeOK
    <3>. QED
      BY <1>4, <3>1, <3>2 DEF Through, BudgetReached, Fail, crm
  <2>4. bookmark' \in [Guest -> Version \cup {NoCursor}]
    BY <1>4 DEF Project, Through, BudgetReached, Fail, CalTypeOK
  <2>5. outages' \in 0..MaxOutage
    <3>1. outages \in Nat /\ outages <= MaxOutage
      BY DEF CalTypeOK
    <3>2. outages' = outages \/ (outages' = outages + 1 /\ outages < MaxOutage)
      BY <1>4 DEF Project, Through, BudgetReached, Fail
    <3>. QED
      BY <3>1, <3>2
  <2>. QED
    BY <2>1, <2>2, <2>3, <2>4, <2>5 DEF CalTypeOK, calendar
<1>. QED
  BY <1>1, <1>2, <1>3, <1>4 DEF Walks, Through, BudgetReached, Fail

\* THEOREM: every reachable state of the calendars, the passes over them and the
\* CRM has its types: a pass that applies has a page in hand.
THEOREM MeetingsTypeCorrect == CalSpec => []CalTypeOK
<1>1. CalTypeOK /\ [CalNext]_calvars => CalTypeOK'
  <2> SUFFICES ASSUME CalTypeOK, [CalNext]_calvars PROVE CalTypeOK'
    OBVIOUS
  <2>1. CASE UNCHANGED calvars
    BY <2>1 DEF calvars, calendar, walk, crm, CalTypeOK
  <2>. QED
    BY <2>1, OrganizersType, PassesType DEF CalNext
<1>. QED
  BY <1>1, CalendarBegins, PTL DEF CalSpec
=============================================================================
