------------------------------ MODULE VisitFiling ------------------------------
(***************************************************************************)
(* Forms that visitors submit on tracked websites, filed on contacts.  A   *)
(* browser may deliver one submission several times at once; the deliveries *)
(* of one email address meet at its contact, and all of them at the hourly *)
(* cap on new contacts.  A rep deletes contacts, the hour ends, a request  *)
(* dies between any two statements.                                        *)
(*                                                                         *)
(* A contact is its address with the number of times it was made, so one   *)
(* that was deleted and made again is another.  Left out: page views and   *)
(* clicks, the tests on the address itself, touches, and what is written   *)
(* in the note.                                                            *)
(***************************************************************************)
EXTENDS Naturals, FiniteSets

CONSTANTS
  Form,        \* submissions, known by their dedupeKey
  Delivery,    \* deliveries of submissions
  Email,       \* addresses
  Cap,         \* CONTACTS_PER_HOUR
  MaxWindow,   \* bound: hours that pass
  MaxMade      \* bound: contacts made for one address

ASSUME FilingAssumption ==
  /\ {Cap, MaxWindow, MaxMade} \subseteq Nat \ {0} /\ IsFiniteSet(Delivery)

VARIABLES
  address,     \* address[f]: the email in the form
  form,        \* form[d]: the submission that is delivered
  stored,      \* submissions with a row
  filed,       \* rows with filedAt
  skipped,     \* rows with skipReason
  contact,     \* contact[e]: which contact has the address, 0 = none
  made,        \* made[e]: contacts made for the address so far
  suppressed,  \* suppressedContact
  window,      \* contactWindowKey()
  charged,     \* charged[w]: trackingCounter
  at,          \* at[d]: where a delivery stands
  found,       \* found[d]: the contact it holds, 0 = none
  slot,        \* slot[d]: the window it took a slot of, 0 = none
  notes,       \* notes[f]: activities written
  created,     \* history: created[w]: contacts made with a slot of w
  lost         \* history: lost[w]: slots of deliveries that died or could not give them back

rows == <<stored, filed, skipped>>
people == <<contact, made, suppressed>>
slots == <<window, charged, slot, created, lost>>
given == <<address, form>>
gvars == <<given, rows, people, slots, at, found, notes>>

Window == 1..MaxWindow
Ended == {"idle", "done", "failed"}

GInit ==
  /\ address \in [Form -> Email] /\ form \in [Delivery -> Form]
  /\ stored = {} /\ filed = {} /\ skipped = {}
  /\ made \in [Email -> 0..1] /\ contact = made /\ suppressed = {}
  /\ window = 1
  /\ charged = [w \in Window |-> 0]
  /\ at = [d \in Delivery |-> "idle"]
  /\ found = [d \in Delivery |-> 0]
  /\ slot = [d \in Delivery |-> 0]
  /\ notes = [f \in Form |-> 0]
  /\ created = [w \in Window |-> 0] /\ lost = [w \in Window |-> 0]

Here(d, place) == at[d] = place
To(d, place) == at' = [at EXCEPT ![d] = place]
Holds(d, c) == found' = [found EXCEPT ![d] = c]
Forgets(d) == found' = [found EXCEPT ![d] = IF at'[d] \in Ended THEN 0 ELSE @]

-----------------------------------------------------------------------------
(* submission: the row, once per key.                                      *)

Deliver(d) ==
  /\ Here(d, "idle")
  /\ stored' = stored \cup {form[d]}
  /\ To(d, IF form[d] \in filed \cup skipped THEN "done" ELSE "looking")
  /\ UNCHANGED <<given, filed, skipped, people, slots, found, notes>>

\* file: addresses a rep deleted are skipped ...
LookSuppressed(d) ==
  /\ Here(d, "looking")
  /\ To(d, IF address[form[d]] \in suppressed THEN "skipping" ELSE "finding")
  /\ UNCHANGED <<given, rows, people, slots, found, notes>>

\* ... one that is known is attached ...
FindContact(d) ==
  /\ Here(d, "finding")
  /\ Holds(d, contact[address[form[d]]])
  /\ To(d, IF contact[address[form[d]]] # 0 THEN "attaching" ELSE "taking")
  /\ UNCHANGED <<given, rows, people, slots, notes>>

\* ... and a new one takes a slot of the hour, in one guarded statement.  A
\* statement that fails is a refusal, whether it has taken the slot or not.
Take(d) ==
  /\ Here(d, "taking")
  /\ \/ /\ charged[window] < Cap /\ To(d, "creating")
        /\ charged' = [charged EXCEPT ![window] = @ + 1]
        /\ slot' = [slot EXCEPT ![d] = window]
        /\ UNCHANGED lost
     \/ /\ charged[window] < Cap /\ To(d, "skipping")
        /\ charged' = [charged EXCEPT ![window] = @ + 1]
        /\ lost' = [lost EXCEPT ![window] = @ + 1]
        /\ UNCHANGED slot
     \/ To(d, "skipping") /\ UNCHANGED <<charged, slot, lost>>
  /\ UNCHANGED <<given, rows, people, window, created, found, notes>>

Skip(d) ==
  /\ Here(d, "skipping") /\ To(d, "done")
  /\ skipped' = skipped \cup {form[d]}
  /\ UNCHANGED <<given, stored, filed, people, slots, found, notes>>

\* contact.create; the unique email refuses the second.
Create(d) ==
  LET e == address[form[d]]
  IN /\ Here(d, "creating")
     /\ IF contact[e] = 0
        THEN /\ made[e] < MaxMade
             /\ made' = [made EXCEPT ![e] = @ + 1]
             /\ contact' = [contact EXCEPT ![e] = made[e] + 1]
             /\ created' = [created EXCEPT ![slot[d]] = @ + 1]
             /\ slot' = [slot EXCEPT ![d] = 0]
             /\ Holds(d, made[e] + 1)
             /\ To(d, "attachingNew")
        ELSE /\ To(d, "releasing")
             /\ UNCHANGED <<made, contact, created, slot, found>>
     /\ UNCHANGED <<given, rows, suppressed, window, charged, lost, notes>>

\* Any other error is thrown on, once the slot is back.
CreateFails(d) ==
  /\ Here(d, "creating") /\ To(d, "givingUp")
  /\ UNCHANGED <<given, rows, people, slots, found, notes>>

\* release: a statement that fails is logged, and the slot stays taken.
Release(d) ==
  /\ at[d] \in {"releasing", "givingUp"}
  /\ To(d, IF Here(d, "releasing") THEN "racing" ELSE "failed")
  /\ \/ charged' = [charged EXCEPT ![slot[d]] = IF @ = 0 THEN 0 ELSE @ - 1] /\ UNCHANGED lost
     \/ lost' = [lost EXCEPT ![slot[d]] = @ + 1] /\ UNCHANGED charged
  /\ slot' = [slot EXCEPT ![d] = 0]
  /\ UNCHANGED <<given, rows, people, window, created, found, notes>>

\* raced: the contact the other delivery made, unless it is gone again.
Raced(d) ==
  /\ Here(d, "racing")
  /\ Holds(d, contact[address[form[d]]])
  /\ To(d, IF contact[address[form[d]]] = 0 THEN "failed" ELSE "attaching")
  /\ UNCHANGED <<given, rows, people, slots, notes>>

-----------------------------------------------------------------------------
(* attach.                                                                 *)

IsThere(d) == contact[address[form[d]]] = found[d]
Attaching(d) == at[d] \in {"attaching", "attachingNew"}
After(d) == IF at[d] \in {"attachingNew", "notingNew"} THEN "queueing" ELSE "done"

\* Mutant of Claim: the row is looked at without the guard on filedAt.
ClaimAnyway(d) ==
  /\ Attaching(d)
  /\ IF ~IsThere(d)
     THEN To(d, "failed") /\ UNCHANGED <<filed, skipped>>
     ELSE /\ filed' = filed \cup {form[d]} /\ skipped' = skipped \ {form[d]}
          /\ To(d, IF Here(d, "attaching") THEN "noting" ELSE "notingNew")
  /\ Forgets(d)
  /\ UNCHANGED <<given, stored, people, slots, notes>>

\* The row is claimed where filedAt is null; a contact that is gone by now
\* fails the statement.
Claim(d) ==
  /\ Attaching(d)
  /\ IF form[d] \in filed
     THEN To(d, After(d)) /\ UNCHANGED <<filed, skipped>>
     ELSE IF ~IsThere(d)
     THEN To(d, "failed") /\ UNCHANGED <<filed, skipped>>
     ELSE /\ filed' = filed \cup {form[d]} /\ skipped' = skipped \ {form[d]}
          /\ To(d, IF Here(d, "attaching") THEN "noting" ELSE "notingNew")
  /\ Forgets(d)
  /\ UNCHANGED <<given, stored, people, slots, notes>>

\* The note, then the visitor; a workspace without a user writes no note.
WriteNote(d) ==
  /\ at[d] \in {"noting", "notingNew"}
  /\ IF IsThere(d)
     THEN /\ notes' \in {notes, [notes EXCEPT ![form[d]] = @ + 1]}
          /\ To(d, After(d))
     ELSE UNCHANGED notes /\ To(d, "failed")
  /\ Forgets(d)
  /\ UNCHANGED <<given, rows, people, slots>>

\* contactCreated: the agent's tasks (TaskQueue).
QueueResearch(d) ==
  /\ Here(d, "queueing") /\ To(d, "done")
  /\ Forgets(d)
  /\ UNCHANGED <<given, rows, people, slots, notes>>

\* The process dies, or a statement fails, companyForEmail after the slot was
\* taken among them.
Die(d) ==
  /\ at[d] \notin Ended /\ To(d, "failed")
  /\ IF slot[d] = 0 THEN UNCHANGED <<slot, lost>>
     ELSE /\ lost' = [lost EXCEPT ![slot[d]] = @ + 1]
          /\ slot' = [slot EXCEPT ![d] = 0]
  /\ Forgets(d)
  /\ UNCHANGED <<given, rows, people, window, charged, created, notes>>

-----------------------------------------------------------------------------

\* ContactsService.delete; the submissions keep their filedAt.
DeleteContact(e) ==
  /\ contact[e] # 0
  /\ contact' = [contact EXCEPT ![e] = 0]
  /\ suppressed' = suppressed \cup {e}
  /\ UNCHANGED <<given, rows, made, slots, at, found, notes>>

HourEnds ==
  /\ window < MaxWindow /\ window' = window + 1
  /\ UNCHANGED <<given, rows, people, charged, slot, created, lost, at, found, notes>>

GNext ==
  \/ \E d \in Delivery :
       \/ Deliver(d) \/ LookSuppressed(d) \/ FindContact(d)
       \/ Take(d) \/ Skip(d)
       \/ Create(d) \/ CreateFails(d) \/ Release(d) \/ Raced(d)
       \/ Claim(d) \/ WriteNote(d) \/ QueueResearch(d) \/ Die(d)
  \/ (\E e \in Email : DeleteContact(e)) \/ HourEnds

GSpec == GInit /\ [][GNext]_gvars

-----------------------------------------------------------------------------
(* Properties.                                                             *)

\* Every variable has its type (schema.prisma, FormSubmission).
GTypeOK ==
  /\ address \in [Form -> Email] /\ form \in [Delivery -> Form]
  /\ filed \cup skipped \subseteq stored /\ stored \subseteq Form
  /\ contact \in [Email -> 0..MaxMade] /\ made \in [Email -> 0..MaxMade]
  /\ suppressed \subseteq Email
  /\ window \in Window /\ charged \in [Window -> 0..Cap]
  /\ found \in [Delivery -> 0..MaxMade]
  /\ slot \in [Delivery -> 0..MaxWindow]
  /\ notes \in [Form -> Nat]

Holding(w) == {d \in Delivery : slot[d] = w}

\* The counter of an hour is the contacts made with its slots, the slots
\* deliveries hold, and those lost to a death or a failed statement: none is
\* handed back twice or to another hour, so the cap holds, and a lost race costs
\* nothing while the database answers (tracking-filing.service.ts:97-127,
\* tracking-counter.service.ts:12-50, docs/tracking.md:155-160).
SlotsAreAccounted ==
  \A w \in Window : charged[w] = created[w] + Cardinality(Holding(w)) + lost[w]

\* However often a submission is delivered, it has one note
\* (tracking-filing.service.ts:168-173).
OneNote == \A f \in Form : notes[f] <= 1 /\ (notes[f] = 1 => f \in filed)

\* A delivery that ends without an error leaves its submission filed, or
\* skipped with a reason: none falls through a lost race.
NothingFallsThrough ==
  \A d \in Delivery : at[d] = "done" => form[d] \in filed \cup skipped

\* However submissions are delivered, each is filed once and not lost, and the cap
\* on contacts is neither passed nor, while the database answers, used up by races.
FilingIsExact == OneNote /\ NothingFallsThrough /\ SlotsAreAccounted
=============================================================================
