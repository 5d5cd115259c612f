------------------------------ MODULE MailThreads ------------------------------
(***************************************************************************)
(* What storing a message does, for one conversation by mail with somebody *)
(* outside.  Several reps take part in it, so several mailboxes hold the   *)
(* same messages; their passes store them as one thread, with one activity *)
(* on a timeline.  Meanwhile a rep purges the own mail, and the contact is *)
(* deleted.                                                                *)
(*                                                                         *)
(* The transaction that stores a message takes the lock of the thread      *)
(* first, so it is one step.  A purge takes that lock late, and its        *)
(* statements see what others committed in between.  Left out: the dates   *)
(* and subject of a thread, which are written where its count is, and the  *)
(* stamps of records.                                                      *)
(***************************************************************************)
EXTENDS Naturals, FiniteSets

CONSTANTS
  Holder,      \* reps whose mailbox holds messages of the conversation
  Letter,      \* messages, known by rfcMessageId
  Nobody,      \* no rep, no activity
  MaxContact,  \* bound: contacts made for the address
  MaxUpset     \* bound: passes and purges that fail

ASSUME ThreadAssumption ==
  /\ MaxContact \in Nat \ {0} /\ MaxUpset \in Nat
  /\ Nobody \notin Nat \cup Holder /\ IsFiniteSet(Letter)

VARIABLES
  box,        \* box[h]: letters in a rep's mailbox
  firm,       \* the company of the address is in the CRM or may be added
  known,      \* the contact with the address, 0 = none
  contacts,   \* contacts made so far
  barred,     \* the address is in suppressedContact
  thread,     \* the emailThread, 0 = none; a second one has another number
  threads,    \* threads made so far
  about,      \* emailThread.contactId, 0 = none
  count,      \* emailThread.messageCount
  syncedBy,   \* syncedBy[l]: the rep whose message is stored, or Nobody
  activity,   \* the activity of the thread: its contactId, 0 = none, or Nobody
  heard,      \* reps whose pass read that the address is barred
  letter,     \* letter[h]: the letters a pass is at, at most one
  place,      \* place[h]: where it stands with it
  into,       \* into[h]: the thread it is to repair, 0 = none
  target,     \* target[h]: the contact it found
  passedBy,   \* passedBy[h]: letters a pass is through with
  purge,      \* purge[h]: where the purge of a rep stands
  purging,    \* purging[h]: the thread it is at
  deleted,    \* deleted[h]: letters it deleted and has not committed
  rest,       \* rest[h]: how many letters remain, as it read
  locked,     \* the rep whose purge holds the lock of the thread
  upsets,     \* passes and purges that failed so far
  raced       \* history: a purge overlapped with a store or another purge, and no letter came after

person == <<known, contacts, barred>>
conversation == <<thread, threads, about, count, syncedBy, activity>>
work == <<letter, place, into, target>>
purges == <<purge, purging, deleted, rest, locked>>
tvars == <<box, firm, person, conversation, heard, work, passedBy, purges, upsets, raced>>

Stored == {l \in Letter : syncedBy[l] # Nobody}
Mine(h) == {l \in Letter : syncedBy[l] = h}

TInit ==
  /\ box \in [Holder -> SUBSET Letter \ {{}}] /\ firm \in BOOLEAN
  /\ known \in 0..1 /\ contacts = known /\ barred = FALSE
  /\ thread = 0 /\ threads = 0 /\ about = 0 /\ count = 0
  /\ syncedBy = [l \in Letter |-> Nobody] /\ activity = Nobody
  /\ heard = {} /\ letter = [h \in Holder |-> {}]
  /\ place = [h \in Holder |-> "idle"]
  /\ into = [h \in Holder |-> 0] /\ target = [h \in Holder |-> 0]
  /\ passedBy = [h \in Holder |-> {}]
  /\ purge = [h \in Holder |-> "none"] /\ purging = [h \in Holder |-> 0]
  /\ deleted = [h \in Holder |-> {}] /\ rest = [h \in Holder |-> 0] /\ locked = Nobody
  /\ upsets = 0 /\ raced = FALSE

-----------------------------------------------------------------------------
(* store.                                                                  *)

GoTo(h, p) == place' = [place EXCEPT ![h] = p]
Aim(h, t, c) == into' = [into EXCEPT ![h] = t] /\ target' = [target EXCEPT ![h] = c]

Rests(h) ==
  /\ GoTo(h, "idle") /\ letter' = [letter EXCEPT ![h] = {}] /\ Aim(h, 0, 0)

\* The letter is stored or of nobody: the pass goes on to the next.
Passes(h) == Rests(h) /\ passedBy' = [passedBy EXCEPT ![h] = @ \cup letter[h]]

\* The pass ends; a later one reads the letter again.
Rejects(h) == Rests(h) /\ UNCHANGED passedBy

\* A pass begins: context reads who is barred.
ReadContext(h) ==
  /\ place[h] = "idle" /\ box[h] \ passedBy[h] # {}
  /\ heard' = IF barred THEN heard \cup {h} ELSE heard \ {h}
  /\ UNCHANGED <<box, firm, person, conversation, work, passedBy, purges, upsets, raced>>

TakeUp(h) ==
  /\ place[h] = "idle" /\ GoTo(h, "looking")
  /\ \E l \in box[h] \ passedBy[h] : letter' = [letter EXCEPT ![h] = {l}]
  /\ UNCHANGED <<box, firm, person, conversation, heard, into, target, passedBy, purges, upsets, raced>>

\* Mutant of Look: a letter that is stored is done with.
LookStored(h) ==
  /\ place[h] = "looking"
  /\ IF letter[h] \subseteq Stored
     THEN Passes(h)
     ELSE /\ Aim(h, 0, about) /\ GoTo(h, IF thread # 0 THEN "storing" ELSE "matching")
          /\ UNCHANGED <<letter, passedBy>>
  /\ UNCHANGED <<box, firm, person, conversation, heard, purges, upsets, raced>>

\* A letter with an activity is done with, one whose thread lost it is
\* repaired; a thread that is there keeps whom it is about.
Look(h) ==
  /\ place[h] = "looking"
  /\ IF letter[h] \subseteq Stored /\ activity # Nobody
     THEN Passes(h)
     ELSE /\ Aim(h, IF letter[h] \subseteq Stored THEN thread ELSE 0, about)
          /\ GoTo(h, IF thread # 0 THEN "storing" ELSE "matching")
          /\ UNCHANGED <<letter, passedBy>>
  /\ UNCHANGED <<box, firm, person, conversation, heard, purges, upsets, raced>>

\* resolve: whom a new thread is about, or that it is about nobody.
Match(h) ==
  /\ place[h] = "matching"
  /\ IF h \in heard \/ (known = 0 /\ ~firm)
     THEN Passes(h)
     ELSE /\ Aim(h, 0, known)
          /\ \/ GoTo(h, "storing")
             \/ known = 0 /\ GoTo(h, "making")
          /\ UNCHANGED <<letter, passedBy>>
  /\ UNCHANGED <<box, firm, person, conversation, heard, purges, upsets, raced>>

\* createContact, under a lock on the address.
MakeContact(h) ==
  /\ place[h] = "making" /\ GoTo(h, "storing")
  /\ IF known # 0
     THEN Aim(h, 0, known) /\ UNCHANGED <<known, contacts>>
     ELSE /\ contacts < MaxContact /\ contacts' = contacts + 1
          /\ known' = contacts' /\ Aim(h, 0, contacts')
  /\ UNCHANGED <<box, firm, barred, conversation, heard, letter, passedBy, purges, upsets, raced>>

Refers(h) == target[h] \in {0, known}
Purging(h) == purge[h] # "none"

\* What the transaction counts; letters that a purge is about to delete are
\* among them.
Counted(h) == Cardinality(Stored \cup IF into[h] = 0 THEN letter[h] ELSE {})

\* The letter is written, its thread counted and its activity projected.
Written(h) ==
  /\ syncedBy' = [l \in Letter |-> IF l \in letter[h] /\ into[h] = 0 THEN h ELSE syncedBy[l]]
  /\ count' = Counted(h)
  /\ activity' = IF activity = Nobody THEN target[h] ELSE activity
  /\ raced' = ((into[h] # 0 /\ raced) \/ \E g \in Holder : Purging(g))

\* The transaction.  It waits for a purge that deletes the same letter.  It
\* fails on the unique rfcMessageId, where a letter that the other pass stored
\* is done with, and on a contact or thread that is gone.
Store(h) ==
  /\ place[h] = "storing" /\ locked = Nobody
  /\ into[h] = 0 => \A g \in Holder : deleted[g] \cap letter[h] = {}
  /\ IF into[h] = 0 /\ letter[h] \subseteq Stored
     THEN /\ IF activity # Nobody THEN Passes(h) ELSE Rejects(h)
          /\ UNCHANGED <<conversation, raced>>
     ELSE IF (into[h] \notin {0, thread}) \/ (~Refers(h) /\ (thread = 0 \/ activity = Nobody))
     THEN Rejects(h) /\ UNCHANGED <<conversation, raced>>
     ELSE /\ Written(h) /\ Passes(h)
          /\ IF thread = 0
             THEN threads' = threads + 1 /\ thread' = threads' /\ about' = target[h]
             ELSE UNCHANGED <<thread, threads, about>>
  /\ UNCHANGED <<box, firm, person, heard, purges, upsets>>

PassFails(h) ==
  /\ place[h] # "idle" /\ upsets < MaxUpset /\ upsets' = upsets + 1
  /\ Rejects(h)
  /\ UNCHANGED <<box, firm, person, conversation, heard, purges, raced>>

-----------------------------------------------------------------------------
(* ContactsService.delete.                                                 *)

DeletePerson ==
  /\ known # 0 /\ known' = 0 /\ barred' = TRUE
  /\ about' = IF about = known THEN 0 ELSE about
  /\ activity' = IF activity = known THEN Nobody ELSE activity
  /\ UNCHANGED <<box, firm, contacts, thread, threads, count, syncedBy, heard, work, passedBy, purges, upsets, raced>>

-----------------------------------------------------------------------------
(* purgeSyncedData: one transaction of several statements.                 *)

At(h, p) == purge' = [purge EXCEPT ![h] = p]

\* The transaction is over.
Over(h) ==
  /\ At(h, "none") /\ locked' = IF locked = h THEN Nobody ELSE locked
  /\ purging' = [purging EXCEPT ![h] = 0] /\ deleted' = [deleted EXCEPT ![h] = {}]
  /\ rest' = [rest EXCEPT ![h] = 0]

\* Which threads, and the rep's own letters of them.
PurgeMine(h) ==
  /\ purge[h] = "none" /\ Mine(h) # {} /\ At(h, "dropping")
  /\ purging' = [purging EXCEPT ![h] = thread]
  /\ deleted' = [deleted EXCEPT ![h] = Mine(h)]
  /\ raced' = (raced \/ \E g \in Holder \ {h} : Purging(g))
  /\ UNCHANGED <<box, firm, person, conversation, heard, work, passedBy, rest, locked, upsets>>

\* What the statement that drops threads sees.
FindEmpty(h) ==
  /\ purge[h] = "dropping"
  /\ At(h, IF purging[h] = thread /\ Stored \subseteq deleted[h] THEN "waiting" ELSE "reading")
  /\ UNCHANGED <<box, firm, person, conversation, heard, work, passedBy, purging, deleted, rest, locked, upsets, raced>>

\* It waits for the lock and does not look at the letters again.
DropThread(h) ==
  /\ purge[h] = "waiting" /\ locked = Nobody
  /\ IF purging[h] = thread
     THEN locked' = h /\ At(h, "dropped")
     ELSE UNCHANGED locked /\ At(h, "counted")
  /\ UNCHANGED <<box, firm, person, conversation, heard, work, passedBy, purging, deleted, rest, upsets, raced>>

\* rebuildThreads: what remains is read ...
ReadRest(h) ==
  /\ purge[h] = "reading"
  /\ rest' = [rest EXCEPT ![h] = Cardinality(Stored \ deleted[h])]
  /\ At(h, IF purging[h] # thread \/ rest'[h] = 0 THEN "counted" ELSE "writing")
  /\ UNCHANGED <<box, firm, person, conversation, heard, work, passedBy, purging, deleted, locked, upsets, raced>>

\* ... and written to the thread, which must still be there.
WriteRest(h) ==
  /\ purge[h] = "writing" /\ locked = Nobody
  /\ IF purging[h] = thread
     THEN locked' = h /\ At(h, "written") /\ UNCHANGED <<purging, deleted, rest>>
     ELSE Over(h)
  /\ UNCHANGED <<box, firm, person, conversation, heard, work, passedBy, upsets, raced>>

\* Mutant of Left: nothing is counted anew.
LeftAsIs(h) == count

Left(h) == IF purge[h] = "written" THEN rest[h] ELSE count

\* The transaction commits; a dropped thread takes all its letters and its
\* activity with it.
CommitPurge(h) ==
  /\ purge[h] \in {"dropped", "counted", "written"} /\ Over(h)
  /\ syncedBy' = [l \in Letter |-> IF purge[h] = "dropped" \/ l \in deleted[h] THEN Nobody ELSE syncedBy[l]]
  /\ IF purge[h] = "dropped"
     THEN thread' = 0 /\ about' = 0 /\ count' = 0 /\ activity' = Nobody
     ELSE count' = Left(h) /\ UNCHANGED <<thread, about, activity>>
  /\ UNCHANGED <<box, firm, person, threads, heard, work, passedBy, upsets, raced>>

PurgeFails(h) ==
  /\ purge[h] # "none" /\ Over(h) /\ upsets < MaxUpset /\ upsets' = upsets + 1
  /\ UNCHANGED <<box, firm, person, conversation, heard, work, passedBy, raced>>

TNext ==
  \/ \E h \in Holder :
       \/ ReadContext(h) \/ TakeUp(h) \/ Look(h) \/ Match(h) \/ MakeContact(h) \/ Store(h) \/ PassFails(h)
       \/ PurgeMine(h) \/ FindEmpty(h) \/ DropThread(h) \/ ReadRest(h) \/ WriteRest(h) \/ CommitPurge(h) \/ PurgeFails(h)
  \/ DeletePerson

TSpec == TInit /\ [][TNext]_tvars

-----------------------------------------------------------------------------
(* Properties.                                                             *)

\* Every variable has its type.
TTypeOK ==
  /\ box \in [Holder -> SUBSET Letter] /\ firm \in BOOLEAN /\ barred \in BOOLEAN
  /\ contacts \in 0..MaxContact /\ known \in 0..contacts /\ about \in 0..contacts
  /\ thread \in 0..threads /\ count \in 0..Cardinality(Letter)
  /\ syncedBy \in [Letter -> Holder \cup {Nobody}]
  /\ activity \in 0..contacts \cup {Nobody}
  /\ heard \subseteq Holder /\ letter \in [Holder -> SUBSET Letter]
  /\ place \in [Holder -> {"idle", "looking", "matching", "making", "storing"}]
  /\ into \in [Holder -> 0..threads] /\ target \in [Holder -> 0..contacts]
  /\ passedBy \in [Holder -> SUBSET Letter]
  /\ purge \in [Holder -> {"none", "dropping", "waiting", "dropped", "reading", "writing", "counted", "written"}]
  /\ purging \in [Holder -> 0..threads] /\ deleted \in [Holder -> SUBSET Letter]
  /\ rest \in [Holder -> 0..Cardinality(Letter)]
  /\ locked \in Holder \cup {Nobody}
  /\ upsets \in 0..MaxUpset /\ raced \in BOOLEAN

\* However passes and purges follow one another, fail and repeat themselves, a
\* thread counts the letters it has, and has some, unless a purge overlapped
\* with a store or another purge and no letter came since
\* (apps/api/test/mailbox-thread-writer.spec.ts:89 and :143).
CountIsExact ==
  ~raced => count = Cardinality(Stored) /\ (thread # 0 <=> Stored # {})

\* A letter a pass is through with, but for one of nobody, is in the CRM at that
\* moment, unless it was purged while its thread was repaired, and on a
\* timeline: a thread that lost its activity is repaired, not skipped
\* (mailbox-thread-writer.spec.ts:112).
StoredIsShown ==
  [][\A h \in Holder : passedBy'[h] # passedBy[h] /\ place[h] # "matching" =>
       activity' # Nobody /\ \A l \in letter[h] : into[h] # 0 \/ syncedBy'[l] # Nobody]_tvars
=============================================================================
