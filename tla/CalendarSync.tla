------------------------------ MODULE CalendarSync ------------------------------
(***************************************************************************)
(* Meetings of Google calendars in the CRM.  Several reps are invited to a *)
(* meeting, each has a copy in a calendar of theirs, and all copies are one *)
(* row of calendarEvent and one activity.  The passes of the reps write    *)
(* that row one after another statement, in no transaction, and each moves *)
(* its own cursor when it is through.                                      *)
(*                                                                         *)
(* A change of a meeting is known by its number.  A page holds one meeting, *)
(* as it is when the page is asked for.  Passes over one calendar follow   *)
(* one another (MailboxSync).  Left out: meetings with nobody the CRM      *)
(* knows, which are ignored, and whom a meeting is matched to.             *)
(***************************************************************************)
EXTENDS Naturals, FiniteSets

CONSTANTS
  Guest,      \* reps with a calendar
  Meeting,    \* meetings, known by iCalUid and originalStartTime
  NoCursor,   \* no cursor
  Budget,     \* MAX_PAGES_PER_TICK
  MaxEdit,    \* bound: changes
  MaxOutage   \* bound: passes that fail

ASSUME CalendarAssumption ==
  Budget \in Nat \ {0} /\ MaxEdit \in Nat /\ MaxOutage \in Nat /\ NoCursor \notin Nat

VARIABLES
  edits,     \* changes so far
  version,   \* version[e]: the last change of a meeting by its organizer, 0 = none
  live,      \* meetings that take place
  off,       \* off[g]: meetings a rep took off the own calendar
  touched,   \* touched[g][e]: the change a rep's calendar had last
  bookmark,  \* bookmark[g]: mailboxSync.cursor
  doing,     \* doing[g]: where the pass of a rep stands
  through,   \* through[g]: the cursor the provider will give at the last page
  todo,      \* todo[g]: meetings on the pages to come
  pages,     \* pages[g]: pages read by this pass
  page,      \* page[g]: the meeting on the page in hand
  event,     \* event[e]: version in calendarEvent, 0 = no row
  shown,     \* shown[e]: version in its activity, 0 = none
  outages    \* passes that failed so far

calendar == <<edits, version, live, off, touched>>
walk == <<doing, through, todo, pages, page>>
crm == <<event, shown>>
calvars == <<calendar, bookmark, walk, crm, outages>>

Version == 0..MaxEdit
Page == [meeting : Meeting, version : Version, cancelled : BOOLEAN]
NoPage == [version |-> 0]

CalInit ==
  /\ edits = 0 /\ version = [e \in Meeting |-> 0] /\ live = {}
  /\ off = [g \in Guest |-> {}]
  /\ touched = [g \in Guest |-> [e \in Meeting |-> 0]]
  /\ bookmark = [g \in Guest |-> NoCursor]
  /\ doing = [g \in Guest |-> "idle"] /\ through = [g \in Guest |-> 0]
  /\ todo = [g \in Guest |-> {}] /\ pages = [g \in Guest |-> 0]
  /\ page = [g \in Guest |-> NoPage]
  /\ event = [e \in Meeting |-> 0] /\ shown = [e \in Meeting |-> 0]
  /\ outages = 0

-----------------------------------------------------------------------------
(* The calendars.                                                          *)

\* The organizer books, moves or cancels a meeting: every calendar it is on
\* has it from then on.
Organize(e) ==
  /\ edits < MaxEdit /\ edits' = edits + 1
  /\ version[e] = 0 \/ e \in live
  /\ version' = [version EXCEPT ![e] = edits']
  /\ live' \in IF e \in live THEN {live, live \ {e}} ELSE {live \cup {e}}
  /\ touched' = [g \in Guest |-> [touched[g] EXCEPT ![e] = IF e \in off[g] THEN @ ELSE edits']]
  /\ UNCHANGED <<off, bookmark, walk, crm, outages>>

\* A rep takes the own copy off the calendar, where it counts as cancelled.
TakeOff(g, e) ==
  /\ edits < MaxEdit /\ edits' = edits + 1
  /\ e \in live \ off[g]
  /\ off' = [off EXCEPT ![g] = @ \cup {e}]
  /\ touched' = [touched EXCEPT ![g][e] = edits']
  /\ UNCHANGED <<version, live, bookmark, walk, crm, outages>>

-----------------------------------------------------------------------------
(* sync.                                                                   *)

Changed(g) ==
  {e \in Meeting : touched[g][e] > (IF bookmark[g] = NoCursor THEN 0 ELSE bookmark[g])}

Step(g, s) == doing' = [doing EXCEPT ![g] = s]

\* The pass is over, through, rejected or dead; the next one begins anew.
Ends(g) ==
  /\ Step(g, "idle")
  /\ through' = [through EXCEPT ![g] = 0] /\ todo' = [todo EXCEPT ![g] = {}]
  /\ pages' = [pages EXCEPT ![g] = 0] /\ page' = [page EXCEPT ![g] = NoPage]

\* The first page is asked for: what changed since the cursor.
Begin(g) ==
  /\ doing[g] = "idle" /\ Step(g, "listing")
  /\ through' = [through EXCEPT ![g] = edits]
  /\ todo' = [todo EXCEPT ![g] = Changed(g)]
  /\ UNCHANGED <<calendar, bookmark, pages, page, crm, outages>>

AsItIs(g, e) ==
  [meeting |-> e, version |-> version[e], cancelled |-> e \notin live \/ e \in off[g]]

\* A page of the listing.
ReadPage(g) ==
  /\ doing[g] = "listing" /\ todo[g] # {} /\ pages[g] < Budget
  /\ \E e \in todo[g] :
       /\ page' = [page EXCEPT ![g] = AsItIs(g, e)]
       /\ todo' = [todo EXCEPT ![g] = @ \ {e}]
  /\ pages' = [pages EXCEPT ![g] = @ + 1]
  /\ Step(g, "applying")
  /\ UNCHANGED <<calendar, bookmark, through, crm, outages>>

Put(f, g) == [f EXCEPT ![page[g].meeting] = page[g].version]
Drop(f, g) == [f EXCEPT ![page[g].meeting] = 0]

\* Mutant of Apply: a cancelled meeting is one the CRM does not want.
ApplyLive(g) ==
  /\ doing[g] = "applying"
  /\ IF page[g].cancelled
     THEN Step(g, "listing") /\ UNCHANGED event
     ELSE Step(g, "projecting") /\ event' = Put(event, g)
  /\ UNCHANGED <<calendar, bookmark, through, todo, pages, page, shown, outages>>

\* apply: a cancelled meeting goes, and its activity with it; another is
\* written over whatever is there, and its attendees and activity follow.
Apply(g) ==
  /\ doing[g] = "applying"
  /\ IF page[g].cancelled
     THEN Step(g, "listing") /\ event' = Drop(event, g) /\ shown' = Drop(shown, g)
     ELSE Step(g, "projecting") /\ event' = Put(event, g) /\ UNCHANGED shown
  /\ UNCHANGED <<calendar, bookmark, through, todo, pages, page, outages>>

\* syncAttendees, prepareForMeeting and project; the row they refer to may be
\* gone by now, which fails the pass.
Project(g) ==
  /\ doing[g] = "projecting"
  /\ IF event[page[g].meeting] = 0
     THEN Ends(g) /\ UNCHANGED shown
     ELSE /\ Step(g, "listing") /\ shown' = Put(shown, g)
          /\ UNCHANGED <<through, todo, pages, page>>
  /\ UNCHANGED <<calendar, bookmark, event, outages>>

\* The last page has been read: its cursor is kept.
Through(g) ==
  /\ doing[g] = "listing" /\ todo[g] = {}
  /\ bookmark' = [bookmark EXCEPT ![g] = through[g]]
  /\ Ends(g)
  /\ UNCHANGED <<calendar, crm, outages>>

\* The budget of pages is used up: the row settles without a cursor.
BudgetReached(g) ==
  /\ doing[g] = "listing" /\ todo[g] # {} /\ pages[g] = Budget
  /\ Ends(g)
  /\ UNCHANGED <<calendar, bookmark, crm, outages>>

\* A statement fails, the process dies, or the provider does not answer or no
\* longer knows the cursor.
Fail(g) ==
  /\ doing[g] # "idle" /\ outages < MaxOutage /\ outages' = outages + 1
  /\ bookmark' \in IF doing[g] = "listing" THEN {bookmark, [bookmark EXCEPT ![g] = NoCursor]} ELSE {bookmark}
  /\ Ends(g)
  /\ UNCHANGED <<calendar, crm>>

Walks(g) == Begin(g) \/ ReadPage(g) \/ Apply(g) \/ Project(g) \/ Through(g) \/ BudgetReached(g)

CalNext ==
  \/ \E e \in Meeting : Organize(e) \/ \E g \in Guest : TakeOff(g, e)
  \/ \E g \in Guest : Walks(g) \/ Fail(g)

CalSpec == CalInit /\ [][CalNext]_calvars

-----------------------------------------------------------------------------
(* Properties.                                                             *)

\* Every variable has its type.
CalTypeOK ==
  /\ edits \in Version /\ version \in [Meeting -> Version] /\ live \subseteq Meeting
  /\ off \in [Guest -> SUBSET Meeting] /\ touched \in [Guest -> [Meeting -> Version]]
  /\ bookmark \in [Guest -> Version \cup {NoCursor}]
  /\ doing \in [Guest -> {"idle", "listing", "applying", "projecting"}]
  /\ through \in [Guest -> Version] /\ todo \in [Guest -> SUBSET Meeting]
  /\ pages \in [Guest -> 0..Budget]
  /\ page \in [Guest -> Page \cup {NoPage}]
  /\ \A g \in Guest : doing[g] \in {"applying", "projecting"} => page[g] \in Page
  /\ event \in [Meeting -> Version] /\ shown \in [Meeting -> Version]
  /\ outages \in 0..MaxOutage

\* Everybody who is invited still has the meeting on the calendar.
Undivided(e) == \A g \in Guest : e \notin off[g]

\* The CRM shows a meeting as it is, and does not show one that is cancelled.
Up2Date(e) ==
  LET is == IF e \in live THEN version[e] ELSE 0 IN event[e] = is /\ shown[e] = is

\* A calendar with more changes than a pass has pages for.
Overfull == \E g \in Guest : Cardinality(Changed(g)) > Budget

\* When changes and failures end, the CRM comes to show every meeting that all
\* its guests keep, unless a calendar is overfull.
MeetingsConverge ==
  <>[](Overfull \/ \A e \in Meeting : Undivided(e) => Up2Date(e))

\* calendar-sync.service.ts:187: "Page budget reached; continuing next tick".
BudgetContinues == []<>(\A g \in Guest : bookmark[g] # NoCursor)
=============================================================================
