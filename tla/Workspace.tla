-------------------------------- MODULE Workspace --------------------------------
(***************************************************************************)
(* The one workspace of an install: who its members are, what its website  *)
(* is, and the profile that the agent writes of that website.  Requests    *)
(* read roles and the website, wait, and write; a task queued for a        *)
(* website outlives it.                                                    *)
(*                                                                         *)
(* Left out: names, slugs and the onboarding mark, who may call what after *)
(* the first look, and the first sign-in, which enrols everybody.          *)
(***************************************************************************)
EXTENDS Naturals, FiniteSets

CONSTANTS
  Member,
  Website,
  Unset,      \* NULL
  Request,    \* requests at work at once
  MaxRequest, \* bound: requests
  MaxMissed   \* bound: what dies or throws

ASSUME WorkspaceAssumption ==
  /\ IsFiniteSet(Member) /\ Unset \notin Website /\ {MaxRequest, MaxMissed} \subseteq Nat

VARIABLES
  role,      \* role[m]: of the member, or "none" before the first sign-in
  locked,    \* locked[r]: the member rows a request has locked
  website,   \* organization.website
  profile,   \* workspaceProfile: of which site it is filed, of which it tells
  call,      \* call[r]: a request under way
  task,      \* the workspace-profile row: "none", "queued", "running"
  recent,    \* one was finished in the last seven days
  told,      \* the website its session was told to read
  sweep,     \* the backfill has decided to queue one
  requests, missed,
  unlocked   \* history: an owner demoted by a request that saw no owner

people == <<role, locked, unlocked>>
site == <<website, profile>>
research == <<task, recent, told, sweep>>
ovars == <<people, site, call, research, requests, missed>>

Role == {"owner", "admin", "member"}
Rest == [step |-> "rest"]
Step(r, s) == call[r].step = s
Owners == {m \in Member : role[m] = "owner"}

OInit ==
  /\ role \in [Member -> {"owner", "none"}] /\ Cardinality(Owners) = 1
  /\ locked = [r \in Request |-> {}] /\ unlocked = FALSE
  /\ website = Unset /\ profile = Unset
  /\ call = [r \in Request |-> Rest]
  /\ task = "none" /\ recent = FALSE /\ told = Unset /\ sweep = FALSE
  /\ requests = 0 /\ missed = 0

Called(r, c) ==
  /\ Step(r, "rest") /\ requests < MaxRequest
  /\ requests' = requests + 1
  /\ call' = [call EXCEPT ![r] = c]
  /\ UNCHANGED <<people, site, research, missed>>

Return(r) == call' = [call EXCEPT ![r] = Rest]

-----------------------------------------------------------------------------
(* Members.                                                                *)

\* ensureWorkspaceMembership, of a user it does not know
SignIn(m) ==
  /\ role[m] = "none"
  /\ role' = [role EXCEPT ![m] = "member"]
  /\ UNCHANGED <<locked, unlocked, site, call, research, requests, missed>>

\* setMemberRole: the caller's role, ...
SetMemberRole(r, m, new) ==
  /\ \E viewer \in Member : role[viewer] \in {"owner", "admin"}
  /\ role[m] # "none"
  /\ Called(r, [step |-> "target", member |-> m, new |-> new])

\* ... the member's, without a lock, ...
ReadTarget(r) ==
  LET demotes == role[call[r].member] = "owner" /\ call[r].new # "owner" IN
  /\ Step(r, "target")
  /\ call' = [call EXCEPT ![r] =
       [step |-> IF demotes THEN "owners" ELSE "role",
        member |-> @.member, new |-> @.new, saw |-> demotes]]
  /\ UNCHANGED <<people, site, research, requests, missed>>

Free(r, M) == \A x \in Request \ {r} : locked[x] \cap M = {}

\* Mutant of CountOwners: the rows are counted without FOR UPDATE.
CountOwnersUnlocked(r) ==
  /\ Step(r, "owners")
  /\ call' = [call EXCEPT ![r] = IF Cardinality(Owners) <= 1 THEN Rest ELSE [@ EXCEPT !.step = "role"]]
  /\ UNCHANGED <<people, site, research, requests, missed>>

\* ... the owners, FOR UPDATE, if this takes one away, ...
CountOwners(r) ==
  /\ Step(r, "owners") /\ Free(r, Owners)
  /\ IF Cardinality(Owners) <= 1 THEN Return(r) /\ UNCHANGED locked
     ELSE /\ call' = [call EXCEPT ![r].step = "role"]
          /\ locked' = [locked EXCEPT ![r] = Owners]
  /\ UNCHANGED <<role, unlocked, site, research, requests, missed>>

\* ... and the write, with which the transaction ends.
WriteRole(r) ==
  LET m == call[r].member IN
  /\ Step(r, "role") /\ Free(r, {m})
  /\ role' = [role EXCEPT ![m] = call[r].new]
  /\ locked' = [locked EXCEPT ![r] = {}]
  /\ unlocked' = (unlocked \/ (role[m] = "owner" /\ call[r].new # "owner" /\ ~call[r].saw))
  /\ Return(r)
  /\ UNCHANGED <<site, research, requests, missed>>

-----------------------------------------------------------------------------
(* The website, and the task that reads it.                                *)

\* enqueue of a workspace-profile task: an open one will do.
Enqueue == task' = IF task = "none" THEN "queued" ELSE task

\* update: the row before, ...
UpdateWorkspace(r, w) ==
  Called(r, [step |-> "website", new |-> w, before |-> website])

\* ... the row after, ...
WriteWebsite(r) ==
  /\ Step(r, "website")
  /\ website' = call[r].new
  /\ IF call[r].new = call[r].before THEN Return(r) ELSE call' = [call EXCEPT ![r].step = "changed"]
  /\ UNCHANGED <<people, profile, research, requests, missed>>

\* ... and workspaceChanged, in a transaction of its own.
WorkspaceChanged(r) ==
  /\ Step(r, "changed") /\ Return(r)
  /\ Enqueue
  /\ UNCHANGED <<people, site, recent, told, sweep, requests, missed>>

\* A request is lost, or the queueing throws, which is logged.
CallFails(r) ==
  /\ ~Step(r, "rest") /\ missed < MaxMissed
  /\ missed' = missed + 1 /\ Return(r)
  /\ locked' = [locked EXCEPT ![r] = {}]
  /\ UNCHANGED <<role, unlocked, site, research, requests>>

\* Mutant of Profiled: a profile is a profile, of whatever website.
ProfiledOnce == profile # Unset /\ website # Unset

\* profileOf: the profile of another website is none.
Profiled == profile # Unset /\ website # Unset /\ profile.of = website

\* sweepWorkspace, when somebody signs in: a website without a profile and no
\* attempt within seven days ...
SweepLooks ==
  /\ ~sweep /\ website # Unset /\ ~Profiled /\ ~recent
  /\ sweep' = TRUE
  /\ UNCHANGED <<people, site, call, task, recent, told, requests, missed>>

\* ... queue one.
SweepQueues ==
  /\ sweep /\ sweep' = FALSE
  /\ Enqueue
  /\ UNCHANGED <<people, site, call, recent, told, requests, missed>>

WeekPasses ==
  /\ recent /\ recent' = FALSE
  /\ UNCHANGED <<people, site, call, task, told, sweep, requests, missed>>

\* workspacePreamble: the session is told which website to read.
OpenSession ==
  /\ task = "queued" /\ task' = "running"
  /\ told' = website
  /\ UNCHANGED <<people, site, call, recent, sweep, requests, missed>>

\* write_workspace_profile: filed for the website of this moment.
WriteProfile ==
  /\ task = "running" /\ told # Unset /\ website # Unset
  /\ profile' = [of |-> website, about |-> told]
  /\ UNCHANGED <<people, website, call, research, requests, missed>>

\* The session parks, or its last attempt is retired: the row is finished.
EndSession ==
  /\ task = "running" /\ task' = "none"
  /\ recent' = TRUE /\ told' = Unset
  /\ UNCHANGED <<people, site, call, sweep, requests, missed>>

\* It died, and is claimed again when its lease has run out.
SessionDies ==
  /\ task = "running" /\ missed < MaxMissed
  /\ missed' = missed + 1 /\ task' = "queued" /\ told' = Unset
  /\ UNCHANGED <<people, site, call, recent, sweep, requests>>

Serve(r) ==
  ReadTarget(r) \/ CountOwners(r) \/ WriteRole(r) \/ WriteWebsite(r) \/ WorkspaceChanged(r)

ONext ==
  \/ \E m \in Member : SignIn(m)
  \/ \E r \in Request : \/ \E m \in Member, new \in Role : SetMemberRole(r, m, new)
                        \/ \E w \in Website : UpdateWorkspace(r, w)
                        \/ Serve(r) \/ CallFails(r)
  \/ SweepLooks \/ SweepQueues \/ WeekPasses
  \/ OpenSession \/ WriteProfile \/ EndSession \/ SessionDies

OSpec == OInit /\ [][ONext]_ovars

-----------------------------------------------------------------------------
(* Properties.                                                             *)

\* Every variable has its type.
OTypeOK ==
  /\ role \in [Member -> Role \cup {"none"}] /\ locked \in [Request -> SUBSET Member]
  /\ website \in Website \cup {Unset} /\ profile \in [of : Website, about : Website] \cup {Unset}
  /\ task \in {"none", "queued", "running"} /\ told \in Website \cup {Unset}
  /\ {recent, sweep, unlocked} \subseteq BOOLEAN
  /\ requests \in 0..MaxRequest /\ missed \in 0..MaxMissed

\* docs/api.md:53: "the last owner cannot be demoted"
OwnerRemains == Owners # {}

\* Demotions that know they demote an owner never take the last one between them:
\* each counts the owners with the others held off.
DemotionsLeaveAnOwner == unlocked \/ Owners # {}

\* docs/agent.md:244: "The profile dies with its website"
ProfileDiesWithItsWebsite == Profiled => profile.about = website

\* A website that stays is read in the end, or has a profile filed for it, though
\* the request that changed it died before it queued the task, or a session died.
\* What is filed while it is the website counts, be it by the session that read the
\* one before (write_workspace_profile.ts:41-62).
WebsiteIsRead ==
  \A w \in Website : website = w ~> (website # w \/ told = w \/ (profile # Unset /\ profile.of = w))
=============================================================================
