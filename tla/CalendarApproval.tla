-------------------------- MODULE CalendarApproval --------------------------
(***************************************************************************)
(* How one relationship comes to an approved calendar-create Action:       *)
(* registering the calendar, the create policy, the write Permission       *)
(* granted by a counterpart event, the immutable Action prepared from a    *)
(* counterpart event, the faithful presentation of its consent, and the    *)
(* Approval admitted from the counterpart's reply.  Workers are concurrent *)
(* callers that share one SQLite database.                                 *)
(*                                                                         *)
(* Every admission reads first and takes the write lock with its first     *)
(* write, so it is two steps: what it read, and the commit with the        *)
(* compare-and-sets and unique keys that validate part of what it read.    *)
(***************************************************************************)
EXTENDS Naturals, Sequences

CONSTANTS
    Worker,       \* concurrent callers
    Calendar,     \* external calendars; a binding is unique per calendar
    NoCalendar,   \* "no calendar"
    MaxTimeline,  \* bound on the relationship Timeline
    MaxPolicy     \* bound on create-policy revisions

ASSUME ApprovalAssumption ==
    /\ MaxTimeline \in Nat
    /\ MaxPolicy \in Nat
    /\ NoCalendar \notin Calendar

\* A Timeline event is named by its timeline_seq.  The permission granted by an event
\* and the Action prepared from an event carry its name; 0 is "none".
Event == 1 .. MaxTimeline

VARIABLES
    timeline,     \* the relationship Timeline, in order
    relationship, \* personal-world authority of the relationship
    resource,     \* state of each calendar's resource binding
    frontier,     \* activation_timeline_frontier of each binding
    policy,       \* current create policy: revision and allowed bindings
    permission,   \* state of the write Permission granted by each event
    target,       \* calendar of each write Permission
    action,       \* the Action of each event: its calendar and write Permission
    presentation, \* presentation_timeline_frontier of each Action's consent
    approval,     \* source event of each Action's Approval
    approved      \* state of each Action's Approval

\* The presentation sink, outside src/: how long the Timeline was when the counterpart
\* was first shown the consent; and, for the properties, when a binding was committed.
VARIABLES shownAt, activatedAt

\* The callers' volatile state.
VARIABLES pc, job

authority == <<relationship, resource, frontier, policy, permission, target>>
consent == <<action, presentation, approval, approved>>
external == <<shownAt, activatedAt>>
vars == <<timeline, authority, consent, external, pc, job>>

Says(kind) == [kind |-> kind, action |-> 0]
Approves(a) == [kind |-> "APPROVE", action |-> a]

\* Any other event acts like a GRANT or CREATE that nobody admits.
Message == {Says(k) : k \in {"GRANT", "CREATE"}} \cup {Approves(a) : a \in Event}

Stage == {"idle", "registering", "granting", "preparing", "showing", "shown",
          "presenting", "admitting"}

NoAction == [calendar |-> NoCalendar, permission |-> 0]
NoJob == [calendar |-> NoCalendar, permission |-> 0, action |-> 0, seq |-> 0, policy |-> 0]

-----------------------------------------------------------------------------
Init ==
    /\ timeline = <<>>
    /\ relationship = "NONE"
    /\ resource = [c \in Calendar |-> "NONE"]
    /\ frontier = [c \in Calendar |-> 0]
    /\ policy = [rev |-> 0, allowed |-> {}]
    /\ permission = [g \in Event |-> "NONE"]
    /\ target = [g \in Event |-> NoCalendar]
    /\ action = [a \in Event |-> NoAction]
    /\ presentation = [a \in Event |-> 0]
    /\ approval = [a \in Event |-> 0]
    /\ approved = [a \in Event |-> "NONE"]
    /\ shownAt = [a \in Event |-> 0]
    /\ activatedAt = [c \in Calendar |-> 0]
    /\ pc = [w \in Worker |-> "idle"]
    /\ job = [w \in Worker |-> NoJob]

-----------------------------------------------------------------------------
(* Helpers *)

LastSeq == Len(timeline)

Prepared(a) == action[a] # NoAction

Begin(w, stage, j) ==
    /\ pc[w] = "idle"
    /\ pc' = [pc EXCEPT ![w] = stage]
    /\ job' = [job EXCEPT ![w] = j]

Finish(w) ==
    /\ pc' = [pc EXCEPT ![w] = "idle"]
    /\ job' = [job EXCEPT ![w] = NoJob]

ActiveCalendars == {c \in Calendar : resource[c] = "ACTIVE"}

\* Faulty variant: the write Permission of another calendar will do.
ActionAuthorityAnyTarget(c, p) ==
    /\ relationship = "ACTIVE"
    /\ ActiveCalendars = {c}
    /\ c \in policy.allowed
    /\ permission[p] = "ACTIVE"

\* The calendar is the unique active one and the policy allows it.
TargetAuthority(c) ==
    /\ relationship = "ACTIVE"
    /\ ActiveCalendars = {c}
    /\ c \in policy.allowed

\* _require_current_action_authority: also its own write Permission is active.
ActionAuthority(c, p) ==
    /\ TargetAuthority(c)
    /\ permission[p] = "ACTIVE" /\ target[p] = c

\* _cas_head_same on relationship, resource and policy.  Relationship and resource
\* leave ACTIVE once and for ever, so their revision is unchanged iff they are ACTIVE.
TargetUnchanged(w) ==
    /\ relationship = "ACTIVE"
    /\ resource[job[w].calendar] = "ACTIVE"
    /\ policy.rev = job[w].policy

\* _cas_head_same on the write Permission, whose revocation is final as well.
PermissionUnchanged(w) == permission[job[w].permission] = "ACTIVE"

\* The update of relationship_timeline_head that keeps the event current.
SourceCurrent(w) == LastSeq = job[w].seq

-----------------------------------------------------------------------------
(* Input: append_counterpart_input and the other Timeline writers *)

AppendEvent(m) ==
    /\ LastSeq < MaxTimeline
    /\ m.kind = "APPROVE" => Prepared(m.action)
    /\ timeline' = Append(timeline, m)
    /\ UNCHANGED <<authority, consent, external, pc, job>>

-----------------------------------------------------------------------------
(* Authority records *)

\* register_calendar_resource that creates the relationship head: that insert takes
\* the write lock before the remaining reads.
RegisterFirstCalendar(c) ==
    /\ relationship = "NONE"
    /\ relationship' = "ACTIVE"
    /\ resource' = [resource EXCEPT ![c] = "ACTIVE"]
    /\ frontier' = [frontier EXCEPT ![c] = LastSeq]
    /\ activatedAt' = [activatedAt EXCEPT ![c] = LastSeq]
    /\ UNCHANGED <<timeline, policy, permission, target, consent, shownAt, pc, job>>

\* register_calendar_resource, reads: no other calendar is active, Timeline frontier.
BeginRegister(w, c) ==
    /\ relationship = "ACTIVE"
    /\ ActiveCalendars = {}
    /\ Begin(w, "registering", [NoJob EXCEPT !.calendar = c, !.seq = LastSeq])
    /\ UNCHANGED <<timeline, authority, consent, external>>

\* The commit: only the uniqueness of the external target validates it.
CommitRegister(w) ==
    LET c == job[w].calendar IN
    /\ pc[w] = "registering"
    /\ resource[c] = "NONE"
    /\ resource' = [resource EXCEPT ![c] = "ACTIVE"]
    /\ frontier' = [frontier EXCEPT ![c] = job[w].seq]
    /\ activatedAt' = [activatedAt EXCEPT ![c] = LastSeq]
    /\ Finish(w)
    /\ UNCHANGED <<timeline, relationship, policy, permission, target, consent, shownAt>>

\* set_relationship_status: only to ENDED.
EndRelationship ==
    /\ relationship = "ACTIVE"
    /\ relationship' = "ENDED"
    /\ UNCHANGED <<timeline, resource, frontier, policy, permission, target, consent,
                   external, pc, job>>

\* set_resource_status: never back to ACTIVE, never out of REVOKED.
SetResourceStatus(c) ==
    /\ \/ resource[c] = "ACTIVE"
          /\ \E s \in {"INACTIVE", "REVOKED"} : resource' = [resource EXCEPT ![c] = s]
       \/ resource[c] = "INACTIVE"
          /\ resource' = [resource EXCEPT ![c] = "REVOKED"]
    /\ UNCHANGED <<timeline, relationship, frontier, policy, permission, target, consent,
                   external, pc, job>>

\* set_create_policy: an empty scope stands for DENY.
SetCreatePolicy(allowed) ==
    /\ policy.rev < MaxPolicy
    /\ \A c \in allowed : resource[c] # "NONE"
    /\ policy' = [rev |-> policy.rev + 1, allowed |-> allowed]
    /\ UNCHANGED <<timeline, relationship, resource, frontier, permission, target,
                   consent, external, pc, job>>

-----------------------------------------------------------------------------
(* Write Permission *)

\* grant_create_permission, reads.
BeginGrant(w, c) ==
    /\ LastSeq > 0
    /\ timeline[LastSeq].kind = "GRANT"
    /\ TargetAuthority(c)
    /\ LastSeq > frontier[c]
    /\ permission[LastSeq] = "NONE"
    /\ \A g \in Event : target[g] = c => permission[g] # "ACTIVE"
    /\ Begin(w, "granting", [NoJob EXCEPT !.calendar = c, !.seq = LastSeq,
                                          !.policy = policy.rev])
    /\ UNCHANGED <<timeline, authority, consent, external>>

\* Faulty variant: the grant event is not held current.
GrantCurrentUnchecked(w) == TRUE

GrantCurrent(w) == SourceCurrent(w)

\* Its commit.  The event is consumed under its own key; the other active Permissions
\* it has read are not validated again.
CommitGrant(w) ==
    LET g == job[w].seq IN
    /\ pc[w] = "granting"
    /\ TargetUnchanged(w)
    /\ GrantCurrent(w)
    /\ permission[g] = "NONE"
    /\ permission' = [permission EXCEPT ![g] = "ACTIVE"]
    /\ target' = [target EXCEPT ![g] = job[w].calendar]
    /\ Finish(w)
    /\ UNCHANGED <<timeline, relationship, resource, frontier, policy, consent, external>>

\* set_create_permission_status: only to REVOKED.
RevokePermission(g) ==
    /\ permission[g] = "ACTIVE"
    /\ permission' = [permission EXCEPT ![g] = "REVOKED"]
    /\ UNCHANGED <<timeline, relationship, resource, frontier, policy, target, consent,
                   external, pc, job>>

-----------------------------------------------------------------------------
(* Action *)

\* prepare_create_action, reads.
BeginPrepare(w, c, p) ==
    /\ LastSeq > 0
    /\ timeline[LastSeq].kind = "CREATE"
    /\ ActionAuthority(c, p)
    /\ Begin(w, "preparing", [NoJob EXCEPT !.calendar = c, !.permission = p,
                                           !.seq = LastSeq, !.policy = policy.rev])
    /\ UNCHANGED <<timeline, authority, consent, external>>

\* Its commit: one Action per source event.
CommitPrepare(w) ==
    LET a == job[w].seq IN
    /\ pc[w] = "preparing"
    /\ TargetUnchanged(w)
    /\ PermissionUnchanged(w)
    /\ SourceCurrent(w)
    /\ ~ Prepared(a)
    /\ action' = [action EXCEPT ![a] = [calendar |-> job[w].calendar,
                                        permission |-> job[w].permission]]
    /\ Finish(w)
    /\ UNCHANGED <<timeline, authority, presentation, approval, approved, external>>

-----------------------------------------------------------------------------
(* Consent presentation *)

\* present_create_approval up to the sink call.  A durable presentation is replayed.
BeginPresent(w, a) ==
    /\ Prepared(a)
    /\ presentation[a] = 0
    /\ ActionAuthority(action[a].calendar, action[a].permission)
    /\ Begin(w, "showing", [NoJob EXCEPT !.action = a])
    /\ UNCHANGED <<timeline, authority, consent, external>>

\* approval_adapter.present_calendar_create_approval: the counterpart sees the consent;
\* the trustworthy acceptance may still be lost.
ShowConsent(w) ==
    LET a == job[w].action IN
    /\ pc[w] = "showing"
    /\ shownAt' = [shownAt EXCEPT ![a] = IF @ = 0 THEN LastSeq ELSE @]
    /\ \/ pc' = [pc EXCEPT ![w] = "shown"] /\ UNCHANGED job
       \/ Finish(w)
    /\ UNCHANGED <<timeline, authority, consent, activatedAt>>

\* Faulty variant: the frontier recorded is that of the Action, not of the showing.
FrontierOfAction(a) == a

\* Faulty variant: the first sequence number that may answer, off by one.
FrontierExclusive(a) == LastSeq + 1

PresentationFrontier(a) == LastSeq

\* present_create_approval, reads of the final transaction: authority and frontier.
ReadPresentation(w) ==
    LET a == job[w].action IN
    /\ pc[w] = "shown"
    /\ presentation[a] = 0
    /\ ActionAuthority(action[a].calendar, action[a].permission)
    /\ pc' = [pc EXCEPT ![w] = "presenting"]
    /\ job' = [job EXCEPT ![w].seq = PresentationFrontier(a)]
    /\ UNCHANGED <<timeline, authority, consent, external>>

\* Its commit: the presentation is unique per Action; nothing else is validated.
CommitPresentation(w) ==
    LET a == job[w].action IN
    /\ pc[w] = "presenting"
    /\ presentation[a] = 0
    /\ presentation' = [presentation EXCEPT ![a] = job[w].seq]
    /\ Finish(w)
    /\ UNCHANGED <<timeline, authority, action, approval, approved, external>>

-----------------------------------------------------------------------------
(* Approval *)

\* Faulty variant: any reply of the counterpart is taken for consent.
AnswersConsentGenerically(a, s) == timeline[s].kind = "APPROVE"

\* The exact Action-bound challenge.
AnswersConsent(a, s) == timeline[s] = Approves(a)

\* admit_create_approval, reads.
BeginAdmit(w, a) ==
    /\ presentation[a] # 0
    /\ ActionAuthority(action[a].calendar, action[a].permission)
    /\ AnswersConsent(a, LastSeq)
    /\ LastSeq > presentation[a]
    /\ approval[a] = 0
    /\ Begin(w, "admitting", [calendar |-> action[a].calendar, action |-> a,
                              permission |-> action[a].permission,
                              seq |-> LastSeq, policy |-> policy.rev])
    /\ UNCHANGED <<timeline, authority, consent, external>>

\* Faulty variant: the compare-and-sets are left out.
AdmissionUnvalidated(w) == TRUE

AdmissionValidated(w) == TargetUnchanged(w) /\ PermissionUnchanged(w) /\ SourceCurrent(w)

\* Faulty variant: the Approval of an Action has no unique key.
ApprovalReplaced(a) == approved[a] # "ACTIVE"

FirstApproval(a) == approval[a] = 0

\* Its commit: one Approval per Action and per source event.
CommitAdmit(w) ==
    LET a == job[w].action IN
    /\ pc[w] = "admitting"
    /\ AdmissionValidated(w)
    /\ FirstApproval(a)
    /\ \A b \in Event : b # a => approval[b] # job[w].seq
    /\ approval' = [approval EXCEPT ![a] = job[w].seq]
    /\ approved' = [approved EXCEPT ![a] = "ACTIVE"]
    /\ Finish(w)
    /\ UNCHANGED <<timeline, authority, action, presentation, external>>

\* revoke_create_approval
RevokeApproval(a) ==
    /\ approved[a] = "ACTIVE"
    /\ approved' = [approved EXCEPT ![a] = "REVOKED"]
    /\ UNCHANGED <<timeline, authority, action, presentation, approval, external, pc, job>>

-----------------------------------------------------------------------------
\* A process dies, or its call fails and its transaction rolls back.
Crash(w) ==
    /\ pc[w] # "idle"
    /\ Finish(w)
    /\ UNCHANGED <<timeline, authority, consent, external>>

Next ==
    \/ \E m \in Message : AppendEvent(m)
    \/ EndRelationship
    \/ \E allowed \in SUBSET Calendar : SetCreatePolicy(allowed)
    \/ \E c \in Calendar : RegisterFirstCalendar(c) \/ SetResourceStatus(c)
    \/ \E w \in Worker, c \in Calendar : BeginRegister(w, c) \/ BeginGrant(w, c)
    \/ \E w \in Worker, c \in Calendar, p \in Event : BeginPrepare(w, c, p)
    \/ \E w \in Worker, a \in Event : BeginPresent(w, a) \/ BeginAdmit(w, a)
    \/ \E g \in Event : RevokePermission(g) \/ RevokeApproval(g)
    \/ \E w \in Worker :
          \/ CommitRegister(w)
          \/ CommitGrant(w)
          \/ CommitPrepare(w)
          \/ ShowConsent(w)
          \/ ReadPresentation(w)
          \/ CommitPresentation(w)
          \/ CommitAdmit(w)
          \/ Crash(w)

Spec == Init /\ [][Next]_vars

-----------------------------------------------------------------------------
(* Properties *)

\* Every record has its type; Actions, Permissions and Approvals refer to existing
\* events and calendars.
TypeOK ==
    /\ timeline \in Seq(Message) /\ Len(timeline) <= MaxTimeline
    /\ relationship \in {"NONE", "ACTIVE", "ENDED"}
    /\ resource \in [Calendar -> {"NONE", "ACTIVE", "INACTIVE", "REVOKED"}]
    /\ frontier \in [Calendar -> 0 .. MaxTimeline]
    /\ policy \in [rev : 0 .. MaxPolicy, allowed : SUBSET Calendar]
    /\ permission \in [Event -> {"NONE", "ACTIVE", "REVOKED"}]
    /\ target \in [Event -> Calendar \cup {NoCalendar}]
    /\ action \in [Event -> [calendar : Calendar \cup {NoCalendar},
                             permission : 0 .. MaxTimeline]]
    /\ presentation \in [Event -> 0 .. MaxTimeline]
    /\ approval \in [Event -> 0 .. MaxTimeline]
    /\ approved \in [Event -> {"NONE", "ACTIVE", "REVOKED"}]
    /\ shownAt \in [Event -> 0 .. MaxTimeline]
    /\ activatedAt \in [Calendar -> 0 .. MaxTimeline]
    /\ pc \in [Worker -> Stage]
    /\ job \in [Worker -> [calendar : Calendar \cup {NoCalendar},
                           permission : 0 .. MaxTimeline, action : 0 .. MaxTimeline,
                           seq : 0 .. MaxTimeline, policy : 0 .. MaxPolicy]]

\* Consent is informed: an Approval comes from the counterpart's own reply to exactly
\* this Action, and the reply came after the counterpart was shown the consent, however
\* the reply, the sink's acceptance and the presentation transactions interleave.
InformedConsent ==
    \A a \in Event :
        approval[a] # 0 =>
            /\ timeline[approval[a]] = Approves(a)
            /\ shownAt[a] # 0 /\ shownAt[a] < approval[a]

\* The lineage is ordered on the Timeline: the Permission's grant comes after the
\* activation frontier of its calendar, the request after the grant, the presentation
\* not before the request and the reply after it; and all concern one calendar.
ConsentLineage ==
    \A a \in Event :
        Prepared(a) =>
            LET p == action[a].permission IN
            /\ target[p] = action[a].calendar
            /\ frontier[action[a].calendar] < p
            /\ p < a
            /\ timeline[p].kind = "GRANT" /\ timeline[a].kind = "CREATE"
            /\ presentation[a] # 0 => a <= presentation[a]
            /\ approval[a] # 0 => presentation[a] # 0 /\ presentation[a] < approval[a]

\* One grant event mints one Permission and a calendar has one active Permission,
\* although the commit of a grant does not look at the others again.
OneActivePermission ==
    \A g, h \in Event :
        permission[g] = "ACTIVE" /\ permission[h] = "ACTIVE" /\ target[g] = target[h]
            => g = h

\* An Approval is admitted only while relationship, calendar, policy and Permission
\* authorise its Action, and only from the current Timeline event.
AdmittedUnderAuthority ==
    [][\A a \in Event :
          approved[a] # "ACTIVE" /\ approved'[a] = "ACTIVE" =>
              /\ relationship = "ACTIVE"
              /\ resource[action[a].calendar] = "ACTIVE"
              /\ action[a].calendar \in policy.allowed
              /\ permission[action[a].permission] = "ACTIVE"
              /\ approval'[a] = LastSeq]_vars

\* "A revoked Approval cannot be replaced for the same Action under this first slice":
\* neither revived nor given another source.
RevokedStaysRevoked ==
    [][\A a \in Event :
          approval[a] # 0 =>
              /\ approval'[a] = approval[a]
              /\ approved[a] = "REVOKED" => approved'[a] = "REVOKED"]_vars

-----------------------------------------------------------------------------
(* What the documentation says and the code does not ensure *)

\* "The first slice still permits exactly one active calendar resource per
\* relationship" (docs/F5B_CALENDAR_ACTION_AUTHORITY_INCREMENT.md).
OneActiveCalendar == \A c, d \in ActiveCalendars : c = d

\* "calendar-create grant evidence must follow resource activation"
\* (grant_create_permission).
GrantFollowsActivation ==
    \A g \in Event : permission[g] # "NONE" => activatedAt[target[g]] < g

=============================================================================
