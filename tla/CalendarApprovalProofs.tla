----------------------- MODULE CalendarApprovalProofs -----------------------
(***************************************************************************)
(* Theorems about CalendarApproval, for any number of callers, calendars,  *)
(* Timeline events and policy revisions.  The argument: a record, once     *)
(* written, is never written again (Extends), so what a caller has read of *)
(* records stays true until it commits; what can change meanwhile, the     *)
(* heads and the Timeline's last event, is what the commit compares.       *)
(***************************************************************************)
EXTENDS CalendarApproval, SequenceTheorems, TLAPS

\* The event exists and says this.
Heard(s, kind) == s \in 1 .. Len(timeline) /\ timeline[s].kind = kind

\* A calendar is registered at most once.
NoneRegistered == relationship = "NONE" => \A c \in Calendar : resource[c] = "NONE"

\* The write Permission of an event: granted by it, after its calendar's frontier.
GrantRow(g) ==
    permission[g] # "NONE" =>
        /\ Heard(g, "GRANT")
        /\ target[g] \in Calendar
        /\ resource[target[g]] # "NONE"
        /\ frontier[target[g]] < g

\* The Action of an event: requested by it, under an earlier Permission.
ActionRow(a) ==
    Prepared(a) =>
        /\ Heard(a, "CREATE")
        /\ action[a].permission \in Event
        /\ permission[action[a].permission] # "NONE"
        /\ target[action[a].permission] = action[a].calendar
        /\ action[a].permission < a

\* The consent of an Action: shown before the frontier that was recorded.
ConsentRow(a) ==
    /\ shownAt[a] <= Len(timeline)
    /\ presentation[a] # 0 =>
        /\ Prepared(a)
        /\ a <= presentation[a]
        /\ shownAt[a] # 0 /\ shownAt[a] <= presentation[a]

\* The Approval of an Action: the counterpart's reply to it after that frontier.
ApprovalRow(a) ==
    /\ approval[a] # 0 <=> approved[a] # "NONE"
    /\ approval[a] # 0 =>
        /\ presentation[a] # 0 /\ presentation[a] < approval[a]
        /\ approval[a] <= Len(timeline)
        /\ timeline[approval[a]] = Approves(a)

Rows ==
    /\ NoneRegistered
    /\ \A e \in Event : GrantRow(e) /\ ActionRow(e) /\ ConsentRow(e) /\ ApprovalRow(e)

\* What a caller holds between what it read and its commit.
HoldsTarget(w) ==
    pc[w] = "registering" => job[w].calendar \in Calendar /\ relationship # "NONE"

\* While its event is the last one, nobody else has granted for the calendar since.
HoldsGrant(w) ==
    pc[w] = "granting" =>
        /\ Heard(job[w].seq, "GRANT")
        /\ job[w].calendar \in Calendar
        /\ resource[job[w].calendar] # "NONE"
        /\ frontier[job[w].calendar] < job[w].seq
        /\ job[w].seq = LastSeq =>
             \A g \in Event :
                permission[g] = "ACTIVE" /\ target[g] = job[w].calendar => g = job[w].seq

HoldsRequest(w) ==
    pc[w] = "preparing" =>
        /\ Heard(job[w].seq, "CREATE")
        /\ job[w].permission \in Event
        /\ permission[job[w].permission] # "NONE"
        /\ target[job[w].permission] = job[w].calendar
        /\ job[w].calendar \in Calendar
        /\ job[w].permission < job[w].seq

HoldsConsent(w) ==
    /\ pc[w] \in {"showing", "shown", "presenting"} =>
        job[w].action \in Event /\ Prepared(job[w].action)
    /\ pc[w] \in {"shown", "presenting"} => shownAt[job[w].action] # 0
    /\ pc[w] = "presenting" =>
        /\ job[w].action <= job[w].seq /\ job[w].seq <= Len(timeline)
        /\ shownAt[job[w].action] <= job[w].seq

\* The policy that was read, if it is still the current one, allows the calendar.
HoldsReply(w) ==
    pc[w] = "admitting" =>
        /\ job[w].action \in Event /\ Prepared(job[w].action)
        /\ presentation[job[w].action] # 0
        /\ presentation[job[w].action] < job[w].seq
        /\ job[w].seq \in 1 .. Len(timeline)
        /\ timeline[job[w].seq] = Approves(job[w].action)
        /\ job[w].calendar = action[job[w].action].calendar
        /\ job[w].permission = action[job[w].action].permission
        /\ job[w].policy <= policy.rev
        /\ job[w].policy = policy.rev => job[w].calendar \in policy.allowed

Holds(w) ==
    HoldsTarget(w) /\ HoldsGrant(w) /\ HoldsRequest(w) /\ HoldsConsent(w) /\ HoldsReply(w)

IInv ==
    /\ TypeOK
    /\ Rows
    /\ OneActivePermission
    /\ \A w \in Worker : Holds(w)

-----------------------------------------------------------------------------
(* No record is written again. *)

\* What every step does to the Timeline and to the records that exist.
Extends ==
    /\ relationship # "NONE" => relationship' # "NONE"
    /\ LastSeq <= LastSeq'
    /\ \A s \in 1 .. LastSeq : timeline'[s] = timeline[s]
    /\ \A c \in Calendar :
         resource[c] # "NONE" => resource'[c] # "NONE" /\ frontier'[c] = frontier[c]
    /\ \A g \in Event :
         /\ permission[g] # "NONE" => permission'[g] # "NONE" /\ target'[g] = target[g]
         /\ permission'[g] = "ACTIVE" /\ permission[g] # "ACTIVE" =>
              permission[g] = "NONE" /\ g = LastSeq
    /\ \A a \in Event :
         /\ Prepared(a) => action'[a] = action[a]
         /\ shownAt[a] # 0 => shownAt'[a] = shownAt[a]
         /\ presentation[a] # 0 => presentation'[a] = presentation[a]
         /\ approval[a] # 0 => approval'[a] = approval[a]
    /\ policy' = policy \/ policy'.rev = policy.rev + 1

SameGrants ==
    \A g \in Event : /\ permission'[g] # "NONE" => permission[g] # "NONE"
                     /\ permission'[g] = "ACTIVE" => permission[g] = "ACTIVE"

SameActions == \A a \in Event : action'[a] = action[a]

SameConsents == \A a \in Event : /\ shownAt'[a] = shownAt[a]
                                 /\ presentation'[a] = presentation[a]

SameApprovals == \A a \in Event : /\ approval'[a] = approval[a]
                                  /\ approved'[a] # "NONE" <=> approved[a] # "NONE"

LEMMA Bounds == MaxTimeline \in Nat /\ MaxPolicy \in Nat
  BY ApprovalAssumption

\* The types that the arguments below need, one by one.
LEMMA Types ==
  ASSUME TypeOK
  PROVE  /\ LastSeq \in Nat /\ LastSeq <= MaxTimeline
         /\ \A c \in Calendar : frontier[c] \in Nat
         /\ policy.rev \in Nat
         /\ \A e \in Event : /\ e \in Nat
                             /\ action[e].permission \in Nat
                             /\ presentation[e] \in Nat
                             /\ approval[e] \in Nat
                             /\ shownAt[e] \in Nat
         /\ \A w \in Worker : /\ job[w].seq \in Nat /\ job[w].action \in Nat
                              /\ job[w].permission \in Nat /\ job[w].policy \in Nat
<1>1. LastSeq \in Nat
  BY LenProperties DEF TypeOK, LastSeq
<1>2. LastSeq <= MaxTimeline
  BY DEF TypeOK, LastSeq
<1>3. \A e \in Event : action[e].permission \in Nat
  BY Bounds DEF TypeOK
<1>4. \A w \in Worker : /\ job[w].seq \in Nat /\ job[w].action \in Nat
                        /\ job[w].permission \in Nat /\ job[w].policy \in Nat
  BY Bounds DEF TypeOK
<1> QED
  BY <1>1, <1>2, <1>3, <1>4, Bounds DEF TypeOK, Event

LEMMA Ranges ==
  ASSUME TypeOK
  PROVE  /\ LastSeq \in 0 .. MaxTimeline /\ policy.rev \in 0 .. MaxPolicy
         /\ \A e \in Event : /\ e \in 0 .. MaxTimeline
                             /\ action[e].calendar \in Calendar \cup {NoCalendar}
                             /\ action[e].permission \in 0 .. MaxTimeline
<1>1. LastSeq \in 0 .. MaxTimeline
  BY Types, Bounds
<1>2. policy.rev \in 0 .. MaxPolicy
  BY DEF TypeOK
<1>3. \A e \in Event : /\ action[e].calendar \in Calendar \cup {NoCalendar}
                       /\ action[e].permission \in 0 .. MaxTimeline
  BY DEF TypeOK
<1> QED
  BY <1>1, <1>2, <1>3, Bounds DEF Event

\* What was heard once stays.
LEMMA HeardKept ==
  ASSUME TypeOK, TypeOK', Extends, NEW s, NEW kind, Heard(s, kind)
  PROVE  Heard(s, kind)'
<1>1. LastSeq \in Nat /\ LastSeq' \in Nat
  BY Types, LenProperties DEF TypeOK, LastSeq
<1> QED
  BY <1>1 DEF Heard, Extends, LastSeq

LEMMA GrantsKept ==
  ASSUME IInv, TypeOK', Extends, SameGrants
  PROVE  (\A g \in Event : GrantRow(g)') /\ OneActivePermission'
<1>1. ASSUME NEW g \in Event PROVE GrantRow(g)'
  <2> SUFFICES ASSUME permission'[g] # "NONE"
               PROVE  /\ Heard(g, "GRANT")'
                      /\ target'[g] \in Calendar
                      /\ resource'[target'[g]] # "NONE"
                      /\ frontier'[target'[g]] < g
    BY DEF GrantRow
  <2>1. permission[g] # "NONE" /\ target'[g] = target[g]
    BY DEF SameGrants, Extends
  <2>2. /\ Heard(g, "GRANT") /\ target[g] \in Calendar
        /\ resource[target[g]] # "NONE" /\ frontier[target[g]] < g
    BY <2>1 DEF IInv, Rows, GrantRow
  <2> QED
    BY <2>1, <2>2, HeardKept DEF Extends, IInv
<1>2. OneActivePermission'
  BY DEF OneActivePermission, SameGrants, Extends, IInv
<1> QED
  BY <1>1, <1>2

LEMMA ActionsKept ==
  ASSUME IInv, TypeOK', Extends, NEW a \in Event, action'[a] = action[a]
  PROVE  ActionRow(a)'
<1> SUFFICES ASSUME Prepared(a)'
             PROVE  /\ Heard(a, "CREATE")'
                    /\ action'[a].permission \in Event
                    /\ permission'[action'[a].permission] # "NONE"
                    /\ target'[action'[a].permission] = action'[a].calendar
                    /\ action'[a].permission < a
  BY DEF ActionRow
<1>1. Prepared(a)
  BY DEF Prepared
<1>2. /\ Heard(a, "CREATE") /\ action[a].permission \in Event
      /\ permission[action[a].permission] # "NONE"
      /\ target[action[a].permission] = action[a].calendar
      /\ action[a].permission < a
  BY <1>1 DEF IInv, Rows, ActionRow
<1> QED
  BY <1>1, <1>2, HeardKept DEF Extends, IInv

LEMMA ConsentsKept ==
  ASSUME IInv, TypeOK', Extends, NEW a \in Event,
         shownAt'[a] = shownAt[a], presentation'[a] = presentation[a]
  PROVE  ConsentRow(a)'
<1>1. ConsentRow(a) /\ TypeOK
  BY DEF IInv, Rows
<1>2. LastSeq \in Nat /\ LastSeq' \in Nat /\ shownAt[a] \in Nat
  BY <1>1, Types, LenProperties DEF TypeOK, LastSeq
<1>3. shownAt'[a] <= Len(timeline')
  BY <1>1, <1>2 DEF ConsentRow, Extends, LastSeq
<1>4. Prepared(a) => Prepared(a)'
  BY DEF Extends, Prepared
<1> QED
  BY <1>1, <1>3, <1>4 DEF ConsentRow

LEMMA ApprovalsKept ==
  ASSUME IInv, TypeOK', Extends, NEW a \in Event,
         approval'[a] = approval[a], approved'[a] # "NONE" <=> approved[a] # "NONE"
  PROVE  ApprovalRow(a)'
<1>1. ApprovalRow(a) /\ TypeOK
  BY DEF IInv, Rows
<1>2. LastSeq \in Nat /\ LastSeq' \in Nat /\ approval[a] \in Nat /\ approval'[a] \in Nat
  BY <1>1, Types, LenProperties DEF TypeOK, LastSeq
<1>3. presentation[a] # 0 => presentation'[a] = presentation[a]
  BY DEF Extends
<1>4. approval[a] # 0 =>
        approval[a] <= Len(timeline') /\ timeline'[approval[a]] = timeline[approval[a]]
  BY <1>1, <1>2 DEF ApprovalRow, Extends, LastSeq
<1> QED
  BY <1>1, <1>3, <1>4 DEF ApprovalRow

\* Whoever does not move holds what it held, and who returns holds nothing.
LEMMA HoldersKept ==
  ASSUME IInv, TypeOK', Extends, NEW w \in Worker,
         pc'[w] = "idle" \/ (pc'[w] = pc[w] /\ job'[w] = job[w])
  PROVE  Holds(w)'
<1>1. CASE pc'[w] = "idle"
  BY <1>1 DEF Holds, HoldsTarget, HoldsGrant, HoldsRequest, HoldsConsent, HoldsReply
<1>2. CASE pc'[w] = pc[w] /\ job'[w] = job[w]
  <2>1. Holds(w) /\ TypeOK
    BY DEF IInv
  <2>2. HoldsTarget(w)'
    BY <1>2, <2>1 DEF Holds, HoldsTarget, Extends
  <2>3. HoldsGrant(w)'
    <3> SUFFICES ASSUME pc[w] = "granting"
                 PROVE  /\ Heard(job[w].seq, "GRANT")'
                        /\ job[w].calendar \in Calendar
                        /\ resource'[job[w].calendar] # "NONE"
                        /\ frontier'[job[w].calendar] < job[w].seq
                        /\ job[w].seq = LastSeq' =>
                             \A g \in Event :
                                permission'[g] = "ACTIVE" /\ target'[g] = job[w].calendar
                                    => g = job[w].seq
      BY <1>2 DEF HoldsGrant
    <3>1. /\ Heard(job[w].seq, "GRANT") /\ job[w].calendar \in Calendar
          /\ resource[job[w].calendar] # "NONE"
          /\ frontier[job[w].calendar] < job[w].seq
          /\ job[w].seq = LastSeq =>
               \A g \in Event :
                  permission[g] = "ACTIVE" /\ target[g] = job[w].calendar => g = job[w].seq
      BY <2>1 DEF Holds, HoldsGrant
    <3>2. job[w].seq = LastSeq' => job[w].seq = LastSeq
      <4>1. LastSeq \in Nat /\ LastSeq' \in Nat /\ job[w].seq \in 1 .. LastSeq
        BY <2>1, <3>1, Types, LenProperties DEF TypeOK, LastSeq, Heard
      <4> QED
        BY <4>1 DEF Extends
    <3>3. ASSUME job[w].seq = LastSeq', NEW g \in Event, permission'[g] = "ACTIVE",
                 target'[g] = job[w].calendar
          PROVE  g = job[w].seq
      BY <3>1, <3>2, <3>3 DEF Extends
    <3>4. PICK s : s = job[w].seq
      OBVIOUS
    <3>5. Heard(s, "GRANT")'
      BY <2>1, <3>1, <3>4, HeardKept
    <3> QED
      BY <1>2, <3>1, <3>3, <3>4, <3>5 DEF Extends
  <2>4. HoldsRequest(w)'
    BY <1>2, <2>1, HeardKept DEF Holds, HoldsRequest, Extends
  <2>5. HoldsConsent(w)'
    <3>1. \A a \in Event : Prepared(a) => Prepared(a)'
      BY DEF Extends, Prepared
    <3>2. LastSeq \in Nat /\ LastSeq' \in Nat /\ job[w].seq \in Nat
      BY <2>1, Types, LenProperties DEF TypeOK, LastSeq
    <3> QED
      BY <1>2, <2>1, <3>1, <3>2 DEF Holds, HoldsConsent, Extends, LastSeq
  <2>6. HoldsReply(w)'
    <3> SUFFICES ASSUME pc[w] = "admitting"
                 PROVE  /\ job[w].action \in Event /\ action'[job[w].action] # NoAction
                        /\ presentation'[job[w].action] # 0
                        /\ presentation'[job[w].action] < job[w].seq
                        /\ job[w].seq \in 1 .. Len(timeline')
                        /\ timeline'[job[w].seq] = Approves(job[w].action)
                        /\ job[w].calendar = action'[job[w].action].calendar
                        /\ job[w].permission = action'[job[w].action].permission
                        /\ job[w].policy <= policy'.rev
                        /\ job[w].policy = policy'.rev => job[w].calendar \in policy'.allowed
      BY <1>2 DEF HoldsReply, Prepared
    <3>1. /\ job[w].action \in Event /\ Prepared(job[w].action)
          /\ presentation[job[w].action] # 0
          /\ presentation[job[w].action] < job[w].seq
          /\ job[w].seq \in 1 .. LastSeq
          /\ timeline[job[w].seq] = Approves(job[w].action)
          /\ job[w].calendar = action[job[w].action].calendar
          /\ job[w].permission = action[job[w].action].permission
          /\ job[w].policy <= policy.rev
          /\ job[w].policy = policy.rev => job[w].calendar \in policy.allowed
      BY <2>1 DEF Holds, HoldsReply, LastSeq
    <3>2. LastSeq \in Nat /\ LastSeq' \in Nat /\ policy.rev \in Nat /\ job[w].policy \in Nat
      <4>1. LastSeq' \in Nat
        BY LenProperties DEF TypeOK, LastSeq
      <4> QED
        BY <2>1, <4>1, Types
    <3>3. action'[job[w].action] = action[job[w].action] /\ action'[job[w].action] # NoAction
      BY <3>1 DEF Extends, Prepared
    <3>4. presentation'[job[w].action] = presentation[job[w].action]
      BY <3>1 DEF Extends
    <3>5. job[w].seq \in 1 .. Len(timeline') /\ timeline'[job[w].seq] = timeline[job[w].seq]
      BY <3>1, <3>2 DEF Extends, LastSeq
    <3>6. /\ job[w].policy <= policy'.rev
          /\ job[w].policy = policy'.rev => job[w].calendar \in policy'.allowed
      BY <3>1, <3>2 DEF Extends
    <3> QED
      BY <3>1, <3>3, <3>4, <3>5, <3>6
  <2> QED
    BY <2>2, <2>3, <2>4, <2>5, <2>6 DEF Holds
<1> QED
  BY <1>1, <1>2

-----------------------------------------------------------------------------
(* The steps. *)

LEMMA InitInv == Init => IInv
<1> SUFFICES ASSUME Init PROVE IInv
  OBVIOUS
<1> USE DEF Init
<1>1. TypeOK
  <2>1. timeline \in Seq(Message) /\ Len(timeline) <= MaxTimeline
    BY Bounds, EmptySeq
  <2>2. NoAction \in [calendar : Calendar \cup {NoCalendar}, permission : 0 .. MaxTimeline]
    BY Bounds DEF NoAction
  <2>3. NoJob \in [calendar : Calendar \cup {NoCalendar}, permission : 0 .. MaxTimeline,
                   action : 0 .. MaxTimeline, seq : 0 .. MaxTimeline, policy : 0 .. MaxPolicy]
    BY Bounds DEF NoJob
  <2> QED
    BY <2>1, <2>2, <2>3, Bounds DEF TypeOK, Stage
<1>2. Rows
  BY EmptySeq DEF Rows, NoneRegistered, GrantRow, ActionRow, ConsentRow, ApprovalRow, Prepared
<1>3. OneActivePermission
  BY DEF OneActivePermission
<1>4. \A w \in Worker : Holds(w)
  BY DEF Holds, HoldsTarget, HoldsGrant, HoldsRequest, HoldsConsent, HoldsReply
<1> QED
  BY <1>1, <1>2, <1>3, <1>4 DEF IInv

Job == [calendar : Calendar \cup {NoCalendar}, permission : 0 .. MaxTimeline,
        action : 0 .. MaxTimeline, seq : 0 .. MaxTimeline, policy : 0 .. MaxPolicy]

records == <<timeline, authority, consent, external>>

\* What beginning and finishing do to the callers.
LEMMA BeginFacts ==
  ASSUME TypeOK, NEW w \in Worker, NEW stage \in Stage, NEW j \in Job, Begin(w, stage, j)
  PROVE  /\ pc' \in [Worker -> Stage] /\ job' \in [Worker -> Job]
         /\ pc'[w] = stage /\ job'[w] = j
         /\ \A v \in Worker \ {w} : pc'[v] = pc[v] /\ job'[v] = job[v]
  BY DEF Begin, TypeOK, Job

LEMMA FinishFacts ==
  ASSUME TypeOK, NEW w \in Worker, Finish(w)
  PROVE  /\ pc' \in [Worker -> Stage] /\ job' \in [Worker -> Job]
         /\ pc'[w] = "idle"
         /\ \A v \in Worker \ {w} : pc'[v] = pc[v] /\ job'[v] = job[v]
<1>1. NoJob \in Job /\ "idle" \in Stage
  BY Bounds DEF NoJob, Job, Stage
<1> QED
  BY <1>1 DEF Finish, TypeOK, Job

\* A step that only reads the records, of one caller or of none.
LEMMA ReadStep ==
  ASSUME IInv, UNCHANGED records,
         pc' \in [Worker -> Stage], job' \in [Worker -> Job],
         \A v \in Worker :
            Holds(v)' \/ pc'[v] = "idle" \/ (pc'[v] = pc[v] /\ job'[v] = job[v])
  PROVE  IInv'
<1> USE DEF records, authority, consent, external
<1>1. TypeOK'
  BY DEF IInv, TypeOK, Job
<1>2. Extends
  <2>1. LastSeq' = LastSeq /\ LastSeq \in Nat
    BY Types DEF LastSeq, IInv
  <2> QED
    BY <2>1 DEF Extends
<1>3. Rows' /\ OneActivePermission'
  <2>1. \A e \in Event :
          (GrantRow(e) /\ ActionRow(e) /\ ConsentRow(e) /\ ApprovalRow(e))'
    <3> SUFFICES ASSUME NEW e \in Event
                 PROVE  (GrantRow(e) /\ ActionRow(e) /\ ConsentRow(e) /\ ApprovalRow(e))'
      OBVIOUS
    <3>1. GrantRow(e) /\ ActionRow(e) /\ ConsentRow(e) /\ ApprovalRow(e)
      BY DEF IInv, Rows
    <3> QED
      BY <3>1 DEF GrantRow, ActionRow, ConsentRow, ApprovalRow, Heard, Prepared
  <2>2. NoneRegistered' /\ OneActivePermission'
    BY DEF IInv, Rows, NoneRegistered, OneActivePermission
  <2> QED
    BY <2>1, <2>2 DEF Rows
<1>4. \A v \in Worker : Holds(v)'
  BY <1>1, <1>2, HoldersKept
<1> QED
  BY <1>1, <1>3, <1>4 DEF IInv

\* A step of nobody, or one after which its caller holds nothing.
LEMMA WriteStep ==
  ASSUME IInv, TypeOK', Extends, Rows', OneActivePermission',
         \A v \in Worker : pc'[v] = "idle" \/ (pc'[v] = pc[v] /\ job'[v] = job[v])
  PROVE  IInv'
<1>1. \A v \in Worker : Holds(v)'
  BY HoldersKept
<1> QED
  BY <1>1 DEF IInv

LEMMA CrashStep ==
  ASSUME IInv, NEW w \in Worker, Crash(w) PROVE IInv'
<1>1. UNCHANGED records /\ Finish(w) /\ TypeOK
  BY DEF Crash, records, IInv
<1> QED
  BY <1>1, FinishFacts, ReadStep

LEMMA BeginRegisterStep ==
  ASSUME IInv, NEW w \in Worker, NEW c \in Calendar, BeginRegister(w, c) PROVE IInv'
<1>0. PICK j : j = [NoJob EXCEPT !.calendar = c, !.seq = LastSeq]
  OBVIOUS
<1>1. UNCHANGED records /\ TypeOK /\ Begin(w, "registering", j)
  BY <1>0 DEF BeginRegister, records, IInv
<1>2. j \in Job /\ j.calendar = c /\ "registering" \in Stage
  <2>1. LastSeq \in 0 .. MaxTimeline
    BY <1>1, Ranges
  <2>2. j = [calendar |-> c, permission |-> 0, action |-> 0, seq |-> LastSeq, policy |-> 0]
    BY <1>0 DEF NoJob
  <2> QED
    BY <2>1, <2>2, Bounds DEF Job, Stage
<1>3. Holds(w)'
  BY <1>1, <1>2, BeginFacts
  DEF BeginRegister, records, authority, Holds, HoldsTarget, HoldsGrant, HoldsRequest,
      HoldsConsent, HoldsReply
<1> QED
  BY <1>1, <1>2, <1>3, BeginFacts, ReadStep

LEMMA BeginGrantStep ==
  ASSUME IInv, NEW w \in Worker, NEW c \in Calendar, BeginGrant(w, c) PROVE IInv'
<1>0. PICK j : j = [NoJob EXCEPT !.calendar = c, !.seq = LastSeq, !.policy = policy.rev]
  OBVIOUS
<1>1. UNCHANGED records /\ TypeOK /\ Begin(w, "granting", j)
  BY <1>0 DEF BeginGrant, records, IInv
<1>2. j \in Job /\ j.calendar = c /\ j.seq = LastSeq /\ "granting" \in Stage
  <2>1. policy.rev \in 0 .. MaxPolicy /\ LastSeq \in 0 .. MaxTimeline
    BY <1>1, Ranges
  <2>2. j = [calendar |-> c, permission |-> 0, action |-> 0, seq |-> LastSeq,
             policy |-> policy.rev]
    BY <1>0 DEF NoJob
  <2> QED
    BY <2>1, <2>2, Bounds DEF Job, Stage
<1>3. Holds(w)'
  <2>1. Heard(LastSeq, "GRANT") /\ frontier[c] < LastSeq /\ resource[c] # "NONE"
        /\ \A g \in Event : target[g] = c => permission[g] # "ACTIVE"
    BY <1>1, Types DEF BeginGrant, Heard, LastSeq, TargetAuthority, ActiveCalendars
  <2>2. HoldsGrant(w)'
    <3>1. job'[w].calendar = c /\ job'[w].seq = LastSeq
      BY <1>1, <1>2, BeginFacts
    <3>2. UNCHANGED <<timeline, resource, frontier, permission, target>>
      BY <1>1 DEF records, authority
    <3> QED
      BY <2>1, <3>1, <3>2 DEF HoldsGrant, Heard
  <2> QED
    BY <1>1, <1>2, <2>2, BeginFacts
    DEF Holds, HoldsTarget, HoldsRequest, HoldsConsent, HoldsReply
<1> QED
  BY <1>1, <1>2, <1>3, BeginFacts, ReadStep

LEMMA BeginPrepareStep ==
  ASSUME IInv, NEW w \in Worker, NEW c \in Calendar, NEW p \in Event, BeginPrepare(w, c, p)
  PROVE  IInv'
<1>0. PICK j : j = [NoJob EXCEPT !.calendar = c, !.permission = p, !.seq = LastSeq,
                               !.policy = policy.rev]
  OBVIOUS
<1>1. UNCHANGED records /\ TypeOK /\ Begin(w, "preparing", j)
  BY <1>0 DEF BeginPrepare, records, IInv
<1>2. j \in Job /\ j.calendar = c /\ j.permission = p /\ j.seq = LastSeq
      /\ "preparing" \in Stage
  <2>1. policy.rev \in 0 .. MaxPolicy /\ LastSeq \in 0 .. MaxTimeline /\ p \in 0 .. MaxTimeline
    BY <1>1, Ranges
  <2>2. j = [calendar |-> c, permission |-> p, action |-> 0, seq |-> LastSeq,
             policy |-> policy.rev]
    BY <1>0 DEF NoJob
  <2> QED
    BY <2>1, <2>2, Bounds DEF Job, Stage
<1>3. Holds(w)'
  <2>1. Heard(LastSeq, "CREATE") /\ permission[p] = "ACTIVE" /\ target[p] = c
    BY <1>1, Types DEF BeginPrepare, Heard, LastSeq, ActionAuthority
  <2>2. p < LastSeq
    <3>1. Heard(p, "GRANT")
      BY <2>1 DEF IInv, Rows, GrantRow
    <3> QED
      BY <1>1, <2>1, <3>1, Types DEF Heard, LastSeq
  <2>3. HoldsRequest(w)'
    <3>1. job'[w].calendar = c /\ job'[w].seq = LastSeq /\ job'[w].permission = p
      BY <1>1, <1>2, BeginFacts
    <3>2. UNCHANGED <<timeline, permission, target>>
      BY <1>1 DEF records, authority
    <3> QED
      BY <2>1, <2>2, <3>1, <3>2 DEF HoldsRequest, Heard
  <2> QED
    BY <1>1, <1>2, <2>3, BeginFacts
    DEF Holds, HoldsTarget, HoldsGrant, HoldsConsent, HoldsReply
<1> QED
  BY <1>1, <1>2, <1>3, BeginFacts, ReadStep

LEMMA BeginPresentStep ==
  ASSUME IInv, NEW w \in Worker, NEW a \in Event, BeginPresent(w, a) PROVE IInv'
<1>0. PICK j : j = [NoJob EXCEPT !.action = a]
  OBVIOUS
<1>1. UNCHANGED records /\ TypeOK /\ Begin(w, "showing", j) /\ Prepared(a)
  BY <1>0 DEF BeginPresent, records, IInv
<1>2. j \in Job /\ j.action = a /\ "showing" \in Stage
  BY <1>0, Bounds DEF NoJob, Job, Stage, Event
<1>3. Holds(w)'
  BY <1>1, <1>2, BeginFacts
  DEF Holds, HoldsTarget, HoldsGrant, HoldsRequest, HoldsConsent, HoldsReply, Prepared,
      records, consent
<1> QED
  BY <1>1, <1>2, <1>3, BeginFacts, ReadStep

\* The frontier is read after the consent was shown.
LEMMA ReadPresentationStep ==
  ASSUME IInv, NEW w \in Worker, ReadPresentation(w) PROVE IInv'
<1> PICK a : a = job[w].action
  OBVIOUS
<1>1. /\ UNCHANGED records /\ TypeOK /\ pc[w] = "shown"
      /\ pc' = [pc EXCEPT ![w] = "presenting"] /\ job' = [job EXCEPT ![w].seq = LastSeq]
  BY DEF ReadPresentation, PresentationFrontier, records, IInv
<1>2. a \in Event /\ Prepared(a) /\ shownAt[a] # 0 /\ a <= LastSeq /\ shownAt[a] <= LastSeq
  <2>1. a \in Event /\ Prepared(a) /\ shownAt[a] # 0
    BY <1>1 DEF IInv, Holds, HoldsConsent
  <2>2. ActionRow(a) /\ ConsentRow(a)
    BY <2>1 DEF IInv, Rows
  <2> QED
    BY <1>1, <2>1, <2>2, Types DEF ActionRow, ConsentRow, Heard, LastSeq
<1>3. /\ pc' \in [Worker -> Stage] /\ job' \in [Worker -> Job]
      /\ pc'[w] = "presenting" /\ job'[w].action = a /\ job'[w].seq = LastSeq
      /\ \A v \in Worker \ {w} : pc'[v] = pc[v] /\ job'[v] = job[v]
  <2>1. LastSeq \in 0 .. MaxTimeline /\ "presenting" \in Stage
    BY <1>1, Types DEF Stage
  <2>2. job \in [Worker -> Job] /\ pc \in [Worker -> Stage]
    BY <1>1 DEF TypeOK, Job
  <2> QED
    BY <1>1, <2>1, <2>2 DEF Job
<1>4. Holds(w)'
  BY <1>1, <1>2, <1>3
  DEF Holds, HoldsTarget, HoldsGrant, HoldsRequest, HoldsConsent, HoldsReply, Prepared,
      LastSeq, records, consent, external
<1> QED
  BY <1>1, <1>3, <1>4, ReadStep

LEMMA BeginAdmitStep ==
  ASSUME IInv, NEW w \in Worker, NEW a \in Event, BeginAdmit(w, a) PROVE IInv'
<1>0. PICK j : j = [calendar |-> action[a].calendar, action |-> a,
                  permission |-> action[a].permission, seq |-> LastSeq, policy |-> policy.rev]
  OBVIOUS
<1>1. UNCHANGED records /\ TypeOK /\ Begin(w, "admitting", j)
  BY <1>0 DEF BeginAdmit, records, IInv
<1>2. /\ j \in Job /\ j.calendar = action[a].calendar /\ j.action = a
      /\ j.permission = action[a].permission /\ j.seq = LastSeq /\ j.policy = policy.rev
      /\ "admitting" \in Stage
  <2>1. policy.rev \in 0 .. MaxPolicy /\ LastSeq \in 0 .. MaxTimeline /\ a \in 0 .. MaxTimeline
        /\ action[a].calendar \in Calendar \cup {NoCalendar}
        /\ action[a].permission \in 0 .. MaxTimeline
    BY <1>1, Ranges
  <2> QED
    BY <1>0, <2>1, Bounds DEF Job, Stage
<1>3. HoldsReply(w)'
  <2>1. /\ presentation[a] # 0 /\ presentation[a] < LastSeq
        /\ timeline[LastSeq] = Approves(a) /\ action[a].calendar \in policy.allowed
    BY DEF BeginAdmit, AnswersConsent, ActionAuthority, TargetAuthority
  <2>2. Prepared(a) /\ LastSeq \in 1 .. Len(timeline) /\ policy.rev \in Nat
    <3>1. ConsentRow(a)
      BY DEF IInv, Rows
    <3>2. presentation[a] \in Nat /\ LastSeq \in Nat /\ policy.rev \in Nat
      BY <1>1, Types
    <3> QED
      BY <2>1, <3>1, <3>2 DEF ConsentRow, LastSeq
  <2> QED
    BY <1>1, <1>2, <2>1, <2>2, BeginFacts
    DEF HoldsReply, Prepared, LastSeq, records, authority, consent, external
<1>4. Holds(w)'
  BY <1>1, <1>2, <1>3, BeginFacts
  DEF Holds, HoldsTarget, HoldsGrant, HoldsRequest, HoldsConsent
<1> QED
  BY <1>1, <1>2, <1>4, BeginFacts, ReadStep

-----------------------------------------------------------------------------
(* The steps that write. *)

\* The Timeline grows at its end.
LEMMA AppendEventStep ==
  ASSUME IInv, NEW m \in Message, AppendEvent(m) PROVE IInv'
<1>1. /\ TypeOK /\ timeline \in Seq(Message) /\ LastSeq \in Nat /\ LastSeq < MaxTimeline
      /\ timeline' = Append(timeline, m)
      /\ UNCHANGED <<authority, consent, external, pc, job>>
  BY Types DEF AppendEvent, IInv, TypeOK
<1>2. /\ timeline' \in Seq(Message) /\ Len(timeline') = LastSeq + 1
      /\ \A s \in 1 .. LastSeq : timeline'[s] = timeline[s]
  BY <1>1, AppendProperties DEF LastSeq
<1> USE <1>1 DEF authority, consent, external
<1>3. TypeOK'
  BY <1>2, Bounds DEF TypeOK, LastSeq
<1>4. Extends
  BY <1>2 DEF Extends, LastSeq
<1>5. Rows' /\ OneActivePermission'
  <2>1. SameGrants
    BY DEF SameGrants
  <2>2. NoneRegistered'
    BY DEF IInv, Rows, NoneRegistered
  <2> QED
    BY <1>3, <1>4, <2>1, <2>2, GrantsKept, ActionsKept, ConsentsKept, ApprovalsKept DEF Rows
<1> QED
  BY <1>3, <1>4, <1>5, WriteStep

\* A step after which permissions and the consent rows are what they were.
LEMMA AuthorityStep ==
  ASSUME IInv, TypeOK', Extends, NoneRegistered', UNCHANGED <<permission, consent, shownAt>>,
         \A v \in Worker : pc'[v] = "idle" \/ (pc'[v] = pc[v] /\ job'[v] = job[v])
  PROVE  IInv'
<1>1. SameGrants
  BY DEF SameGrants
<1>2. Rows' /\ OneActivePermission'
  BY <1>1, GrantsKept, ActionsKept, ConsentsKept, ApprovalsKept DEF Rows, consent
<1> QED
  BY <1>2, WriteStep

LEMMA RegisterFirstCalendarStep ==
  ASSUME IInv, NEW c \in Calendar, RegisterFirstCalendar(c) PROVE IInv'
<1>1. /\ TypeOK /\ LastSeq \in 0 .. MaxTimeline
      /\ relationship = "NONE" /\ \A d \in Calendar : resource[d] = "NONE"
  BY Ranges DEF RegisterFirstCalendar, IInv, Rows, NoneRegistered
<1>2. TypeOK'
  BY <1>1 DEF RegisterFirstCalendar, TypeOK, consent
<1>3. Extends /\ NoneRegistered'
  BY <1>1 DEF RegisterFirstCalendar, Extends, NoneRegistered, consent, LastSeq
<1> QED
  BY <1>2, <1>3, AuthorityStep DEF RegisterFirstCalendar

LEMMA CommitRegisterStep ==
  ASSUME IInv, NEW w \in Worker, CommitRegister(w) PROVE IInv'
<1> PICK c : c = job[w].calendar
  OBVIOUS
<1>1. /\ TypeOK /\ LastSeq \in 0 .. MaxTimeline /\ job[w].seq \in 0 .. MaxTimeline
      /\ Finish(w) /\ c \in Calendar
      /\ resource[c] = "NONE" /\ resource' = [resource EXCEPT ![c] = "ACTIVE"]
      /\ frontier' = [frontier EXCEPT ![c] = job[w].seq]
      /\ activatedAt' = [activatedAt EXCEPT ![c] = LastSeq]
      /\ UNCHANGED <<timeline, relationship, policy, permission, target, consent, shownAt>>
  <2>1. TypeOK /\ Holds(w)
    BY DEF IInv
  <2>2. job[w].seq \in 0 .. MaxTimeline
    BY <2>1 DEF TypeOK
  <2> QED
    BY <2>1, <2>2, Ranges DEF CommitRegister, Holds, HoldsTarget
<1>2. TypeOK'
  BY <1>1, FinishFacts DEF TypeOK, consent, Job
<1>3. Extends /\ NoneRegistered'
  <2>1. Extends
    BY <1>1 DEF Extends, TypeOK, consent, LastSeq
  <2>2. relationship # "NONE"
    BY DEF CommitRegister, IInv, Holds, HoldsTarget
  <2> QED
    BY <1>1, <2>1, <2>2 DEF NoneRegistered
<1> QED
  BY <1>1, <1>2, <1>3, FinishFacts, AuthorityStep

LEMMA EndRelationshipStep == ASSUME IInv, EndRelationship PROVE IInv'
<1>1. TypeOK /\ LastSeq \in Nat
  BY Types DEF IInv
<1>2. TypeOK'
  BY <1>1 DEF EndRelationship, TypeOK, consent, external
<1>3. Extends /\ NoneRegistered'
  BY <1>1 DEF EndRelationship, Extends, NoneRegistered, consent, external, LastSeq
<1> QED
  BY <1>2, <1>3, AuthorityStep DEF EndRelationship, external

LEMMA SetResourceStatusStep ==
  ASSUME IInv, NEW c \in Calendar, SetResourceStatus(c) PROVE IInv'
<1>1. TypeOK /\ LastSeq \in Nat
  BY Types DEF IInv
<1>2. PICK s \in {"INACTIVE", "REVOKED"} :
        resource[c] # "NONE" /\ resource' = [resource EXCEPT ![c] = s]
  BY DEF SetResourceStatus
<1>3. TypeOK'
  BY <1>1, <1>2 DEF SetResourceStatus, TypeOK, consent, external
<1>4. Extends /\ NoneRegistered'
  BY <1>1, <1>2
  DEF SetResourceStatus, Extends, NoneRegistered, IInv, Rows, TypeOK, consent, external, LastSeq
<1> QED
  BY <1>3, <1>4, AuthorityStep DEF SetResourceStatus, external

LEMMA SetCreatePolicyStep ==
  ASSUME IInv, NEW allowed \in SUBSET Calendar, SetCreatePolicy(allowed) PROVE IInv'
<1>1. TypeOK /\ LastSeq \in Nat /\ policy.rev \in 0 .. MaxPolicy /\ policy.rev < MaxPolicy
      /\ policy' = [rev |-> policy.rev + 1, allowed |-> allowed]
  BY Types, Ranges DEF IInv, SetCreatePolicy
<1>2. TypeOK'
  BY <1>1, Bounds DEF SetCreatePolicy, TypeOK, consent, external
<1>3. Extends /\ NoneRegistered'
  BY <1>1
  DEF SetCreatePolicy, Extends, NoneRegistered, IInv, Rows, consent, external, LastSeq
<1> QED
  BY <1>2, <1>3, AuthorityStep DEF SetCreatePolicy, external

\* While its event is the last one, the Permission that it mints is the only active one
\* of its calendar.
LEMMA CommitGrantStep ==
  ASSUME IInv, NEW w \in Worker, CommitGrant(w) PROVE IInv'
<1>0. PICK g, c : g = job[w].seq /\ c = job[w].calendar
  OBVIOUS
<1>1. /\ TypeOK /\ LastSeq \in Nat /\ g = LastSeq /\ permission[g] = "NONE"
      /\ permission' = [permission EXCEPT ![g] = "ACTIVE"]
      /\ target' = [target EXCEPT ![g] = c]
      /\ Finish(w)
      /\ UNCHANGED <<timeline, relationship, resource, frontier, policy, consent, external>>
  BY <1>0, Types DEF IInv, CommitGrant, GrantCurrent, SourceCurrent
<1>2. /\ Heard(g, "GRANT") /\ c \in Calendar
      /\ resource[c] # "NONE" /\ frontier[c] < g
      /\ \A h \in Event : permission[h] = "ACTIVE" /\ target[h] = c => h = g
  <2>1. Holds(w) /\ pc[w] = "granting"
    BY DEF IInv, CommitGrant
  <2> QED
    BY <1>0, <1>1, <2>1 DEF Holds, HoldsGrant, Heard
<1>3. g \in Event
  BY <1>1, <1>2, Ranges DEF Heard, Event, LastSeq
<1>4. TypeOK'
  BY <1>1, <1>2, <1>3, FinishFacts DEF TypeOK, consent, external, Job
<1>5. /\ permission'[g] = "ACTIVE" /\ target'[g] = c
      /\ \A h \in Event \ {g} : permission'[h] = permission[h] /\ target'[h] = target[h]
  BY <1>1, <1>3 DEF TypeOK
<1>6. Extends
  BY <1>1, <1>5 DEF Extends, consent, external, LastSeq
<1>7. ASSUME NEW e \in Event PROVE GrantRow(e)'
  <2>1. CASE e = g
    BY <1>1, <1>2, <1>5, <2>1 DEF GrantRow, Heard
  <2>2. CASE e # g
    <3>1. GrantRow(e)
      BY DEF IInv, Rows
    <3> QED
      BY <1>1, <1>5, <2>2, <3>1 DEF GrantRow, Heard
  <2> QED
    BY <2>1, <2>2
<1>8. OneActivePermission'
  BY <1>2, <1>5 DEF OneActivePermission, IInv
<1>9. Rows'
  <2>1. NoneRegistered'
    BY <1>1 DEF NoneRegistered, IInv, Rows
  <2> QED
    BY <1>1, <1>4, <1>6, <1>7, <2>1, ActionsKept, ConsentsKept, ApprovalsKept
    DEF Rows, consent, external
<1> QED
  BY <1>1, <1>4, <1>6, <1>8, <1>9, FinishFacts, WriteStep

LEMMA RevokePermissionStep ==
  ASSUME IInv, NEW g \in Event, RevokePermission(g) PROVE IInv'
<1>1. TypeOK /\ LastSeq \in Nat
  BY Types DEF IInv
<1>2. /\ permission[g] = "ACTIVE" /\ permission' = [permission EXCEPT ![g] = "REVOKED"]
      /\ UNCHANGED <<timeline, relationship, resource, frontier, policy, target, consent,
                     external, pc, job>>
  BY DEF RevokePermission
<1>3. TypeOK'
  BY <1>1, <1>2 DEF TypeOK, consent, external
<1>4. /\ permission'[g] = "REVOKED"
      /\ \A h \in Event \ {g} : permission'[h] = permission[h]
  BY <1>1, <1>2 DEF TypeOK
<1>5. Extends /\ SameGrants
  BY <1>1, <1>2, <1>4 DEF Extends, SameGrants, consent, external, LastSeq
<1>6. Rows' /\ OneActivePermission'
  <2>1. NoneRegistered'
    BY <1>2 DEF NoneRegistered, IInv, Rows
  <2> QED
    BY <1>2, <1>3, <1>5, <2>1, GrantsKept, ActionsKept, ConsentsKept, ApprovalsKept
    DEF Rows, consent, external
<1> QED
  BY <1>2, <1>3, <1>5, <1>6, WriteStep

\* A step of the consent records: the Permissions are what they were.
LEMMA ConsentStep ==
  ASSUME IInv, TypeOK', Extends, UNCHANGED <<relationship, resource, permission>>,
         \A e \in Event : ActionRow(e)' /\ ConsentRow(e)' /\ ApprovalRow(e)',
         \A v \in Worker : Holds(v)'
  PROVE  IInv'
<1>1. NoneRegistered' /\ SameGrants
  BY DEF NoneRegistered, SameGrants, IInv, Rows
<1>2. Rows' /\ OneActivePermission'
  BY <1>1, GrantsKept DEF Rows
<1> QED
  BY <1>2 DEF IInv

LEMMA CommitPrepareStep ==
  ASSUME IInv, NEW w \in Worker, CommitPrepare(w) PROVE IInv'
<1>0. PICK a, c, p : a = job[w].seq /\ c = job[w].calendar /\ p = job[w].permission
  OBVIOUS
<1>1. /\ TypeOK /\ LastSeq \in Nat /\ ~ Prepared(a)
      /\ action' = [action EXCEPT ![a] = [calendar |-> c, permission |-> p]]
      /\ Finish(w)
      /\ UNCHANGED <<timeline, authority, presentation, approval, approved, external>>
  BY <1>0, Types DEF IInv, CommitPrepare
<1>2. /\ Heard(a, "CREATE") /\ p \in Event /\ permission[p] # "NONE"
      /\ target[p] = c /\ c \in Calendar /\ p < a
  <2>1. Holds(w) /\ pc[w] = "preparing"
    BY DEF IInv, CommitPrepare
  <2> QED
    BY <1>0, <2>1 DEF Holds, HoldsRequest, Heard
<1>3. a \in Event
  BY <1>1, <1>2, Ranges, Bounds DEF Heard, Event, LastSeq
<1>4. TypeOK'
  <2>1. p \in 0 .. MaxTimeline
    BY <1>2, Bounds DEF Event
  <2> QED
    BY <1>1, <1>2, <1>3, <2>1, FinishFacts DEF TypeOK, authority, external, Job
<1>5. /\ action'[a].calendar = c /\ action'[a].permission = p
      /\ \A b \in Event \ {a} : action'[b] = action[b]
  BY <1>1, <1>3 DEF TypeOK
<1>6. Extends
  BY <1>1, <1>5 DEF Extends, authority, external, LastSeq
<1>7. ASSUME NEW e \in Event PROVE ActionRow(e)' /\ ConsentRow(e)' /\ ApprovalRow(e)'
  <2>1. ActionRow(e)'
    <3>1. CASE e = a
      BY <1>1, <1>2, <1>5, <3>1 DEF ActionRow, Heard, authority
    <3>2. CASE e # a
      BY <1>4, <1>5, <1>6, <3>2, ActionsKept
    <3> QED
      BY <3>1, <3>2
  <2> QED
    BY <1>1, <1>4, <1>6, <2>1, ConsentsKept, ApprovalsKept DEF external
<1>8. \A v \in Worker : Holds(v)'
  BY <1>1, <1>4, <1>6, FinishFacts, HoldersKept
<1> QED
  BY <1>1, <1>4, <1>6, <1>7, <1>8, ConsentStep DEF authority

LEMMA ShowConsentStep == ASSUME IInv, NEW w \in Worker, ShowConsent(w) PROVE IInv'
<1>0. PICK a : a = job[w].action
  OBVIOUS
<1>1. /\ TypeOK /\ LastSeq \in 0 .. MaxTimeline /\ a \in Event /\ Prepared(a)
      /\ shownAt' = [shownAt EXCEPT ![a] = IF @ = 0 THEN LastSeq ELSE @]
      /\ UNCHANGED <<timeline, authority, consent, activatedAt>>
  BY <1>0, Ranges DEF IInv, ShowConsent, Holds, HoldsConsent
<1>2. LastSeq \in Nat \ {0}
  <2>1. ActionRow(a)
    BY <1>1 DEF IInv, Rows
  <2> QED
    BY <1>1, <2>1, Bounds DEF ActionRow, Heard, LastSeq
<1>3. /\ pc' \in [Worker -> Stage] /\ job' \in [Worker -> Job]
      /\ pc'[w] = "idle" \/ (pc'[w] = "shown" /\ job'[w] = job[w])
      /\ \A v \in Worker \ {w} : pc'[v] = pc[v] /\ job'[v] = job[v]
  <2>1. CASE Finish(w)
    BY <1>1, <2>1, FinishFacts
  <2>2. CASE pc' = [pc EXCEPT ![w] = "shown"] /\ UNCHANGED job
    <3>1. "shown" \in Stage
      BY DEF Stage
    <3> QED
      BY <1>1, <2>2, <3>1 DEF TypeOK, Job
  <2> QED
    BY <2>1, <2>2 DEF ShowConsent
<1>4. /\ shownAt' \in [Event -> 0 .. MaxTimeline]
      /\ shownAt'[a] # 0 /\ (shownAt[a] # 0 => shownAt'[a] = shownAt[a])
      /\ shownAt'[a] <= LastSeq
      /\ \A b \in Event \ {a} : shownAt'[b] = shownAt[b]
  <2>1. shownAt[a] <= LastSeq /\ shownAt \in [Event -> 0 .. MaxTimeline]
    BY <1>1 DEF IInv, Rows, ConsentRow, TypeOK, LastSeq
  <2> QED
    BY <1>1, <1>2, <2>1
<1>5. TypeOK'
  BY <1>1, <1>3, <1>4 DEF TypeOK, authority, consent, Job
<1>6. Extends
  BY <1>1, <1>4 DEF Extends, authority, consent, LastSeq
<1>7. ASSUME NEW e \in Event PROVE ActionRow(e)' /\ ConsentRow(e)' /\ ApprovalRow(e)'
  <2>1. ConsentRow(e)'
    <3>1. CASE e = a
      <4>1. ConsentRow(a)
        BY <1>1 DEF IInv, Rows
      <4> QED
        BY <1>1, <1>4, <3>1, <4>1 DEF ConsentRow, Prepared, consent, LastSeq
    <3>2. CASE e # a
      BY <1>1, <1>4, <1>5, <1>6, <3>2, ConsentsKept DEF consent
    <3> QED
      BY <3>1, <3>2
  <2> QED
    BY <1>1, <1>5, <1>6, <2>1, ActionsKept, ApprovalsKept DEF consent
<1>8. ASSUME NEW v \in Worker PROVE Holds(v)'
  <2>1. CASE v = w /\ pc'[w] = "shown" /\ job'[w] = job[w]
    BY <1>0, <1>1, <1>4, <2>1
    DEF Holds, HoldsTarget, HoldsGrant, HoldsRequest, HoldsConsent, HoldsReply, Prepared,
        consent
  <2>2. CASE v # w \/ pc'[w] = "idle"
    BY <1>3, <1>5, <1>6, <2>2, HoldersKept
  <2> QED
    BY <1>3, <2>1, <2>2
<1> QED
  BY <1>1, <1>5, <1>6, <1>7, <1>8, ConsentStep DEF authority

LEMMA CommitPresentationStep ==
  ASSUME IInv, NEW w \in Worker, CommitPresentation(w) PROVE IInv'
<1>0. PICK a, s : a = job[w].action /\ s = job[w].seq
  OBVIOUS
<1>1. /\ TypeOK /\ LastSeq \in Nat /\ presentation[a] = 0 /\ Finish(w)
      /\ presentation' = [presentation EXCEPT ![a] = s]
      /\ UNCHANGED <<timeline, authority, action, approval, approved, external>>
  BY <1>0, Types DEF IInv, CommitPresentation
<1>2. /\ a \in Event /\ Prepared(a) /\ shownAt[a] # 0 /\ a <= s /\ shownAt[a] <= s
      /\ s \in 0 .. MaxTimeline
  <2>1. Holds(w) /\ pc[w] = "presenting" /\ job[w].seq \in 0 .. MaxTimeline
    BY <1>1 DEF IInv, CommitPresentation, TypeOK
  <2> QED
    BY <1>0, <2>1 DEF Holds, HoldsConsent
<1>3. TypeOK'
  BY <1>1, <1>2, FinishFacts DEF TypeOK, authority, external, Job
<1>4. presentation'[a] = s /\ \A b \in Event \ {a} : presentation'[b] = presentation[b]
  BY <1>1, <1>2 DEF TypeOK
<1>5. Extends
  BY <1>1, <1>4 DEF Extends, authority, external, LastSeq
<1>6. ASSUME NEW e \in Event PROVE ActionRow(e)' /\ ConsentRow(e)' /\ ApprovalRow(e)'
  <2>1. ConsentRow(e)'
    <3>1. CASE e = a
      <4>1. ConsentRow(a)
        BY <1>2 DEF IInv, Rows
      <4> QED
        BY <1>1, <1>2, <1>4, <3>1, <4>1 DEF ConsentRow, Prepared, external
    <3>2. CASE e # a
      BY <1>1, <1>3, <1>4, <1>5, <3>2, ConsentsKept DEF external
    <3> QED
      BY <3>1, <3>2
  <2> QED
    BY <1>1, <1>3, <1>5, <2>1, ActionsKept, ApprovalsKept
<1>7. \A v \in Worker : Holds(v)'
  BY <1>1, <1>3, <1>5, FinishFacts, HoldersKept
<1> QED
  BY <1>1, <1>3, <1>5, <1>6, <1>7, ConsentStep DEF authority

LEMMA CommitAdmitStep == ASSUME IInv, NEW w \in Worker, CommitAdmit(w) PROVE IInv'
<1>0. PICK a, s : a = job[w].action /\ s = job[w].seq
  OBVIOUS
<1>1. /\ TypeOK /\ LastSeq \in Nat /\ approval[a] = 0 /\ Finish(w)
      /\ approval' = [approval EXCEPT ![a] = s]
      /\ approved' = [approved EXCEPT ![a] = "ACTIVE"]
      /\ UNCHANGED <<timeline, authority, action, presentation, external>>
  BY <1>0, Types DEF IInv, CommitAdmit, FirstApproval
<1>2. /\ a \in Event /\ presentation[a] # 0 /\ presentation[a] < s
      /\ s \in 1 .. Len(timeline) /\ timeline[s] = Approves(a) /\ s \in 0 .. MaxTimeline
  <2>1. Holds(w) /\ pc[w] = "admitting" /\ job[w].seq \in 0 .. MaxTimeline
    BY <1>1 DEF IInv, CommitAdmit, TypeOK
  <2> QED
    BY <1>0, <2>1 DEF Holds, HoldsReply
<1>3. TypeOK'
  BY <1>1, <1>2, FinishFacts DEF TypeOK, authority, external, Job
<1>4. /\ approval'[a] = s /\ approved'[a] = "ACTIVE" /\ s # 0
      /\ \A b \in Event \ {a} : approval'[b] = approval[b] /\ approved'[b] = approved[b]
  BY <1>1, <1>2 DEF TypeOK
<1>5. Extends
  BY <1>1, <1>4 DEF Extends, authority, external, LastSeq
<1>6. ASSUME NEW e \in Event PROVE ActionRow(e)' /\ ConsentRow(e)' /\ ApprovalRow(e)'
  <2>1. ApprovalRow(e)'
    <3>1. CASE e = a
      <4>1. s <= Len(timeline)
        BY <1>1, <1>2 DEF LastSeq
      <4> QED
        BY <1>1, <1>2, <1>4, <3>1, <4>1 DEF ApprovalRow
    <3>2. CASE e # a
      BY <1>1, <1>3, <1>4, <1>5, <3>2, ApprovalsKept
    <3> QED
      BY <3>1, <3>2
  <2> QED
    BY <1>1, <1>3, <1>5, <2>1, ActionsKept, ConsentsKept DEF external
<1>7. \A v \in Worker : Holds(v)'
  BY <1>1, <1>3, <1>5, FinishFacts, HoldersKept
<1> QED
  BY <1>1, <1>3, <1>5, <1>6, <1>7, ConsentStep DEF authority

LEMMA RevokeApprovalStep ==
  ASSUME IInv, NEW a \in Event, RevokeApproval(a) PROVE IInv'
<1>1. /\ TypeOK /\ LastSeq \in Nat /\ approved[a] = "ACTIVE"
      /\ approved' = [approved EXCEPT ![a] = "REVOKED"]
      /\ UNCHANGED <<timeline, authority, action, presentation, approval, external, pc, job>>
  BY Types DEF IInv, RevokeApproval
<1>2. TypeOK'
  BY <1>1 DEF TypeOK, authority, external
<1>3. \A b \in Event : approved'[b] # "NONE" <=> approved[b] # "NONE"
  BY <1>1 DEF TypeOK
<1>4. Extends
  BY <1>1 DEF Extends, authority, external, LastSeq
<1>5. \A e \in Event : ActionRow(e)' /\ ConsentRow(e)' /\ ApprovalRow(e)'
  BY <1>1, <1>2, <1>3, <1>4, ActionsKept, ConsentsKept, ApprovalsKept DEF external
<1>6. \A v \in Worker : Holds(v)'
  BY <1>1, <1>2, <1>4, HoldersKept
<1> QED
  BY <1>1, <1>2, <1>4, <1>5, <1>6, ConsentStep DEF authority

-----------------------------------------------------------------------------
(* The theorems. *)

\* Every step of every caller, of the counterpart and of the administrators keeps the
\* invariant.
LEMMA StepInv == IInv /\ [Next]_vars => IInv'
<1> SUFFICES ASSUME IInv, [Next]_vars PROVE IInv'
  OBVIOUS
<1>1. CASE Next
  BY <1>1, AppendEventStep, EndRelationshipStep, SetCreatePolicyStep,
     RegisterFirstCalendarStep, SetResourceStatusStep, BeginRegisterStep, BeginGrantStep,
     BeginPrepareStep, BeginPresentStep, BeginAdmitStep, RevokePermissionStep,
     RevokeApprovalStep, CommitRegisterStep, CommitGrantStep, CommitPrepareStep,
     ShowConsentStep, ReadPresentationStep, CommitPresentationStep, CommitAdmitStep,
     CrashStep
  DEF Next
<1>2. CASE UNCHANGED vars
  <2>1. UNCHANGED records /\ pc' = pc /\ job' = job
    BY <1>2 DEF vars, records
  <2>2. pc' \in [Worker -> Stage] /\ job' \in [Worker -> Job]
    BY <2>1 DEF IInv, TypeOK, Job
  <2> QED
    BY <2>1, <2>2, ReadStep
<1> QED
  BY <1>1, <1>2

\* The rows and what the callers hold agree in every reachable state, for every number of
\* callers, calendars, Timeline events and policy revisions.
THEOREM Inductive == Spec => []IInv
<1>1. Init => IInv
  BY InitInv
<1>2. IInv /\ [Next]_vars => IInv'
  BY StepInv
<1> QED
  BY <1>1, <1>2, PTL DEF Spec

\* Every record has its type, and refers to existing events and calendars.
THEOREM TypeCorrectness == Spec => []TypeOK
<1>1. IInv => TypeOK
  BY DEF IInv
<1> QED
  BY <1>1, Inductive, PTL

\* However replies, the sink's acceptance and the two transactions of a presentation
\* interleave, an Approval is the counterpart's reply to an Action whose consent it had
\* been shown.
THEOREM InformedConsentHolds == Spec => []InformedConsent
<1>1. IInv => InformedConsent
  <2> SUFFICES ASSUME IInv, NEW a \in Event, approval[a] # 0
               PROVE  /\ timeline[approval[a]] = Approves(a)
                      /\ shownAt[a] # 0 /\ shownAt[a] < approval[a]
    BY DEF InformedConsent
  <2>1. ApprovalRow(a) /\ ConsentRow(a) /\ TypeOK
    BY DEF IInv, Rows
  <2>2. shownAt[a] \in Nat /\ presentation[a] \in Nat /\ approval[a] \in Nat
    BY <2>1, Types
  <2> QED
    BY <2>1, <2>2 DEF ApprovalRow, ConsentRow
<1> QED
  BY <1>1, Inductive, PTL

\* Grant, request, presentation and reply are in this order on the Timeline, after the
\* activation of the calendar that they all concern.
THEOREM ConsentLineageHolds == Spec => []ConsentLineage
<1>1. IInv => ConsentLineage
  <2> SUFFICES ASSUME IInv, NEW a \in Event, Prepared(a)
               PROVE  LET p == action[a].permission IN
                      /\ target[p] = action[a].calendar
                      /\ frontier[action[a].calendar] < p
                      /\ p < a
                      /\ timeline[p].kind = "GRANT" /\ timeline[a].kind = "CREATE"
                      /\ presentation[a] # 0 => a <= presentation[a]
                      /\ approval[a] # 0 => presentation[a] # 0 /\ presentation[a] < approval[a]
    BY DEF ConsentLineage
  <2>1. ActionRow(a) /\ ConsentRow(a) /\ ApprovalRow(a)
    BY DEF IInv, Rows
  <2>2. GrantRow(action[a].permission)
    BY <2>1 DEF ActionRow, IInv, Rows
  <2> QED
    BY <2>1, <2>2 DEF ActionRow, ConsentRow, ApprovalRow, GrantRow, Heard
<1> QED
  BY <1>1, Inductive, PTL

\* A calendar has one active Permission, although a grant's commit does not look at the
\* others again.
THEOREM OneActivePermissionHolds == Spec => []OneActivePermission
<1>1. IInv => OneActivePermission
  BY DEF IInv
<1> QED
  BY <1>1, Inductive, PTL

\* Only the admission and the revocation of an Approval write its rows.
LEMMA OtherSteps ==
  ASSUME Next PROVE \/ \E w \in Worker : CommitAdmit(w)
                    \/ \E a \in Event : RevokeApproval(a)
                    \/ UNCHANGED <<approval, approved>>
<1>1. \/ \E w \in Worker : CommitAdmit(w)
      \/ \E a \in Event : RevokeApproval(a)
      \/ UNCHANGED consent
      \/ UNCHANGED <<approval, approved>>
  BY DEF Next, AppendEvent, EndRelationship, SetCreatePolicy, RegisterFirstCalendar,
         SetResourceStatus, BeginRegister, BeginGrant, BeginPrepare, BeginPresent, BeginAdmit,
         RevokePermission, CommitRegister, CommitGrant, CommitPrepare, ShowConsent,
         ReadPresentation, CommitPresentation, Crash
<1> QED
  BY <1>1 DEF consent

\* An Approval becomes active only under authority that is current at its commit, by a
\* reply that is the Timeline's last event, although both were read before.
THEOREM AdmittedUnderAuthorityHolds == Spec => AdmittedUnderAuthority
<1>1. ASSUME IInv, [Next]_vars, NEW a \in Event,
             approved[a] # "ACTIVE", approved'[a] = "ACTIVE"
      PROVE  /\ relationship = "ACTIVE"
             /\ resource[action[a].calendar] = "ACTIVE"
             /\ action[a].calendar \in policy.allowed
             /\ permission[action[a].permission] = "ACTIVE"
             /\ approval'[a] = LastSeq
  <2>1. TypeOK
    BY <1>1 DEF IInv
  <2>2. PICK w \in Worker : CommitAdmit(w)
    <3>1. ~ UNCHANGED <<approval, approved>>
      BY <1>1
    <3>2. Next
      BY <1>1, <3>1 DEF vars, consent
    <3>3. ASSUME NEW b \in Event, RevokeApproval(b) PROVE FALSE
      BY <1>1, <2>1, <3>3 DEF RevokeApproval, TypeOK
    <3> QED
      BY <3>1, <3>2, <3>3, OtherSteps
  <2>3. PICK b, s : b = job[w].action /\ s = job[w].seq
    OBVIOUS
  <2>4. /\ pc[w] = "admitting" /\ TargetUnchanged(w) /\ PermissionUnchanged(w) /\ s = LastSeq
        /\ approval' = [approval EXCEPT ![b] = s]
        /\ approved' = [approved EXCEPT ![b] = "ACTIVE"]
    BY <2>2, <2>3 DEF CommitAdmit, AdmissionValidated, SourceCurrent
  <2>5. a = b
    BY <1>1, <2>1, <2>4 DEF TypeOK
  <2>6. /\ job[w].calendar = action[a].calendar /\ job[w].permission = action[a].permission
        /\ job[w].policy = policy.rev => job[w].calendar \in policy.allowed
    BY <1>1, <2>3, <2>4, <2>5 DEF IInv, Holds, HoldsReply
  <2>7. approval'[a] = LastSeq
    BY <2>1, <2>4, <2>5 DEF TypeOK
  <2> QED
    BY <2>4, <2>6, <2>7 DEF TargetUnchanged, PermissionUnchanged
<1>2. IInv /\ [Next]_vars =>
        [\A a \in Event :
          approved[a] # "ACTIVE" /\ approved'[a] = "ACTIVE" =>
              /\ relationship = "ACTIVE"
              /\ resource[action[a].calendar] = "ACTIVE"
              /\ action[a].calendar \in policy.allowed
              /\ permission[action[a].permission] = "ACTIVE"
              /\ approval'[a] = LastSeq]_vars
  BY <1>1
<1> QED
  BY <1>2, Inductive, PTL DEF Spec, AdmittedUnderAuthority

\* An Approval keeps its source, and a revoked one is never active again.
THEOREM RevokedStaysRevokedHolds == Spec => RevokedStaysRevoked
<1>1. ASSUME IInv, [Next]_vars, NEW a \in Event, approval[a] # 0
      PROVE  /\ approval'[a] = approval[a]
             /\ approved[a] = "REVOKED" => approved'[a] = "REVOKED"
  <2>1. TypeOK
    BY <1>1 DEF IInv
  <2>2. ASSUME NEW w \in Worker, CommitAdmit(w)
        PROVE  approval'[a] = approval[a] /\ approved'[a] = approved[a]
    <3>1. PICK b : b = job[w].action
      OBVIOUS
    <3>2. a # b /\ approval' = [approval EXCEPT ![b] = job[w].seq]
          /\ approved' = [approved EXCEPT ![b] = "ACTIVE"]
      BY <1>1, <2>2, <3>1 DEF CommitAdmit, FirstApproval
    <3> QED
      BY <2>1, <3>2 DEF TypeOK
  <2>3. ASSUME NEW b \in Event, RevokeApproval(b)
        PROVE  /\ approval'[a] = approval[a]
               /\ approved[a] = "REVOKED" => approved'[a] = "REVOKED"
    BY <2>1, <2>3 DEF RevokeApproval, TypeOK
  <2>4. CASE UNCHANGED <<approval, approved>>
    BY <2>4
  <2>5. CASE UNCHANGED vars
    BY <2>4, <2>5 DEF vars, consent
  <2> QED
    BY <1>1, <2>2, <2>3, <2>4, <2>5, OtherSteps
<1>2. IInv /\ [Next]_vars =>
        [\A a \in Event :
          approval[a] # 0 =>
              /\ approval'[a] = approval[a]
              /\ approved[a] = "REVOKED" => approved'[a] = "REVOKED"]_vars
  BY <1>1
<1> QED
  BY <1>2, Inductive, PTL DEF Spec, RevokedStaysRevoked
=============================================================================
