--------------------------- MODULE OfficesProofs ---------------------------
(***************************************************************************)
(* The offices side by side: governance, teams, and the desk of demo       *)
(* requests, escalations and resets, each with its inductive invariant;    *)
(* then their composition with the requests of RecordsProofs, for any      *)
(* number of people, subjects and requests at work at once.                *)
(***************************************************************************)
EXTENDS MCOffices, RecordsProofs, SequenceTheorems

-----------------------------------------------------------------------------
\* Governance.

\* A suspension about to be written was let through by a count of at least two.
CountedBefore ==
  \A a \in PlatformAdmins :
    /\ ruling[a] # NoRuling /\ ruling[a].step = "update"
    /\ MustCount(ruling[a].on, ruling[a].next)
    => ruling[a].counted > 1

\* The inductive invariant.
GovernanceInv == GovernanceTypeOK /\ CountedBefore /\ AnAdminRemains

\* The active administrators can be counted, and are at most all administrators.
LEMMA ActiveAdminsFinite ==
  /\ IsFiniteSet(ActiveAdmins)
  /\ Cardinality(ActiveAdmins) \in Nat /\ Cardinality(PlatformAdmins) \in Nat
  /\ Cardinality(ActiveAdmins) <= Cardinality(PlatformAdmins)
<1>1. ActiveAdmins \subseteq PlatformAdmins
  BY DEF ActiveAdmins
<1>2. QED
  BY <1>1, GovernanceAssumption, FS_Subset, FS_CardinalityType

\* Of more than one active administrator one remains when one is taken away.
LEMMA AnotherIsActive ==
  ASSUME NEW s, Cardinality(ActiveAdmins) > 1
  PROVE  \E b \in ActiveAdmins : b # s
<1>1. SUFFICES ASSUME ActiveAdmins \subseteq {s} PROVE FALSE
  OBVIOUS
<1>2. IsFiniteSet({s}) /\ Cardinality({s}) = 1
  BY FS_Singleton
<1>3. Cardinality(ActiveAdmins) <= 1
  BY <1>1, <1>2, FS_Subset
<1>4. QED
  BY <1>3, ActiveAdminsFinite

\* A ruling that is not about taking the active state away from an administrator leaves an
\* active one active; one that is was counted, and the count still holds unless it was hasty.
LEMMA UpdateLeavesAnAdmin ==
  ASSUME GovernanceInv, NEW a \in PlatformAdmins, UpdateStanding(a)
  PROVE  AnAdminRemains'
<1> DEFINE s == ruling[a].on
           next == ruling[a].next
<1> USE DEF GovernanceInv, GovernanceTypeOK, Subjects, Users, Orgs
<1>1. /\ ruling[a] \in Ruling /\ s \in Subjects /\ ruling[a].counted \in Nat
      /\ standing' = [standing EXCEPT ![s] = next]
      /\ hasty' = (hasty \/ Cardinality(ActiveAdmins) < ruling[a].counted)
  BY ActiveAdminsFinite DEF UpdateStanding, Ruling
<1>2. CASE hasty \/ Cardinality(ActiveAdmins) < ruling[a].counted
  BY <1>1, <1>2 DEF AnAdminRemains
<1>3. CASE s \notin PlatformAdmins
  <2>1. ActiveAdmins' = ActiveAdmins
    BY <1>1, <1>3 DEF ActiveAdmins
  <2>2. QED
    BY <1>1, <2>1 DEF AnAdminRemains
<1>4. CASE s \in PlatformAdmins /\ next = "ACTIVE"
  <2>1. s \in ActiveAdmins'
    BY <1>1, <1>4 DEF ActiveAdmins
  <2>2. QED
    BY <2>1 DEF AnAdminRemains
<1>5. CASE s \in PlatformAdmins /\ next # "ACTIVE" /\ ~(Cardinality(ActiveAdmins) < ruling[a].counted)
  <2>1. ruling[a].counted > 1
    BY <1>5 DEF CountedBefore, MustCount, UpdateStanding
  <2>2. Cardinality(ActiveAdmins) > 1
    BY <1>1, <1>5, <2>1, ActiveAdminsFinite
  <2>3. PICK b \in ActiveAdmins : b # s
    BY <2>2, AnotherIsActive
  <2>4. b \in ActiveAdmins'
    BY <1>1, <2>3 DEF ActiveAdmins
  <2>5. QED
    BY <2>4 DEF AnAdminRemains
<1>6. QED
  BY <1>2, <1>3, <1>4, <1>5

LEMMA GovernanceInitInv == GovernanceInit => GovernanceInv
<1> SUFFICES ASSUME GovernanceInit PROVE GovernanceInv
  OBVIOUS
<1>1. GovernanceTypeOK /\ CountedBefore
  <2>1. "ACTIVE" \in UserStatuses \cup OrgStatuses
    BY DEF UserStatuses
  <2>2. standing \in [Subjects -> UserStatuses \cup OrgStatuses]
    BY <2>1 DEF GovernanceInit
  <2>3. ruling \in [PlatformAdmins -> {NoRuling} \cup Ruling]
    BY DEF GovernanceInit
  <2>4. rulings \in 0..MaxRulings
    BY GovernanceAssumption DEF GovernanceInit
  <2>5. CountedBefore
    BY DEF GovernanceInit, CountedBefore
  <2>6. QED
    BY <2>2, <2>3, <2>4, <2>5 DEF GovernanceInit, GovernanceTypeOK
<1>2. ActiveAdmins = PlatformAdmins
  BY DEF GovernanceInit, ActiveAdmins, Subjects, Users
<1>3. QED
  BY <1>1, <1>2, GovernanceAssumption DEF GovernanceInv, AnAdminRemains

LEMMA GovernanceStepInv == GovernanceInv /\ [GovernanceNext]_governanceVars => GovernanceInv'
<1> SUFFICES ASSUME GovernanceInv, [GovernanceNext]_governanceVars PROVE GovernanceInv'
  OBVIOUS
<1> USE GovernanceAssumption DEF GovernanceInv
<1>1. ASSUME NEW a \in PlatformAdmins, NEW s \in Subjects, NEW next \in UserStatuses \cup OrgStatuses,
             NEW step \in {"count", "update"},
             s \in PlatformAdmins /\ next # "ACTIVE" => step = "count",
             Begin(a, s, next, step)
      PROVE  GovernanceInv'
  <2>1. [on |-> s, next |-> next, step |-> step, counted |-> 0] \in Ruling
    BY ActiveAdminsFinite DEF Ruling
  <2>2. GovernanceTypeOK'
    BY <1>1, <2>1 DEF Begin, GovernanceTypeOK
  <2>3. CountedBefore'
    BY <1>1 DEF Begin, GovernanceTypeOK, CountedBefore, MustCount
  <2>4. AnAdminRemains'
    BY <1>1 DEF Begin, AnAdminRemains, ActiveAdmins
  <2>5. QED
    BY <2>2, <2>3, <2>4
<1>2. ASSUME NEW a \in PlatformAdmins, NEW u \in Users, NEW next \in UserStatuses, BeginUserStatus(a, u, next)
      PROVE  GovernanceInv'
  BY <1>1, <1>2 DEF BeginUserStatus, MustCount, Subjects
<1>3. ASSUME NEW a \in PlatformAdmins, NEW o \in Orgs, NEW next \in OrgStatuses, BeginOrgStatus(a, o, next)
      PROVE  GovernanceInv'
  BY <1>1, <1>3 DEF BeginOrgStatus, Subjects, Orgs
<1>4. ASSUME NEW a \in PlatformAdmins, CountAdmins(a) PROVE GovernanceInv'
  <2>1. GovernanceTypeOK'
    <3>1. Cardinality(ActiveAdmins) \in 0..Cardinality(PlatformAdmins)
      BY ActiveAdminsFinite
    <3>2. ruling[a] \in Ruling
      BY <1>4 DEF CountAdmins, GovernanceTypeOK
    <3>3. ruling' \in [PlatformAdmins -> {NoRuling} \cup Ruling]
      BY <1>4, <3>1, <3>2 DEF CountAdmins, GovernanceTypeOK, Ruling
    <3>4. QED
      BY <1>4, <3>3 DEF CountAdmins, GovernanceTypeOK
  <2>2. CountedBefore'
    BY <1>4, ActiveAdminsFinite
    DEF CountAdmins, GovernanceTypeOK, CountedBefore, EnoughAdmins, Ruling
  <2>3. AnAdminRemains'
    BY <1>4 DEF CountAdmins, AnAdminRemains, ActiveAdmins
  <2>4. QED
    BY <2>1, <2>2, <2>3
<1>5. ASSUME NEW a \in PlatformAdmins, UpdateStanding(a) PROVE GovernanceInv'
  <2>1. ruling[a] \in Ruling
    BY <1>5 DEF UpdateStanding, GovernanceTypeOK
  <2>2. GovernanceTypeOK'
    BY <1>5, <2>1 DEF UpdateStanding, GovernanceTypeOK, Ruling
  <2>3. CountedBefore'
    BY <1>5, <2>1 DEF UpdateStanding, GovernanceTypeOK, CountedBefore, Ruling
  <2>4. AnAdminRemains'
    BY <1>5, UpdateLeavesAnAdmin
  <2>5. QED
    BY <2>2, <2>3, <2>4
<1>6. ASSUME NEW a \in PlatformAdmins, WriteAudit(a) PROVE GovernanceInv'
  <2>1. ruling[a] \in Ruling
    BY <1>6 DEF WriteAudit, GovernanceTypeOK
  <2>2. GovernanceTypeOK'
    BY <1>6, <2>1 DEF WriteAudit, AuditedStatus, GovernanceTypeOK, Ruling
  <2>3. CountedBefore'
    BY <1>6 DEF WriteAudit, GovernanceTypeOK, CountedBefore
  <2>4. AnAdminRemains'
    BY <1>6 DEF WriteAudit, AnAdminRemains, ActiveAdmins
  <2>5. QED
    BY <2>2, <2>3, <2>4
<1>7. ASSUME NEW a \in PlatformAdmins, EndEarly(a) PROVE GovernanceInv'
  <2>1. ruling[a] \in Ruling
    BY <1>7 DEF EndEarly, GovernanceTypeOK
  <2>2. GovernanceTypeOK'
    BY <1>7, <2>1 DEF EndEarly, GovernanceTypeOK, Ruling
  <2>3. CountedBefore'
    BY <1>7 DEF EndEarly, GovernanceTypeOK, CountedBefore
  <2>4. AnAdminRemains'
    BY <1>7 DEF EndEarly, AnAdminRemains, ActiveAdmins
  <2>5. QED
    BY <2>2, <2>3, <2>4
<1>8. CASE UNCHANGED governanceVars
  BY <1>8 DEF governanceVars, GovernanceTypeOK, CountedBefore, AnAdminRemains, ActiveAdmins
<1>9. QED
  BY <1>2, <1>3, <1>4, <1>5, <1>6, <1>7, <1>8 DEF GovernanceNext

\* No two requests rule on a subject that is not unsettled; until the request at work on it has
\* updated the row the last audit record names its status, and afterwards the status is the
\* one the request is about to record.
RulingsAreAlone ==
  \A a \in PlatformAdmins : ruling[a] # NoRuling /\ ruling[a].on \notin unsettled =>
    /\ \A b \in PlatformAdmins \ {a} : ruling[b] # NoRuling => ruling[b].on # ruling[a].on
    /\ IF ruling[a].step = "audit"
       THEN standing[ruling[a].on] = ruling[a].next
       ELSE audited[ruling[a].on] = standing[ruling[a].on]

AuditInv == RulingsAreAlone /\ AuditNamesStanding

LEMMA AuditInitInv == GovernanceInit => AuditInv
BY DEF GovernanceInit, AuditInv, RulingsAreAlone, AuditNamesStanding

LEMMA BeginKeepsAudit ==
  ASSUME GovernanceTypeOK, AuditInv, NEW a \in PlatformAdmins, NEW s \in Subjects, NEW next,
         NEW step \in {"count", "update"}, Begin(a, s, next, step)
  PROVE  AuditInv'
<1> DEFINE r == [on |-> s, next |-> next, step |-> step, counted |-> 0]
<1>1. /\ ruling[a] = NoRuling /\ standing' = standing /\ audited' = audited
      /\ unsettled' = IF Contested(s) THEN unsettled \cup {s} ELSE unsettled
      /\ ruling'[a] = r /\ \A b \in PlatformAdmins : b # a => ruling'[b] = ruling[b]
  BY DEF Begin, GovernanceTypeOK
<1>2. r.on = s /\ r.step # "audit" /\ r # NoRuling
  BY DEF NoRuling
<1> HIDE DEF r
<1>3. s \notin unsettled' => ~Contested(s) /\ audited[s] = standing[s]
  BY <1>1 DEF AuditInv, AuditNamesStanding
<1>4. RulingsAreAlone'
  <2> SUFFICES ASSUME NEW c \in PlatformAdmins, ruling'[c] # NoRuling, ruling'[c].on \notin unsettled'
               PROVE  /\ \A b \in PlatformAdmins \ {c} : ruling'[b] # NoRuling => ruling'[b].on # ruling'[c].on
                      /\ IF ruling'[c].step = "audit"
                         THEN standing'[ruling'[c].on] = ruling'[c].next
                         ELSE audited'[ruling'[c].on] = standing'[ruling'[c].on]
    BY DEF RulingsAreAlone
  <2>1. CASE c = a
    BY <1>1, <1>2, <1>3, <2>1 DEF Contested
  <2>2. CASE c # a
    <3>1. ruling'[c] = ruling[c] /\ ruling[c].on \notin unsettled
      BY <1>1, <2>2
    <3>2. ruling[c].on # s
      BY <1>1, <3>1 DEF Contested
    <3>3. QED BY <1>1, <1>2, <2>2, <3>1, <3>2 DEF AuditInv, RulingsAreAlone
  <2>3. QED BY <2>1, <2>2
<1>5. AuditNamesStanding'
  BY <1>1, <1>2 DEF AuditInv, AuditNamesStanding, Contested
<1>6. QED BY <1>4, <1>5 DEF AuditInv

LEMMA CountKeepsAudit ==
  ASSUME GovernanceTypeOK, AuditInv, NEW a \in PlatformAdmins, CountAdmins(a) PROVE AuditInv'
<1>1. /\ ruling[a] # NoRuling /\ ruling[a] \in Ruling /\ ruling[a].step = "count"
      /\ standing' = standing /\ audited' = audited /\ unsettled' = unsettled
      /\ \A b \in PlatformAdmins : b # a => ruling'[b] = ruling[b]
  BY DEF CountAdmins, GovernanceTypeOK
<1>2. CASE ruling' = [ruling EXCEPT ![a].step = "update", ![a].counted = Cardinality(ActiveAdmins)]
  <2>1. ruling'[a].on = ruling[a].on /\ ruling'[a].step = "update"
    BY <1>1, <1>2 DEF GovernanceTypeOK, Ruling
  <2>2. ruling'[a] # NoRuling
    BY <1>1, <1>2 DEF GovernanceTypeOK, Ruling, NoRuling
  <2>3. \A s : Contested(s)' <=> Contested(s)
    BY <1>1, <2>1, <2>2 DEF Contested
  <2>4. RulingsAreAlone'
    BY <1>1, <2>1, <2>2 DEF AuditInv, RulingsAreAlone
  <2>5. QED BY <1>1, <2>3, <2>4 DEF AuditInv, AuditNamesStanding
<1>3. CASE ruling' = [ruling EXCEPT ![a] = NoRuling]
  <2>1. ruling'[a] = NoRuling
    BY <1>3 DEF GovernanceTypeOK
  <2>2. RulingsAreAlone'
    BY <1>1, <2>1 DEF AuditInv, RulingsAreAlone
  <2>3. ASSUME NEW s \in Subjects \ unsettled, ~Contested(s)' PROVE audited[s] = standing[s]
    <3>1. CASE s = ruling[a].on
      BY <1>1, <3>1 DEF AuditInv, RulingsAreAlone
    <3>2. CASE s # ruling[a].on
      <4>1. ~Contested(s)
        BY <1>1, <2>1, <2>3, <3>2 DEF Contested
      <4>2. QED BY <4>1 DEF AuditInv, AuditNamesStanding
    <3>3. QED BY <3>1, <3>2
  <2>4. QED BY <1>1, <2>2, <2>3 DEF AuditInv, AuditNamesStanding
<1>4. QED BY <1>2, <1>3 DEF CountAdmins

LEMMA UpdateKeepsAudit ==
  ASSUME GovernanceTypeOK, AuditInv, NEW a \in PlatformAdmins, UpdateStanding(a) PROVE AuditInv'
<1> PICK s, n : s = ruling[a].on /\ n = ruling[a].next
  OBVIOUS
<1>1. /\ ruling[a] # NoRuling /\ ruling[a] \in Ruling /\ s \in Subjects
      /\ audited' = audited /\ unsettled' = unsettled
      /\ standing'[s] = n /\ \A x \in Subjects : x # s => standing'[x] = standing[x]
      /\ \A b \in PlatformAdmins : b # a => ruling'[b] = ruling[b]
  BY DEF UpdateStanding, GovernanceTypeOK, Ruling
<1>2. ruling'[a].on = s /\ ruling'[a].step = "audit" /\ ruling'[a].next = n
  BY <1>1 DEF UpdateStanding, GovernanceTypeOK, Ruling
<1>3. ruling'[a] # NoRuling
  BY <1>1 DEF UpdateStanding, GovernanceTypeOK, Ruling, NoRuling
<1>4. \A x : Contested(x)' <=> Contested(x)
  BY <1>1, <1>2, <1>3 DEF Contested
<1>5. RulingsAreAlone'
  <2> SUFFICES ASSUME NEW c \in PlatformAdmins, ruling'[c] # NoRuling, ruling'[c].on \notin unsettled'
               PROVE  /\ \A b \in PlatformAdmins \ {c} : ruling'[b] # NoRuling => ruling'[b].on # ruling'[c].on
                      /\ IF ruling'[c].step = "audit"
                         THEN standing'[ruling'[c].on] = ruling'[c].next
                         ELSE audited'[ruling'[c].on] = standing'[ruling'[c].on]
    BY DEF RulingsAreAlone
  <2>1. CASE c = a
    BY <1>1, <1>2, <1>3, <2>1 DEF AuditInv, RulingsAreAlone
  <2>2. CASE c # a
    <3>1. ruling'[c] = ruling[c] /\ ruling[c].on \notin unsettled /\ ruling[c] \in Ruling
      BY <1>1, <2>2 DEF GovernanceTypeOK
    <3>2. ruling[c].on # s /\ ruling[c].on \in Subjects
      BY <1>1, <2>2, <3>1 DEF AuditInv, RulingsAreAlone, Ruling
    <3>3. QED BY <1>1, <1>2, <2>2, <3>1, <3>2 DEF AuditInv, RulingsAreAlone
  <2>3. QED BY <2>1, <2>2
<1>6. AuditNamesStanding'
  <2>1. Contested(s)
    BY <1>1 DEF Contested
  <2>2. QED BY <1>1, <1>4, <2>1 DEF AuditInv, AuditNamesStanding
<1>7. QED BY <1>5, <1>6 DEF AuditInv

LEMMA AuditKeepsAudit ==
  ASSUME GovernanceTypeOK, AuditInv, NEW a \in PlatformAdmins, WriteAudit(a) PROVE AuditInv'
<1> PICK s : s = ruling[a].on
  OBVIOUS
<1>1. /\ ruling[a] # NoRuling /\ ruling[a] \in Ruling /\ s \in Subjects /\ ruling[a].step = "audit"
      /\ standing' = standing /\ unsettled' = unsettled
      /\ audited'[s] = ruling[a].next /\ \A x \in Subjects : x # s => audited'[x] = audited[x]
      /\ ruling'[a] = NoRuling /\ \A b \in PlatformAdmins : b # a => ruling'[b] = ruling[b]
  BY DEF WriteAudit, AuditedStatus, GovernanceTypeOK, Ruling
<1>2. RulingsAreAlone'
  <2> SUFFICES ASSUME NEW c \in PlatformAdmins, ruling'[c] # NoRuling, ruling'[c].on \notin unsettled'
               PROVE  /\ \A b \in PlatformAdmins \ {c} : ruling'[b] # NoRuling => ruling'[b].on # ruling'[c].on
                      /\ IF ruling'[c].step = "audit"
                         THEN standing'[ruling'[c].on] = ruling'[c].next
                         ELSE audited'[ruling'[c].on] = standing'[ruling'[c].on]
    BY DEF RulingsAreAlone
  <2>1. c # a /\ ruling'[c] = ruling[c] /\ ruling[c].on \notin unsettled /\ ruling[c] \in Ruling
    BY <1>1 DEF GovernanceTypeOK
  <2>2. ruling[c].on # s /\ ruling[c].on \in Subjects
    BY <1>1, <2>1 DEF AuditInv, RulingsAreAlone, Ruling
  <2>3. QED BY <1>1, <2>1, <2>2 DEF AuditInv, RulingsAreAlone
<1>3. ASSUME NEW x \in Subjects \ unsettled, ~Contested(x)' PROVE audited'[x] = standing'[x]
  <2>1. CASE x = s
    BY <1>1, <2>1, <1>3 DEF AuditInv, RulingsAreAlone
  <2>2. CASE x # s
    <3>1. ~Contested(x)
      BY <1>1, <1>3, <2>2 DEF Contested
    <3>2. QED BY <1>1, <2>2, <3>1 DEF AuditInv, AuditNamesStanding
  <2>3. QED BY <2>1, <2>2
<1>4. QED BY <1>1, <1>2, <1>3 DEF AuditInv, AuditNamesStanding

LEMMA EndKeepsAudit ==
  ASSUME GovernanceTypeOK, AuditInv, NEW a \in PlatformAdmins, EndEarly(a) PROVE AuditInv'
<1> PICK s : s = ruling[a].on
  OBVIOUS
<1>1. /\ ruling[a] # NoRuling /\ standing' = standing /\ audited' = audited /\ unsettled' = unsettled \cup {s}
      /\ ruling'[a] = NoRuling /\ \A b \in PlatformAdmins : b # a => ruling'[b] = ruling[b]
  BY DEF EndEarly, GovernanceTypeOK
<1>2. RulingsAreAlone'
  BY <1>1 DEF AuditInv, RulingsAreAlone
<1>3. ASSUME NEW x \in Subjects, x \notin unsettled', ~Contested(x)' PROVE audited[x] = standing[x]
  <2>1. ~Contested(x)
    BY <1>1, <1>3 DEF Contested
  <2>2. QED BY <1>1, <1>3, <2>1 DEF AuditInv, AuditNamesStanding
<1>4. QED BY <1>1, <1>2, <1>3 DEF AuditInv, AuditNamesStanding

LEMMA AuditStepInv == GovernanceTypeOK /\ AuditInv /\ [GovernanceNext]_governanceVars => AuditInv'
<1> SUFFICES ASSUME GovernanceTypeOK, AuditInv, [GovernanceNext]_governanceVars PROVE AuditInv'
  OBVIOUS
<1>1. ASSUME NEW a \in PlatformAdmins, NEW u \in Users, NEW next \in UserStatuses, BeginUserStatus(a, u, next)
      PROVE  AuditInv'
  BY <1>1, BeginKeepsAudit DEF BeginUserStatus, Subjects
<1>2. ASSUME NEW a \in PlatformAdmins, NEW o \in Orgs, NEW next \in OrgStatuses, BeginOrgStatus(a, o, next)
      PROVE  AuditInv'
  BY <1>2, BeginKeepsAudit DEF BeginOrgStatus, Subjects
<1>3. ASSUME NEW a \in PlatformAdmins, CountAdmins(a) \/ UpdateStanding(a) \/ WriteAudit(a) \/ EndEarly(a)
      PROVE  AuditInv'
  BY <1>3, CountKeepsAudit, UpdateKeepsAudit, AuditKeepsAudit, EndKeepsAudit
<1>4. CASE UNCHANGED governanceVars
  BY <1>4 DEF governanceVars, AuditInv, RulingsAreAlone, AuditNamesStanding, Contested
<1>5. QED BY <1>1, <1>2, <1>3, <1>4 DEF GovernanceNext

\* As long as no suspension was written on a count out of date, an administrator is active.
THEOREM AdminsRemain == GovernanceSpec => [](GovernanceTypeOK /\ AnAdminRemains)
BY GovernanceInitInv, GovernanceStepInv, PTL DEF GovernanceSpec, GovernanceInv

\* The last audit record of a user or an organisation names its status (Governance.AuditNamesStanding).
THEOREM AuditsName == GovernanceSpec => []AuditNamesStanding
<1>1. GovernanceInv => GovernanceTypeOK
  BY DEF GovernanceInv
<1>2. AuditInv => AuditNamesStanding
  BY DEF AuditInv
<1>3. QED BY <1>1, <1>2, GovernanceInitInv, GovernanceStepInv, AuditInitInv, AuditStepInv, PTL DEF GovernanceSpec

-----------------------------------------------------------------------------
\* Memberships and invitations.

\* What is left of a request's statements: a business invitation of somebody with an account
\* writes the membership first, other invitations start at the invitation.
WholeInvite == <<"member", "memberAudit", "invite", "inviteAudit", "mail">>
AfterMember == <<"memberAudit", "invite", "inviteAudit", "mail">>
InviteOnly == <<"invite", "inviteAudit", "mail">>
AfterInvite == <<"inviteAudit", "mail">>
MailOnly == <<"mail">>
MemberOnly == <<"member", "memberAudit">>
AuditOnly == <<"memberAudit">>
Plans == {WholeInvite, AfterMember, InviteOnly, AfterInvite, MailOnly, MemberOnly, AuditOnly}

LEMMA PlanTails ==
  /\ Tail(WholeInvite) = AfterMember /\ Len(WholeInvite) = 5 /\ Head(WholeInvite) = "member"
  /\ Tail(AfterMember) = InviteOnly /\ Len(AfterMember) = 4 /\ Head(AfterMember) = "memberAudit"
  /\ Tail(InviteOnly) = AfterInvite /\ Len(InviteOnly) = 3 /\ Head(InviteOnly) = "invite"
  /\ Tail(AfterInvite) = MailOnly /\ Len(AfterInvite) = 2 /\ Head(AfterInvite) = "inviteAudit"
  /\ Len(MailOnly) = 1 /\ Head(MailOnly) = "mail"
  /\ Tail(MemberOnly) = AuditOnly /\ Len(MemberOnly) = 2 /\ Head(MemberOnly) = "member"
  /\ Len(AuditOnly) = 1 /\ Head(AuditOnly) = "memberAudit"
<1>1. Tail(WholeInvite) = AfterMember /\ Len(WholeInvite) = 5 /\ Head(WholeInvite) = "member"
  BY DEF WholeInvite, AfterMember
<1>2. Tail(AfterMember) = InviteOnly /\ Len(AfterMember) = 4 /\ Head(AfterMember) = "memberAudit"
  BY DEF AfterMember, InviteOnly
<1>3. Tail(InviteOnly) = AfterInvite /\ Len(InviteOnly) = 3 /\ Head(InviteOnly) = "invite"
  BY DEF InviteOnly, AfterInvite
<1>4. Tail(AfterInvite) = MailOnly /\ Len(AfterInvite) = 2 /\ Head(AfterInvite) = "inviteAudit"
  BY DEF AfterInvite, MailOnly
<1>5. Len(MailOnly) = 1 /\ Head(MailOnly) = "mail"
  BY DEF MailOnly
<1>6. Tail(MemberOnly) = AuditOnly /\ Len(MemberOnly) = 2 /\ Head(MemberOnly) = "member"
  BY DEF MemberOnly, AuditOnly
<1>7. Len(AuditOnly) = 1 /\ Head(AuditOnly) = "memberAudit"
  BY DEF AuditOnly
<1>8. QED BY <1>1, <1>2, <1>3, <1>4, <1>5, <1>6, <1>7

LEMMA PlanJoined == <<"member", "memberAudit">> \o <<"invite", "inviteAudit", "mail">> = WholeInvite
                    /\ <<>> \o <<"invite", "inviteAudit", "mail">> = InviteOnly
<1>1. <<"member", "memberAudit">> \o <<"invite", "inviteAudit", "mail">> = WholeInvite
  <2> DEFINE s == <<"member", "memberAudit">>
             t == <<"invite", "inviteAudit", "mail">>
  <2>1. s \in Seq(Statements) /\ t \in Seq(Statements) /\ WholeInvite \in Seq(Statements)
    BY DEF Statements, WholeInvite
  <2>2. Len(s) = 2 /\ Len(t) = 3 /\ Len(WholeInvite) = 5
    BY DEF WholeInvite
  <2>3. /\ s[1] = WholeInvite[1] /\ s[2] = WholeInvite[2]
        /\ t[1] = WholeInvite[3] /\ t[2] = WholeInvite[4] /\ t[3] = WholeInvite[5]
    BY DEF WholeInvite
  <2> HIDE DEF s, t
  <2>4. /\ s \o t \in Seq(Statements) /\ Len(s \o t) = Len(s) + Len(t)
        /\ \A i \in 1..Len(s) + Len(t) : (s \o t)[i] = IF i <= Len(s) THEN s[i] ELSE t[i - Len(s)]
    BY <2>1, ConcatProperties
  <2>5. ASSUME NEW i \in 1..5 PROVE (s \o t)[i] = WholeInvite[i]
    <3>1. (s \o t)[i] = IF i <= 2 THEN s[i] ELSE t[i - 2]
      BY <2>2, <2>4
    <3>2. i = 1 \/ i = 2 \/ i = 3 \/ i = 4 \/ i = 5
      OBVIOUS
    <3>3. CASE i = 1 \/ i = 2
      BY <2>3, <3>1, <3>3
    <3>4. CASE i = 3 \/ i = 4 \/ i = 5
      BY <2>3, <3>1, <3>4
    <3>5. QED BY <3>2, <3>3, <3>4
  <2>6. s \o t = WholeInvite
    <3>1. Len(s \o t) = Len(WholeInvite) /\ Len(s \o t) = 5
      BY <2>2, <2>4
    <3>2. \A i \in 1..Len(s \o t) : (s \o t)[i] = WholeInvite[i]
      BY <2>5, <3>1
    <3>3. s \o t \in Seq(Statements) /\ WholeInvite \in Seq(Statements)
      BY <2>1, <2>4
    <3>4. QED BY <3>1, <3>2, <3>3, SeqEqual
  <2>7. QED BY <2>6 DEF s, t
<1>2. <<>> \o <<"invite", "inviteAudit", "mail">> = InviteOnly
  BY DEF InviteOnly
<1>3. QED BY <1>1, <1>2

LEMMA PlansAreStatements == \A t \in Plans : t \in Seq(Statements) /\ t # <<>>
<1>1. WholeInvite \in Seq(Statements) /\ AfterMember \in Seq(Statements)
  BY DEF WholeInvite, AfterMember, Statements
<1>2. InviteOnly \in Seq(Statements) /\ AfterInvite \in Seq(Statements) /\ MailOnly \in Seq(Statements)
  BY DEF InviteOnly, AfterInvite, MailOnly, Statements
<1>3. MemberOnly \in Seq(Statements) /\ AuditOnly \in Seq(Statements)
  BY DEF MemberOnly, AuditOnly, Statements
<1>4. \A t \in Plans : Len(t) # 0
  BY PlanTails DEF Plans
<1>5. \A t \in Plans : t \in Seq(Statements)
  BY <1>1, <1>2, <1>3 DEF Plans
<1>6. QED BY <1>4, <1>5

Inviting == {WholeInvite, AfterMember, InviteOnly}

\* How the statements follow one another.
LEMMA PlanSteps ==
  ASSUME NEW t \in Plans
  PROVE  /\ Head(t) \in Statements
         /\ Len(t) # 1 => Tail(t) \in Plans
         /\ Head(t) = "member" => Len(t) # 1 /\ Head(Tail(t)) = "memberAudit"
         /\ Head(t) = "memberAudit" => Len(t) = 1 \/ Head(Tail(t)) = "invite"
         /\ Head(t) = "invite" => Len(t) # 1 /\ Head(Tail(t)) = "inviteAudit" /\ t \in Inviting
         /\ Head(t) = "inviteAudit" => Len(t) # 1 /\ Head(Tail(t)) = "mail"
         /\ Head(t) = "mail" => Len(t) = 1
         /\ Len(t) # 1 /\ Tail(t) \in Inviting => t \in Inviting
<1>1. CASE t = WholeInvite
  <2>1. Len(t) = 5 /\ Head(t) = "member" /\ Tail(t) = AfterMember /\ Head(Tail(t)) = "memberAudit"
    BY <1>1, PlanTails
  <2>2. t \in Inviting /\ Len(t) # 1
    BY <1>1, <2>1 DEF Inviting
  <2>3. Head(t) \in Statements /\ Tail(t) \in Plans
    BY <2>1 DEF Plans, Statements
  <2>4. QED BY <2>1, <2>2, <2>3
<1>2. CASE t = AfterMember
  <2>1. Len(t) = 4 /\ Head(t) = "memberAudit" /\ Tail(t) = InviteOnly /\ Head(Tail(t)) = "invite"
    BY <1>2, PlanTails
  <2>2. t \in Inviting /\ Len(t) # 1
    BY <1>2, <2>1 DEF Inviting
  <2>3. Head(t) \in Statements /\ Tail(t) \in Plans
    BY <2>1 DEF Plans, Statements
  <2>4. QED BY <2>1, <2>2, <2>3
<1>3. CASE t = InviteOnly
  <2>1. Len(t) = 3 /\ Head(t) = "invite" /\ Tail(t) = AfterInvite /\ Head(Tail(t)) = "inviteAudit"
    BY <1>3, PlanTails
  <2>2. Tail(t) \notin Inviting /\ Tail(t) \in Plans
    <3>1. AfterInvite \notin Inviting /\ AfterInvite \in Plans
      BY PlanTails DEF Inviting, Plans
    <3>2. QED BY <2>1, <3>1
  <2>3. t \in Inviting
    BY <1>3 DEF Inviting
  <2>4. Head(t) \in Statements
    BY <2>1 DEF Statements
  <2>5. Len(t) # 1
    BY <2>1
  <2>6. QED BY <2>1, <2>2, <2>3, <2>4, <2>5
<1>4. CASE t = AfterInvite
  <2>1. Len(t) = 2 /\ Head(t) = "inviteAudit" /\ Tail(t) = MailOnly /\ Head(Tail(t)) = "mail"
    BY <1>4, PlanTails
  <2>2. Tail(t) \notin Inviting /\ Tail(t) \in Plans
    <3>1. MailOnly \notin Inviting /\ MailOnly \in Plans
      BY PlanTails DEF Inviting, Plans
    <3>2. QED BY <2>1, <3>1
  <2>3. QED BY <2>1, <2>2 DEF Plans, Statements
<1>5. CASE t = MailOnly
  <2>1. Len(t) = 1 /\ Head(t) = "mail"
    BY <1>5, PlanTails
  <2>2. t \in Inviting \/ Len(t) = 1
    BY <1>5, <2>1 DEF Inviting
  <2>3. QED BY <2>1, <2>2 DEF Plans, Statements
<1>6. CASE t = MemberOnly
  <2>1. Len(t) = 2 /\ Head(t) = "member" /\ Tail(t) = AuditOnly /\ Head(Tail(t)) = "memberAudit"
    BY <1>6, PlanTails
  <2>2. Tail(t) \notin Inviting /\ Tail(t) \in Plans
    <3>1. AuditOnly \notin Inviting /\ AuditOnly \in Plans
      BY PlanTails DEF Inviting, Plans
    <3>2. QED BY <2>1, <3>1
  <2>3. QED BY <2>1, <2>2 DEF Plans, Statements
<1>7. CASE t = AuditOnly
  <2>1. Len(t) = 1 /\ Head(t) = "memberAudit"
    BY <1>7, PlanTails
  <2>2. t \in Inviting \/ Len(t) = 1
    BY <1>7, <2>1 DEF Inviting
  <2>3. QED BY <2>1, <2>2 DEF Plans, Statements
<1>8. QED BY <1>1, <1>2, <1>3, <1>4, <1>5, <1>6, <1>7 DEF Plans

InviteStates == {"absent", "PENDING", "CANCELLED"}
Reads == {"overwrite", "active", "inactive"} \cup InviteStates
Jobs == [on : Addresses, member : Membership, invite : Invitation, gives : BOOLEAN, read : Reads, todo : Plans]

TeamTyped ==
  /\ member \in [People -> Membership] /\ invite \in [Addresses -> Invitation]
  /\ told \in [Addresses -> [member : Membership, invite : InviteStates]]
  /\ mailed \in [Addresses -> InviteStates]
  /\ work \in [Desks -> {Idle} \cup Jobs]
  /\ begun \in 0..MaxTeamWork /\ stale \subseteq Addresses /\ tangled \subseteq Addresses

\* A membership is written for somebody with an account, and gives access to somebody who had
\* none only if asked to; an invitation is written anew, or over one seen pending.
JobsAreSound ==
  \A d \in Desks : work[d] # Idle =>
    /\ Head(work[d].todo) \in {"member", "memberAudit"} => work[d].on \in People
    /\ Head(work[d].todo) = "member" /\ work[d].read \in {"overwrite", "inactive"} /\ work[d].member.active => work[d].gives
    /\ work[d].todo \in Inviting => work[d].read \in {"overwrite", "PENDING"}

\* What the tables, the audit records and the messages of an address hold while a request
\* that writes membership m and invitation status i is about to run statement h.
Fits(x, h, m, i) ==
  /\ IF h = "memberAudit" THEN member[x] = m ELSE x \in People => told[x].member = member[x]
  /\ IF h = "inviteAudit" THEN invite[x].status = i ELSE told[x].invite = invite[x].status
  /\ IF h \in {"inviteAudit", "mail"} THEN invite[x].status = i ELSE mailed[x] = invite[x].status

JobsAreAlone ==
  \A d \in Desks : \A x \in Addresses \ tangled : work[d] # Idle /\ work[d].on = x =>
    /\ \A o \in Desks \ {d} : work[o] # Idle => work[o].on # x
    /\ \A h \in Statements, m \in Membership, i \in InviteStates :
         h = Head(work[d].todo) /\ m = work[d].member /\ i = work[d].invite.status => Fits(x, h, m, i)

TeamInv == TeamTyped /\ JobsAreSound /\ JobsAreAlone /\ RecordsNameState

LEMMA IdleIsNoJob == Idle \notin Jobs
BY DEF Idle, Jobs

LEMMA TeamInitInv == TeamInit => TeamInv
<1> SUFFICES ASSUME TeamInit PROVE TeamInv
  OBVIOUS
<1>1. member \in [People -> Membership]
  BY TeamAssumption DEF TeamInit, Membership
<1>2. invite \in [Addresses -> Invitation] /\ mailed \in [Addresses -> InviteStates]
  BY DEF TeamInit, Invitation, InviteStates
<1>3. told \in [Addresses -> [member : Membership, invite : InviteStates]]
  <2>1. \A x \in Addresses : (IF x \in People THEN member[x] ELSE Nobody) \in Membership
    BY <1>1 DEF Nobody, Membership
  <2>2. told = [x \in Addresses |-> [member |-> IF x \in People THEN member[x] ELSE Nobody, invite |-> "absent"]]
    BY DEF TeamInit
  <2>3. QED BY <2>1, <2>2 DEF InviteStates
<1>4. TeamTyped
  BY <1>1, <1>2, <1>3, TeamAssumption DEF TeamInit, TeamTyped
<1>5. JobsAreSound /\ JobsAreAlone
  BY DEF TeamInit, JobsAreSound, JobsAreAlone
<1>6. RecordsNameState
  BY DEF TeamInit, RecordsNameState, Addresses
<1>7. QED BY <1>4, <1>5, <1>6 DEF TeamInv

\* A request is begun.
LEMMA ServeKeeps ==
  ASSUME TeamInv, NEW d \in Desks, NEW x \in Addresses, NEW newMember \in Membership, NEW newInvite \in Invitation,
         NEW gives \in BOOLEAN, NEW read \in Reads, NEW todo \in {WholeInvite, InviteOnly, MemberOnly},
         todo \in {WholeInvite, MemberOnly} => x \in People /\ (read \in {"overwrite", "inactive"} /\ newMember.active => gives),
         todo \in {WholeInvite, InviteOnly} => read \in {"overwrite", "PENDING"},
         Serve(d, x, newMember, newInvite, gives, read, todo)
  PROVE  TeamInv'
<1> DEFINE new == [on |-> x, member |-> newMember, invite |-> newInvite, gives |-> gives, read |-> read, todo |-> todo]
<1>1. /\ work[d] = Idle /\ begun < MaxTeamWork /\ begun' = begun + 1 /\ work' = [work EXCEPT ![d] = new]
      /\ tangled' = (IF Busy(x) THEN tangled \cup {x} ELSE tangled)
      /\ member' = member /\ invite' = invite /\ told' = told /\ mailed' = mailed /\ stale' = stale
  BY DEF Serve
<1>2. /\ new \in Jobs /\ new.on = x /\ new.member = newMember /\ new.invite = newInvite /\ new.gives = gives
      /\ new.read = read /\ new.todo = todo
  BY DEF Jobs, Plans
<1> HIDE DEF new
<1>3. work'[d] = new /\ \A o \in Desks \ {d} : work'[o] = work[o]
  BY <1>1 DEF TeamInv, TeamTyped
<1>4. TeamTyped'
  BY <1>1, <1>2, TeamAssumption DEF TeamInv, TeamTyped
<1>5. JobsAreSound'
  <2>1. /\ Head(todo) \in {"member", "memberAudit"} => todo \in {WholeInvite, MemberOnly}
        /\ todo \in Inviting => todo \in {WholeInvite, InviteOnly}
    BY PlanTails DEF Inviting
  <2>2. QED BY <1>2, <1>3, <2>1 DEF TeamInv, JobsAreSound
<1>6. JobsAreAlone'
  <2> SUFFICES ASSUME NEW o \in Desks, NEW y \in Addresses \ tangled', work'[o] # Idle, work'[o].on = y
               PROVE  /\ \A q \in Desks \ {o} : work'[q] # Idle => work'[q].on # y
                      /\ \A h \in Statements, m \in Membership, i \in InviteStates :
                           h = Head(work'[o].todo) /\ m = work'[o].member /\ i = work'[o].invite.status => Fits(y, h, m, i)'
    BY DEF JobsAreAlone
  <2>1. y \notin tangled /\ (y = x => ~Busy(x))
    BY <1>1
  <2>2. \A h, m, i : Fits(y, h, m, i)' <=> Fits(y, h, m, i)
    BY <1>1 DEF Fits
  <2>3. CASE o = d
    <3>1. y = x /\ ~Busy(x) /\ \A q \in Desks \ {d} : work[q] # Idle => work[q].on # x
      BY <1>2, <1>3, <2>1, <2>3 DEF Busy
    <3>2. Head(todo) \in {"member", "invite"}
      BY PlanTails
    <3>3. /\ x \in People => told[x].member = member[x]
          /\ told[x].invite = invite[x].status /\ mailed[x] = invite[x].status
      BY <2>1, <3>1 DEF TeamInv, RecordsNameState
    <3>4. \A m, i : Fits(y, Head(todo), m, i)
      BY <3>1, <3>2, <3>3 DEF Fits
    <3>5. QED BY <1>2, <1>3, <2>2, <2>3, <3>1, <3>4
  <2>4. CASE o # d
    <3>1. work'[o] = work[o] /\ y # x
      BY <1>3, <2>1, <2>4 DEF Busy
    <3>2. QED BY <1>2, <1>3, <2>1, <2>2, <2>4, <3>1 DEF TeamInv, JobsAreAlone
  <2>5. QED BY <2>3, <2>4
<1>7. RecordsNameState'
  <2>1. \A y : Busy(y) => Busy(y)'
    BY <1>1, <1>3 DEF Busy
  <2>2. QED BY <1>1, <2>1 DEF TeamInv, RecordsNameState
<1>8. QED BY <1>4, <1>5, <1>6, <1>7 DEF TeamInv

\* A request goes on to its next statement, or ends with its last one.
LEMMA Advances ==
  ASSUME TeamInv, NEW d \in Desks, NEW w, w = work[d], w # Idle, Advance(d)
  PROVE  /\ w \in Jobs /\ \A o \in Desks \ {d} : work'[o] = work[o]
         /\ Len(w.todo) = 1 => work'[d] = Idle
         /\ Len(w.todo) # 1 => /\ work'[d] \in Jobs /\ work'[d].on = w.on /\ work'[d].member = w.member
                               /\ work'[d].invite = w.invite /\ work'[d].gives = w.gives
                               /\ work'[d].read = w.read /\ work'[d].todo = Tail(w.todo)
         /\ work' \in [Desks -> {Idle} \cup Jobs]
<1> DEFINE new == [w EXCEPT !.todo = Tail(w.todo)]
<1>1. w \in Jobs /\ work \in [Desks -> {Idle} \cup Jobs]
  BY DEF TeamInv, TeamTyped
<1>2. w.todo \in Plans
  BY <1>1 DEF Jobs
<1>3. Len(w.todo) # 1 => /\ new \in Jobs /\ new.on = w.on /\ new.member = w.member /\ new.invite = w.invite
                         /\ new.gives = w.gives /\ new.read = w.read /\ new.todo = Tail(w.todo)
  BY <1>1, <1>2, PlanSteps DEF Jobs
<1> HIDE DEF new
<1>4. work' = [work EXCEPT ![d] = IF Len(w.todo) = 1 THEN Idle ELSE new]
  BY DEF Advance, new
<1>5. QED BY <1>1, <1>3, <1>4

\* A statement that ran: what is left of the request is as sound as before.
LEMMA JobsStaySound ==
  ASSUME TeamInv, NEW d \in Desks, work[d] # Idle, Advance(d) PROVE JobsAreSound'
<1> PICK w : w = work[d]
  OBVIOUS
<1>1. /\ w \in Jobs /\ \A o \in Desks \ {d} : work'[o] = work[o]
      /\ Len(w.todo) = 1 => work'[d] = Idle
      /\ Len(w.todo) # 1 => /\ work'[d] \in Jobs /\ work'[d].on = w.on /\ work'[d].member = w.member
                            /\ work'[d].invite = w.invite /\ work'[d].gives = w.gives
                            /\ work'[d].read = w.read /\ work'[d].todo = Tail(w.todo)
  BY Advances
<1>2. w.todo \in Plans
  BY <1>1 DEF Jobs
<1>3. Len(w.todo) # 1 => /\ Head(Tail(w.todo)) = "memberAudit" => Head(w.todo) = "member"
                         /\ Head(Tail(w.todo)) # "member"
                         /\ Tail(w.todo) \in Inviting => w.todo \in Inviting
  BY <1>2, PlanSteps DEF Statements
<1> SUFFICES ASSUME NEW o \in Desks, work'[o] # Idle
             PROVE  /\ Head(work'[o].todo) \in {"member", "memberAudit"} => work'[o].on \in People
                    /\ Head(work'[o].todo) = "member" /\ work'[o].read \in {"overwrite", "inactive"}
                         /\ work'[o].member.active => work'[o].gives
                    /\ work'[o].todo \in Inviting => work'[o].read \in {"overwrite", "PENDING"}
  BY DEF JobsAreSound
<1>4. \A e \in Desks : work[e] # Idle =>
        /\ Head(work[e].todo) \in {"member", "memberAudit"} => work[e].on \in People
        /\ Head(work[e].todo) = "member" /\ work[e].read \in {"overwrite", "inactive"}
             /\ work[e].member.active => work[e].gives
        /\ work[e].todo \in Inviting => work[e].read \in {"overwrite", "PENDING"}
  BY DEF TeamInv, JobsAreSound
<1>5. CASE o # d
  BY <1>1, <1>4, <1>5
<1>6. CASE o = d
  <2>1. Len(w.todo) # 1
    BY <1>1, <1>6
  <2>2. Head(w.todo) \in {"member", "memberAudit"} => w.on \in People
    BY <1>4
  <2>3. w.todo \in Inviting => w.read \in {"overwrite", "PENDING"}
    BY <1>4
  <2>4. Head(Tail(w.todo)) \in {"member", "memberAudit"} => w.on \in People
    BY <1>3, <2>1, <2>2
  <2>5. QED BY <1>1, <1>3, <1>6, <2>1, <2>3, <2>4
<1>7. QED BY <1>5, <1>6

\* A statement changes its own address alone; there, its records fit the next statement.
LEMMA StatementKeeps ==
  ASSUME TeamInv, NEW d \in Desks, NEW w, w = work[d], w # Idle, NEW x, x = w.on, Advance(d),
         TeamTyped', tangled' = tangled,
         \A y \in Addresses \ {x} : /\ told'[y] = told[y] /\ invite'[y] = invite[y] /\ mailed'[y] = mailed[y]
                                    /\ y \in People => member'[y] = member[y],
         NEW after, after = IF Len(w.todo) = 1 THEN "none" ELSE Head(Tail(w.todo)),
         Fits(x, Head(w.todo), w.member, w.invite.status) => Fits(x, after, w.member, w.invite.status)'
  PROVE  TeamInv'
<1>1. /\ w \in Jobs /\ \A o \in Desks \ {d} : work'[o] = work[o]
      /\ Len(w.todo) = 1 => work'[d] = Idle
      /\ Len(w.todo) # 1 => /\ work'[d] \in Jobs /\ work'[d].on = w.on /\ work'[d].member = w.member
                            /\ work'[d].invite = w.invite /\ work'[d].gives = w.gives
                            /\ work'[d].read = w.read /\ work'[d].todo = Tail(w.todo)
  BY Advances
<1>2. /\ x \in Addresses /\ w.member \in Membership /\ w.invite.status \in InviteStates /\ w.todo \in Plans
      /\ Head(w.todo) \in Statements
  BY <1>1, PlanSteps DEF Jobs, Invitation, InviteStates
<1>3. ASSUME x \notin tangled
      PROVE  /\ \A o \in Desks \ {d} : work[o] # Idle => work[o].on # x
             /\ Fits(x, after, w.member, w.invite.status)'
  BY <1>2, <1>3 DEF TeamInv, JobsAreAlone
<1>4. ASSUME NEW o \in Desks \ {d}, NEW y \in Addresses \ tangled, work[o] # Idle, work[o].on = y, y # x
      PROVE  /\ \A q \in Desks \ {o} : work[q] # Idle => work[q].on # y
             /\ \A h \in Statements, m \in Membership, i \in InviteStates :
                  h = Head(work[o].todo) /\ m = work[o].member /\ i = work[o].invite.status => Fits(y, h, m, i)'
  <2>1. told'[y] = told[y] /\ invite'[y] = invite[y] /\ mailed'[y] = mailed[y] /\ (y \in People => member'[y] = member[y])
    BY <1>4
  <2>2. \A h \in Statements, m \in Membership, i \in InviteStates :
          h = Head(work[o].todo) /\ m = work[o].member /\ i = work[o].invite.status => Fits(y, h, m, i)
    BY <1>4 DEF TeamInv, JobsAreAlone
  <2>3. work[o] \in Jobs
    BY <1>4 DEF TeamInv, TeamTyped
  <2>4. Head(work[o].todo) = "memberAudit" => y \in People
    BY <1>4 DEF TeamInv, JobsAreSound
  <2>5. \A h \in Statements, m \in Membership, i \in InviteStates :
          h = Head(work[o].todo) /\ m = work[o].member /\ i = work[o].invite.status => Fits(y, h, m, i)'
    BY <2>1, <2>2, <2>4 DEF Fits
  <2>6. QED BY <1>4, <2>5 DEF TeamInv, JobsAreAlone
<1>5. JobsAreAlone'
  <2> SUFFICES ASSUME NEW o \in Desks, NEW y \in Addresses \ tangled, work'[o] # Idle, work'[o].on = y
               PROVE  /\ \A q \in Desks \ {o} : work'[q] # Idle => work'[q].on # y
                      /\ \A h \in Statements, m \in Membership, i \in InviteStates :
                           h = Head(work'[o].todo) /\ m = work'[o].member /\ i = work'[o].invite.status => Fits(y, h, m, i)'
    BY DEF JobsAreAlone
  <2>1. CASE o = d
    <3>1. /\ Len(w.todo) # 1 /\ y = x /\ after = Head(work'[o].todo) /\ work'[o].member = w.member
          /\ work'[o].invite = w.invite
      BY <1>1, <2>1
    <3>2. QED BY <1>1, <1>3, <2>1, <3>1
  <2>2. CASE o # d
    <3>1. work'[o] = work[o] /\ y # x
      BY <1>1, <1>3, <2>2
    <3>2. \A q \in Desks \ {o} : work'[q] # Idle => work'[q].on # y
      BY <1>1, <1>4, <2>2, <3>1
    <3>3. QED BY <1>4, <2>2, <3>1, <3>2
  <2>3. QED BY <2>1, <2>2
<1>6. RecordsNameState'
  <2> SUFFICES ASSUME NEW y \in Addresses \ tangled, ~Busy(y)'
               PROVE  /\ y \in People => told'[y].member = member'[y]
                      /\ told'[y].invite = invite'[y].status /\ mailed'[y] = invite'[y].status
    BY DEF RecordsNameState
  <2>1. CASE y = x
    <3>1. work'[d] = Idle \/ work'[d].on # x
      BY <2>1 DEF Busy
    <3>2. Len(w.todo) = 1 /\ after = "none"
      BY <1>1, <3>1, IdleIsNoJob
    <3>3. Fits(x, "none", w.member, w.invite.status)'
      BY <1>3, <2>1, <3>2
    <3>4. QED BY <2>1, <3>3 DEF Fits
  <2>2. CASE y # x
    <3>1. ~Busy(y)
      BY <1>1, <2>2 DEF Busy
    <3>2. QED BY <2>2, <3>1 DEF TeamInv, RecordsNameState
  <2>3. QED BY <2>1, <2>2
<1>7. QED BY <1>5, <1>6, JobsStaySound DEF TeamInv

\* What the invariant says of a request about to run its next statement.
LEMMA AtWork ==
  ASSUME TeamInv, NEW d \in Desks, NEW w, w = work[d], w # Idle
  PROVE  /\ w \in Jobs /\ w.on \in Addresses /\ w.member \in Membership /\ w.invite \in Invitation
         /\ w.invite.status \in InviteStates /\ w.todo \in Plans
         /\ Head(w.todo) \in {"member", "memberAudit"} => w.on \in People
<1>1. w \in Jobs
  BY DEF TeamInv, TeamTyped
<1>2. /\ w.on \in Addresses /\ w.member \in Membership /\ w.invite \in Invitation /\ w.todo \in Plans
  BY <1>1 DEF Jobs
<1>3. w.invite.status \in InviteStates
  BY <1>2 DEF Invitation, InviteStates
<1>4. QED BY <1>1, <1>2, <1>3 DEF TeamInv, JobsAreSound

LEMMA WriteMemberKeeps == ASSUME TeamInv, NEW d \in Desks, WriteMember(d) PROVE TeamInv'
<1> PICK w : w = work[d]
  OBVIOUS
<1> PICK x : x = w.on
  OBVIOUS
<1>1. /\ w # Idle /\ Head(w.todo) = "member" /\ member' = [member EXCEPT ![x] = w.member]
      /\ stale' \in {stale, stale \cup {x}} /\ Advance(d)
      /\ invite' = invite /\ told' = told /\ mailed' = mailed /\ begun' = begun /\ tangled' = tangled
  BY DEF WriteMember, Next1
<1>2. x \in People /\ x \in Addresses /\ w.member \in Membership /\ w.todo \in Plans
  BY <1>1, AtWork
<1>3. Len(w.todo) # 1 /\ Head(Tail(w.todo)) = "memberAudit"
  BY <1>1, <1>2, PlanSteps
<1>4. member' \in [People -> Membership] /\ member'[x] = w.member /\ \A y \in People \ {x} : member'[y] = member[y]
  BY <1>1, <1>2 DEF TeamInv, TeamTyped
<1>5. TeamTyped'
  BY <1>1, <1>2, <1>4, Advances DEF TeamInv, TeamTyped
<1>6. Fits(x, Head(w.todo), w.member, w.invite.status) => Fits(x, "memberAudit", w.member, w.invite.status)'
  BY <1>1, <1>4 DEF Fits
<1>7. QED BY <1>1, <1>3, <1>4, <1>5, <1>6, StatementKeeps

LEMMA AuditMemberKeeps == ASSUME TeamInv, NEW d \in Desks, AuditMember(d) PROVE TeamInv'
<1> PICK w : w = work[d]
  OBVIOUS
<1> PICK x : x = w.on
  OBVIOUS
<1> PICK after : after = IF Len(w.todo) = 1 THEN "none" ELSE Head(Tail(w.todo))
  OBVIOUS
<1> DEFINE new == [told[x] EXCEPT !.member = w.member]
<1>1. /\ w # Idle /\ Head(w.todo) = "memberAudit" /\ told' = [told EXCEPT ![x] = new] /\ Advance(d)
      /\ member' = member /\ invite' = invite /\ mailed' = mailed /\ begun' = begun /\ stale' = stale /\ tangled' = tangled
  BY DEF AuditMember, Next1
<1>2. x \in Addresses /\ w.member \in Membership /\ w.todo \in Plans
  BY <1>1, AtWork
<1>3. after \in {"none", "invite"}
  BY <1>1, <1>2, PlanSteps
<1>4. new \in [member : Membership, invite : InviteStates] /\ new.member = w.member /\ new.invite = told[x].invite
  BY <1>2 DEF TeamInv, TeamTyped
<1> HIDE DEF new
<1>5. /\ told' \in [Addresses -> [member : Membership, invite : InviteStates]]
      /\ told'[x] = new /\ \A y \in Addresses \ {x} : told'[y] = told[y]
  BY <1>1, <1>2, <1>4 DEF TeamInv, TeamTyped
<1>6. TeamTyped'
  BY <1>1, <1>2, <1>5, Advances DEF TeamInv, TeamTyped
<1>7. Fits(x, Head(w.todo), w.member, w.invite.status) => Fits(x, after, w.member, w.invite.status)'
  BY <1>1, <1>3, <1>4, <1>5 DEF Fits
<1>8. QED BY <1>1, <1>5, <1>6, <1>7, StatementKeeps

LEMMA WriteInviteKeeps == ASSUME TeamInv, NEW d \in Desks, WriteInvite(d) PROVE TeamInv'
<1> PICK w : w = work[d]
  OBVIOUS
<1> PICK x : x = w.on
  OBVIOUS
<1> DEFINE new == [status |-> w.invite.status, role |-> IF w.read = "overwrite" THEN w.invite.role ELSE invite[x].role]
<1>1. /\ w # Idle /\ Head(w.todo) = "invite" /\ invite' = [invite EXCEPT ![x] = new]
      /\ stale' \in {stale, stale \cup {x}} /\ Advance(d)
      /\ member' = member /\ told' = told /\ mailed' = mailed /\ begun' = begun /\ tangled' = tangled
  BY DEF WriteInvite, Next1
<1>2. x \in Addresses /\ w.invite \in Invitation /\ w.todo \in Plans
  BY <1>1, AtWork
<1>3. Len(w.todo) # 1 /\ Head(Tail(w.todo)) = "inviteAudit"
  BY <1>1, <1>2, PlanSteps
<1>4. new \in Invitation /\ new.status = w.invite.status
  BY <1>2 DEF TeamInv, TeamTyped, Invitation
<1> HIDE DEF new
<1>5. /\ invite' \in [Addresses -> Invitation] /\ invite'[x] = new
      /\ \A y \in Addresses \ {x} : invite'[y] = invite[y]
  BY <1>1, <1>2, <1>4 DEF TeamInv, TeamTyped
<1>6. TeamTyped'
  BY <1>1, <1>2, <1>5, Advances DEF TeamInv, TeamTyped
<1>7. Fits(x, Head(w.todo), w.member, w.invite.status) => Fits(x, "inviteAudit", w.member, w.invite.status)'
  BY <1>1, <1>4, <1>5 DEF Fits
<1>8. QED BY <1>1, <1>3, <1>5, <1>6, <1>7, StatementKeeps

LEMMA AuditInviteKeeps == ASSUME TeamInv, NEW d \in Desks, AuditInvite(d) PROVE TeamInv'
<1> PICK w : w = work[d]
  OBVIOUS
<1> PICK x : x = w.on
  OBVIOUS
<1> DEFINE new == [told[x] EXCEPT !.invite = w.invite.status]
<1>1. /\ w # Idle /\ Head(w.todo) = "inviteAudit" /\ told' = [told EXCEPT ![x] = new] /\ Advance(d)
      /\ member' = member /\ invite' = invite /\ mailed' = mailed /\ begun' = begun /\ stale' = stale /\ tangled' = tangled
  BY DEF AuditInvite, Next1
<1>2. x \in Addresses /\ w.invite.status \in InviteStates /\ w.todo \in Plans
  BY <1>1, AtWork
<1>3. Len(w.todo) # 1 /\ Head(Tail(w.todo)) = "mail"
  BY <1>1, <1>2, PlanSteps
<1>4. new \in [member : Membership, invite : InviteStates] /\ new.member = told[x].member /\ new.invite = w.invite.status
  BY <1>2 DEF TeamInv, TeamTyped
<1> HIDE DEF new
<1>5. /\ told' \in [Addresses -> [member : Membership, invite : InviteStates]]
      /\ told'[x] = new /\ \A y \in Addresses \ {x} : told'[y] = told[y]
  BY <1>1, <1>2, <1>4 DEF TeamInv, TeamTyped
<1>6. TeamTyped'
  BY <1>1, <1>2, <1>5, Advances DEF TeamInv, TeamTyped
<1>7. Fits(x, Head(w.todo), w.member, w.invite.status) => Fits(x, "mail", w.member, w.invite.status)'
  BY <1>1, <1>4, <1>5 DEF Fits
<1>8. QED BY <1>1, <1>3, <1>5, <1>6, <1>7, StatementKeeps

LEMMA MailInviteKeeps == ASSUME TeamInv, NEW d \in Desks, MailInvite(d) PROVE TeamInv'
<1> PICK w : w = work[d]
  OBVIOUS
<1> PICK x : x = w.on
  OBVIOUS
<1>1. /\ w # Idle /\ Head(w.todo) = "mail" /\ mailed' = [mailed EXCEPT ![x] = w.invite.status] /\ Advance(d)
      /\ member' = member /\ invite' = invite /\ told' = told /\ begun' = begun /\ stale' = stale /\ tangled' = tangled
  BY DEF MailInvite, Next1
<1>2. x \in Addresses /\ w.invite.status \in InviteStates /\ w.todo \in Plans
  BY <1>1, AtWork
<1>3. Len(w.todo) = 1
  BY <1>1, <1>2, PlanSteps
<1>4. /\ mailed' \in [Addresses -> InviteStates] /\ mailed'[x] = w.invite.status
      /\ \A y \in Addresses \ {x} : mailed'[y] = mailed[y]
  BY <1>1, <1>2 DEF TeamInv, TeamTyped
<1>5. TeamTyped'
  BY <1>1, <1>2, <1>4, Advances DEF TeamInv, TeamTyped
<1>6. Fits(x, Head(w.todo), w.member, w.invite.status) => Fits(x, "none", w.member, w.invite.status)'
  BY <1>1, <1>4 DEF Fits
<1>7. QED BY <1>1, <1>3, <1>4, <1>5, <1>6, StatementKeeps

LEMMA TeamBreakOffKeeps == ASSUME TeamInv, NEW d \in Desks, BreakOff(d) PROVE TeamInv'
<1> PICK x : x = work[d].on
  OBVIOUS
<1>1. /\ work[d] # Idle /\ work' = [work EXCEPT ![d] = Idle] /\ tangled' = tangled \cup {x}
      /\ member' = member /\ invite' = invite /\ told' = told /\ mailed' = mailed /\ begun' = begun /\ stale' = stale
  BY DEF BreakOff
<1>2. x \in Addresses
  BY <1>1, AtWork
<1>3. work'[d] = Idle /\ \A o \in Desks \ {d} : work'[o] = work[o]
  BY <1>1 DEF TeamInv, TeamTyped
<1>4. TeamTyped' /\ JobsAreSound'
  BY <1>1, <1>2, <1>3 DEF TeamInv, TeamTyped, JobsAreSound
<1>5. \A y, h, m, i : Fits(y, h, m, i)' <=> Fits(y, h, m, i)
  BY <1>1 DEF Fits
<1>6. JobsAreAlone'
  BY <1>1, <1>3, <1>5 DEF TeamInv, JobsAreAlone
<1>7. RecordsNameState'
  <2>1. \A y : y # x /\ Busy(y) => Busy(y)'
    BY <1>1, <1>3 DEF Busy
  <2>2. QED BY <1>1, <2>1 DEF TeamInv, RecordsNameState
<1>8. QED BY <1>4, <1>6, <1>7 DEF TeamInv

-----------------------------------------------------------------------------
\* The requests that begin.

LEMMA InviteToBusinessKeeps ==
  ASSUME TeamInv, NEW d \in Desks, NEW p \in People, NEW x \in Addresses, NEW role, InviteToBusiness(d, p, x, role)
  PROVE  TeamInv'
<1>1. role \in BusinessAssignable
  BY DEF InviteToBusiness
<1>2. [role |-> role, active |-> TRUE] \in Membership /\ [role |-> role, status |-> "PENDING"] \in Invitation
  BY <1>1 DEF Membership, Invitation
<1>3. CASE x \in People
  <2>1. Serve(d, x, [role |-> role, active |-> TRUE], [role |-> role, status |-> "PENDING"], TRUE, "overwrite", WholeInvite)
    BY <1>3, PlanJoined DEF InviteToBusiness
  <2>2. WholeInvite # InviteOnly /\ WholeInvite # MemberOnly
    BY PlanTails
  <2>3. QED BY <1>2, <1>3, <2>1, <2>2, ServeKeeps DEF Reads
<1>4. CASE x \notin People
  <2> DEFINE joined == (IF x \in People THEN <<"member", "memberAudit">> ELSE <<>>) \o <<"invite", "inviteAudit", "mail">>
  <2>a. (x \in People) = FALSE
    BY <1>4
  <2>b. joined = InviteOnly
    BY <1>4 DEF InviteOnly
  <2>c. Serve(d, x, [role |-> role, active |-> TRUE], [role |-> role, status |-> "PENDING"], x \in People, "overwrite", joined)
    BY DEF InviteToBusiness
  <2> HIDE DEF joined
  <2>1. Serve(d, x, [role |-> role, active |-> TRUE], [role |-> role, status |-> "PENDING"], FALSE, "overwrite", InviteOnly)
    BY <2>a, <2>b, <2>c
  <2>2. InviteOnly # WholeInvite /\ InviteOnly # MemberOnly
    BY PlanTails
  <2>3. QED BY <1>2, <2>1, <2>2, ServeKeeps DEF Reads
<1>5. QED BY <1>3, <1>4

\* Invitations that write no membership.
LEMMA InvitesKeep ==
  ASSUME TeamInv, NEW d \in Desks, NEW x \in Addresses, NEW new \in Invitation, NEW read \in {"overwrite", "PENDING"},
         Serve(d, x, Nobody, new, FALSE, read, <<"invite", "inviteAudit", "mail">>)
  PROVE  TeamInv'
<1>1. Nobody \in Membership /\ read \in Reads
  BY DEF Nobody, Membership, Reads, InviteStates
<1>2. Serve(d, x, Nobody, new, FALSE, read, InviteOnly)
  BY DEF InviteOnly
<1>3. InviteOnly # WholeInvite /\ InviteOnly # MemberOnly
  BY PlanTails
<1>4. QED BY <1>1, <1>2, <1>3, ServeKeeps

LEMMA InviteToFleetKeeps ==
  ASSUME TeamInv, NEW d \in Desks, NEW p \in People, NEW x \in Addresses, NEW role, InviteToFleet(d, p, x, role)
  PROVE  TeamInv'
<1>1. role \in FleetRoles
  BY DEF InviteToFleet, FleetRoles
<1>2. [role |-> role, status |-> "PENDING"] \in Invitation
  BY <1>1 DEF Invitation
<1>3. QED BY <1>2, InvitesKeep DEF InviteToFleet

LEMMA ResendKeeps == ASSUME TeamInv, NEW d \in Desks, NEW x \in Addresses, Resend(d, x) PROVE TeamInv'
<1>1. invite[x] \in Invitation /\ invite[x].status = "PENDING"
  BY DEF Resend, MayResend, TeamInv, TeamTyped
<1>2. [invite[x] EXCEPT !.status = "PENDING"] \in Invitation
  BY <1>1 DEF Invitation
<1>3. Serve(d, x, Nobody, [invite[x] EXCEPT !.status = "PENDING"], FALSE, "PENDING", <<"invite", "inviteAudit", "mail">>)
  BY <1>1 DEF Resend
<1>4. QED BY <1>2, <1>3, InvitesKeep

LEMMA CancelKeeps == ASSUME TeamInv, NEW d \in Desks, NEW x \in Addresses, Cancel(d, x) PROVE TeamInv'
<1>1. invite[x] \in Invitation /\ invite[x].status = "PENDING"
  BY DEF Cancel, MayCancel, TeamInv, TeamTyped
<1>2. [invite[x] EXCEPT !.status = "CANCELLED"] \in Invitation
  BY <1>1 DEF Invitation
<1>3. Serve(d, x, Nobody, [invite[x] EXCEPT !.status = "CANCELLED"], FALSE, "PENDING", <<"invite", "inviteAudit", "mail">>)
  BY <1>1 DEF Cancel
<1>4. QED BY <1>2, <1>3, InvitesKeep

\* Requests that write a membership alone.
LEMMA MembershipsKeep ==
  ASSUME TeamInv, NEW d \in Desks, NEW p \in People, NEW new \in Membership, NEW gives \in BOOLEAN,
         NEW read \in {"overwrite", "active", "inactive"},
         read \in {"overwrite", "inactive"} /\ new.active => gives,
         Serve(d, p, new, [role |-> "none", status |-> "absent"], gives, read, <<"member", "memberAudit">>)
  PROVE  TeamInv'
<1>1. [role |-> "none", status |-> "absent"] \in Invitation /\ read \in Reads /\ p \in Addresses
  BY DEF Invitation, Reads, Addresses
<1>2. Serve(d, p, new, [role |-> "none", status |-> "absent"], gives, read, MemberOnly)
  BY DEF MemberOnly
<1>3. MemberOnly # WholeInvite /\ MemberOnly # InviteOnly
  BY PlanTails
<1>4. QED BY <1>1, <1>2, <1>3, ServeKeeps

LEMMA UpdateMembershipKeeps ==
  ASSUME TeamInv, NEW d \in Desks, NEW p \in People, NEW role \in BusinessAssignable \cup FleetRoles \cup {"keep"},
         NEW active \in {"keep", "yes", "no"}, UpdateMembership(d, p, role, active)
  PROVE  TeamInv'
<1> DEFINE new == [role |-> NextRole(p, role), active |-> NextActive(p, active)]
           gives == active = "yes"
           read == Access(p)
<1>1. member[p] \in Membership
  BY DEF TeamInv, TeamTyped
<1>2. member[p].active \in BOOLEAN /\ member[p].role \in BusinessAssignable \cup FleetRoles \cup {"none"}
  BY <1>1 DEF Membership
<1>3. new \in Membership /\ new.active = NextActive(p, active)
  BY <1>2 DEF Membership, NextRole, NextActive
<1>4. gives \in BOOLEAN /\ read \in {"overwrite", "active", "inactive"}
  BY DEF Access
<1>5. read \in {"overwrite", "inactive"} /\ new.active => gives
  BY <1>2, <1>3 DEF Access, NextActive
<1>6. Serve(d, p, new, [role |-> "none", status |-> "absent"], gives, read, <<"member", "memberAudit">>)
  BY DEF UpdateMembership
<1> HIDE DEF new, gives, read
<1>7. QED BY <1>3, <1>4, <1>5, <1>6, MembershipsKeep

LEMMA AddFleetDriverKeeps ==
  ASSUME TeamInv, NEW d \in Desks, NEW p \in People, NEW role, AddFleetDriver(d, p, role) PROVE TeamInv'
<1>1. /\ role \in FleetRoles
      /\ Serve(d, p, [role |-> role, active |-> TRUE], [role |-> "none", status |-> "absent"], TRUE, "overwrite",
               <<"member", "memberAudit">>)
  BY DEF AddFleetDriver
<1>2. [role |-> role, active |-> TRUE] \in Membership
  BY <1>1 DEF Membership
<1>3. QED BY <1>1, <1>2, MembershipsKeep

LEMMA TeamStepInv == TeamInv /\ [TeamNext]_teamVars => TeamInv'
<1> SUFFICES ASSUME TeamInv, [TeamNext]_teamVars PROVE TeamInv'
  OBVIOUS
<1>1. CASE TeamNext
  <2> PICK d \in Desks :
        \/ \E p \in People, x \in Addresses :
             \/ \E role \in {"MANAGER", "OPERATOR"} : InviteToBusiness(d, p, x, role)
             \/ \E role \in {"FLEET_MANAGER", "DRIVER"} : InviteToFleet(d, p, x, role)
             \/ ResendByManager(d, p, x) \/ CancelByManager(d, p, x)
        \/ \E x \in Addresses : Resend(d, x) \/ Cancel(d, x)
        \/ \E q \in People, active \in {"keep", "yes", "no"} :
             \/ \E p \in People, role \in {"keep", "OPERATOR"} : UpdateByManager(d, p, q, role, active)
             \/ \E role \in {"keep", "DRIVER"} : UpdateFleetMember(d, q, role, active)
        \/ \E p \in People : AddFleetDriver(d, p, "DRIVER")
        \/ WriteMember(d) \/ WriteInvite(d) \/ AuditMember(d) \/ AuditInvite(d) \/ MailInvite(d) \/ BreakOff(d)
    BY <1>1 DEF TeamNext
  <2>1. ASSUME NEW p \in People, NEW x \in Addresses, NEW role,
               InviteToBusiness(d, p, x, role) \/ InviteToFleet(d, p, x, role)
        PROVE  TeamInv'
    BY <2>1, InviteToBusinessKeeps, InviteToFleetKeeps
  <2>2. ASSUME NEW p \in People, NEW x \in Addresses,
               \/ ResendByManager(d, p, x) \/ CancelByManager(d, p, x) \/ Resend(d, x) \/ Cancel(d, x)
        PROVE  TeamInv'
    BY <2>2, ResendKeeps, CancelKeeps DEF ResendByManager, CancelByManager
  <2>3. ASSUME NEW x \in Addresses, Resend(d, x) \/ Cancel(d, x) PROVE TeamInv'
    BY <2>3, ResendKeeps, CancelKeeps
  <2>4. ASSUME NEW p, NEW q \in People, NEW active \in {"keep", "yes", "no"}, NEW role,
               UpdateByManager(d, p, q, role, active) \/ UpdateFleetMember(d, q, role, active)
        PROVE  TeamInv'
    BY <2>4, UpdateMembershipKeeps DEF UpdateByManager, UpdateFleetMember
  <2>5. ASSUME NEW p \in People, AddFleetDriver(d, p, "DRIVER") PROVE TeamInv'
    BY <2>5, AddFleetDriverKeeps
  <2>6. CASE WriteMember(d) \/ WriteInvite(d) \/ AuditMember(d) \/ AuditInvite(d) \/ MailInvite(d) \/ BreakOff(d)
    BY <2>6, WriteMemberKeeps, WriteInviteKeeps, AuditMemberKeeps, AuditInviteKeeps, MailInviteKeeps, TeamBreakOffKeeps
  <2>7. QED BY <2>1, <2>2, <2>3, <2>4, <2>5, <2>6
<1>2. CASE UNCHANGED teamVars
  BY <1>2 DEF teamVars, TeamInv, TeamTyped, JobsAreSound, JobsAreAlone, Fits, RecordsNameState, Busy
<1>3. QED BY <1>1, <1>2

LEMMA TeamInvTyped == TeamInv => TeamTypeOK
<1> SUFFICES ASSUME TeamInv PROVE TeamTypeOK
  OBVIOUS
<1>1. \A d \in Desks : work[d] # Idle => work[d].on \in Addresses /\ work[d].todo \in Seq(Statements) /\ work[d].todo # <<>>
  BY AtWork, PlansAreStatements
<1>2. QED BY <1>1 DEF TeamInv, TeamTyped, TeamTypeOK, InviteStates

\* Rows are written by the statements of the requests alone.
LEMMA StatementsWriteRows ==
  ASSUME TeamNext
  PROVE  \/ member' = member /\ invite' = invite
         \/ member' = member /\ \E d \in Desks : WriteInvite(d)
         \/ invite' = invite /\ \E d \in Desks : WriteMember(d)
<1> PICK d \in Desks :
      \/ \E p \in People, x \in Addresses :
           \/ \E role \in {"MANAGER", "OPERATOR"} : InviteToBusiness(d, p, x, role)
           \/ \E role \in {"FLEET_MANAGER", "DRIVER"} : InviteToFleet(d, p, x, role)
           \/ ResendByManager(d, p, x) \/ CancelByManager(d, p, x)
      \/ \E x \in Addresses : Resend(d, x) \/ Cancel(d, x)
      \/ \E q \in People, active \in {"keep", "yes", "no"} :
           \/ \E p \in People, role \in {"keep", "OPERATOR"} : UpdateByManager(d, p, q, role, active)
           \/ \E role \in {"keep", "DRIVER"} : UpdateFleetMember(d, q, role, active)
      \/ \E p \in People : AddFleetDriver(d, p, "DRIVER")
      \/ WriteMember(d) \/ WriteInvite(d) \/ AuditMember(d) \/ AuditInvite(d) \/ MailInvite(d) \/ BreakOff(d)
  BY DEF TeamNext
<1>1. ASSUME NEW x, NEW m, NEW i, NEW gives, NEW read, NEW todo, Serve(d, x, m, i, gives, read, todo)
      PROVE  member' = member /\ invite' = invite
  BY <1>1 DEF Serve
<1>2. ASSUME NEW p, NEW x, NEW role, InviteToBusiness(d, p, x, role) \/ InviteToFleet(d, p, x, role)
      PROVE  member' = member /\ invite' = invite
  BY <1>1, <1>2 DEF InviteToBusiness, InviteToFleet
<1>3. ASSUME NEW x, Resend(d, x) \/ Cancel(d, x)
      PROVE  member' = member /\ invite' = invite
  BY <1>1, <1>3 DEF Resend, Cancel
<1>4. ASSUME NEW p, NEW x, ResendByManager(d, p, x) \/ CancelByManager(d, p, x)
      PROVE  member' = member /\ invite' = invite
  BY <1>3, <1>4 DEF ResendByManager, CancelByManager
<1>5. ASSUME NEW p, NEW q, NEW role, NEW active, UpdateByManager(d, p, q, role, active) \/ UpdateFleetMember(d, q, role, active)
      PROVE  member' = member /\ invite' = invite
  BY <1>1, <1>5 DEF UpdateByManager, UpdateFleetMember, UpdateMembership
<1>6. ASSUME NEW p, AddFleetDriver(d, p, "DRIVER")
      PROVE  member' = member /\ invite' = invite
  BY <1>1, <1>6 DEF AddFleetDriver
<1>7. CASE WriteMember(d) \/ WriteInvite(d) \/ AuditMember(d) \/ AuditInvite(d) \/ MailInvite(d) \/ BreakOff(d)
  BY <1>7 DEF WriteMember, WriteInvite, AuditMember, AuditInvite, MailInvite, BreakOff
<1>8. QED BY <1>2, <1>3, <1>4, <1>5, <1>6, <1>7

\* A cancelled invitation is not revived by a request that read it pending, unless it is stale.
LEMMA CancelledStep ==
  ASSUME TeamInv, [TeamNext]_teamVars, NEW x \in Addresses \ stale',
         invite[x].status = "CANCELLED", invite'[x].status = "PENDING"
  PROVE  \E d \in Desks : Next1(d, "invite") /\ work[d].on = x /\ work[d].read = "overwrite"
<1>1. invite' # invite
  OBVIOUS
<1>2. PICK d \in Desks : WriteInvite(d)
  BY <1>1, StatementsWriteRows DEF teamVars
<1> PICK w : w = work[d]
  OBVIOUS
<1>3. /\ Next1(d, "invite") /\ w # Idle /\ Head(w.todo) = "invite"
      /\ \A y : y # w.on /\ y \in Addresses => invite'[y] = invite[y]
      /\ stale' = IF Stale(d, invite[w.on].status) THEN stale \cup {w.on} ELSE stale
  BY <1>2 DEF WriteInvite, Next1, TeamInv, TeamTyped
<1>4. w.on = x
  BY <1>3
<1>5. w.todo \in Inviting
  BY <1>3, AtWork, PlanSteps
<1>6. w.read \in {"overwrite", "PENDING"}
  BY <1>3, <1>5 DEF TeamInv, JobsAreSound
<1>7. w.read # "PENDING"
  BY <1>3, <1>4 DEF Stale
<1>8. QED BY <1>3, <1>4, <1>6, <1>7

\* Access that was taken away comes back only by a request that gives it, unless it is stale.
LEMMA DeactivatedStep ==
  ASSUME TeamInv, [TeamNext]_teamVars, NEW p \in People \ stale', ~member[p].active, member'[p].active
  PROVE  \E d \in Desks : Next1(d, "member") /\ work[d].on = p /\ work[d].gives
<1>1. member' # member
  OBVIOUS
<1>2. PICK d \in Desks : WriteMember(d)
  BY <1>1, StatementsWriteRows DEF teamVars
<1> PICK w : w = work[d]
  OBVIOUS
<1>3. /\ Next1(d, "member") /\ w # Idle /\ Head(w.todo) = "member"
      /\ member' = [member EXCEPT ![w.on] = w.member]
      /\ stale' = IF Stale(d, Access(w.on)) THEN stale \cup {w.on} ELSE stale
  BY <1>2 DEF WriteMember, Next1
<1>4. w.on = p /\ w.member.active
  BY <1>3 DEF TeamInv, TeamTyped
<1>5. w.read \in {"overwrite", "inactive"}
  BY <1>3, <1>4 DEF Stale, Access
<1>6. w.gives
  BY <1>3, <1>4, <1>5 DEF TeamInv, JobsAreSound
<1>7. QED BY <1>3, <1>4, <1>6

-----------------------------------------------------------------------------
\* Demo requests, support escalations and the resets of both.

\* A row under update was there, and has changed since exactly if it counts more writes.
RequestReads ==
  \A a \in Admins : requestRead[a] # NotReading =>
    LET r == requestRead[a].id
    IN /\ requests[r].status # "absent" /\ requestRead[a].row.writes <= requests[r].writes
       /\ requestRead[a].row.writes = requests[r].writes => requestRead[a].row = requests[r]

EscalationReads ==
  \A o \in Operators : escalationRead[o] # NoUpdate =>
    LET e == escalationRead[o].id
    IN /\ escalations[e].status # "absent" /\ escalationRead[o].row.writes <= escalations[e].writes
       /\ escalationRead[o].row.writes = escalations[e].writes => escalationRead[o].row = escalations[e]

Previews == [running : {TRUE}, requests : SUBSET Requests, escalations : SUBSET Escalations,
             seenRequests : [Requests -> Row], seenEscalations : [Escalations -> EscalationRow]]

\* A reset under way chose no qualified request and only open escalations, of which it too can
\* tell whether they have changed.
PreviewIsSound ==
  resetPreview # NoReset =>
    /\ resetPreview \in Previews
    /\ \A r \in resetPreview.requests : resetPreview.seenRequests[r].status # "QUALIFIED"
    /\ \A e \in resetPreview.escalations :
         LET seen == resetPreview.seenEscalations[e]
         IN /\ seen.status \in OpenStatuses /\ escalations[e].status # "absent"
            /\ seen.writes <= escalations[e].writes
            /\ seen.writes = escalations[e].writes => seen = escalations[e]

RequestsInv == RequestsTypeOK /\ resetClosed \subseteq Requests /\ RequestReads /\ RequestHistoryTells
EscalationsInv == EscalationsTypeOK /\ EscalationReads /\ EscalationHistoryTells /\ ResolverMatchesStatus
DeskInv == RequestsInv /\ EscalationsInv /\ PreviewIsSound

LEMMA DeskInitInv == DeskInit => DeskInv
<1> SUFFICES ASSUME DeskInit PROVE DeskInv
  OBVIOUS
<1>1. RequestsInv
  <2>1. RequestsTypeOK
    BY ColumnsAssumption DEF DeskInit, RequestsInit, RequestsTypeOK, Row
  <2>2. RequestReads /\ RequestHistoryTells
    BY DEF DeskInit, RequestsInit, RequestReads, RequestHistoryTells, Closed
  <2>3. QED BY <2>1, <2>2 DEF DeskInit, RequestsInv
<1>2. EscalationsInv
  <2>1. EscalationsTypeOK
    BY EscalationsAssumption DEF DeskInit, EscalationsInit, EscalationsTypeOK, EscalationRow
  <2>2. EscalationReads /\ EscalationHistoryTells /\ ResolverMatchesStatus
    BY DEF DeskInit, EscalationsInit, EscalationReads, EscalationHistoryTells, ResolverMatchesStatus
  <2>3. QED BY <2>1, <2>2 DEF EscalationsInv
<1>3. PreviewIsSound
  BY DEF DeskInit, PreviewIsSound
<1>4. QED BY <1>1, <1>2, <1>3 DEF DeskInv

-----------------------------------------------------------------------------
\* Requests

\* What one column of a row, or the count of announced differences, may be.
LEMMA MessagesAreCounted == ASSUME NEW p, NEW n PROVE Messages(p, n) \in Nat
<1> DEFINE S == {c \in Columns \cap Announced : p.columns[c] # n.columns[c]}
<1>1. IsFiniteSet(Announced)
  <2>1. IsFiniteSet({"nextFollowUpAt"})
    BY FS_Singleton
  <2>2. Announced = {"nextFollowUpAt"} \cup {"lastContactedAt"}
    BY DEF Announced
  <2>3. QED BY <2>1, <2>2, FS_AddElement
<1>2. S \subseteq Announced
  OBVIOUS
<1>3. IsFiniteSet(S)
  BY <1>1, <1>2, FS_Subset
<1>4. Cardinality(S) \in Nat
  BY <1>3, FS_CardinalityType
<1> HIDE DEF S
<1>5. Messages(p, n) = (IF p.status = n.status THEN 0 ELSE 1) + Cardinality(S)
  BY DEF Messages, S
<1>6. QED BY <1>4, <1>5

LEMMA CreateRequestKeeps ==
  ASSUME RequestsInv, NEW r \in Requests, CreateRequest(r), UNCHANGED resetClosed PROVE RequestsInv'
<1> DEFINE new == [requests[r] EXCEPT !.status = "NEW"]
           tells == [requestTold[r] EXCEPT !.type = "CREATED", !.status = "NEW"]
<1>1. /\ requests[r].status = "absent" /\ requests' = [requests EXCEPT ![r] = new]
      /\ requestTold' = [requestTold EXCEPT ![r] = tells]
      /\ requestMail' = requestMail /\ requestRead' = requestRead /\ requestRaced' = requestRaced
      /\ resetClosed' = resetClosed
  BY DEF CreateRequest, RequestsInv, RequestsTypeOK
<1>2. RequestsTypeOK
  BY DEF RequestsInv
<1>3. /\ new \in Row /\ new.status = "NEW" /\ new.columns = requests[r].columns
  <2>1. requests[r] \in Row
    BY <1>2 DEF RequestsTypeOK
  <2>2. QED BY <2>1 DEF Row, RequestStatuses
<1>4. /\ tells \in [type : {"none", "CREATED", "STATUS_CHANGED", "CLOSED", "REOPENED"},
                   status : RequestStatuses \cup {"absent"}, columns : [Columns -> Entries \cup {"none", "reset"}]]
      /\ tells.type = "CREATED" /\ tells.status = "NEW" /\ tells.columns = requestTold[r].columns
  BY <1>2 DEF RequestsTypeOK, RequestStatuses
<1> HIDE DEF new, tells
<1>5. RequestsTypeOK'
  BY <1>1, <1>2, <1>3, <1>4 DEF RequestsTypeOK
<1>6. RequestReads'
  BY <1>1, <1>2 DEF RequestsInv, RequestReads, RequestsTypeOK
<1>7. RequestHistoryTells'
  <2> SUFFICES ASSUME NEW q \in Requests \ (requestRaced \cup resetClosed)
               PROVE  /\ requestTold'[q].status = requests'[q].status
                      /\ requestTold'[q].columns = requests'[q].columns
                      /\ requestTold'[q].type = "CLOSED" <=> Closed(requests'[q].status)
    BY <1>1 DEF RequestHistoryTells, Closed
  <2>1. /\ requestTold[q].status = requests[q].status /\ requestTold[q].columns = requests[q].columns
        /\ requestTold[q].type = "CLOSED" <=> Closed(requests[q].status)
    BY DEF RequestsInv, RequestHistoryTells
  <2>2. CASE q = r
    BY <1>1, <1>2, <1>3, <1>4, <2>1, <2>2 DEF RequestsTypeOK, Closed
  <2>3. CASE q # r
    <3>1. requests'[q] = requests[q] /\ requestTold'[q] = requestTold[q]
      BY <1>1, <1>2, <2>3 DEF RequestsTypeOK
    <3>2. QED BY <2>1, <3>1
  <2>4. QED BY <2>2, <2>3
<1>8. QED BY <1>1, <1>5, <1>6, <1>7 DEF RequestsInv

LEMMA ReadRequestKeeps ==
  ASSUME RequestsInv, NEW a \in Admins, NEW r \in Requests, ReadRequest(a, r), UNCHANGED resetClosed
  PROVE  RequestsInv'
<1> DEFINE new == [id |-> r, row |-> requests[r]]
<1>1. /\ requests[r].status # "absent" /\ requestRead' = [requestRead EXCEPT ![a] = new]
      /\ requests' = requests /\ requestTold' = requestTold /\ requestMail' = requestMail
      /\ requestRaced' = requestRaced /\ resetClosed' = resetClosed
  BY DEF ReadRequest
<1>2. RequestsTypeOK /\ requests[r].writes \in Nat
  BY ColumnsAssumption DEF RequestsInv, RequestsTypeOK, Row
<1>3. new \in [id : Requests, row : Row] /\ new.id = r /\ new.row = requests[r]
  BY <1>2 DEF RequestsTypeOK
<1> HIDE DEF new
<1>4. RequestsTypeOK'
  BY <1>1, <1>2, <1>3 DEF RequestsTypeOK
<1>5. RequestReads'
  BY <1>1, <1>2, <1>3 DEF RequestsInv, RequestReads, RequestsTypeOK
<1>6. RequestHistoryTells'
  BY <1>1 DEF RequestsInv, RequestHistoryTells
<1>7. QED BY <1>1, <1>4, <1>5, <1>6 DEF RequestsInv

LEMMA AbandonRequestKeeps ==
  ASSUME RequestsInv, NEW a \in Admins, AbandonRequest(a), UNCHANGED resetClosed PROVE RequestsInv'
<1>1. /\ requestRead' = [requestRead EXCEPT ![a] = NotReading]
      /\ requests' = requests /\ requestTold' = requestTold /\ requestMail' = requestMail
      /\ requestRaced' = requestRaced /\ resetClosed' = resetClosed
  BY DEF AbandonRequest
<1>2. RequestsTypeOK' /\ RequestReads' /\ RequestHistoryTells'
  BY <1>1 DEF RequestsInv, RequestsTypeOK, RequestReads, RequestHistoryTells
<1>3. QED BY <1>1, <1>2 DEF RequestsInv

LEMMA WriteRequestKeeps ==
  ASSUME RequestsInv, NEW a \in Admins, NEW input \in UpdateInputs, WriteRequest(a, input[1], input[2]),
         UNCHANGED resetClosed
  PROVE  RequestsInv'
<1> PICK status, entry : status = input[1] /\ entry = input[2]
  OBVIOUS
<1> PICK r : r = requestRead[a].id
  OBVIOUS
<1> PICK read : read = requestRead[a].row
  OBVIOUS
<1> DEFINE next == [status  |-> IF status = "keep" THEN requests[r].status ELSE status,
                    columns |-> [c \in Columns |-> IF c \in DOMAIN entry THEN entry[c] ELSE requests[r].columns[c]],
                    writes  |-> requests[r].writes + 1]
           tells == EventsTell(requestTold[r], read, next)
<1>1. /\ requestRead[a] # NotReading /\ requests[r].writes < MaxRequestWrites
      /\ requests' = [requests EXCEPT ![r] = next] /\ requestTold' = [requestTold EXCEPT ![r] = tells]
      /\ requestMail' = [requestMail EXCEPT ![r] = requestMail[r] + Messages(read, next)]
      /\ requestRaced' = (IF read.writes = requests[r].writes THEN requestRaced ELSE requestRaced \cup {r})
      /\ requestRead' = [requestRead EXCEPT ![a] = NotReading] /\ resetClosed' = resetClosed
  BY DEF WriteRequest
<1>2. RequestsTypeOK
  BY DEF RequestsInv
<1>3. r \in Requests /\ read \in Row /\ requests[r] \in Row
  BY <1>1, <1>2 DEF RequestsTypeOK
<1>4. status \in RequestStatuses \cup {"keep"} /\ \A c \in DOMAIN entry : entry[c] \in Entries \cup {"none"}
  <2>1. input \in (RequestStatuses \cup {"keep"})
                  \X UNION {[C -> Entries \cup {"none"}] : C \in {D \in SUBSET Columns : Cardinality(D) < 2}}
    BY DEF UpdateInputs
  <2>2. QED BY <2>1
<1>5. requests[r].status # "absent" /\ (read.writes = requests[r].writes => read = requests[r])
  BY <1>1 DEF RequestsInv, RequestReads
<1>6. /\ next.status \in RequestStatuses /\ next.columns \in [Columns -> Entries \cup {"none", "reset"}]
      /\ next.writes = requests[r].writes + 1 /\ requests[r].writes \in Nat /\ next.writes \in 0..MaxRequestWrites
  BY <1>1, <1>3, <1>4, <1>5, ColumnsAssumption DEF Row, RequestStatuses
<1>7. next \in Row
  BY <1>6 DEF Row
<1>8. requestTold[r] \in [type : {"none", "CREATED", "STATUS_CHANGED", "CLOSED", "REOPENED"},
                          status : RequestStatuses \cup {"absent"}, columns : [Columns -> Entries \cup {"none", "reset"}]]
  BY <1>2, <1>3 DEF RequestsTypeOK
<1> HIDE DEF next
<1>9. /\ tells.type = (IF read.status = next.status THEN requestTold[r].type ELSE StatusEvent(read.status, next.status))
      /\ tells.status = (IF read.status = next.status THEN requestTold[r].status ELSE next.status)
      /\ tells.columns = [c \in Columns |-> IF read.columns[c] = next.columns[c]
                                            THEN requestTold[r].columns[c] ELSE next.columns[c]]
      /\ tells = [type |-> tells.type, status |-> tells.status, columns |-> tells.columns]
  BY DEF EventsTell
<1>10. tells \in [type : {"none", "CREATED", "STATUS_CHANGED", "CLOSED", "REOPENED"},
                 status : RequestStatuses \cup {"absent"}, columns : [Columns -> Entries \cup {"none", "reset"}]]
  <2>1. tells.type \in {"none", "CREATED", "STATUS_CHANGED", "CLOSED", "REOPENED"}
    BY <1>8, <1>9 DEF StatusEvent
  <2>2. tells.status \in RequestStatuses \cup {"absent"}
    BY <1>6, <1>8, <1>9
  <2>3. tells.columns \in [Columns -> Entries \cup {"none", "reset"}]
    <3>1. /\ next.columns \in [Columns -> Entries \cup {"none", "reset"}]
          /\ requestTold[r].columns \in [Columns -> Entries \cup {"none", "reset"}]
      BY <1>6, <1>8
    <3>2. tells.columns = [c \in Columns |-> IF read.columns[c] = next.columns[c]
                                             THEN requestTold[r].columns[c] ELSE next.columns[c]]
      BY <1>9
    <3> HIDE DEF tells
    <3>3. QED BY <3>1, <3>2
  <2> HIDE DEF tells
  <2>4. QED BY <1>9, <2>1, <2>2, <2>3
<1> HIDE DEF tells
<1>11. /\ requests'[r] = next /\ requestTold'[r] = tells
       /\ \A q \in Requests \ {r} : requests'[q] = requests[q] /\ requestTold'[q] = requestTold[q]
       /\ requestRead'[a] = NotReading /\ \A o \in Admins \ {a} : requestRead'[o] = requestRead[o]
  BY <1>1, <1>2, <1>3 DEF RequestsTypeOK
<1>12. RequestsTypeOK'
  <2>1. requestMail' \in [Requests -> Nat]
    <3>1. requestMail[r] + Messages(read, next) \in Nat
      BY <1>2, <1>3, MessagesAreCounted DEF RequestsTypeOK
    <3>2. QED BY <1>1, <1>2, <3>1 DEF RequestsTypeOK
  <2>2. requests' \in [Requests -> Row]
    BY <1>1, <1>2, <1>7 DEF RequestsTypeOK
  <2>3. requestTold' \in [Requests -> [type : {"none", "CREATED", "STATUS_CHANGED", "CLOSED", "REOPENED"},
                                       status : RequestStatuses \cup {"absent"},
                                       columns : [Columns -> Entries \cup {"none", "reset"}]]]
    BY <1>1, <1>2, <1>10 DEF RequestsTypeOK
  <2>4. QED BY <1>1, <1>2, <1>3, <2>1, <2>2, <2>3 DEF RequestsTypeOK
<1>13. RequestReads'
  <2> SUFFICES ASSUME NEW o \in Admins, requestRead'[o] # NotReading,
                      NEW q, q = requestRead'[o].id
               PROVE  /\ requests'[q].status # "absent" /\ requestRead'[o].row.writes <= requests'[q].writes
                      /\ requestRead'[o].row.writes = requests'[q].writes => requestRead'[o].row = requests'[q]
    BY DEF RequestReads
  <2>1. requestRead'[o] = requestRead[o] /\ q \in Requests /\ requestRead[o].row \in Row
    BY <1>2, <1>11 DEF RequestsTypeOK
  <2>2. /\ requests[q].status # "absent" /\ requestRead[o].row.writes <= requests[q].writes
        /\ requestRead[o].row.writes = requests[q].writes => requestRead[o].row = requests[q]
    BY <2>1 DEF RequestsInv, RequestReads
  <2>3. requestRead[o].row.writes \in Nat
    BY <2>1, ColumnsAssumption DEF Row
  <2>4. CASE q = r
    <3>1. next.status # "absent"
      BY <1>6 DEF RequestStatuses
    <3>2. requestRead[o].row.writes < next.writes
      BY <1>6, <2>2, <2>3, <2>4
    <3>3. QED BY <1>6, <1>11, <2>1, <2>3, <2>4, <3>1, <3>2
  <2>5. CASE q # r
    BY <1>11, <2>1, <2>2, <2>5
  <2>6. QED BY <2>4, <2>5
<1>14. RequestHistoryTells'
  <2> SUFFICES ASSUME NEW q \in Requests, q \notin requestRaced', q \notin resetClosed
               PROVE  /\ requestTold'[q].status = requests'[q].status
                      /\ requestTold'[q].columns = requests'[q].columns
                      /\ requestTold'[q].type = "CLOSED" <=> Closed(requests'[q].status)
    BY <1>1 DEF RequestHistoryTells, Closed
  <2>1. /\ requestTold[q].status = requests[q].status /\ requestTold[q].columns = requests[q].columns
        /\ requestTold[q].type = "CLOSED" <=> Closed(requests[q].status)
    BY <1>1 DEF RequestsInv, RequestHistoryTells
  <2>2. CASE q = r
    <3>1. read = requests[r]
      BY <1>1, <1>5, <2>2
    <3>2. tells.status = next.status
      BY <1>9, <2>1, <2>2, <3>1
    <3>3. tells.columns = next.columns
      <4>1. \A c \in Columns : tells.columns[c] = next.columns[c]
        BY <1>9, <2>1, <2>2, <3>1
      <4>2. tells.columns \in [Columns -> Entries \cup {"none", "reset"}]
        BY <1>10
      <4>3. QED BY <1>6, <4>1, <4>2
    <3>4. tells.type = "CLOSED" <=> Closed(next.status)
      BY <1>9, <2>1, <2>2, <3>1 DEF StatusEvent
    <3>5. QED BY <1>11, <2>2, <3>2, <3>3, <3>4
  <2>3. CASE q # r
    BY <1>11, <2>1, <2>3
  <2>4. QED BY <2>2, <2>3
<1>15. QED BY <1>1, <1>12, <1>13, <1>14 DEF RequestsInv

LEMMA RequestsStep ==
  ASSUME RequestsInv, RequestsNext \/ UNCHANGED requestVars, UNCHANGED resetClosed PROVE RequestsInv'
<1>1. CASE RequestsNext
  BY <1>1, CreateRequestKeeps, ReadRequestKeeps, AbandonRequestKeeps, WriteRequestKeeps DEF RequestsNext
<1>2. CASE UNCHANGED requestVars
  BY <1>2 DEF requestVars, RequestsInv, RequestsTypeOK, RequestReads, RequestHistoryTells
<1>3. QED BY <1>1, <1>2

-----------------------------------------------------------------------------
\* Escalations

LEMMA CreateEscalationKeeps ==
  ASSUME EscalationsInv, NEW e \in Escalations, NEW status \in OpenStatuses \cup FinalStatuses,
         CreateEscalation(e, status)
  PROVE  EscalationsInv'
<1> DEFINE new == [escalations[e] EXCEPT !.status = status]
<1>1. /\ escalations[e].status = "absent" /\ escalations' = [escalations EXCEPT ![e] = new]
      /\ escalationTold' = [escalationTold EXCEPT ![e] = status]
      /\ escalationRead' = escalationRead /\ escalationRaced' = escalationRaced
  BY DEF CreateEscalation
<1>2. EscalationsTypeOK
  BY DEF EscalationsInv
<1>3. escalations[e] \in EscalationRow
  BY <1>2 DEF EscalationsTypeOK
<1>4. new \in EscalationRow /\ new.status = status /\ new.resolver = escalations[e].resolver
  BY <1>3 DEF EscalationRow
<1> HIDE DEF new
<1>5. EscalationsTypeOK'
  BY <1>1, <1>2, <1>4 DEF EscalationsTypeOK
<1>6. /\ escalations'[e] = new /\ escalationTold'[e] = status
      /\ \A q \in Escalations \ {e} : escalations'[q] = escalations[q] /\ escalationTold'[q] = escalationTold[q]
  BY <1>1, <1>2 DEF EscalationsTypeOK
<1>7. EscalationReads'
  BY <1>1, <1>2, <1>6 DEF EscalationsInv, EscalationReads, EscalationsTypeOK
<1>8. EscalationHistoryTells'
  BY <1>1, <1>4, <1>6 DEF EscalationsInv, EscalationHistoryTells
<1>9. ResolverMatchesStatus'
  <2>1. escalations[e].resolver = "none"
    BY <1>1 DEF EscalationsInv, ResolverMatchesStatus, FinalStatuses
  <2>2. QED BY <1>4, <1>6, <2>1 DEF EscalationsInv, ResolverMatchesStatus
<1>10. QED BY <1>5, <1>7, <1>8, <1>9 DEF EscalationsInv

LEMMA ReadEscalationKeeps ==
  ASSUME EscalationsInv, NEW o \in Operators, NEW e \in Escalations, ReadEscalation(o, e)
  PROVE  EscalationsInv'
<1> DEFINE new == [id |-> e, row |-> escalations[e]]
<1>1. /\ escalations[e].status # "absent" /\ escalationRead' = [escalationRead EXCEPT ![o] = new]
      /\ escalations' = escalations /\ escalationTold' = escalationTold /\ escalationRaced' = escalationRaced
  BY DEF ReadEscalation
<1>2. EscalationsTypeOK /\ escalations[e] \in EscalationRow
  BY DEF EscalationsInv, EscalationsTypeOK
<1>3. escalations[e].writes \in Nat
  BY <1>2, EscalationsAssumption DEF EscalationRow
<1>4. new \in [id : Escalations, row : EscalationRow] /\ new.id = e /\ new.row = escalations[e]
  BY <1>2
<1> HIDE DEF new
<1>5. EscalationsTypeOK'
  BY <1>1, <1>2, <1>4 DEF EscalationsTypeOK
<1>6. EscalationReads'
  BY <1>1, <1>2, <1>3, <1>4 DEF EscalationsInv, EscalationReads, EscalationsTypeOK
<1>7. EscalationHistoryTells' /\ ResolverMatchesStatus'
  BY <1>1 DEF EscalationsInv, EscalationHistoryTells, ResolverMatchesStatus
<1>8. QED BY <1>5, <1>6, <1>7 DEF EscalationsInv

LEMMA AbandonEscalationKeeps ==
  ASSUME EscalationsInv, NEW o \in Operators, AbandonEscalation(o) PROVE EscalationsInv'
<1>1. /\ escalationRead' = [escalationRead EXCEPT ![o] = NoUpdate]
      /\ escalations' = escalations /\ escalationTold' = escalationTold /\ escalationRaced' = escalationRaced
  BY DEF AbandonEscalation
<1>2. QED BY <1>1 DEF EscalationsInv, EscalationsTypeOK, EscalationReads, EscalationHistoryTells, ResolverMatchesStatus

\* The assignments of an update: a resolver is there only with a final status.
LEMMA AssignedRow ==
  ASSUME NEW o \in Operators, NEW before \in EscalationRow, before.writes < MaxEscalationWrites,
         before.status # "absent", before.resolver # "none" => before.status \in FinalStatuses,
         NEW status \in OpenStatuses \cup FinalStatuses \cup {"keep"}, NEW note \in {"keep", "given", "cleared"}
  PROVE  /\ Assigned(o, before, status, note) \in EscalationRow
         /\ Assigned(o, before, status, note).writes = before.writes + 1 /\ before.writes \in Nat
         /\ Assigned(o, before, status, note).status \in OpenStatuses \cup FinalStatuses
         /\ Assigned(o, before, status, note).resolver # "none" =>
              Assigned(o, before, status, note).status \in FinalStatuses
         /\ Assigned(o, before, status, note).resolver \in {o, "none", before.resolver}
<1> DEFINE st == IF status = "keep" THEN before.status ELSE status
           by == IF status \in FinalStatuses THEN o ELSE IF status # "keep" THEN "none" ELSE before.resolver
           nt == IF status \in FinalStatuses THEN TRUE ELSE IF status # "keep" THEN FALSE
                 ELSE IF note = "keep" THEN before.note ELSE note = "given"
<1>1. before.writes + 1 \in 0..MaxEscalationWrites /\ before.writes \in Nat
  BY EscalationsAssumption DEF EscalationRow
<1>2. /\ st \in OpenStatuses \cup FinalStatuses /\ by \in Operators \cup {"none", "reset"} /\ nt \in BOOLEAN
      /\ by \in {o, "none", before.resolver}
  BY DEF EscalationRow
<1>3. by # "none" => st \in FinalStatuses
  BY DEF FinalStatuses
<1>4. Assigned(o, before, status, note)
        = [before EXCEPT !.status = st, !.resolver = by, !.note = nt, !.writes = before.writes + 1]
  BY DEF Assigned
<1> HIDE DEF st, by, nt
<1>5. QED BY <1>1, <1>2, <1>3, <1>4 DEF EscalationRow

LEMMA WriteEscalationKeeps ==
  ASSUME EscalationsInv, NEW o \in Operators, NEW status \in OpenStatuses \cup FinalStatuses \cup {"keep"},
         NEW note \in {"keep", "given", "cleared"}, WriteEscalation(o, status, note)
  PROVE  EscalationsInv'
<1> PICK e : e = escalationRead[o].id
  OBVIOUS
<1> PICK read : read = escalationRead[o].row
  OBVIOUS
<1> PICK next : next = Assigned(o, escalations[e], status, note)
  OBVIOUS
<1> PICK tells : tells = StatusTold(escalationTold[e], read.status, next.status)
  OBVIOUS
<1>1. /\ escalationRead[o] # NoUpdate /\ escalations[e].writes < MaxEscalationWrites
      /\ escalations' = [escalations EXCEPT ![e] = next]
      /\ escalationTold' = [escalationTold EXCEPT ![e] = tells]
      /\ escalationRaced' = (IF read.writes = escalations[e].writes THEN escalationRaced ELSE escalationRaced \cup {e})
      /\ escalationRead' = [escalationRead EXCEPT ![o] = NoUpdate]
  BY DEF WriteEscalation
<1>2. EscalationsTypeOK
  BY DEF EscalationsInv
<1>3. e \in Escalations /\ read \in EscalationRow /\ escalations[e] \in EscalationRow
  BY <1>1, <1>2 DEF EscalationsTypeOK
<1>4. escalations[e].status # "absent" /\ (read.writes = escalations[e].writes => read = escalations[e])
  BY <1>1 DEF EscalationsInv, EscalationReads
<1>5. /\ next \in EscalationRow /\ next.writes = escalations[e].writes + 1 /\ escalations[e].writes \in Nat
      /\ next.status \in OpenStatuses \cup FinalStatuses
      /\ next.resolver # "none" => next.status \in FinalStatuses
  BY <1>1, <1>3, <1>4, AssignedRow DEF EscalationsInv, ResolverMatchesStatus
<1>6. tells \in OpenStatuses \cup FinalStatuses \cup {"absent"}
  BY <1>2, <1>3, <1>5 DEF StatusTold, EscalationsTypeOK
<1>7. /\ escalations'[e] = next /\ escalationTold'[e] = tells
      /\ \A q \in Escalations \ {e} : escalations'[q] = escalations[q] /\ escalationTold'[q] = escalationTold[q]
      /\ escalationRead'[o] = NoUpdate /\ \A x \in Operators \ {o} : escalationRead'[x] = escalationRead[x]
  BY <1>1, <1>2, <1>3 DEF EscalationsTypeOK
<1>8. EscalationsTypeOK'
  BY <1>1, <1>2, <1>3, <1>5, <1>6 DEF EscalationsTypeOK
<1>9. EscalationReads'
  <2> SUFFICES ASSUME NEW x \in Operators, escalationRead'[x] # NoUpdate, NEW q, q = escalationRead'[x].id
               PROVE  /\ escalations'[q].status # "absent" /\ escalationRead'[x].row.writes <= escalations'[q].writes
                      /\ escalationRead'[x].row.writes = escalations'[q].writes => escalationRead'[x].row = escalations'[q]
    BY DEF EscalationReads
  <2>1. escalationRead'[x] = escalationRead[x] /\ q \in Escalations /\ escalationRead[x].row \in EscalationRow
    BY <1>2, <1>7 DEF EscalationsTypeOK
  <2>2. /\ escalations[q].status # "absent" /\ escalationRead[x].row.writes <= escalations[q].writes
        /\ escalationRead[x].row.writes = escalations[q].writes => escalationRead[x].row = escalations[q]
    BY <2>1 DEF EscalationsInv, EscalationReads
  <2>3. escalationRead[x].row.writes \in Nat
    BY <2>1, EscalationsAssumption DEF EscalationRow
  <2>4. CASE q = e
    <3>1. next.status # "absent"
      BY <1>5 DEF OpenStatuses, FinalStatuses
    <3>2. escalationRead[x].row.writes < next.writes
      BY <1>5, <2>2, <2>3, <2>4
    <3>3. QED BY <1>5, <1>7, <2>1, <2>3, <2>4, <3>1, <3>2
  <2>5. CASE q # e
    BY <1>7, <2>1, <2>2, <2>5
  <2>6. QED BY <2>4, <2>5
<1>10. EscalationHistoryTells'
  <2> SUFFICES ASSUME NEW q \in Escalations, q \notin escalationRaced'
               PROVE  escalationTold'[q] = escalations'[q].status
    BY DEF EscalationHistoryTells
  <2>1. escalationTold[q] = escalations[q].status
    BY <1>1 DEF EscalationsInv, EscalationHistoryTells
  <2>2. CASE q = e
    BY <1>1, <1>4, <1>7, <2>1, <2>2 DEF StatusTold
  <2>3. CASE q # e
    BY <1>7, <2>1, <2>3
  <2>4. QED BY <2>2, <2>3
<1>11. ResolverMatchesStatus'
  BY <1>5, <1>7 DEF EscalationsInv, ResolverMatchesStatus
<1>12. QED BY <1>8, <1>9, <1>10, <1>11 DEF EscalationsInv

LEMMA EscalationsStep ==
  ASSUME EscalationsInv, EscalationsNext \/ UNCHANGED escalationVars PROVE EscalationsInv'
<1>1. CASE EscalationsNext
  BY <1>1, CreateEscalationKeeps, ReadEscalationKeeps, AbandonEscalationKeeps, WriteEscalationKeeps DEF EscalationsNext
<1>2. CASE UNCHANGED escalationVars
  BY <1>2 DEF escalationVars, EscalationsInv, EscalationsTypeOK, EscalationReads, EscalationHistoryTells, ResolverMatchesStatus
<1>3. QED BY <1>1, <1>2

\* A row that exists changes only by counting a write more.
LEMMA WritesCount ==
  ASSUME EscalationsInv, EscalationsNext \/ UNCHANGED escalationVars, NEW e \in Escalations,
         escalations[e].status # "absent"
  PROVE  /\ escalations'[e].status # "absent" /\ escalations[e].writes \in Nat /\ escalations'[e].writes \in Nat
         /\ escalations'[e] = escalations[e] \/ escalations'[e].writes = escalations[e].writes + 1
<1>1. EscalationsTypeOK /\ escalations[e] \in EscalationRow
  BY DEF EscalationsInv, EscalationsTypeOK
<1>2. escalations[e].writes \in Nat
  BY <1>1, EscalationsAssumption DEF EscalationRow
<1>3. ASSUME NEW o \in Operators, NEW status \in OpenStatuses \cup FinalStatuses \cup {"keep"},
             NEW note \in {"keep", "given", "cleared"}, WriteEscalation(o, status, note)
      PROVE  /\ escalations'[e].status # "absent"
             /\ escalations'[e] = escalations[e] \/ escalations'[e].writes = escalations[e].writes + 1
  <2> PICK q : q = escalationRead[o].id
    OBVIOUS
  <2> PICK next : next = Assigned(o, escalations[q], status, note)
    OBVIOUS
  <2>1. escalationRead[o] # NoUpdate /\ escalations[q].writes < MaxEscalationWrites /\ escalations' = [escalations EXCEPT ![q] = next]
    BY <1>3 DEF WriteEscalation
  <2>2. CASE q = e
    <3>1. next.writes = escalations[e].writes + 1 /\ next.status \in OpenStatuses \cup FinalStatuses
      BY <1>1, <2>1, <2>2, AssignedRow DEF EscalationsInv, ResolverMatchesStatus
    <3>2. escalations'[e] = next
      BY <1>1, <2>1, <2>2 DEF EscalationsTypeOK
    <3>3. QED BY <3>1, <3>2 DEF OpenStatuses, FinalStatuses
  <2>3. CASE q # e
    BY <1>1, <2>1, <2>3 DEF EscalationsTypeOK
  <2>4. QED BY <2>2, <2>3
<1>4. ASSUME NEW q \in Escalations, NEW status, CreateEscalation(q, status) PROVE escalations'[e] = escalations[e]
  BY <1>1, <1>4 DEF CreateEscalation, EscalationsTypeOK
<1>5. CASE UNCHANGED escalations
  BY <1>2, <1>5
<1>6. /\ escalations'[e].status # "absent"
      /\ escalations'[e] = escalations[e] \/ escalations'[e].writes = escalations[e].writes + 1
  BY <1>3, <1>4, <1>5 DEF EscalationsNext, ReadEscalation, AbandonEscalation, escalationVars
<1>7. QED BY <1>2, <1>6

-----------------------------------------------------------------------------
\* Resets

LEMMA ResetKeepsRequests ==
  ASSUME DeskInv, ApplyReset PROVE RequestsInv'
<1> PICK R : R = resetPreview.requests
  OBVIOUS
<1>1. /\ R \subseteq Requests /\ \A r \in R : requests[r].writes < MaxRequestWrites
      /\ requests' = [r \in Requests |-> IF r \in R THEN ResetRequest(requests[r]) ELSE requests[r]]
      /\ resetClosed' = resetClosed \cup R /\ requestTold' = requestTold /\ requestMail' = requestMail
      /\ requestRead' = requestRead /\ requestRaced' = requestRaced
  BY DEF ApplyReset, DeskInv, PreviewIsSound, Previews
<1>2. RequestsTypeOK /\ resetClosed \subseteq Requests
  BY DEF DeskInv, RequestsInv
<1>3. ASSUME NEW r \in R
      PROVE  /\ ResetRequest(requests[r]) \in Row /\ ResetRequest(requests[r]).status # "absent"
             /\ ResetRequest(requests[r]).writes = requests[r].writes + 1 /\ requests[r].writes \in Nat
  <2> DEFINE st == IF requests[r].status = "SPAM" THEN "SPAM" ELSE "CLOSED"
             cs == [c \in Columns |-> IF c = "adminNote" THEN "reset" ELSE requests[r].columns[c]]
  <2>1. requests[r] \in Row
    BY <1>1, <1>2 DEF RequestsTypeOK
  <2>2. requests[r].writes + 1 \in 0..MaxRequestWrites /\ requests[r].writes \in Nat
    BY <1>1, <2>1, ColumnsAssumption DEF Row
  <2>3. cs \in [Columns -> Entries \cup {"none", "reset"}] /\ st \in RequestStatuses /\ st # "absent"
    BY <2>1 DEF Row, RequestStatuses
  <2>4. ResetRequest(requests[r]) = [requests[r] EXCEPT !.status = st, !.columns = cs, !.writes = requests[r].writes + 1]
    BY DEF ResetRequest
  <2> HIDE DEF st, cs
  <2>5. QED BY <2>1, <2>2, <2>3, <2>4 DEF Row
<1>4. RequestsTypeOK'
  BY <1>1, <1>2, <1>3 DEF RequestsTypeOK
<1>5. RequestReads'
  <2> SUFFICES ASSUME NEW o \in Admins, requestRead[o] # NotReading, NEW q, q = requestRead[o].id
               PROVE  /\ requests'[q].status # "absent" /\ requestRead[o].row.writes <= requests'[q].writes
                      /\ requestRead[o].row.writes = requests'[q].writes => requestRead[o].row = requests'[q]
    BY <1>1 DEF RequestReads
  <2>1. q \in Requests /\ requestRead[o].row \in Row
    BY <1>2 DEF RequestsTypeOK
  <2>2. /\ requests[q].status # "absent" /\ requestRead[o].row.writes <= requests[q].writes
        /\ requestRead[o].row.writes = requests[q].writes => requestRead[o].row = requests[q]
    BY DEF DeskInv, RequestsInv, RequestReads
  <2>3. requestRead[o].row.writes \in Nat
    BY <2>1, ColumnsAssumption DEF Row
  <2>4. CASE q \in R
    <3>1. requests'[q] = ResetRequest(requests[q])
      BY <1>1, <2>1, <2>4
    <3>2. QED BY <1>3, <2>2, <2>3, <2>4, <3>1
  <2>5. CASE q \notin R
    BY <1>1, <2>1, <2>2, <2>5
  <2>6. QED BY <2>4, <2>5
<1>6. RequestHistoryTells'
  BY <1>1 DEF DeskInv, RequestsInv, RequestHistoryTells, Closed
<1>7. QED BY <1>1, <1>2, <1>4, <1>5, <1>6 DEF RequestsInv

LEMMA ResetKeepsEscalations ==
  ASSUME DeskInv, ApplyReset PROVE EscalationsInv'
<1> PICK E : E = resetPreview.escalations
  OBVIOUS
<1> PICK seen : seen = resetPreview.seenEscalations
  OBVIOUS
<1>1. /\ E \subseteq Escalations /\ \A e \in E : escalations[e].writes < MaxEscalationWrites
      /\ escalations' = [e \in Escalations |-> IF e \in E THEN ResetEscalation(escalations[e]) ELSE escalations[e]]
      /\ escalationTold' = [e \in Escalations |-> IF e \in E THEN "RESOLVED" ELSE escalationTold[e]]
      /\ escalationRaced' = escalationRaced \cup {e \in E : seen[e].writes # escalations[e].writes}
      /\ escalationRead' = escalationRead
  BY DEF ApplyReset, DeskInv, PreviewIsSound, Previews
<1>2. EscalationsTypeOK
  BY DEF DeskInv, EscalationsInv
<1>3. \A e \in E : /\ seen[e].status \in OpenStatuses /\ escalations[e].status # "absent"
                   /\ seen[e].writes = escalations[e].writes => seen[e] = escalations[e]
  BY DEF ApplyReset, DeskInv, PreviewIsSound
<1>4. ASSUME NEW e \in E
      PROVE  /\ ResetEscalation(escalations[e]) \in EscalationRow
             /\ ResetEscalation(escalations[e]).status \in FinalStatuses
             /\ escalations[e].status \notin FinalStatuses => ResetEscalation(escalations[e]).status = "RESOLVED"
             /\ escalations[e].writes \in Nat
             /\ \/ ResetEscalation(escalations[e]) = escalations[e]
                \/ ResetEscalation(escalations[e]).writes = escalations[e].writes + 1
  <2>1. escalations[e] \in EscalationRow
    BY <1>1, <1>2 DEF EscalationsTypeOK
  <2>2. escalations[e].writes + 1 \in 0..MaxEscalationWrites /\ escalations[e].writes \in Nat
    BY <1>1, <2>1, EscalationsAssumption DEF EscalationRow
  <2>3. CASE escalations[e].status \in FinalStatuses
    BY <2>1, <2>2, <2>3 DEF ResetEscalation
  <2>4. CASE escalations[e].status \notin FinalStatuses
    <3>1. ResetEscalation(escalations[e])
            = [escalations[e] EXCEPT !.status = "RESOLVED", !.resolver = "reset", !.note = TRUE,
                                     !.writes = escalations[e].writes + 1]
      BY <2>4 DEF ResetEscalation
    <3>2. QED BY <2>1, <2>2, <2>4, <3>1 DEF EscalationRow, FinalStatuses
  <2>5. QED BY <2>3, <2>4
<1>5. /\ \A e \in E : escalations'[e] = ResetEscalation(escalations[e]) /\ escalationTold'[e] = "RESOLVED"
      /\ \A e \in Escalations \ E : escalations'[e] = escalations[e] /\ escalationTold'[e] = escalationTold[e]
  BY <1>1
<1>6. EscalationsTypeOK'
  BY <1>1, <1>2, <1>4 DEF EscalationsTypeOK, FinalStatuses
<1>7. EscalationReads'
  <2> SUFFICES ASSUME NEW x \in Operators, escalationRead[x] # NoUpdate, NEW q, q = escalationRead[x].id
               PROVE  /\ escalations'[q].status # "absent" /\ escalationRead[x].row.writes <= escalations'[q].writes
                      /\ escalationRead[x].row.writes = escalations'[q].writes => escalationRead[x].row = escalations'[q]
    BY <1>1 DEF EscalationReads
  <2>1. q \in Escalations /\ escalationRead[x].row \in EscalationRow
    BY <1>2 DEF EscalationsTypeOK
  <2>2. /\ escalations[q].status # "absent" /\ escalationRead[x].row.writes <= escalations[q].writes
        /\ escalationRead[x].row.writes = escalations[q].writes => escalationRead[x].row = escalations[q]
    BY DEF DeskInv, EscalationsInv, EscalationReads
  <2>3. escalationRead[x].row.writes \in Nat
    BY <2>1, EscalationsAssumption DEF EscalationRow
  <2>4. CASE q \in E
    <3>1. escalations'[q].status # "absent"
      BY <1>4, <1>5, <2>4 DEF FinalStatuses
    <3>2. QED BY <1>4, <1>5, <2>2, <2>3, <2>4, <3>1
  <2>5. CASE q \notin E
    BY <1>5, <2>1, <2>2, <2>5
  <2>6. QED BY <2>4, <2>5
<1>8. EscalationHistoryTells'
  <2> SUFFICES ASSUME NEW q \in Escalations, q \notin escalationRaced'
               PROVE  escalationTold'[q] = escalations'[q].status
    BY DEF EscalationHistoryTells
  <2>1. CASE q \in E
    <3>1. escalations[q].status \notin FinalStatuses
      BY <1>1, <1>3, <2>1 DEF OpenStatuses, FinalStatuses
    <3>2. QED BY <1>4, <1>5, <2>1, <3>1
  <2>2. CASE q \notin E
    BY <1>1, <1>5, <2>2 DEF DeskInv, EscalationsInv, EscalationHistoryTells
  <2>3. QED BY <2>1, <2>2
<1>9. ResolverMatchesStatus'
  BY <1>4, <1>5 DEF DeskInv, EscalationsInv, ResolverMatchesStatus
<1>10. QED BY <1>6, <1>7, <1>8, <1>9 DEF EscalationsInv

LEMMA PreviewResetKeeps ==
  ASSUME DeskInv, NEW old, NEW modes, PreviewReset(old, modes) PROVE DeskInv'
<1> DEFINE reqs == IF "ARCHIVE_DEMO_REQUESTS" \in modes THEN RequestCandidates(old) ELSE {}
           escs == IF "CLOSE_TEST_ESCALATIONS" \in modes THEN EscalationCandidates ELSE {}
<1>1. PICK R \in SUBSET reqs, E \in SUBSET escs :
        resetPreview' = [running |-> TRUE, requests |-> R, escalations |-> E,
                         seenRequests |-> requests, seenEscalations |-> escalations]
  BY DEF PreviewReset
<1>2. UNCHANGED requestVars /\ UNCHANGED escalationVars /\ UNCHANGED resetClosed
  BY DEF PreviewReset
<1>3. RequestsInv' /\ EscalationsInv'
  BY <1>2, RequestsStep, EscalationsStep DEF DeskInv
<1>4. R \subseteq Requests /\ \A r \in R : requests[r].status # "QUALIFIED"
  BY DEF RequestCandidates, Closed
<1>5. E \subseteq Escalations /\ \A e \in E : escalations[e].status \in OpenStatuses
  BY EscalationsAssumption DEF EscalationCandidates
<1>6. requests \in [Requests -> Row] /\ escalations \in [Escalations -> EscalationRow]
  BY DEF DeskInv, RequestsInv, EscalationsInv, RequestsTypeOK, EscalationsTypeOK
<1> HIDE DEF reqs, escs
<1>7. \A e \in E : escalations[e].writes \in Nat /\ escalations[e].status # "absent"
  BY <1>5, <1>6, EscalationsAssumption DEF EscalationRow, OpenStatuses
<1>8. PreviewIsSound'
  <2>1. resetPreview' \in Previews
    BY <1>1, <1>4, <1>5, <1>6 DEF Previews
  <2>2. escalations' = escalations
    BY <1>2 DEF escalationVars
  <2>3. QED BY <1>1, <1>4, <1>5, <1>7, <2>1, <2>2 DEF PreviewIsSound, Previews
<1>9. QED BY <1>3, <1>8 DEF DeskInv

\* A reset keeps what it saw while the desks go on.
LEMMA PreviewStaysSound ==
  ASSUME DeskInv, EscalationsNext \/ UNCHANGED escalationVars, UNCHANGED resetPreview
  PROVE  PreviewIsSound'
<1> SUFFICES ASSUME resetPreview # NoReset
             PROVE  /\ resetPreview \in Previews
                    /\ \A r \in resetPreview.requests : resetPreview.seenRequests[r].status # "QUALIFIED"
                    /\ \A e \in resetPreview.escalations :
                         LET seen == resetPreview.seenEscalations[e]
                         IN /\ seen.status \in OpenStatuses /\ escalations'[e].status # "absent"
                            /\ seen.writes <= escalations'[e].writes
                            /\ seen.writes = escalations'[e].writes => seen = escalations'[e]
  BY DEF PreviewIsSound
<1>1. /\ resetPreview \in Previews
      /\ \A r \in resetPreview.requests : resetPreview.seenRequests[r].status # "QUALIFIED"
  BY DEF DeskInv, PreviewIsSound
<1>2. ASSUME NEW e \in resetPreview.escalations, NEW seen, seen = resetPreview.seenEscalations[e]
      PROVE  /\ seen.status \in OpenStatuses /\ escalations'[e].status # "absent"
             /\ seen.writes <= escalations'[e].writes
             /\ seen.writes = escalations'[e].writes => seen = escalations'[e]
  <2>1. /\ seen.status \in OpenStatuses /\ escalations[e].status # "absent"
        /\ seen.writes <= escalations[e].writes
        /\ seen.writes = escalations[e].writes => seen = escalations[e]
    BY <1>2 DEF DeskInv, PreviewIsSound
  <2>2. e \in Escalations /\ seen \in EscalationRow
    BY <1>1, <1>2 DEF Previews
  <2>3. seen.writes \in Nat
    BY <2>2, EscalationsAssumption DEF EscalationRow
  <2>4. /\ escalations'[e].status # "absent" /\ escalations[e].writes \in Nat /\ escalations'[e].writes \in Nat
        /\ escalations'[e] = escalations[e] \/ escalations'[e].writes = escalations[e].writes + 1
    BY <2>1, <2>2, WritesCount DEF DeskInv
  <2>5. QED BY <2>1, <2>3, <2>4
<1>3. QED BY <1>1, <1>2

LEMMA DeskStepInv == DeskInv /\ [DeskNext]_deskVars => DeskInv'
<1> SUFFICES ASSUME DeskInv, [DeskNext]_deskVars PROVE DeskInv'
  OBVIOUS
<1>1. CASE RequestsNext /\ UNCHANGED <<escalationVars, resetPreview, resetClosed>>
  BY <1>1, RequestsStep, EscalationsStep, PreviewStaysSound DEF DeskInv
<1>2. CASE EscalationsNext /\ UNCHANGED <<requestVars, resetPreview, resetClosed>>
  BY <1>2, RequestsStep, EscalationsStep, PreviewStaysSound DEF DeskInv
<1>3. ASSUME NEW old, NEW modes, PreviewReset(old, modes) PROVE DeskInv'
  BY <1>3, PreviewResetKeeps
<1>4. CASE ApplyReset
  <2>1. PreviewIsSound'
    BY <1>4 DEF ApplyReset, PreviewIsSound
  <2>2. QED BY <1>4, <2>1, ResetKeepsRequests, ResetKeepsEscalations DEF DeskInv
<1>5. CASE AbandonReset
  <2>1. PreviewIsSound' /\ UNCHANGED requestVars /\ UNCHANGED escalationVars /\ UNCHANGED resetClosed
    BY <1>5 DEF AbandonReset, PreviewIsSound
  <2>2. QED BY <2>1, RequestsStep, EscalationsStep DEF DeskInv
<1>6. CASE UNCHANGED deskVars
  <2>1. UNCHANGED requestVars /\ UNCHANGED escalationVars /\ UNCHANGED resetPreview /\ UNCHANGED resetClosed
    BY <1>6 DEF deskVars
  <2>2. QED BY <2>1, RequestsStep, EscalationsStep, PreviewStaysSound DEF DeskInv
<1>7. QED BY <1>1, <1>2, <1>3, <1>4, <1>5, <1>6 DEF DeskNext

LEMMA DeskInvTyped == DeskInv => DeskTypeOK
BY DEF DeskInv, RequestsInv, EscalationsInv, PreviewIsSound, Previews, DeskTypeOK

\* A reset closes what it saw unqualified.
LEMMA ResetStepSpares ==
  ASSUME DeskInv, [DeskNext]_deskVars
  PROVE  \A r \in resetClosed' : (r \notin resetClosed /\ requests[r].status = "QUALIFIED") =>
           resetPreview.seenRequests[r].status # "QUALIFIED"
<1>1. CASE UNCHANGED resetClosed
  BY <1>1
<1>2. CASE ApplyReset
  BY <1>2 DEF ApplyReset, DeskInv, PreviewIsSound
<1>3. UNCHANGED resetClosed \/ ApplyReset
  BY DEF DeskNext, deskVars, PreviewReset, AbandonReset
<1>4. QED BY <1>1, <1>2, <1>3

\* The resolver "reset" is written by a reset alone, and only over an open escalation.
LEMMA HandClosedStep ==
  ASSUME DeskInv, [DeskNext]_deskVars, NEW e \in Escalations, escalations[e].status \in FinalStatuses,
         escalations'[e].resolver = "reset"
  PROVE  escalations[e].resolver = "reset"
<1>1. EscalationsTypeOK /\ escalations[e] \in EscalationRow
  BY DEF DeskInv, EscalationsInv, EscalationsTypeOK
<1>2. ASSUME NEW o \in Operators, NEW status \in OpenStatuses \cup FinalStatuses \cup {"keep"},
             NEW note \in {"keep", "given", "cleared"}, WriteEscalation(o, status, note)
      PROVE  escalations[e].resolver = "reset"
  <2> PICK q : q = escalationRead[o].id
    OBVIOUS
  <2> PICK next : next = Assigned(o, escalations[q], status, note)
    OBVIOUS
  <2>1. escalationRead[o] # NoUpdate /\ escalations[q].writes < MaxEscalationWrites /\ escalations' = [escalations EXCEPT ![q] = next]
    BY <1>2 DEF WriteEscalation
  <2>2. CASE q = e
    <3>1. escalations[e].status # "absent" /\ escalations'[e] = next
      BY <1>1, <2>1, <2>2 DEF FinalStatuses, EscalationsTypeOK
    <3>2. next.resolver \in {o, "none", escalations[e].resolver}
      BY <1>1, <2>1, <2>2, <3>1, AssignedRow DEF DeskInv, EscalationsInv, ResolverMatchesStatus
    <3>3. QED BY <3>1, <3>2, EscalationsAssumption
  <2>3. CASE q # e
    BY <1>1, <2>1, <2>3 DEF EscalationsTypeOK
  <2>4. QED BY <2>2, <2>3
<1>3. ASSUME NEW q \in Escalations, NEW status, CreateEscalation(q, status) PROVE escalations[e].resolver = "reset"
  BY <1>1, <1>3 DEF CreateEscalation, EscalationsTypeOK, FinalStatuses
<1>4. CASE ApplyReset
  BY <1>4 DEF ApplyReset, ResetEscalation
<1>5. CASE UNCHANGED escalations
  BY <1>5
<1>6. \/ EscalationsNext \/ ApplyReset \/ UNCHANGED escalations
  BY DEF DeskNext, deskVars, escalationVars, PreviewReset, AbandonReset
<1>7. QED BY <1>2, <1>3, <1>4, <1>5, <1>6 DEF EscalationsNext, ReadEscalation, AbandonEscalation

-----------------------------------------------------------------------------
\* The composition.


\* A step of the offices is a step of each of them or leaves it alone.
LEMMA OfficesStep ==
  ASSUME [Next]_officesVars
  PROVE  /\ [DeskNext]_deskVars /\ [GovernanceNext]_governanceVars /\ [TeamNext]_teamVars
         /\ [IdempotencyNext]_idemVars /\ [MenusNext]_menuVars /\ [FinanceNext]_financeVars
<1>1. CASE UNCHANGED officesVars
  BY <1>1 DEF officesVars
<1>2. CASE Next
  <2>1. \/ DeskNext /\ UNCHANGED <<governanceVars, teamVars, idemVars, menuVars, financeVars>>
        \/ GovernanceNext /\ UNCHANGED <<deskVars, teamVars, idemVars, menuVars, financeVars>>
        \/ TeamNext /\ UNCHANGED <<deskVars, governanceVars, idemVars, menuVars, financeVars>>
        \/ IdempotencyNext /\ UNCHANGED <<deskVars, governanceVars, teamVars, menuVars, financeVars>>
        \/ MenusNext /\ UNCHANGED <<deskVars, governanceVars, teamVars, idemVars, financeVars>>
        \/ FinanceNext /\ UNCHANGED <<deskVars, governanceVars, teamVars, idemVars, menuVars>>
    BY <1>2 DEF Next
  <2>2. QED BY <2>1
<1>3. QED BY <1>1, <1>2

\* The invariants of all the offices together.
OfficesInv == DeskInv /\ GovernanceInv /\ AuditInv /\ TeamInv /\ KeysInv /\ MenusInv /\ FinanceInv

LEMMA OfficesInvariant == Spec => []OfficesInv
<1>1. Init => OfficesInv
  BY DeskInitInv, GovernanceInitInv, AuditInitInv, TeamInitInv, KeysInitInv, MenusInitInv, FinanceInitInv
  DEF Init, OfficesInv
<1>2. GovernanceInv => GovernanceTypeOK
  BY DEF GovernanceInv
<1>3. OfficesInv /\ [Next]_officesVars => OfficesInv'
  BY <1>2, OfficesStep, DeskStepInv, GovernanceStepInv, AuditStepInv, TeamStepInv, KeysStepInv,
     MenusStepInv, FinanceStepInv DEF OfficesInv
<1>4. QED BY <1>1, <1>3, PTL DEF Spec

\* Every office keeps its types (MCOffices.OfficesTypeOK).
THEOREM OfficesAreTyped == Spec => []OfficesTypeOK
<1>1. OfficesInv => OfficesTypeOK
  BY DeskInvTyped, TeamInvTyped, KeysInvDecides, MenusInvTells, FinanceInvTyped
  DEF OfficesInv, OfficesTypeOK, GovernanceInv
<1>2. QED BY <1>1, OfficesInvariant, PTL

\* Audit trails, events and records tell what the rows hold, a menu's rollback read as the
\* return to the whole row that its original found (MCOffices.HistoriesTell).
THEOREM HistoriesAreTrue == Spec => []HistoriesTell
<1>1. OfficesInv => HistoriesTell
  BY MenusInvTells, FinanceInvTells
  DEF OfficesInv, HistoriesTell, DeskInv, RequestsInv, EscalationsInv, TeamInv, AuditInv
<1>2. QED BY <1>1, OfficesInvariant, PTL

\* A reset spares what was qualified or closed by hand, a cancelled invitation is not revived,
\* a deactivated member stays out (MCOffices.HandWorkStays).
THEOREM HandWorkIsKept == Spec => HandWorkStays
<1>1. OfficesInv /\ [Next]_officesVars =>
        [\A r \in resetClosed' : (r \notin resetClosed /\ requests[r].status = "QUALIFIED") =>
           resetPreview.seenRequests[r].status # "QUALIFIED"]_deskVars
  BY OfficesStep, ResetStepSpares DEF OfficesInv
<1>2. OfficesInv /\ [Next]_officesVars =>
        [\A e \in Escalations : escalations[e].status \in FinalStatuses =>
           (escalations'[e].resolver = "reset" => escalations[e].resolver = "reset")]_deskVars
  BY OfficesStep, HandClosedStep DEF OfficesInv
<1>3. OfficesInv /\ [Next]_officesVars =>
        [\A x \in Addresses \ stale' :
           (invite[x].status = "CANCELLED" /\ invite'[x].status = "PENDING") =>
             \E d \in Desks : Next1(d, "invite") /\ work[d].on = x /\ work[d].read = "overwrite"]_teamVars
  BY OfficesStep, CancelledStep DEF OfficesInv
<1>4. OfficesInv /\ [Next]_officesVars =>
        [\A p \in People \ stale' :
           (~member[p].active /\ member'[p].active) =>
             \E d \in Desks : Next1(d, "member") /\ work[d].on = p /\ work[d].gives]_teamVars
  BY OfficesStep, DeactivatedStep DEF OfficesInv
<1>5. QED
  BY <1>1, <1>2, <1>3, <1>4, OfficesInvariant, PTL
  DEF Spec, HandWorkStays, ResetSparesQualified, HandClosedStays, CancelledStays, DeactivatedStays
=============================================================================
