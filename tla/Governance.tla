----------------------------- MODULE Governance -----------------------------
(***************************************************************************)
(* Status changes of users and organisations by platform administrators    *)
(* (apps/api/src/identity).  The service uses no transaction: the check    *)
(* that an administrator remains, the update and the audit record are       *)
(* separate statements, each committed by itself, and a request may end     *)
(* after any of them.  The guard asks only whether the actor is listed as a *)
(* platform administrator, so a suspended one may still act.                *)
(***************************************************************************)
EXTENDS Naturals, FiniteSets

CONSTANTS PlatformAdmins,  \* users listed in platform_admins
          OtherUsers,      \* users that are not
          PlatformOrgs,    \* organisations of type PLATFORM
          OtherOrgs,
          MaxRulings       \* bound: requests that get past the checks

ASSUME GovernanceAssumption ==
  /\ PlatformAdmins # {} /\ IsFiniteSet(PlatformAdmins)
  /\ PlatformAdmins \cap (OtherUsers \cup PlatformOrgs \cup OtherOrgs) = {}
  /\ MaxRulings \in Nat

Users == PlatformAdmins \cup OtherUsers
Orgs == PlatformOrgs \cup OtherOrgs
Subjects == Users \cup Orgs

UserStatuses == {"ACTIVE", "SUSPENDED", "DISABLED"}
OrgStatuses == {"ACTIVE", "SUSPENDED", "CLOSED"}

VARIABLES
  standing,    \* user or organisation -> status
  audited,     \* -> the nextStatus of its last audit record
  ruling,      \* administrator -> the request being served, or NoRuling
  rulings,     \* how many requests were begun
  hasty,       \* history: a suspension was written when fewer administrators were active
               \* than its check had counted
  unsettled    \* history: subjects that two requests ruled on at once, or whose request ended early

governanceVars == <<standing, audited, ruling, rulings, hasty, unsettled>>

NoRuling == [on |-> "none"]
Ruling == [on : Subjects, next : UserStatuses \cup OrgStatuses,
           step : {"count", "update", "audit"}, counted : 0..Cardinality(PlatformAdmins)]

GovernanceTypeOK ==
  /\ standing \in [Subjects -> UserStatuses \cup OrgStatuses]
  /\ audited \in [Subjects -> UserStatuses \cup OrgStatuses]
  /\ ruling \in [PlatformAdmins -> {NoRuling} \cup Ruling]
  /\ rulings \in 0..MaxRulings
  /\ hasty \in BOOLEAN
  /\ unsettled \subseteq Subjects

GovernanceInit ==
  /\ standing = [s \in Subjects |-> "ACTIVE"]
  /\ audited = standing
  /\ ruling = [a \in PlatformAdmins |-> NoRuling]
  /\ rulings = 0
  /\ hasty = FALSE
  /\ unsettled = {}

ActiveAdmins == {a \in PlatformAdmins : standing[a] = "ACTIVE"}

\* Another request rules on s, too.
Contested(s) == \E a \in PlatformAdmins : ruling[a] # NoRuling /\ ruling[a].on = s

\* Taking the active state away from a platform administrator needs the count.
MustCount(u, next) == u \in PlatformAdmins /\ next # "ACTIVE"

Begin(a, s, next, step) ==
  /\ ruling[a] = NoRuling
  /\ rulings < MaxRulings
  /\ rulings' = rulings + 1
  /\ ruling' = [ruling EXCEPT ![a] = [on |-> s, next |-> next, step |-> step, counted |-> 0]]
  /\ unsettled' = IF Contested(s) THEN unsettled \cup {s} ELSE unsettled
  /\ UNCHANGED <<standing, audited, hasty>>

\* updateAdminUserStatus: nobody takes the active state from themselves.
BeginUserStatus(a, u, next) ==
  /\ u = a => next = "ACTIVE"
  /\ Begin(a, u, next, IF MustCount(u, next) THEN "count" ELSE "update")

\* updateAdminOrgStatus
BeginOrgStatus(a, o, next) ==
  /\ o \in PlatformOrgs => next = "ACTIVE"
  /\ Begin(a, o, next, "update")

EnoughAdmins_One == Cardinality(ActiveAdmins) >= 1
EnoughAdmins == Cardinality(ActiveAdmins) > 1

\* The count of active administrators; the last one is not suspended.
CountAdmins(a) ==
  /\ ruling[a] # NoRuling /\ ruling[a].step = "count"
  /\ ruling' = IF EnoughAdmins
               THEN [ruling EXCEPT ![a].step = "update", ![a].counted = Cardinality(ActiveAdmins)]
               ELSE [ruling EXCEPT ![a] = NoRuling]
  /\ UNCHANGED <<standing, audited, rulings, hasty, unsettled>>

UpdateStanding(a) ==
  /\ ruling[a] # NoRuling /\ ruling[a].step = "update"
  /\ standing' = [standing EXCEPT ![ruling[a].on] = ruling[a].next]
  /\ hasty' = (hasty \/ Cardinality(ActiveAdmins) < ruling[a].counted)
  /\ ruling' = [ruling EXCEPT ![a].step = "audit"]
  /\ UNCHANGED <<audited, rulings, unsettled>>

AuditedStatus(a) == ruling[a].next

WriteAudit(a) ==
  /\ ruling[a] # NoRuling /\ ruling[a].step = "audit"
  /\ audited' = [audited EXCEPT ![ruling[a].on] = AuditedStatus(a)]
  /\ ruling' = [ruling EXCEPT ![a] = NoRuling]
  /\ UNCHANGED <<standing, rulings, hasty, unsettled>>

\* The process stops, or a statement fails: what was written stays written.
EndEarly(a) ==
  /\ ruling[a] # NoRuling
  /\ unsettled' = unsettled \cup {ruling[a].on}
  /\ ruling' = [ruling EXCEPT ![a] = NoRuling]
  /\ UNCHANGED <<standing, audited, rulings, hasty>>

GovernanceNext ==
  \E a \in PlatformAdmins :
    \/ \E u \in Users, next \in UserStatuses : BeginUserStatus(a, u, next)
    \/ \E o \in Orgs, next \in OrgStatuses : BeginOrgStatus(a, o, next)
    \/ CountAdmins(a) \/ UpdateStanding(a) \/ WriteAudit(a) \/ EndEarly(a)

GovernanceSpec == GovernanceInit /\ [][GovernanceNext]_governanceVars

-----------------------------------------------------------------------------
\* As long as no suspension was decided on a count that was out of date when it was
\* written, one platform administrator is active, whoever acts and however requests
\* interleave.
AnAdminRemains == hasty \/ ActiveAdmins # {}

\* The last audit record of a user or an organisation names its status whenever no
\* request is at work on it, unless requests overlapped or one ended early.
AuditNamesStanding ==
  \A s \in Subjects \ unsettled : ~Contested(s) => audited[s] = standing[s]
=============================================================================
