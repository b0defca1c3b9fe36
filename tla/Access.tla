------------------------------- MODULE Access -------------------------------
(***************************************************************************)
(* Who may read or do what with one job and its order: every service of    *)
(* apps/api writes the condition into its own SQL, the tables' policies    *)
(* repeat it, and the pages of apps/web offer what they think will be      *)
(* accepted.  A case is one person and one job.                            *)
(***************************************************************************)
EXTENDS Integers, Sequences, SequencesExt, Cases

Operators == {"BUSINESS_OPERATOR", "ADMIN"}
FinanceRoles == Operators \cup {"OWNER", "MANAGER", "OPERATOR", "FINANCE_VIEWER", "SUPPORT_USER"}
BusinessRoles == FinanceRoles \cup {"MENU_MANAGER"}
TeamManagers == Operators \cup {"OWNER", "MANAGER"}
PolicyRoles == BusinessRoles \ {"FINANCE_VIEWER"}
FLEET_WORKSPACE_ROLES == {"FLEET_OWNER", "FLEET_MANAGER", "DISPATCHER", "COMPLIANCE_MANAGER"}
FLEET_INVITE_MANAGEMENT_ROLES == FLEET_WORKSPACE_ROLES \ {"DISPATCHER"}
FLEET_INVITE_BASE_ROLES == {"DRIVER", "DISPATCHER", "COMPLIANCE_MANAGER"}

Memberships ==
  [type : {"RESTAURANT"}, role : BusinessRoles, active : {TRUE}]
    \cup [type : {"RESTAURANT"}, role : {"ADMIN", "OWNER"}, active : {FALSE}]
    \cup [type : {"DRIVER_COMPANY"}, role : FLEET_WORKSPACE_ROLES \cup {"DRIVER"}, active : {TRUE}]
    \cup [type : {"INDEPENDENT_COURIER"}, role : {"DRIVER"}, active : BOOLEAN]
    \cup [type : {"SUPPORT_PARTNER"}, role : {"SUPPORT_USER"}, active : {TRUE}]

\* orgs: the person's memberships, the newest first.  home: the one whose organisation the job
\* belongs to, 0 for an organisation the person is not in, -1 for a job without one.
People ==
  {c \in [area : {"person"}, consumer : BOOLEAN, courier : BOOLEAN, admin : BOOLEAN, ordered : BOOLEAN,
          home : -1..2, orgs : SeqOf(Memberships, 2)] :
     c.home <= Len(c.orgs) /\ (c.ordered => c.home >= 0)}

MemberOfHome(c, roles) ==
  c.home > 0 /\ LET m == c.orgs[c.home] IN m.active /\ m.role \in roles
\* The organisation of the newest active membership with one of the roles, 0 without one.
NewestWith(c, roles, types) ==
  LET found == {i \in DOMAIN c.orgs : c.orgs[i].active /\ c.orgs[i].role \in roles /\ c.orgs[i].type \in types}
  IN IF found = {} THEN 0 ELSE CHOOSE i \in found : \A j \in found : i <= j

-----------------------------------------------------------------------------
\* Jobs (jobs.service, dispatch-recovery.service, incident-intelligence.service).
ACCESS_CONDITION(c) == c.consumer \/ c.courier \/ MemberOfHome(c, Operators)
loadAuthorizedJob(c) == ACCESS_CONDITION(c)
getTracking(c) == ACCESS_CONDITION(c)
listBusinessJobs(c) == MemberOfHome(c, Operators)
loadOperatorJob(c) == MemberOfHome(c, Operators)
loadOperatorJobForUpdate(c) == MemberOfHome(c, Operators)
assertOrgOperator(c) == MemberOfHome(c, Operators)
CancelJob_AnyMember(c) == c.consumer \/ MemberOfHome(c, BusinessRoles)
cancelJob(c) == c.consumer \/ MemberOfHome(c, Operators)
getAuthorizedRecoverySuggestion(c) == c.consumer \/ c.courier \/ MemberOfHome(c, Operators)
getBusinessRecoverySuggestion(c) == MemberOfHome(c, Operators)
getBusinessIncidentSummary(c) == MemberOfHome(c, Operators)

\* Payments (payments.service): one payment, its list, the finance pages and their reviews.
JOB_PAYMENT_ACCESS(c) == c.consumer \/ c.courier \/ MemberOfHome(c, Operators)
loadAuthorizedPaymentContext(c) == JOB_PAYMENT_ACCESS(c)
loadConsumerPaymentContextForUpdate(c) == c.consumer
listBusinessPayments(c) == c.ordered /\ MemberOfHome(c, Operators)
listFinanceRows(c) == c.ordered /\ MemberOfHome(c, FinanceRoles)
listFinanceReviewRows(c) == MemberOfHome(c, FinanceRoles)
getFinanceReviewCounts(c) == MemberOfHome(c, FinanceRoles)
updateFinanceReview(c) == MemberOfHome(c, FinanceRoles)

\* Orders, restaurants, support, notifications, briefing and reports.
listBusinessOrders(c) == c.ordered /\ MemberOfHome(c, Operators)
getBusinessOrder(c) == c.ordered /\ MemberOfHome(c, Operators)
loadOperatorRestaurant(c) == MemberOfHome(c, Operators)
listRestaurants(c) == MemberOfHome(c, Operators)
resolveBusinessEscalationContext(c) == MemberOfHome(c, Operators)
listBusinessEscalations(c) == MemberOfHome(c, Operators)
listBusinessEscalationEvents(c) == MemberOfHome(c, Operators)
loadJobEvents(c) == MemberOfHome(c, Operators)
notificationVisibleToUser(c) == MemberOfHome(c, Operators)
buildDailyBriefingQuery(c) == c.ordered /\ MemberOfHome(c, Operators)
buildEndOfDayQuery(c) == c.ordered /\ MemberOfHome(c, Operators)
getBusinessPilotStatus(c) == MemberOfHome(c, Operators)

\* The tables' own policies (0002, 0004, 0007, 0017, 0021, 0029).
is_org_operator(c) == MemberOfHome(c, PolicyRoles)
jobs_select_policy(c) == c.consumer \/ c.courier \/ is_org_operator(c)
payments_select_policy(c) == c.consumer \/ c.courier \/ is_org_operator(c)
support_escalations_org_member(c) == MemberOfHome(c, Operators)
finance_review_records_org_member(c) == MemberOfHome(c, FinanceRoles)

-----------------------------------------------------------------------------
\* Workspaces: which organisation each service takes a person to work for.
AnyType == {m.type : m \in Memberships}
readBusinessMemberships(c) == NewestWith(c, Operators, AnyType)
getCurrentBusinessOrgId(c) == NewestWith(c, BusinessRoles, AnyType)
getManageableBusinessOrgId(c) == NewestWith(c, TeamManagers, AnyType)
getFleetContext(c, allowedRoles) == NewestWith(c, allowedRoles, {"DRIVER_COMPANY"})

hasNonBusinessWorkspaceAccess(c) ==
  \E i \in DOMAIN c.orgs : LET m == c.orgs[i] IN
    /\ m.active
    /\ \/ m.type = "DRIVER_COMPANY" /\ m.role \in FLEET_WORKSPACE_ROLES \cup {"DRIVER"}
       \/ m.type = "INDEPENDENT_COURIER" /\ m.role = "DRIVER"
       \/ m.type = "SUPPORT_PARTNER" /\ m.role = "SUPPORT_USER"
mapContext(c) ==
  [currentOrg |-> readBusinessMemberships(c),
   onboarded |-> readBusinessMemberships(c) > 0 \/ c.admin \/ hasNonBusinessWorkspaceAccess(c)]

\* Where a sign-in leads (onboarding-flow): to a workspace, to the administration, or to the
\* form that sets up a new business.
handleBusinessAuthSubmit(c) ==
  IF ~mapContext(c).onboarded THEN "setup"
  ELSE IF mapContext(c).currentOrg = 0 /\ c.admin THEN "/admin" ELSE "destination"
BusinessRouteGuard(c) == mapContext(c).currentOrg > 0

\* The roles a fleet's team page offers for an invitation, and those its service takes.
RoleOptions(role) ==
  IF role \notin FLEET_INVITE_MANAGEMENT_ROLES THEN {}
  ELSE FLEET_INVITE_BASE_ROLES \cup (IF role = "FLEET_OWNER" THEN {"FLEET_MANAGER"} ELSE {})
assertFleetInviteRole(role) ==
  {r \in FLEET_WORKSPACE_ROLES \cup {"DRIVER"} :
     r \in FLEET_INVITE_BASE_ROLES \/ (r = "FLEET_MANAGER" /\ role = "FLEET_OWNER")}

-----------------------------------------------------------------------------
\* What a person is shown can be opened, and what a person may change can be read: the job of
\* a listed order, payment, notification or escalation opens, whoever may cancel a job sees it,
\* whoever may review finances sees the review and the payment behind it counted.
ShownOpens(c) ==
  /\ listBusinessJobs(c) => loadAuthorizedJob(c) /\ loadOperatorJob(c) /\ getTracking(c)
  /\ listBusinessOrders(c) =>
       getBusinessOrder(c) /\ loadAuthorizedJob(c) /\ loadOperatorRestaurant(c) /\ resolveBusinessEscalationContext(c)
  /\ listBusinessPayments(c) => loadAuthorizedPaymentContext(c) /\ listFinanceRows(c)
  /\ loadJobEvents(c) => notificationVisibleToUser(c) /\ loadAuthorizedJob(c)
  /\ buildDailyBriefingQuery(c) \/ buildEndOfDayQuery(c) => getBusinessOrder(c) /\ getBusinessRecoverySuggestion(c)
  /\ resolveBusinessEscalationContext(c) => listBusinessEscalations(c) /\ listBusinessEscalationEvents(c)
  /\ cancelJob(c) \/ loadOperatorJobForUpdate(c) => loadAuthorizedJob(c) /\ getAuthorizedRecoverySuggestion(c)
  /\ loadConsumerPaymentContextForUpdate(c) => loadAuthorizedPaymentContext(c)
  /\ loadAuthorizedJob(c) <=> loadAuthorizedPaymentContext(c)
  /\ updateFinanceReview(c) => listFinanceReviewRows(c) /\ getFinanceReviewCounts(c)

\* The services and the tables' policies draw the same line.  The one exception: the finance
\* pages show a FINANCE_VIEWER payments that the table's policy keeps from the role.
PoliciesAgree(c) ==
  /\ loadAuthorizedJob(c) => jobs_select_policy(c)
  /\ loadAuthorizedPaymentContext(c) => payments_select_policy(c)
  /\ listBusinessEscalations(c) <=> support_escalations_org_member(c)
  /\ listFinanceReviewRows(c) <=> finance_review_records_org_member(c)
  /\ listFinanceRows(c) /\ ~payments_select_policy(c) => c.orgs[c.home].role = "FINANCE_VIEWER"

\* A workspace opens for whoever has work in it: a fleet's people are onboarded, the team page
\* belongs to the organisation the workspace names, and only people invited to a business in
\* a role other than operator are sent to set up a business of their own, although team and
\* finance serve them.
WorkspacesOpen(c) ==
  /\ getFleetContext(c, FLEET_WORKSPACE_ROLES) > 0 => handleBusinessAuthSubmit(c) # "setup"
  /\ BusinessRouteGuard(c) => getCurrentBusinessOrgId(c) > 0 /\ getManageableBusinessOrgId(c) > 0
  /\ BusinessRouteGuard(c) /\ getCurrentBusinessOrgId(c) # mapContext(c).currentOrg =>
       c.orgs[getCurrentBusinessOrgId(c)].role \in BusinessRoles \ Operators
  /\ handleBusinessAuthSubmit(c) = "setup" =>
       getFleetContext(c, FLEET_WORKSPACE_ROLES) = 0 /\ ~listBusinessJobs(c) /\ ~listBusinessOrders(c)
  /\ \A role \in FLEET_WORKSPACE_ROLES : RoleOptions(role) \subseteq assertFleetInviteRole(role)

AccessAgrees == About("person") => ShownOpens(case) /\ PoliciesAgree(case) /\ WorkspacesOpen(case)
=============================================================================
