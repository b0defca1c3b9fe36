-------------------------------- MODULE Team --------------------------------
(***************************************************************************)
(* Memberships and invitations of one organisation, a business             *)
(* (apps/api/src/identity) or a fleet (apps/api/src/fleets).  Neither       *)
(* service uses a transaction: a request checks and reads first, then runs  *)
(* its statements one by one, each committed by itself, and may end after   *)
(* any of them.  What it read is not compared with what it overwrites.      *)
(* An e-mail address belongs to one person; people act for themselves or as *)
(* the platform administrator.                                              *)
(***************************************************************************)
EXTENDS Naturals, FiniteSets, Sequences

CONSTANTS People,        \* users with an account
          Strangers,     \* e-mail addresses without one
          Founders,      \* person -> the role the person starts with, or "none"
          Desks,         \* requests served at the same time
          MaxTeamWork    \* bound: requests that get past their checks

Addresses == People \cup Strangers
BusinessManagers == {"BUSINESS_OPERATOR", "ADMIN", "OWNER", "MANAGER"}
FleetManagers == {"FLEET_OWNER", "FLEET_MANAGER", "COMPLIANCE_MANAGER"}
BusinessAssignable == BusinessManagers \cup {"OPERATOR", "FINANCE_VIEWER", "SUPPORT_USER", "MENU_MANAGER"}
FleetInviteBase == {"DRIVER", "DISPATCHER", "COMPLIANCE_MANAGER"}
FleetRoles == FleetInviteBase \cup {"FLEET_OWNER", "FLEET_MANAGER"}

ASSUME TeamAssumption == /\ Founders \in [People -> BusinessAssignable \cup FleetRoles \cup {"none"}]
                         /\ MaxTeamWork \in Nat

VARIABLES
  member,      \* person -> role and is_active; role "none" without a membership
  invite,      \* address -> role and status of its invitation; "absent" without one
  told,        \* address -> what the last audit records say: membership, invitation status
  mailed,      \* address -> the status named by the last outbox message
  work,        \* desk -> the request being served, or Idle
  begun,       \* how many requests were begun
  stale,       \* history: addresses for which a request wrote over something it had not read
  tangled      \* history: addresses with two requests at once, or whose request ended early

teamVars == <<member, invite, told, mailed, work, begun, stale, tangled>>

Membership == [role : BusinessAssignable \cup FleetRoles \cup {"none"}, active : BOOLEAN]
Invitation == [role : BusinessAssignable \cup FleetRoles \cup {"none"}, status : {"absent", "PENDING", "CANCELLED"}]
Idle == [on |-> "none"]
Statements == {"member", "memberAudit", "invite", "inviteAudit", "mail"}

TeamTypeOK ==
  /\ member \in [People -> Membership]
  /\ invite \in [Addresses -> Invitation]
  /\ told \in [Addresses -> [member : Membership, invite : {"absent", "PENDING", "CANCELLED"}]]
  /\ mailed \in [Addresses -> {"absent", "PENDING", "CANCELLED"}]
  /\ \A d \in Desks : work[d] # Idle =>
       /\ work[d].on \in Addresses
       /\ work[d].todo \in Seq(Statements) /\ work[d].todo # <<>>
  /\ begun \in 0..MaxTeamWork
  /\ stale \subseteq Addresses /\ tangled \subseteq Addresses

Nobody == [role |-> "none", active |-> FALSE]
TeamInit ==
  /\ member = [p \in People |-> [role |-> Founders[p], active |-> Founders[p] # "none"]]
  /\ invite = [x \in Addresses |-> [role |-> "none", status |-> "absent"]]
  /\ told = [x \in Addresses |-> [member |-> IF x \in People THEN member[x] ELSE Nobody, invite |-> "absent"]]
  /\ mailed = [x \in Addresses |-> "absent"]
  /\ work = [d \in Desks |-> Idle]
  /\ begun = 0 /\ stale = {} /\ tangled = {}

Busy(x) == \E d \in Desks : work[d] # Idle /\ work[d].on = x

Access(p) == IF member[p].active THEN "active" ELSE "inactive"

\* getManageableBusinessOrgId and getFleetContext
ManagesBusiness(p) == member[p].active /\ member[p].role \in BusinessManagers
ManagesFleet(p) == member[p].active /\ member[p].role \in FleetManagers

\* A request with its statements to run; read is what it saw of the row it will overwrite,
\* gives says that it was asked to give access.
Serve(d, x, newMember, newInvite, gives, read, todo) ==
  /\ work[d] = Idle
  /\ begun < MaxTeamWork
  /\ begun' = begun + 1
  /\ work' = [work EXCEPT ![d] = [on |-> x, member |-> newMember, invite |-> newInvite,
                                  gives |-> gives, read |-> read, todo |-> todo]]
  /\ tangled' = IF Busy(x) THEN tangled \cup {x} ELSE tangled
  /\ UNCHANGED <<member, invite, told, mailed, stale>>

\* createBusinessInvite: who has an account becomes a member at once.
InviteToBusiness(d, p, x, role) ==
  /\ ManagesBusiness(p) /\ role \in BusinessAssignable
  /\ Serve(d, x, [role |-> role, active |-> TRUE], [role |-> role, status |-> "PENDING"], x \in People, "overwrite",
           (IF x \in People THEN <<"member", "memberAudit">> ELSE <<>>) \o <<"invite", "inviteAudit", "mail">>)

\* createScopedFleetInvite: only an owner invites a manager.
InviteToFleet(d, p, x, role) ==
  /\ ManagesFleet(p)
  /\ role \in FleetInviteBase \/ (role = "FLEET_MANAGER" /\ member[p].role = "FLEET_OWNER")
  /\ Serve(d, x, Nobody, [role |-> role, status |-> "PENDING"], FALSE, "overwrite", <<"invite", "inviteAudit", "mail">>)

MayResend_Ended(x) == invite[x].status # "absent"
\* resendInvite refuses invitations that are accepted or cancelled; so does cancelInvite.
MayResend(x) == invite[x].status = "PENDING"
MayCancel(x) == invite[x].status = "PENDING"

Resend(d, x) ==
  /\ MayResend(x)
  /\ Serve(d, x, Nobody, [invite[x] EXCEPT !.status = "PENDING"], FALSE, invite[x].status, <<"invite", "inviteAudit", "mail">>)

Cancel(d, x) ==
  /\ MayCancel(x)
  /\ Serve(d, x, Nobody, [invite[x] EXCEPT !.status = "CANCELLED"], FALSE, invite[x].status, <<"invite", "inviteAudit", "mail">>)

\* The same two for a fleet and for the platform administrator.
ResendByManager(d, p, x) == (ManagesBusiness(p) \/ ManagesFleet(p)) /\ Resend(d, x)
CancelByManager(d, p, x) == (ManagesBusiness(p) \/ ManagesFleet(p)) /\ Cancel(d, x)

NextRole_AsGiven(p, role) == role
\* updateMembership fills in what the request does not give from the row it has read.
NextRole(p, role) == IF role = "keep" THEN member[p].role ELSE role
NextActive(p, active) == IF active = "keep" THEN member[p].active ELSE active = "yes"

UpdateMembership(d, p, role, active) ==
  /\ member[p].role # "none" /\ ~(role = "keep" /\ active = "keep")
  /\ Serve(d, p, [role |-> NextRole(p, role), active |-> NextActive(p, active)],
           [role |-> "none", status |-> "absent"], active = "yes", Access(p), <<"member", "memberAudit">>)

\* updateBusinessMembership and updateAdminMembership; the latter takes any role.
UpdateByManager(d, p, q, role, active) ==
  ManagesBusiness(p) /\ role \in BusinessAssignable \cup {"keep"} /\ UpdateMembership(d, q, role, active)

\* updateFleetDriverMembership, by the platform administrator.
UpdateFleetMember(d, q, role, active) ==
  role \in FleetRoles \cup {"keep"} /\ UpdateMembership(d, q, role, active)

\* addAdminFleetDriver
AddFleetDriver(d, p, role) ==
  role \in FleetRoles /\ Serve(d, p, [role |-> role, active |-> TRUE],
                                 [role |-> "none", status |-> "absent"], TRUE, "overwrite", <<"member", "memberAudit">>)

\* The next statement of a request.  An update sets exactly its columns: resending and
\* cancelling leave the role of the invitation as it is.
Advance(d) ==
  work' = [work EXCEPT ![d] = IF Len(work[d].todo) = 1 THEN Idle ELSE [work[d] EXCEPT !.todo = Tail(@)]]
Next1(d, s) == work[d] # Idle /\ Head(work[d].todo) = s
Stale(d, now) == work[d].read # "overwrite" /\ work[d].read # now

WriteMember(d) ==
  LET w == work[d] IN
  /\ Next1(d, "member")
  /\ member' = [member EXCEPT ![w.on] = w.member]
  /\ stale' = IF Stale(d, Access(w.on)) THEN stale \cup {w.on} ELSE stale
  /\ Advance(d) /\ UNCHANGED <<invite, told, mailed, begun, tangled>>

WriteInvite(d) ==
  LET w == work[d] IN
  /\ Next1(d, "invite")
  /\ invite' = [invite EXCEPT ![w.on] = [status |-> w.invite.status,
                                         role |-> IF w.read = "overwrite" THEN w.invite.role ELSE @.role]]
  /\ stale' = IF Stale(d, invite[w.on].status) THEN stale \cup {w.on} ELSE stale
  /\ Advance(d) /\ UNCHANGED <<member, told, mailed, begun, tangled>>

AuditMember(d) ==
  /\ Next1(d, "memberAudit")
  /\ told' = [told EXCEPT ![work[d].on].member = work[d].member]
  /\ Advance(d) /\ UNCHANGED <<member, invite, mailed, begun, stale, tangled>>

AuditInvite(d) ==
  /\ Next1(d, "inviteAudit")
  /\ told' = [told EXCEPT ![work[d].on].invite = work[d].invite.status]
  /\ Advance(d) /\ UNCHANGED <<member, invite, mailed, begun, stale, tangled>>

\* enqueueInviteOutbox and enqueueFleetInviteOutbox
MailInvite(d) ==
  /\ Next1(d, "mail")
  /\ mailed' = [mailed EXCEPT ![work[d].on] = work[d].invite.status]
  /\ Advance(d) /\ UNCHANGED <<member, invite, told, begun, stale, tangled>>

BreakOff(d) ==
  /\ work[d] # Idle
  /\ work' = [work EXCEPT ![d] = Idle]
  /\ tangled' = tangled \cup {work[d].on}
  /\ UNCHANGED <<member, invite, told, mailed, begun, stale>>

TeamNext ==
  \E d \in Desks :
    \/ \E p \in People, x \in Addresses :
         \/ \E role \in {"MANAGER", "OPERATOR"} : InviteToBusiness(d, p, x, role)
         \/ \E role \in {"FLEET_MANAGER", "DRIVER"} : InviteToFleet(d, p, x, role)
         \/ ResendByManager(d, p, x) \/ CancelByManager(d, p, x)
    \/ \E x \in Addresses : Resend(d, x) \/ Cancel(d, x)
    \/ \E q \in People, active \in {"keep", "yes", "no"} :
         \/ \E p \in People, role \in {"keep", "OPERATOR"} : UpdateByManager(d, p, q, role, active)
         \/ \E role \in {"keep", "DRIVER"} : UpdateFleetMember(d, q, role, active)
    \/ \E p \in People : AddFleetDriver(d, p, "DRIVER")
    \/ WriteMember(d) \/ WriteInvite(d) \/ AuditMember(d) \/ AuditInvite(d) \/ MailInvite(d) \/ BreakOff(d)

TeamSpec == TeamInit /\ [][TeamNext]_teamVars

-----------------------------------------------------------------------------
\* A cancelled invitation comes back only by a new invitation or by a request that had
\* seen it before it was cancelled.
CancelledStays ==
  [][\A x \in Addresses \ stale' :
       (invite[x].status = "CANCELLED" /\ invite'[x].status = "PENDING") =>
         \E d \in Desks : Next1(d, "invite") /\ work[d].on = x /\ work[d].read = "overwrite"]_teamVars

\* Access that was taken away comes back only by a request that gives access: one that
\* adds the person anew or was told to activate the membership.  A request that only
\* changes the role may do it, too, if it read the row before the access was taken away.
DeactivatedStays ==
  [][\A p \in People \ stale' :
       (~member[p].active /\ member'[p].active) =>
         \E d \in Desks : Next1(d, "member") /\ work[d].on = p /\ work[d].gives]_teamVars

\* When nobody is at work on an address, the last audit records and the last message
\* name what the tables hold, unless requests overlapped or one ended early.
RecordsNameState ==
  \A x \in Addresses \ tangled : ~Busy(x) =>
    /\ x \in People => told[x].member = member[x]
    /\ told[x].invite = invite[x].status
    /\ mailed[x] = invite[x].status
=============================================================================
