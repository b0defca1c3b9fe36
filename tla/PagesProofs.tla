---------------------------- MODULE PagesProofs ----------------------------
(***************************************************************************)
(* The consoles, the pages of one delivery and of one order, and the menu  *)
(* page, each with its inductive invariant; then all the pages side by     *)
(* side with those of BrowserProofs: what MCPages checks, for any number   *)
(* of records, saves, keys, restaurants and calls under way.               *)
(***************************************************************************)
EXTENDS MCPages, BrowserProofs, WellFoundedInduction

-----------------------------------------------------------------------------
\* The consoles' pages.

CallTypesOf(c) ==
  \/ c = NotAsked
  \/ /\ c.kind \in {"effect", "session", "load", "save"}
     /\ c = [kind |-> c.kind, key |-> c.key, step |-> c.step, rows |-> c.rows, save |-> c.save]
     /\ c.key \in Keys /\ c.step \in {"asked", "served"} /\ c.rows \subseteq written
     /\ c.kind = "save" => Here.saves # "no" /\ c.save \in Saves /\ (c.step = "served" => c.save \in written)

\* The types, of what is under way too.
DeskTypes ==
  /\ desk \in DOMAIN Pages /\ key \in Keys /\ written \subseteq Saves /\ heard \subseteq written
  /\ shown = [key |-> shown.key, rows |-> shown.rows] /\ shown.rows \subseteq written
  /\ loading \in BOOLEAN /\ started \in 1..MaxLoads /\ crossed \in BOOLEAN
  /\ calls = [n \in Slots |-> calls[n]] /\ \A n \in Slots : CallTypesOf(calls[n])

\* Unless answers crossed, one call at most is under way, for what is chosen.
OneIsUnderWay ==
  ~crossed =>
    /\ \A n, m \in Slots : calls[n] # NotAsked /\ calls[m] # NotAsked => n = m
    /\ \A n \in Slots : calls[n] # NotAsked => calls[n].key = key

\* What a load was told includes every save that the page knows; without a load under way
\* the page shows it.
DeskLoads == {"effect", "load"}
RowsHoldTheSaves ==
  ~crossed =>
    /\ \A n \in Slots : calls[n].kind \in DeskLoads /\ calls[n].step = "served" => heard \subseteq calls[n].rows
    /\ ~missed /\ (\A n \in Slots : calls[n].kind \notin DeskLoads) => shown.key = key /\ heard \subseteq shown.rows

\* The inductive invariant.
DesksInv == DeskTypes /\ OneIsUnderWay /\ RowsHoldTheSaves

\* A set of slots has a least one.
LEMMA LeastOf ==
  ASSUME NEW N \in Nat, NEW T, T \subseteq 1..N, T # {}
  PROVE  \E n \in T : \A m \in T : n <= m
<1> DEFINE I == {1..n : n \in T}
<1>1. IsWellFoundedOn(StrictSubsetOrdering(1..N), FiniteSubsetsOf(1..N))
  BY FS_StrictSubsetOrderingWellFounded
<1>2. I \subseteq FiniteSubsetsOf(1..N) /\ I # {}
  <2>1. ASSUME NEW n \in T PROVE 1..n \subseteq 1..N /\ IsFiniteSet(1..n)
    BY FS_Interval
  <2>2. QED BY <2>1 DEF FiniteSubsetsOf
<1>3. PICK a \in I : \A b \in I : <<b, a>> \notin StrictSubsetOrdering(1..N)
  <2> HIDE DEF I
  <2>1. QED BY <1>1, <1>2, WFMin
<1>4. PICK n \in T : a = 1..n
  BY <1>3
<1>5. ASSUME NEW m \in T PROVE n <= m
  <2>1. SUFFICES ASSUME m < n PROVE FALSE
    OBVIOUS
  <2>2. 1..m \subseteq 1..n /\ n \in 1..n /\ n \notin 1..m
    BY <2>1
  <2>3. <<1..m, a>> \in StrictSubsetOrdering(1..N)
    BY <1>4, <2>2 DEF StrictSubsetOrdering
  <2>4. QED BY <1>3, <1>5, <2>3
<1>6. QED BY <1>5

\* One call begins, goes on or ends.
LEMMA OneCallOf ==
  ASSUME NEW old, NEW s \in Slots, NEW c, DeskTypes, old = [n \in Slots |-> old[n]],
         \A n \in Slots : old[n] \in {calls[n], NotAsked}, calls' = [old EXCEPT ![s] = c],
         UNCHANGED desk, written \subseteq written', CallTypesOf(c)'
  PROVE  /\ calls' = [n \in Slots |-> calls'[n]] /\ \A n \in Slots : CallTypesOf(calls[n])'
         /\ calls'[s] = c /\ \A n \in Slots \ {s} : calls'[n] = old[n]
<1>1. calls' = [n \in Slots |-> IF n = s THEN c ELSE old[n]]
  OBVIOUS
<1>2. calls' = [n \in Slots |-> calls'[n]] /\ calls'[s] = c /\ \A n \in Slots \ {s} : calls'[n] = old[n]
  BY <1>1
<1>3. \A n \in Slots : CallTypesOf(calls[n])
  BY DEF DeskTypes
<1>4. ASSUME NEW n \in Slots \ {s} PROVE CallTypesOf(calls[n])'
  <2>1. CallTypesOf(calls[n]) /\ calls'[n] \in {calls[n], NotAsked}
    BY <1>2, <1>3, <1>4
  <2>2. QED BY <2>1 DEF CallTypesOf, Here
<1>5. CallTypesOf(calls[s])'
  BY <1>2 DEF CallTypesOf, Here
<1>6. QED BY <1>2, <1>4, <1>5

\* The consoles: a page whose superseded effects are not dropped says so in crossed, and no
\* page that has a button to load saves.
FitsIn(p, after) == (p.guarded \/ after) /\ (p.refreshes => p.saves = "no") /\ p.saves \in {"no", "reload", "patch"}
\* Every page ignores late answers or is one of the late pages, and one that refreshes
\* saves nothing.
LEMMA PagesFit == \A d \in DOMAIN Pages : FitsIn(Pages[d], d \in LatePages)
<1>1. /\ Page.guarded /\ ~Page.refreshes /\ Page.saves = "no"
      /\ DOMAIN Page = {"guarded", "keyed", "refreshes", "saves", "waits", "hides", "fails"}
  BY DEF Page
<1>2. /\ Loaded.guarded /\ ~Loaded.refreshes /\ Loaded.saves = "no" /\ DOMAIN Loaded = DOMAIN Page
      /\ ~Unguarded.refreshes /\ Unguarded.saves = "no" /\ DOMAIN Unguarded = DOMAIN Page
  BY <1>1 DEF Loaded, Unguarded
<1>3. ~Saving.refreshes /\ Saving.saves = "reload" /\ DOMAIN Saving = DOMAIN Page
  BY <1>1, <1>2 DEF Saving
<1>4. \A p \in {BusinessFinanceShell, AdminFinanceShell, AdminDemoRequestsShell,
                  AdminOperationalResetsShell, FleetWorkspaceShell, FleetDriverDetailShell, FleetTeamShell,
                  AdminDriversShell, ReportsShell, PaymentsShell, AdminCommandShell, AdminShell,
                  AdminValidationEvidenceShell, AdminReleaseReadinessShell, AdminPilotRehearsalShell,
                  AdminMenuHistoryShell, CustomerTrackingShell, AdminDispatchAuditShell} : FitsIn(p, FALSE)
  <2>1. FitsIn(BusinessFinanceShell, FALSE)
    BY <1>1, <1>2 DEF BusinessFinanceShell, FitsIn
  <2>2. FitsIn(AdminFinanceShell, FALSE)
    BY <1>1, <1>2 DEF AdminFinanceShell, FitsIn
  <2>3. FitsIn(AdminDemoRequestsShell, FALSE)
    BY <1>1, <1>2 DEF AdminDemoRequestsShell, FitsIn
  <2>4. FitsIn(AdminOperationalResetsShell, FALSE)
    BY <1>1, <1>2 DEF AdminOperationalResetsShell, FitsIn
  <2>5. FitsIn(FleetWorkspaceShell, FALSE)
    BY <1>1, <1>2 DEF FleetWorkspaceShell, FitsIn
  <2>6. FitsIn(FleetDriverDetailShell, FALSE)
    BY <1>1, <1>2 DEF FleetDriverDetailShell, FitsIn
  <2>7. FitsIn(FleetTeamShell, FALSE)
    BY <1>1, <1>2 DEF FleetTeamShell, FitsIn
  <2>8. FitsIn(AdminDriversShell, FALSE)
    BY <1>1, <1>2 DEF AdminDriversShell, FitsIn
  <2>9. FitsIn(ReportsShell, FALSE)
    BY <1>1, <1>2 DEF ReportsShell, FitsIn
  <2>10. FitsIn(PaymentsShell, FALSE)
    BY <1>1, <1>2 DEF PaymentsShell, FitsIn
  <2>11. FitsIn(AdminCommandShell, FALSE)
    BY <1>1, <1>2 DEF AdminCommandShell, FitsIn
  <2>12. FitsIn(AdminShell, FALSE)
    BY <1>1, <1>2 DEF AdminShell, FitsIn
  <2>13. FitsIn(AdminValidationEvidenceShell, FALSE)
    BY <1>1, <1>2 DEF AdminValidationEvidenceShell, FitsIn
  <2>14. FitsIn(AdminReleaseReadinessShell, FALSE)
    BY <1>1, <1>2 DEF AdminReleaseReadinessShell, FitsIn
  <2>15. FitsIn(AdminPilotRehearsalShell, FALSE)
    BY <1>1, <1>2 DEF AdminPilotRehearsalShell, FitsIn
  <2>16. FitsIn(AdminMenuHistoryShell, FALSE)
    BY <1>1, <1>2 DEF AdminMenuHistoryShell, FitsIn
  <2>17. FitsIn(CustomerTrackingShell, FALSE)
    BY <1>1, <1>2 DEF CustomerTrackingShell, FitsIn
  <2>18. FitsIn(AdminDispatchAuditShell, FALSE)
    BY <1>1, <1>2 DEF AdminDispatchAuditShell, FitsIn
  <2>19. QED BY <2>1, <2>2, <2>3, <2>4, <2>5, <2>6, <2>7, <2>8, <2>9, <2>10, <2>11, <2>12, <2>13, <2>14, <2>15,
         <2>16, <2>17, <2>18
<1>5. \A p \in {AdminFleetsShell, AdminFleetDriversShell, AdminGovernanceShell, AdminAnalyticsShell,
                  AdminNotificationsShell, AdminUsersShell, AdminOrgsShell, AdminOrgMembersShell,
                  BusinessTeamShell} : FitsIn(p, TRUE)
  <2>1. FitsIn(AdminFleetsShell, TRUE)
    BY <1>1, <1>2, <1>3 DEF AdminFleetsShell, FitsIn
  <2>2. FitsIn(AdminFleetDriversShell, TRUE)
    BY <1>1, <1>2, <1>3 DEF AdminFleetDriversShell, FitsIn
  <2>3. FitsIn(AdminGovernanceShell, TRUE)
    BY <1>1, <1>2, <1>3 DEF AdminGovernanceShell, FitsIn
  <2>4. FitsIn(AdminAnalyticsShell, TRUE)
    BY <1>1, <1>2, <1>3 DEF AdminAnalyticsShell, FitsIn
  <2>5. FitsIn(AdminNotificationsShell, TRUE)
    BY <1>1, <1>2, <1>3 DEF AdminNotificationsShell, FitsIn
  <2>6. FitsIn(AdminUsersShell, TRUE)
    BY <1>1, <1>2, <1>3 DEF AdminUsersShell, FitsIn
  <2>7. FitsIn(AdminOrgsShell, TRUE)
    BY <1>1, <1>2, <1>3 DEF AdminOrgsShell, FitsIn
  <2>8. FitsIn(AdminOrgMembersShell, TRUE)
    BY <1>1, <1>2, <1>3 DEF AdminOrgMembersShell, FitsIn
  <2>9. FitsIn(BusinessTeamShell, TRUE)
    BY <1>1, <1>2, <1>3 DEF BusinessTeamShell, FitsIn
  <2>10. QED BY <2>1, <2>2, <2>3, <2>4, <2>5, <2>6, <2>7, <2>8, <2>9
<1>6. DOMAIN Pages = {"finance", "adminFinance", "demoRequests", "resets", "fleets", "fleetDrivers", "fleet",
                      "fleetDriver", "fleetTeam", "drivers", "reports", "payments", "command", "admin",
                      "evidence", "readiness", "rehearsal", "menuHistory", "tracking", "governance",
                      "analytics", "notifications", "users", "orgs", "members", "team", "audit"}
  BY DEF Pages
<1>7. /\ Pages["finance"] = BusinessFinanceShell
      /\ Pages["adminFinance"] = AdminFinanceShell
      /\ Pages["demoRequests"] = AdminDemoRequestsShell
      /\ Pages["resets"] = AdminOperationalResetsShell
      /\ Pages["fleets"] = AdminFleetsShell
      /\ Pages["fleetDrivers"] = AdminFleetDriversShell
      /\ Pages["fleet"] = FleetWorkspaceShell
      /\ Pages["fleetDriver"] = FleetDriverDetailShell
      /\ Pages["fleetTeam"] = FleetTeamShell
      /\ Pages["drivers"] = AdminDriversShell
      /\ Pages["reports"] = ReportsShell
      /\ Pages["payments"] = PaymentsShell
      /\ Pages["command"] = AdminCommandShell
      /\ Pages["admin"] = AdminShell
      /\ Pages["evidence"] = AdminValidationEvidenceShell
      /\ Pages["readiness"] = AdminReleaseReadinessShell
      /\ Pages["rehearsal"] = AdminPilotRehearsalShell
      /\ Pages["menuHistory"] = AdminMenuHistoryShell
      /\ Pages["tracking"] = CustomerTrackingShell
      /\ Pages["governance"] = AdminGovernanceShell
      /\ Pages["analytics"] = AdminAnalyticsShell
      /\ Pages["notifications"] = AdminNotificationsShell
      /\ Pages["users"] = AdminUsersShell
      /\ Pages["orgs"] = AdminOrgsShell
      /\ Pages["members"] = AdminOrgMembersShell
      /\ Pages["team"] = BusinessTeamShell
      /\ Pages["audit"] = AdminDispatchAuditShell
  BY DEF Pages
<1>8. ASSUME NEW d \in DOMAIN Pages PROVE FitsIn(Pages[d], d \in LatePages)
  <2>1. CASE d \in LatePages
    <3>1. FitsIn(Pages[d], TRUE)
      BY <1>5, <1>7, <2>1 DEF LatePages
    <3>2. QED BY <2>1, <3>1 DEF FitsIn
  <2>2. CASE d \notin LatePages
    <3>1. FitsIn(Pages[d], FALSE)
      BY <1>4, <1>6, <1>7, <1>8, <2>2 DEF LatePages
    <3>2. QED BY <3>1 DEF FitsIn
  <2>3. QED BY <2>1, <2>2
<1>9. QED BY <1>8

\* A console as it opens satisfies the invariant.
LEMMA DesksInitInv == DesksInit => DesksInv
<1> SUFFICES ASSUME DesksInit PROVE DesksInv
  OBVIOUS
<1> DEFINE c == Call("effect", key)
<1>1. calls = [n \in Slots |-> IF n = 1 THEN c ELSE NotAsked] /\ key \in Keys /\ desk \in DOMAIN Pages
      /\ written = {} /\ heard = {} /\ shown = NoRows /\ loading = TRUE /\ started = 1 /\ crossed = FALSE
  BY DEF DesksInit
<1>2. CallTypesOf(c) /\ CallTypesOf(NotAsked) /\ c.kind = "effect" /\ c.key = key /\ c.step = "asked" /\ 1 \in Slots
  BY <1>1, DesksAssumption DEF CallTypesOf, Call, Slots
<1> HIDE DEF c
<1>3. calls = [n \in Slots |-> calls[n]] /\ calls[1] = c /\ \A n \in Slots : n = 1 \/ calls[n] = NotAsked
  BY <1>1, <1>2
<1>4. \A n \in Slots : CallTypesOf(calls[n])
  BY <1>2, <1>3
<1>5. DeskTypes
  <2>1. shown = [key |-> shown.key, rows |-> shown.rows] /\ shown.rows = {} /\ started \in 1..MaxLoads
    BY <1>1, DesksAssumption DEF NoRows
  <2>2. QED BY <1>1, <1>3, <1>4, <2>1 DEF DeskTypes
<1>6. OneIsUnderWay
  BY <1>2, <1>3 DEF OneIsUnderWay
<1>7. RowsHoldTheSaves
  <2>1. \A n \in Slots : calls[n].kind \in DeskLoads => calls[n].step # "served"
    BY <1>2, <1>3 DEF DeskLoads, NotAsked
  <2>2. calls[1].kind \in DeskLoads
    BY <1>2, <1>3 DEF DeskLoads
  <2>3. QED BY <1>2, <2>1, <2>2 DEF RowsHoldTheSaves
<1>8. QED BY <1>5, <1>6, <1>7 DEF DesksInv

\* A call asked is one, and a slot without one is of no kind.
LEMMA AskedOf ==
  ASSUME NEW kind \in {"effect", "load", "session"}, NEW k \in Keys
  PROVE  /\ CallTypesOf(Call(kind, k)) /\ CallTypesOf(NotAsked)
         /\ Call(kind, k).kind = kind /\ Call(kind, k).key = k /\ Call(kind, k).step = "asked" /\ NotAsked.kind = "none"
         /\ Call(kind, k) # NotAsked
<1> DEFINE c == Call(kind, k)
<1>1. c = [kind |-> kind, key |-> k, step |-> "asked", rows |-> {}, save |-> 0]
  BY DEF Call
<1> HIDE DEF c
<1>2. c.kind = kind /\ c.key = k /\ c.step = "asked" /\ c.rows = {} /\ c.save = 0 /\ NotAsked.kind = "none"
  BY <1>1 DEF NotAsked
<1>3. CallTypesOf(c) /\ CallTypesOf(NotAsked) /\ c # NotAsked
  BY <1>1, <1>2 DEF CallTypesOf
<1>4. QED BY <1>2, <1>3 DEF c

\* A call under way is one of the four kinds.
LEMMA KindOf ==
  ASSUME DeskTypes, NEW n \in Slots
  PROVE  /\ calls[n] = NotAsked \/ calls[n].kind \in {"effect", "session", "load", "save"}
         /\ calls[n] = NotAsked <=> calls[n].kind = "none"
BY DEF DeskTypes, CallTypesOf, NotAsked

\* The effect loads what is chosen.
LEMMA EffectKeeps ==
  ASSUME DesksInv, NEW k \in Keys, Effect(k), key' = k, UNCHANGED <<desk, written, shown, heard, missed>>
  PROVE  DesksInv'
<1> USE DEF DesksInv
<1> DEFINE free == {n \in Slots : Kept[n] = NotAsked}
           c == Call("effect", k)
<1>1. PICK s \in Slots : calls' = [Kept EXCEPT ![s] = c]
  <2>1. free # {} /\ calls' = [Kept EXCEPT ![CHOOSE n \in free : \A m \in free : n <= m] = c]
    BY DEF Effect
  <2>2. \E n \in free : \A m \in free : n <= m
    BY <2>1, LeastOf, DesksAssumption DEF Slots
  <2>3. (CHOOSE n \in free : \A m \in free : n <= m) \in free
    BY <2>2
  <2>4. QED BY <2>1, <2>3
<1>2. started < MaxLoads /\ started' = started + 1 /\ loading' = TRUE
      /\ crossed' = (crossed \/ Busy({"load", "save", "session"}) \/ (desk \in LatePages /\ Busy({"effect"})))
  BY DEF Effect
<1>3. /\ CallTypesOf(c)' /\ c.kind = "effect" /\ c.key = k /\ c.step = "asked" /\ c # NotAsked /\ NotAsked.kind = "none"
  <2>1. CallTypesOf(c) /\ c.kind = "effect" /\ c.key = k /\ c.step = "asked" /\ c # NotAsked /\ NotAsked.kind = "none"
    BY AskedOf
  <2>2. CallTypesOf(c)'
    BY <2>1 DEF CallTypesOf, Here
  <2>3. QED BY <2>1, <2>2
<1> HIDE DEF c, free
<1>4. Kept = [n \in Slots |-> Kept[n]] /\ \A n \in Slots : Kept[n] \in {calls[n], NotAsked}
  BY DEF Kept
<1>5. /\ calls' = [n \in Slots |-> calls'[n]] /\ \A n \in Slots : CallTypesOf(calls[n])'
      /\ calls'[s] = c /\ \A n \in Slots \ {s} : calls'[n] = Kept[n]
  BY <1>1, <1>3, <1>4, OneCallOf
<1>6. DeskTypes'
  <2>1. started' \in 1..MaxLoads /\ crossed' \in BOOLEAN
    BY <1>2, DesksAssumption DEF DeskTypes, Busy
  <2>2. QED BY <1>2, <1>5, <2>1 DEF DeskTypes
<1>7. ASSUME ~crossed', NEW n \in Slots \ {s} PROVE calls'[n] = NotAsked
  <2>1. calls[n].kind \notin {"load", "save", "session"} /\ (desk \in LatePages => calls[n].kind # "effect")
    BY <1>2, <1>7 DEF Busy
  <2>2. Here.guarded \/ desk \in LatePages
    BY PagesFit DEF FitsIn, Here, DeskTypes
  <2>3. Kept[n] = NotAsked
    BY <1>7, <2>1, <2>2, KindOf DEF Kept
  <2>4. QED BY <1>5, <1>7, <2>3
<1>8. OneIsUnderWay'
  BY <1>3, <1>5, <1>7 DEF OneIsUnderWay
<1>9. RowsHoldTheSaves'
  <2>1. \A n \in Slots : ~crossed' /\ calls'[n].kind \in DeskLoads => calls'[n].step # "served"
    BY <1>3, <1>5, <1>7 DEF DeskLoads
  <2>2. calls'[s].kind \in DeskLoads
    BY <1>3, <1>5 DEF DeskLoads
  <2>3. QED BY <2>1, <2>2 DEF RowsHoldTheSaves
<1>10. QED BY <1>6, <1>8, <1>9

\* A button's call or a save takes a slot beside which, unless answers cross, no other is taken.
LEMMA Taking ==
  ASSUME DesksInv, NEW c, Free # {}, calls' = [calls EXCEPT ![Slot] = c], c # NotAsked, c.key = key,
         CallTypesOf(c), c.kind \notin DeskLoads, crossed' \in BOOLEAN,
         ~crossed' => ~crossed /\ \A n \in Slots : calls[n] = NotAsked,
         UNCHANGED <<desk, key, written, shown, loading, started, heard, missed>>
  PROVE  DesksInv'
<1> USE DEF DesksInv
<1>1. Slot \in Slots
  <2>1. \E n \in Free : \A m \in Free : n <= m
    BY LeastOf, DesksAssumption DEF Free, Slots
  <2>2. Slot \in Free
    BY <2>1 DEF Slot
  <2>3. QED BY <2>2 DEF Free
<1>2. PICK s \in Slots : calls' = [calls EXCEPT ![s] = c]
  BY <1>1
<1>3. CallTypesOf(c)'
  BY DEF CallTypesOf, Here
<1>4. calls = [n \in Slots |-> calls[n]]
  BY DEF DeskTypes
<1>5. /\ calls' = [n \in Slots |-> calls'[n]] /\ \A n \in Slots : CallTypesOf(calls[n])'
      /\ calls'[s] = c /\ \A n \in Slots \ {s} : calls'[n] = calls[n]
  <2>1. \A n \in Slots : calls[n] \in {calls[n], NotAsked}
    OBVIOUS
  <2>2. QED BY <1>2, <1>3, <1>4, <2>1, OneCallOf
<1>6. DeskTypes'
  BY <1>5 DEF DeskTypes
<1>7. OneIsUnderWay'
  BY <1>5 DEF OneIsUnderWay
<1>8. RowsHoldTheSaves'
  <2>1. \A n \in Slots : calls[n] = NotAsked => calls[n].kind \notin DeskLoads
    BY KindOf DEF DeskLoads
  <2>2. \A n \in Slots : ~crossed' => calls'[n].kind \notin DeskLoads
    BY <1>5, <2>1
  <2>3. ~crossed' => \A n \in Slots : calls[n].kind \notin DeskLoads
    BY <2>1
  <2>4. QED BY <2>2, <2>3 DEF RowsHoldTheSaves
<1>9. QED BY <1>6, <1>7, <1>8

\* Refreshing a console keeps the invariant.
LEMMA PressingKeeps ==
  ASSUME DesksInv, PressRefresh
  PROVE  DesksInv'
<1> USE DEF DesksInv
<1> DEFINE c == Call("session", key)
<1>1. /\ Free # {} /\ calls' = [calls EXCEPT ![Slot] = c] /\ crossed' = (crossed \/ Busy({"effect", "load", "session"}))
      /\ UNCHANGED <<desk, key, written, shown, loading, started, heard, missed>> /\ Here.refreshes
  BY DEF PressRefresh
<1>2. c # NotAsked /\ c.key = key /\ CallTypesOf(c) /\ c.kind \notin DeskLoads
  BY AskedOf DEF DeskTypes, DeskLoads
<1> HIDE DEF c
<1>3. ASSUME ~crossed' PROVE ~crossed /\ \A n \in Slots : calls[n] = NotAsked
  <2>1. ~crossed /\ \A n \in Slots : calls[n].kind \notin {"effect", "load", "session"}
    BY <1>1, <1>3 DEF Busy
  <2>2. Here.saves = "no"
    BY <1>1, PagesFit DEF FitsIn, Here, DeskTypes
  <2>3. \A n \in Slots : calls[n].kind # "save"
    BY <2>2 DEF DeskTypes, CallTypesOf, NotAsked
  <2>4. QED BY <2>1, <2>3, KindOf
<1>4. crossed' \in BOOLEAN
  BY <1>1 DEF DeskTypes
<1>5. QED BY <1>1, <1>2, <1>3, <1>4, Taking

\* A save that is sent keeps the invariant.
LEMMA SaveKeeps ==
  ASSUME DesksInv, Save
  PROVE  DesksInv'
<1> USE DEF DesksInv
<1>1. PICK x \in Unsaved : calls' = [calls EXCEPT ![Slot] = [Call("save", key) EXCEPT !.save = x]]
  BY DEF Save
<1>2. /\ Here.saves # "no" /\ Free # {} /\ crossed' = (crossed \/ Free # Slots)
      /\ UNCHANGED <<desk, key, written, shown, loading, started, heard, missed>>
  BY DEF Save
<1> DEFINE c == [kind |-> "save", key |-> key, step |-> "asked", rows |-> {}, save |-> x]
<1>3. calls' = [calls EXCEPT ![Slot] = c]
  <2>1. [Call("save", key) EXCEPT !.save = x] = c
    BY DEF Call
  <2>2. QED BY <1>1, <2>1
<1>4. c # NotAsked /\ c.key = key /\ CallTypesOf(c) /\ c.kind \notin DeskLoads
  BY <1>2 DEF DeskTypes, DeskLoads, CallTypesOf, NotAsked, Unsaved
<1> HIDE DEF c
<1>5. ~crossed' => ~crossed /\ \A n \in Slots : calls[n] = NotAsked
  BY <1>2 DEF Free
<1>6. crossed' \in BOOLEAN
  BY <1>2 DEF DeskTypes
<1>7. QED BY <1>2, <1>3, <1>4, <1>5, <1>6, Taking

\* A call under way goes on or ends.
LEMMA GoingOn ==
  ASSUME DesksInv, NEW s \in Slots, NEW c, calls[s] # NotAsked, calls' = [calls EXCEPT ![s] = c],
         c = NotAsked \/ c.key = calls[s].key, CallTypesOf(c)',
         UNCHANGED <<desk, key, crossed>>, written \subseteq written'
  PROVE  /\ calls' = [n \in Slots |-> calls'[n]] /\ \A n \in Slots : CallTypesOf(calls[n])'
         /\ calls'[s] = c /\ \A n \in Slots \ {s} : calls'[n] = calls[n]
         /\ OneIsUnderWay'
         /\ ~crossed => \A n \in Slots \ {s} : calls[n].kind = "none" /\ calls'[n].kind = "none"
<1> USE DEF DesksInv
<1>1. /\ calls' = [n \in Slots |-> calls'[n]] /\ \A n \in Slots : CallTypesOf(calls[n])'
      /\ calls'[s] = c /\ \A n \in Slots \ {s} : calls'[n] = calls[n]
  <2>1. calls = [n \in Slots |-> calls[n]]
    BY DEF DeskTypes
  <2>2. \A n \in Slots : calls[n] \in {calls[n], NotAsked}
    OBVIOUS
  <2>3. QED BY <2>1, <2>2, OneCallOf
<1>2. ~crossed => \A n \in Slots \ {s} : calls[n] = NotAsked
  BY DEF OneIsUnderWay
<1>3. NotAsked.kind = "none"
  BY DEF NotAsked
<1>4. OneIsUnderWay'
  BY <1>1, <1>2 DEF OneIsUnderWay
<1>5. QED BY <1>1, <1>2, <1>3, <1>4

\* A refresh has its session, or has none.
LEMMA RefreshingKeeps ==
  ASSUME DesksInv, NEW s \in Slots, RefreshLoads(s) \/ NoSessionLeft(s)
  PROVE  DesksInv'
<1> USE DEF DesksInv
<1>1. /\ calls[s].kind = "session" /\ UNCHANGED <<desk, key, written, shown, heard, missed, crossed>>
      /\ loading' \in BOOLEAN /\ started' \in 1..MaxLoads
  <2>1. calls[s].kind = "session" /\ UNCHANGED <<desk, key, written, shown, heard, missed, crossed>>
    BY DEF RefreshLoads, NoSessionLeft
  <2>2. CASE RefreshLoads(s)
    <3>1. loading' = TRUE /\ started' = started + 1 /\ started < MaxLoads
      BY <2>2 DEF RefreshLoads
    <3>2. QED BY <2>1, <3>1, DesksAssumption DEF DeskTypes
  <2>3. CASE NoSessionLeft(s)
    <3>1. UNCHANGED <<loading, started>>
      BY <2>3 DEF NoSessionLeft
    <3>2. QED BY <2>1, <3>1 DEF DeskTypes
  <2>4. QED BY <2>2, <2>3
<1>2. calls[s] # NotAsked /\ calls[s].key \in Keys /\ NotAsked.kind = "none"
  BY <1>1 DEF DeskTypes, CallTypesOf, NotAsked
<1>3. PICK c : /\ calls' = [calls EXCEPT ![s] = c] /\ (c = NotAsked \/ c.key = calls[s].key) /\ CallTypesOf(c)
               /\ (RefreshLoads(s) /\ c.kind = "load" /\ c.step = "asked") \/ (c.kind = "none" /\ NoSessionLeft(s))
  <2>1. CASE RefreshLoads(s)
    <3> DEFINE d == Call("load", calls[s].key)
    <3>1. d.key = calls[s].key /\ CallTypesOf(d) /\ d.kind = "load" /\ d.step = "asked"
      BY <1>2, AskedOf
    <3>2. calls' = [calls EXCEPT ![s] = d]
      BY <2>1 DEF RefreshLoads
    <3> HIDE DEF d
    <3>3. QED BY <2>1, <3>1, <3>2
  <2>2. CASE NoSessionLeft(s)
    <3>1. calls' = [calls EXCEPT ![s] = NotAsked] /\ CallTypesOf(NotAsked)
      BY <2>2 DEF NoSessionLeft, CallTypesOf
    <3>2. QED BY <1>2, <2>2, <3>1
  <2>3. QED BY <2>1, <2>2
<1>4. CallTypesOf(c)'
  BY <1>1, <1>3 DEF CallTypesOf, Here
<1>5. /\ calls' = [n \in Slots |-> calls'[n]] /\ \A n \in Slots : CallTypesOf(calls[n])'
      /\ calls'[s] = c /\ \A n \in Slots \ {s} : calls'[n] = calls[n]
      /\ OneIsUnderWay'
      /\ ~crossed => \A n \in Slots \ {s} : calls[n].kind = "none" /\ calls'[n].kind = "none"
  BY <1>1, <1>2, <1>3, <1>4, GoingOn
<1>6. DeskTypes'
  BY <1>1, <1>5 DEF DeskTypes
<1>7. RowsHoldTheSaves'
  <2>1. ASSUME ~crossed PROVE \A n \in Slots : calls[n].kind \notin DeskLoads
    BY <1>1, <1>5, <2>1 DEF DeskLoads
  <2>2. ASSUME ~crossed, NEW n \in Slots PROVE ~(calls'[n].kind \in DeskLoads /\ calls'[n].step = "served")
    BY <1>3, <1>5, <2>2 DEF DeskLoads
  <2>3. QED BY <1>1, <2>1, <2>2 DEF RowsHoldTheSaves
<1>8. QED BY <1>5, <1>6, <1>7

\* The server answers.
LEMMA ServingKeeps ==
  ASSUME DesksInv, NEW s \in Slots, Serve(s)
  PROVE  DesksInv'
<1> USE DEF DesksInv
<1>1. /\ calls[s].kind \in {"effect", "load", "save"} /\ UNCHANGED <<desk, key, shown, loading, started, heard, missed, crossed>>
      /\ written' = IF calls[s].kind = "save" THEN written \cup {calls[s].save} ELSE written
      /\ calls' = [calls EXCEPT ![s].step = "served", ![s].rows = written']
  BY DEF Serve
<1>w. PICK w : w = written'
  OBVIOUS
<1>c. PICK c : c = [kind |-> calls[s].kind, key |-> calls[s].key, step |-> "served", rows |-> w, save |-> calls[s].save]
  OBVIOUS
<1>2. /\ calls[s] = [kind |-> calls[s].kind, key |-> calls[s].key, step |-> calls[s].step,
                     rows |-> calls[s].rows, save |-> calls[s].save]
      /\ calls[s].key \in Keys /\ (calls[s].kind = "save" => Here.saves # "no" /\ calls[s].save \in Saves)
      /\ calls[s] # NotAsked /\ calls = [n \in Slots |-> calls[n]]
  BY <1>1 DEF DeskTypes, CallTypesOf, NotAsked
<1>3. calls' = [calls EXCEPT ![s] = c]
  <2>1. calls' = [calls EXCEPT ![s] = [calls[s] EXCEPT !.step = "served", !.rows = w]]
    BY <1>w, <1>1, <1>2
  <2>2. ASSUME NEW d, d = [calls[s] EXCEPT !.step = "served", !.rows = w]
        PROVE  d = [kind |-> calls[s].kind, key |-> calls[s].key, step |-> "served", rows |-> w, save |-> calls[s].save]
    BY <1>2, <2>2
  <2>3. [calls[s] EXCEPT !.step = "served", !.rows = w] = c
    BY <1>c, <2>2, Zenon
  <2>4. QED BY <2>1, <2>3
<1>4. written \subseteq written' /\ written' \subseteq Saves
  BY <1>1, <1>2 DEF DeskTypes
<1>5. CallTypesOf(c)' /\ c.key = calls[s].key /\ c.kind = calls[s].kind /\ c.rows = written'
  <2>1. /\ c = [kind |-> c.kind, key |-> c.key, step |-> c.step, rows |-> c.rows, save |-> c.save]
        /\ c.kind = calls[s].kind /\ c.key = calls[s].key /\ c.step = "served" /\ c.rows = w /\ c.save = calls[s].save
    BY <1>c
  <2>2. c.kind = "save" => Here.saves # "no" /\ c.save \in Saves /\ c.save \in written'
    BY <1>1, <1>2, <2>1
  <2>3. CallTypesOf(c)'
    BY <1>w, <1>1, <1>2, <2>1, <2>2 DEF CallTypesOf, Here
  <2>4. QED BY <1>w, <2>1, <2>3
<1>6. /\ calls' = [n \in Slots |-> calls'[n]] /\ \A n \in Slots : CallTypesOf(calls[n])'
      /\ calls'[s] = c /\ \A n \in Slots \ {s} : calls'[n] = calls[n]
      /\ OneIsUnderWay'
      /\ ~crossed => \A n \in Slots \ {s} : calls[n].kind = "none" /\ calls'[n].kind = "none"
  BY <1>1, <1>2, <1>3, <1>4, <1>5, GoingOn
<1>7. DeskTypes'
  BY <1>1, <1>4, <1>6 DEF DeskTypes
<1>8. RowsHoldTheSaves'
  <2>1. heard \subseteq written'
    BY <1>4 DEF DeskTypes
  <2>2. \A n \in Slots : calls'[n].kind = calls[n].kind
    BY <1>5, <1>6
  <2>3. ~crossed => \A n \in Slots \ {s} : calls'[n].kind \notin DeskLoads
    BY <1>6 DEF DeskLoads
  <2>4. ~crossed => \A n \in Slots : calls'[n].kind \in DeskLoads => heard \subseteq calls'[n].rows
    BY <1>5, <1>6, <2>1, <2>3
  <2>5. ~crossed /\ (\A n \in Slots : calls'[n].kind \notin DeskLoads) => (\A n \in Slots : calls[n].kind \notin DeskLoads)
    BY <2>2
  <2>6. QED BY <1>1, <2>4, <2>5 DEF RowsHoldTheSaves
<1>9. QED BY <1>6, <1>7, <1>8

\* The page shows the rows of a load.
LEMMA ShowingKeeps ==
  ASSUME DesksInv, NEW s \in Slots, ShowRows(s)
  PROVE  DesksInv'
<1> USE DEF DesksInv
<1>1. /\ calls[s].kind \in DeskLoads /\ calls[s].step = "served" /\ shown' = [key |-> calls[s].key, rows |-> calls[s].rows]
      /\ calls' = [calls EXCEPT ![s] = NotAsked] /\ loading' = FALSE
      /\ UNCHANGED <<desk, key, written, started, heard, crossed>>
  BY DEF ShowRows, DeskLoads
<1>2. calls[s] # NotAsked /\ calls[s].rows \subseteq written /\ CallTypesOf(NotAsked)' /\ NotAsked.kind = "none"
  BY <1>1 DEF DeskTypes, CallTypesOf, NotAsked, DeskLoads
<1>3. /\ calls' = [n \in Slots |-> calls'[n]] /\ \A n \in Slots : CallTypesOf(calls[n])'
      /\ calls'[s] = NotAsked /\ \A n \in Slots \ {s} : calls'[n] = calls[n]
      /\ OneIsUnderWay'
      /\ ~crossed => \A n \in Slots \ {s} : calls[n].kind = "none" /\ calls'[n].kind = "none"
  BY <1>1, <1>2, GoingOn
<1>4. DeskTypes'
  BY <1>1, <1>2, <1>3 DEF DeskTypes
<1>5. RowsHoldTheSaves'
  <2>1. ~crossed => calls[s].key = key /\ heard \subseteq calls[s].rows
    BY <1>1, <1>2 DEF OneIsUnderWay, RowsHoldTheSaves
  <2>2. ~crossed => \A n \in Slots : calls'[n].kind \notin DeskLoads
    BY <1>2, <1>3 DEF DeskLoads
  <2>3. QED BY <1>1, <2>1, <2>2 DEF RowsHoldTheSaves
<1>6. QED BY <1>3, <1>4, <1>5

\* A save has succeeded: its page is patched, or loaded anew.
LEMMA SucceedingKeeps ==
  ASSUME DesksInv, NEW s \in Slots, SaveSucceeded(s)
  PROVE  DesksInv'
<1> USE DEF DesksInv
<1>1. /\ calls[s].kind = "save" /\ calls[s].step = "served" /\ heard' = heard \cup {calls[s].save}
      /\ calls' = [calls EXCEPT ![s] = IF Here.saves = "reload" THEN Call("load", calls[s].key) ELSE NotAsked]
      /\ shown' = IF Here.saves = "patch" THEN [shown EXCEPT !.rows = @ \cup {calls[s].save}] ELSE shown
      /\ UNCHANGED <<desk, key, written, loading, started, missed, crossed>>
  BY DEF SaveSucceeded
<1>2. calls[s] # NotAsked /\ calls[s].key \in Keys /\ calls[s].save \in written /\ Here.saves # "no"
  BY <1>1 DEF DeskTypes, CallTypesOf, NotAsked
<1>3. Here.saves \in {"reload", "patch"}
  BY <1>2, PagesFit DEF FitsIn, Here, DeskTypes
<1>4. PICK c : /\ calls' = [calls EXCEPT ![s] = c] /\ (c = NotAsked \/ c.key = calls[s].key) /\ CallTypesOf(c)
               /\ IF Here.saves = "reload" THEN c.kind = "load" /\ c.step = "asked" ELSE c.kind = "none"
  <2>1. CASE Here.saves = "reload"
    <3> DEFINE d == Call("load", calls[s].key)
    <3>1. d.key = calls[s].key /\ CallTypesOf(d) /\ d.kind = "load" /\ d.step = "asked"
      BY <1>2, AskedOf
    <3>2. calls' = [calls EXCEPT ![s] = d]
      BY <1>1, <2>1
    <3> HIDE DEF d
    <3>3. QED BY <2>1, <3>1, <3>2
  <2>2. CASE Here.saves # "reload"
    <3>1. calls' = [calls EXCEPT ![s] = NotAsked] /\ CallTypesOf(NotAsked) /\ NotAsked.kind = "none"
      BY <1>1, <2>2 DEF CallTypesOf, NotAsked
    <3>2. QED BY <2>2, <3>1
  <2>3. QED BY <2>1, <2>2
<1>5. CallTypesOf(c)'
  BY <1>1, <1>4 DEF CallTypesOf, Here
<1>6. /\ calls' = [n \in Slots |-> calls'[n]] /\ \A n \in Slots : CallTypesOf(calls[n])'
      /\ calls'[s] = c /\ \A n \in Slots \ {s} : calls'[n] = calls[n]
      /\ OneIsUnderWay'
      /\ ~crossed => \A n \in Slots \ {s} : calls[n].kind = "none" /\ calls'[n].kind = "none"
  BY <1>1, <1>2, <1>4, <1>5, GoingOn
<1>7. /\ shown' = [key |-> shown.key, rows |-> shown'.rows]
      /\ shown'.rows = IF Here.saves = "patch" THEN shown.rows \cup {calls[s].save} ELSE shown.rows
  <2>1. shown = [key |-> shown.key, rows |-> shown.rows]
    BY DEF DeskTypes
  <2>2. CASE Here.saves = "patch"
    <3>1. shown' = [key |-> shown.key, rows |-> shown.rows \cup {calls[s].save}]
      BY <1>1, <2>1, <2>2
    <3>2. QED BY <2>2, <3>1
  <2>3. CASE Here.saves # "patch"
    BY <1>1, <2>1, <2>3
  <2>4. QED BY <2>2, <2>3
<1>8. DeskTypes'
  <2>1. shown' = [key |-> shown'.key, rows |-> shown'.rows] /\ shown'.rows \subseteq written /\ heard' \subseteq written
    BY <1>1, <1>2, <1>7 DEF DeskTypes
  <2>2. QED BY <1>1, <1>6, <2>1 DEF DeskTypes
<1>9. RowsHoldTheSaves'
  <2>1. ASSUME ~crossed, NEW n \in Slots PROVE ~(calls'[n].kind \in DeskLoads /\ calls'[n].step = "served")
    BY <1>4, <1>6, <2>1 DEF DeskLoads
  <2>2. ASSUME ~crossed, ~missed, \A n \in Slots : calls'[n].kind \notin DeskLoads
        PROVE  shown'.key = key /\ heard' \subseteq shown'.rows
    <3>1. Here.saves = "patch"
      BY <1>3, <1>4, <1>6, <2>2 DEF DeskLoads
    <3>2. \A n \in Slots : calls[n].kind \notin DeskLoads
      BY <1>1, <1>6, <2>2 DEF DeskLoads
    <3>3. shown.key = key /\ heard \subseteq shown.rows
      BY <2>2, <3>2 DEF RowsHoldTheSaves
    <3>4. shown'.key = shown.key
      BY <1>7
    <3>5. QED BY <1>1, <1>7, <3>1, <3>3, <3>4
  <2>3. QED BY <1>1, <2>1, <2>2 DEF RowsHoldTheSaves
<1>10. QED BY <1>6, <1>8, <1>9

\* A call has failed.
LEMMA FailingKeeps ==
  ASSUME DesksInv, NEW s \in Slots, CallFailed(s)
  PROVE  DesksInv'
<1> USE DEF DesksInv
<1>1. /\ calls[s].kind \in {"effect", "load", "save"} /\ calls' = [calls EXCEPT ![s] = NotAsked]
      /\ loading' = (IF calls[s].kind = "save" THEN loading ELSE FALSE) /\ missed' = (missed \/ calls[s].kind # "save")
      /\ UNCHANGED <<desk, key, written, shown, started, heard, crossed>>
  BY DEF CallFailed
<1>2. calls[s] # NotAsked /\ CallTypesOf(NotAsked)' /\ NotAsked.kind = "none" /\ loading' \in BOOLEAN
  <2>1. calls[s] # NotAsked /\ CallTypesOf(NotAsked)' /\ NotAsked.kind = "none"
    BY <1>1 DEF CallTypesOf, NotAsked
  <2>2. loading \in BOOLEAN
    BY DEF DeskTypes
  <2>3. QED BY <1>1, <2>1, <2>2
<1>3. /\ calls' = [n \in Slots |-> calls'[n]] /\ \A n \in Slots : CallTypesOf(calls[n])'
      /\ calls'[s] = NotAsked /\ \A n \in Slots \ {s} : calls'[n] = calls[n]
      /\ OneIsUnderWay'
      /\ ~crossed => \A n \in Slots \ {s} : calls[n].kind = "none" /\ calls'[n].kind = "none"
  BY <1>1, <1>2, GoingOn
<1>4. DeskTypes'
  BY <1>1, <1>2, <1>3 DEF DeskTypes
<1>5. RowsHoldTheSaves'
  <2>1. ~crossed => \A n \in Slots : calls'[n].kind \notin DeskLoads
    BY <1>2, <1>3 DEF DeskLoads
  <2>2. ASSUME ~crossed, ~missed' PROVE ~missed /\ \A n \in Slots : calls[n].kind \notin DeskLoads
    BY <1>1, <1>3, <2>2 DEF DeskLoads
  <2>3. QED BY <1>1, <2>1, <2>2 DEF RowsHoldTheSaves
<1>6. QED BY <1>3, <1>4, <1>5

\* Every step of a console and of its services keeps the invariant.
LEMMA DesksStepInv == DesksInv /\ [DesksNext]_deskPageVars => DesksInv'
<1> SUFFICES ASSUME DesksInv, [DesksNext]_deskPageVars PROVE DesksInv'
  OBVIOUS
<1>1. CASE UNCHANGED deskPageVars
  BY <1>1 DEF deskPageVars, DesksInv, DeskTypes, CallTypesOf, Here, OneIsUnderWay, RowsHoldTheSaves
<1>2. ASSUME NEW k \in Keys, ChooseKey(k) PROVE DesksInv'
  BY <1>2, EffectKeeps DEF ChooseKey
<1>3. CASE RenewSession
  BY <1>3, EffectKeeps DEF RenewSession, DesksInv, DeskTypes
<1>4. CASE PressRefresh
  BY <1>4, PressingKeeps
<1>5. CASE Save
  BY <1>5, SaveKeeps
<1>6. ASSUME NEW n \in Slots,
             \/ RefreshLoads(n) \/ NoSessionLeft(n) \/ Serve(n) \/ ShowRows(n) \/ SaveSucceeded(n) \/ CallFailed(n)
      PROVE  DesksInv'
  BY <1>6, RefreshingKeeps, ServingKeeps, ShowingKeeps, SucceedingKeeps, FailingKeeps
<1>7. QED BY <1>1, <1>2, <1>3, <1>4, <1>5, <1>6 DEF DesksNext

\* What the invariant says of a console.
LEMMA DesksHold == DesksInv => DesksTypeOK /\ DeskIsCurrent
<1> SUFFICES ASSUME DesksInv PROVE DesksTypeOK /\ DeskIsCurrent
  OBVIOUS
<1>1. \A n \in Slots : calls[n].kind \in {"none", "effect", "session", "load", "save"}
  BY KindOf DEF DesksInv
<1>2. DesksTypeOK
  BY <1>1 DEF DesksInv, DeskTypes, DesksTypeOK
<1>3. DeskIsCurrent
  <2>1. Free = Slots => \A n \in Slots : calls[n].kind \notin DeskLoads
    BY DEF Free, NotAsked, DeskLoads
  <2>2. QED BY <2>1 DEF DesksInv, RowsHoldTheSaves, DeskIsCurrent
<1>4. QED BY <1>2, <1>3

-----------------------------------------------------------------------------
\* The pages of one delivery and of one order.

Kinds == {"list", "detail"} \cup Works
Escalations == {"none", "open", "closed"}

\* The steps a request goes through.
StepsOf(kind) ==
  CASE kind = "list" -> {"asked", "read"} [] kind = "detail" -> {"asked", "half", "read"}
    [] kind = "assign" -> {"asked", "done", "load", "half", "read"} [] kind = "override" -> {"asked", "done", "audit"}
    [] OTHER -> {"asked", "done"}

IsRequest(c) ==
  \/ c = Quiet
  \/ /\ c.kind \in Kinds /\ c.step \in StepsOf(c.kind)
     /\ c = [kind |-> c.kind, step |-> c.step, main |-> c.main, pay |-> c.pay, audit |-> c.audit, as |-> c.as]
     /\ c.main \in 0..now /\ c.pay \in 0..now /\ c.audit \in 0..now
     /\ c.as \in Escalations /\ Rank[c.as] <= Rank[escalation]
     /\ record = "order" => c.kind \in {"list", "detail", "note", "close"}
     /\ record = "order" /\ c.kind = "detail" => c.audit = 0
     /\ c.step = "done" => /\ c.kind = "note" => c.as = "open"
                           /\ c.kind = "close" => c.as = "closed"

\* The types, of what is under way too.
RecordTypes ==
  /\ record \in {"job", "order"} /\ now \in Nat /\ escalation \in Escalations
  /\ seen = [main |-> seen.main, pay |-> seen.pay] /\ seen.main \in 0..now /\ seen.pay \in 0..now
  /\ row = [main |-> row.main, pay |-> row.pay] /\ row.main \in 0..now /\ row.pay \in 0..now
  /\ audit \in 0..now /\ (record = "order" => audit = 0 /\ own.audit = 0)
  /\ listed = [times |-> listed.times, as |-> listed.as] /\ listed.times \in Nat /\ listed.as \in Escalations
  /\ listed.times > 0 => escalation # "none"
  /\ own = [main |-> own.main, pay |-> own.pay, audit |-> own.audit, as |-> own.as]
  /\ own.main \in 0..now /\ own.pay \in 0..now /\ own.audit \in 0..now
  /\ own.as \in Escalations /\ Rank[own.as] <= Rank[escalation]
  /\ unread \in BOOLEAN /\ tangled \in BOOLEAN /\ rowTangled \in BOOLEAN
  /\ underway = [n \in Places |-> underway[n]] /\ \A n \in Places : IsRequest(underway[n])

\* Unless answers crossed, no two requests set the same part of the page.
Apart(rec, k, l) ==
  /\ k \in Loading => l = "list" /\ rec = "job"
  /\ k = "list" /\ rec = "order" => l \in {"note", "close"}
  /\ k \in {"act", "authorize"} => l \in {"list", "override", "note", "close"}
  /\ k = "override" => l \in {"list", "act", "authorize", "note", "close"}
  /\ k \in {"note", "close"} => l \in {"list", "act", "authorize", "override"}
RequestsApart ==
  ~tangled => \A n, m \in Places : n # m /\ underway[n] # Quiet /\ underway[m] # Quiet =>
                Apart(record, underway[n].kind, underway[m].kind)

\* What is under way is not behind what is shown, nor, once it has been read, behind the
\* work that the page knows of.
Loads(c) == c.kind = "detail" \/ (c.kind = "assign" /\ c.step \in {"load", "half", "read"})
NotBehind(c) == c # Quiet =>
  /\ c.kind \in {"detail", "assign", "act", "authorize"} => c.main >= seen.main /\ c.pay >= seen.pay
  /\ c.kind = "list" /\ record = "order" => c.pay >= seen.pay
  /\ c.kind \in Loading /\ c.step = "read" => c.audit >= audit /\ c.audit >= own.audit
  /\ c.kind \in Loading /\ c.step \in {"half", "read"} => c.main >= own.main
  /\ c.kind \in Loading /\ (c.step = "read" \/ (c.step = "half" /\ record = "job")) =>
       c.pay >= own.pay /\ Rank[c.as] >= Rank[own.as]
  /\ c.kind = "detail" /\ c.step = "read" /\ record = "order" => c.pay >= c.main
  /\ c.kind = "note" /\ c.step = "done" => listed.times = 0
  /\ c.kind = "close" => listed.times > 0
RequestsNotBehind == ~tangled => \A n \in Places : NotBehind(underway[n])

\* Without a load under way, the page shows the work it knows of.
OwnIsThere ==
  ~tangled /\ ~unread /\ (\A n \in Places : ~Loads(underway[n])) =>
    /\ seen.main >= own.main /\ seen.pay >= own.pay
    /\ (\A n \in Places : underway[n].step # "audit") => audit >= own.audit \/ "audit" \in missing
    /\ listed.times <= 1 /\ (Rank[listed.as] >= Rank[own.as] \/ "log" \in missing)
    /\ record = "order" => seen.pay >= seen.main

\* The row of the list is not behind the record, unless any two answers crossed.
RowFollows ==
  ~rowTangled =>
    /\ \A n, m \in Places : underway[n] # Quiet /\ underway[m] # Quiet => n = m
    /\ \A n \in Places : underway[n].kind = "list" /\ underway[n].step = "read" =>
         underway[n].main >= seen.main /\ underway[n].pay >= seen.pay
    /\ ~unread /\ (\A n \in Places : ~Loads(underway[n]) /\ underway[n].kind # "list") =>
         row.main >= seen.main /\ row.pay >= seen.pay

\* The inductive invariant.
RecordsInv == RecordTypes /\ RequestsApart /\ RequestsNotBehind /\ OwnIsThere /\ RowFollows

-----------------------------------------------------------------------------
\* A quiet request is not one that was asked for; room for one or two is a quiet place or two.
LEMMA QuietIsNone == \A k : k \in Kinds => Request(k) # Quiet /\ Request(k).kind = k /\ k # "none"
<1>1. "none" \notin Kinds
  BY DEF Kinds, Works
<1>2. \A k : Request(k).kind = k
  BY DEF Request
<1>3. Quiet.kind = "none"
  BY DEF Quiet
<1>4. QED BY <1>1, <1>2, <1>3

\* With room for one more request, a place is free.
LEMMA RoomForOne == Room(1) => \E p \in Places : underway[p] = Quiet
<1>1. SUFFICES ASSUME Room(1), {p \in Places : underway[p] = Quiet} = {} PROVE FALSE
  BY DEF Room
<1>2. QED BY <1>1, FS_EmptySet DEF Room

\* With room for two more, a place is free besides any other.
LEMMA RoomForTwo == Room(2) => \A p \in Places : \E q \in Places \ {p} : underway[q] = Quiet
<1> DEFINE Vacant == {q \in Places : underway[q] = Quiet}
<1>1. SUFFICES ASSUME Room(2), NEW p \in Places, Vacant \subseteq {p} PROVE FALSE
  BY DEF Room
<1>2. IsFiniteSet({p}) /\ Cardinality({p}) = 1
  BY FS_Singleton
<1>3. Cardinality(Vacant) \in Nat /\ Cardinality(Vacant) <= 1
  BY <1>1, <1>2, FS_Subset, FS_CardinalityType
<1>4. Cardinality(Vacant) >= 2
  BY <1>1 DEF Room
<1>5. QED BY <1>3, <1>4

\* The place that a new request takes.
LEMMA StartedIn ==
  ASSUME NEW requests, requests = [n \in Places |-> requests[n]], NEW q \in Places, requests[q] = Quiet, NEW kind
  PROVE  \E p \in Places : /\ requests[p] = Quiet
                          /\ Started(requests, kind) = [requests EXCEPT ![p] = Request(kind)]
<1>1. PICK p : p = CHOOSE n \in Places : requests[n] = Quiet
  OBVIOUS
<1>2. p \in Places /\ requests[p] = Quiet
  BY <1>1
<1>3. Started(requests, kind) = [requests EXCEPT ![p] = Request(kind)]
  BY <1>1 DEF Started
<1>4. QED BY <1>2, <1>3

\* A request whose rivals are not under way is apart from what is.
LEMMA RivalsApart ==
  ASSUME record \in {"job", "order"}, NEW k \in Kinds, NEW l \in Kinds,
         record = "order" => k \in {"list", "detail", "note", "close"} /\ l \in {"list", "detail", "note", "close"},
         l \notin Rivals(k), k \in Works => l \notin Excluded(k)
  PROVE  Apart(record, k, l) /\ Apart(record, l, k)
BY DEF Apart, Rivals, Excluded, Works, Loading, Kinds

-----------------------------------------------------------------------------
\* A request stays one while the server goes on.
LEMMA RequestKept ==
  ASSUME now \in Nat, now' \in Nat, now <= now', escalation \in Escalations, escalation' \in Escalations,
         Rank[escalation] <= Rank[escalation'], record' = record, NEW c, IsRequest(c)
  PROVE  IsRequest(c)'
<1>1. CASE c = Quiet
  BY <1>1 DEF IsRequest
<1>2. CASE c # Quiet
  <2>1. c.main \in 0..now' /\ c.pay \in 0..now' /\ c.audit \in 0..now'
    BY <1>2 DEF IsRequest
  <2>2. c.as \in Escalations /\ Rank[c.as] <= Rank[escalation']
    BY <1>2 DEF IsRequest, Rank, Escalations
  <2>3. QED BY <1>2, <2>1, <2>2 DEF IsRequest
<1>3. QED BY <1>1, <1>2

\* A request asked for, as it starts.
LEMMA RequestTyped ==
  ASSUME RecordTypes, NEW kind \in Kinds, record = "order" => kind \in {"list", "detail", "note", "close"}
  PROVE  IsRequest(Request(kind))
<1>1. PICK c : c = Request(kind)
  OBVIOUS
<1>2. c = [kind |-> kind, step |-> "asked", main |-> seen.main, pay |-> seen.pay, audit |-> 0, as |-> "none"]
  BY <1>1 DEF Request
<1>3. c.kind = kind /\ c.step = "asked" /\ c.main = seen.main /\ c.pay = seen.pay /\ c.audit = 0 /\ c.as = "none"
  BY <1>2
<1>4. "asked" \in StepsOf(kind)
  BY DEF StepsOf
<1>5. c.as \in Escalations /\ Rank[c.as] <= Rank[escalation]
  BY <1>3 DEF Rank, Escalations, RecordTypes
<1>6. c.main \in 0..now /\ c.pay \in 0..now /\ c.audit \in 0..now
  BY <1>3 DEF RecordTypes
<1>7. QED BY <1>1, <1>2, <1>3, <1>4, <1>5, <1>6 DEF IsRequest

\* The page of a record as it opens satisfies the invariant.
LEMMA RecordsInitInv == RecordsInit => RecordsInv
<1> SUFFICES ASSUME RecordsInit PROVE RecordsInv
  OBVIOUS
<1>1. seen.main = 0 /\ seen.pay = 0 /\ row.main = 0 /\ row.pay = 0 /\ own.main = 0 /\ own.pay = 0 /\ own.audit = 0
      /\ own.as = "none" /\ listed.times = 0 /\ listed.as = "none" /\ audit = 0 /\ now = 1
  BY DEF RecordsInit, Unloaded, Unlisted
<1>2. \A n \in Places : underway[n] = IF n = 1 THEN Request("list") ELSE IF n = 2 THEN Request("detail") ELSE Quiet
  BY DEF RecordsInit
<1>3. RecordTypes
  <2>1. \A kind \in {"list", "detail"} : IsRequest(Request(kind))
    <3> SUFFICES ASSUME NEW kind \in {"list", "detail"} PROVE IsRequest(Request(kind))
      OBVIOUS
    <3>1. PICK c : c = Request(kind)
      OBVIOUS
    <3>2. c = [kind |-> kind, step |-> "asked", main |-> 0, pay |-> 0, audit |-> 0, as |-> "none"]
      BY <1>1, <3>1 DEF Request
    <3>3. c.kind = kind /\ c.step = "asked" /\ c.main = 0 /\ c.pay = 0 /\ c.audit = 0 /\ c.as = "none"
      BY <3>2
    <3>4. "asked" \in StepsOf(kind) /\ kind \in Kinds
      BY DEF StepsOf, Kinds
    <3>5. c.as \in Escalations /\ Rank[c.as] <= Rank[escalation]
      BY <3>3 DEF Rank, Escalations, RecordsInit
    <3>6. QED BY <1>1, <3>1, <3>2, <3>3, <3>4, <3>5 DEF IsRequest
  <2>2. \A n \in Places : IsRequest(underway[n])
    BY <1>2, <2>1 DEF IsRequest
  <2>3. Rank[own.as] <= Rank[escalation] /\ own.as \in Escalations
    BY <1>1 DEF Rank, Escalations, RecordsInit
  <2>4. /\ record \in {"job", "order"} /\ now \in Nat /\ escalation \in Escalations /\ audit \in 0..now
    BY <1>1 DEF RecordsInit, Escalations
  <2>4b. unread \in BOOLEAN /\ tangled \in BOOLEAN /\ rowTangled \in BOOLEAN
    BY Zenon DEF RecordsInit
  <2>5. /\ seen = [main |-> seen.main, pay |-> seen.pay] /\ row = [main |-> row.main, pay |-> row.pay]
        /\ listed = [times |-> listed.times, as |-> listed.as]
        /\ own = [main |-> own.main, pay |-> own.pay, audit |-> own.audit, as |-> own.as]
    BY <1>1 DEF RecordsInit, Unloaded, Unlisted
  <2>6. underway = [n \in Places |-> underway[n]]
    BY DEF RecordsInit
  <2>7. /\ seen.main \in 0..now /\ seen.pay \in 0..now /\ row.main \in 0..now /\ row.pay \in 0..now
        /\ own.main \in 0..now /\ own.pay \in 0..now /\ own.audit \in 0..now
        /\ listed.times \in Nat /\ listed.as \in Escalations
    BY <1>1 DEF Escalations
  <2>8. (record = "order" => audit = 0 /\ own.audit = 0) /\ (listed.times > 0 => escalation # "none")
    BY <1>1
  <2>9. QED BY <2>2, <2>3, <2>4, <2>4b, <2>5, <2>6, <2>7, <2>8, Zenon DEF RecordTypes
<1>4. \A n \in Places : /\ underway[n].kind = (IF n = 1 THEN "list" ELSE IF n = 2 THEN "detail" ELSE "none")
                        /\ underway[n].step = (IF n \in {1, 2} THEN "asked" ELSE "none")
  BY <1>2 DEF Request, Quiet
<1>5. RequestsApart
  <2>1. SUFFICES ASSUME ~tangled, NEW n \in Places, NEW m \in Places, n # m, underway[n] # Quiet, underway[m] # Quiet
                 PROVE  Apart(record, underway[n].kind, underway[m].kind)
    BY DEF RequestsApart
  <2>2. record = "job" /\ underway[n].kind \in {"list", "detail"} /\ underway[m].kind \in {"list", "detail"}
        /\ ~(underway[n].kind = "detail" /\ underway[m].kind = "detail")
    BY <1>2, <1>4, <2>1 DEF RecordsInit
  <2>3. QED BY <2>2 DEF Apart, Loading
<1>6. RequestsNotBehind
  <2>1. SUFFICES ASSUME NEW n \in Places, underway[n] # Quiet PROVE NotBehind(underway[n])
    BY DEF RequestsNotBehind, NotBehind
  <2>2. underway[n].main = 0 /\ underway[n].pay = 0
    BY <1>1, <1>2, <2>1 DEF Request
  <2>3. QED BY <1>1, <1>2, <1>4, <2>1, <2>2 DEF NotBehind
<1>7. OwnIsThere
  BY <1>1 DEF OwnIsThere, Rank
<1>8. RowFollows
  BY DEF RowFollows, RecordsInit
<1>9. QED BY <1>3, <1>5, <1>6, <1>7, <1>8 DEF RecordsInv

-----------------------------------------------------------------------------
\* One request replaced, the others are as they were.
LEMMA Replaced ==
  ASSUME RecordTypes, NEW n \in Places, NEW d, underway' = [underway EXCEPT ![n] = d]
  PROVE  /\ underway' = [m \in Places |-> underway'[m]] /\ underway'[n] = d
         /\ \A m \in Places \ {n} : underway'[m] = underway[m]
<1>1. underway = [m \in Places |-> underway[m]]
  BY DEF RecordTypes
<1>2. underway' = [m \in Places |-> IF m = n THEN d ELSE underway[m]]
  BY <1>1
<1>3. QED BY <1>2

\* The requests stay requests when one of them is replaced and the server goes on.
LEMMA RequestsKept ==
  ASSUME RecordTypes, NEW n \in Places, NEW d, underway' = [underway EXCEPT ![n] = d], IsRequest(d)', record' = record,
         now' \in Nat, now <= now', escalation' \in Escalations, Rank[escalation] <= Rank[escalation']
  PROVE  underway' = [m \in Places |-> underway'[m]] /\ \A m \in Places : IsRequest(underway[m])'
<1>1. /\ underway' = [m \in Places |-> underway'[m]] /\ underway'[n] = d
      /\ \A m \in Places \ {n} : underway'[m] = underway[m]
  BY Replaced
<1>2. ASSUME NEW m \in Places PROVE IsRequest(underway[m])'
  <2>1. CASE m = n
    BY <1>1, <2>1 DEF IsRequest
  <2>2. CASE m # n
    <3>1. PICK c : c = underway[m]
      OBVIOUS
    <3>2. IsRequest(c)
      BY <3>1 DEF RecordTypes
    <3>3. now \in Nat /\ escalation \in Escalations
      BY DEF RecordTypes
    <3>4. IsRequest(c)'
      BY <3>2, <3>3, RequestKept
    <3>5. underway'[m] = c
      BY <1>1, <2>2, <3>1
    <3>6. QED BY <3>4, <3>5 DEF IsRequest
  <2>3. QED BY <2>1, <2>2
<1>3. QED BY <1>1, <1>2

\* Requests that keep their kinds, or end, stay apart.
LEMMA ApartKept ==
  ASSUME RecordsInv, NEW n \in Places, NEW d, underway' = [underway EXCEPT ![n] = d], underway[n] # Quiet,
         d.kind = underway[n].kind \/ d = Quiet, tangled' = tangled, record' = record
  PROVE  RequestsApart'
<1>1. SUFFICES ASSUME ~tangled, NEW a \in Places, NEW b \in Places, a # b, underway'[a] # Quiet, underway'[b] # Quiet
               PROVE  Apart(record, underway'[a].kind, underway'[b].kind)
  BY DEF RequestsApart
<1>2. underway'[n] = d /\ \A m \in Places \ {n} : underway'[m] = underway[m]
  BY Replaced DEF RecordsInv
<1>3. underway[a] # Quiet /\ underway[b] # Quiet /\ underway'[a].kind = underway[a].kind /\ underway'[b].kind = underway[b].kind
  BY <1>1, <1>2
<1>4. QED BY <1>1, <1>3 DEF RecordsInv, RequestsApart
-----------------------------------------------------------------------------
\* A request asked for by a button.
LEMMA AskKeeps ==
  ASSUME RecordsInv, NEW kind \in Kinds, AskRecord(kind), record = "order" => kind \in {"list", "detail", "note", "close"},
         kind \in Works => ~UnderWay(Excluded(kind)), kind = "close" => listed.times > 0,
         listed' = listed \/ (kind = "detail" /\ record = "order" /\ listed' = Unlisted)
  PROVE  RecordsInv'
<1>u. UNCHANGED <<record, now, escalation, seen, row, audit, own, unread, missing>>
  BY DEF AskRecord
<1>t. RecordTypes
  BY DEF RecordsInv
<1>1. PICK p \in Places : underway[p] = Quiet /\ underway' = [underway EXCEPT ![p] = Request(kind)]
  <2>1. PICK q \in Places : underway[q] = Quiet
    BY RoomForOne DEF AskRecord
  <2>2. underway = [n \in Places |-> underway[n]]
    BY DEF RecordsInv, RecordTypes
  <2>3. PICK requests : requests = underway
    OBVIOUS
  <2>4. QED BY <2>1, <2>2, <2>3, StartedIn DEF AskRecord
<1>2. PICK d : d = Request(kind)
  OBVIOUS
<1>3. underway'[p] = d /\ \A m \in Places \ {p} : underway'[m] = underway[m]
  BY <1>1, <1>2, <1>t, Replaced
<1>4. d # Quiet /\ d.kind = kind /\ d.step = "asked" /\ d.main = seen.main /\ d.pay = seen.pay
  <2>1. d # Quiet
    BY <1>2, QuietIsNone
  <2>2. QED BY <1>2, <2>1 DEF Request
<1>5. RecordTypes'
  <2>1. IsRequest(d)
    BY <1>2, <1>t, RequestTyped
  <2>2. IsRequest(d)'
    BY <1>u, <2>1 DEF IsRequest
  <2>3. underway' = [m \in Places |-> underway'[m]] /\ \A m \in Places : IsRequest(underway[m])'
    <3>1. Rank[escalation] <= Rank[escalation']
      BY <1>u, <1>t DEF RecordTypes, Rank, Escalations
    <3>2. now' \in Nat /\ now <= now' /\ escalation' \in Escalations
      BY <1>u, <1>t DEF RecordTypes
    <3>3. underway' = [underway EXCEPT ![p] = d]
      BY <1>1, <1>2
    <3>4. QED BY <1>u, <1>t, <2>2, <3>1, <3>2, <3>3, RequestsKept
  <2>4. tangled' \in BOOLEAN /\ rowTangled' \in BOOLEAN
    BY Zenon DEF AskRecord
  <2>5. /\ listed' = [times |-> listed'.times, as |-> listed'.as] /\ listed'.times \in Nat
        /\ listed'.as \in Escalations /\ (listed'.times > 0 => escalation # "none")
    <3>1. CASE listed' = listed
      BY <3>1, <1>t DEF RecordTypes
    <3>2. CASE listed' = Unlisted
      BY <3>2 DEF Unlisted, Escalations
    <3>3. QED BY <3>1, <3>2
  <2>6. QED BY <1>u, <1>t, <2>3, <2>4, <2>5, Zenon DEF RecordTypes
<1>6. ~tangled' => ~UnderWay(Rivals(kind)) /\ (tangled => kind = "detail")
  BY DEF AskRecord
<1>7. ASSUME ~tangled', NEW m \in Places \ {p}, underway[m] # Quiet
      PROVE  Apart(record, kind, underway[m].kind) /\ Apart(record, underway[m].kind, kind)
  <2>1. underway[m].kind \in Kinds /\ (record = "order" => underway[m].kind \in {"list", "detail", "note", "close"})
    BY <1>7, <1>t DEF RecordTypes, IsRequest
  <2>2. record \in {"job", "order"}
    BY <1>t DEF RecordTypes
  <2>3. underway[m].kind \notin Rivals(kind) /\ (kind \in Works => underway[m].kind \notin Excluded(kind))
    BY <1>6, <1>7 DEF UnderWay
  <2>4. QED BY <2>1, <2>2, <2>3, RivalsApart
<1>c. ~tangled' /\ tangled => \A m \in Places \ {p} : underway[m] # Quiet => underway[m].kind = "list" /\ record = "job"
  BY <1>6, <1>7 DEF Apart, Loading
<1>8. RequestsApart'
  <2>1. SUFFICES ASSUME ~tangled', NEW a \in Places, NEW b \in Places, a # b, underway'[a] # Quiet, underway'[b] # Quiet
                 PROVE  Apart(record, underway'[a].kind, underway'[b].kind)
    BY <1>u DEF RequestsApart
  <2>3. CASE a = p
    BY <1>3, <1>4, <1>7, <2>1, <2>3
  <2>4. CASE b = p
    BY <1>3, <1>4, <1>7, <2>1, <2>4
  <2>5. CASE a # p /\ b # p
    <3>1. underway'[a] = underway[a] /\ underway'[b] = underway[b]
      BY <1>3, <2>5
    <3>2. CASE ~tangled
      BY <2>1, <3>1, <3>2 DEF RecordsInv, RequestsApart
    <3>3. CASE tangled
      <4>1. record = "job" /\ underway[a].kind = "list" /\ underway[b].kind = "list"
        BY <1>c, <2>1, <2>5, <3>1, <3>3
      <4>2. QED BY <3>1, <4>1 DEF Apart, Loading
    <3>4. QED BY <3>2, <3>3
  <2>6. QED BY <2>3, <2>4, <2>5
<1>9. RequestsNotBehind'
  <2>1. SUFFICES ASSUME ~tangled', NEW a \in Places, underway'[a] # Quiet PROVE NotBehind(underway[a])'
    BY DEF RequestsNotBehind, NotBehind
  <2>2. CASE a = p
    <3>1. seen.main \in Nat /\ seen.pay \in Nat
      BY <1>t DEF RecordTypes
    <3>2. underway'[a] = d /\ seen' = seen
      BY <1>3, <1>u, <2>2
    <3>3. kind = "close" => listed'.times > 0
      OBVIOUS
    <3>4. QED BY <1>4, <3>1, <3>2, <3>3 DEF NotBehind
  <2>3. CASE a # p
    <3>1. underway'[a] = underway[a] /\ underway[a] # Quiet
      BY <1>3, <2>1, <2>3
    <3>2. underway[a].kind # "list" => ~tangled /\ kind # "detail"
      BY <1>c, <1>7, <2>1, <2>3, <3>1 DEF Apart, Loading
    <3>3. CASE underway[a].kind = "list"
      <4>1. record = "order" => ~tangled
        BY <1>c, <2>1, <2>3, <3>1
      <4>2. record = "order" => underway[a].pay >= seen.pay
        BY <3>1, <3>3, <4>1 DEF RecordsInv, RequestsNotBehind, NotBehind
      <4>3. QED BY <1>u, <3>1, <3>3, <4>2 DEF NotBehind, Loading
    <3>4. CASE underway[a].kind # "list"
      <4>1. NotBehind(underway[a])
        BY <3>2, <3>4 DEF RecordsInv, RequestsNotBehind
      <4>2. QED BY <1>u, <3>1, <3>2, <3>4, <4>1 DEF NotBehind
    <3>5. QED BY <3>3, <3>4
  <2>4. QED BY <2>2, <2>3
<1>10. OwnIsThere'
  <2>1. SUFFICES ASSUME ~tangled', ~unread', \A n \in Places : ~Loads(underway[n])'
                 PROVE  OwnIsThere'
    BY DEF OwnIsThere
  <2>2. kind # "detail" /\ ~tangled /\ ~unread /\ listed' = listed
    BY <1>3, <1>4, <1>6, <1>u, <2>1 DEF Loads
  <2>3. underway[p].kind = "none"
    BY <1>1 DEF Quiet
  <2>4. \A n \in Places : ~Loads(underway[n])
    BY <1>3, <2>1, <2>3 DEF Loads
  <2>5. (\A n \in Places : underway'[n].step # "audit") => \A n \in Places : underway[n].step # "audit"
    BY <1>1, <1>3 DEF Quiet
  <2>6. QED BY <1>u, <2>2, <2>4, <2>5 DEF OwnIsThere, RecordsInv
<1>11. RowFollows'
  <2>1. SUFFICES ASSUME ~rowTangled' PROVE RowFollows'
    BY DEF RowFollows
  <2>2. (\A n \in Places : underway[n] = Quiet) /\ (rowTangled => kind \in {"list", "detail"})
    BY <2>1 DEF AskRecord
  <2>3. \A n \in Places : underway'[n] # Quiet => n = p
    BY <1>3, <2>2
  <2>4. \A n \in Places : ~(underway'[n].kind = "list" /\ underway'[n].step = "read")
    BY <1>3, <1>4, <2>2 DEF Quiet
  <2>5. CASE kind \in {"list", "detail"}
    BY <1>3, <1>4, <2>3, <2>4, <2>5 DEF RowFollows, Loads
  <2>6. CASE kind \notin {"list", "detail"}
    <3>1. \A n \in Places : ~Loads(underway[n]) /\ underway[n].kind # "list"
      BY <2>2 DEF Loads, Quiet
    <3>2. ~unread => row.main >= seen.main /\ row.pay >= seen.pay
      BY <2>2, <2>6, <3>1 DEF RecordsInv, RowFollows
    <3>3. QED BY <1>u, <2>3, <2>4, <3>2 DEF RowFollows
  <2>7. QED BY <2>5, <2>6
<1>12. QED BY <1>5, <1>8, <1>9, <1>10, <1>11 DEF RecordsInv

-----------------------------------------------------------------------------
\* Which requests go through which step.
LEMMA StepsAre ==
  /\ StepsOf("list") = {"asked", "read"} /\ StepsOf("detail") = {"asked", "half", "read"}
  /\ StepsOf("assign") = {"asked", "done", "load", "half", "read"} /\ StepsOf("override") = {"asked", "done", "audit"}
  /\ \A k \in {"act", "authorize", "note", "close"} : StepsOf(k) = {"asked", "done"}
BY Zenon DEF StepsOf

\* A request in a step that only some kinds have is of one of these kinds.
LEMMA StepOwners ==
  ASSUME NEW c, IsRequest(c), c # Quiet
  PROVE  /\ c.kind \in Kinds /\ c.step \in {"asked", "done", "load", "half", "read", "audit"}
         /\ c.step = "load" => c.kind = "assign"
         /\ c.step = "half" => c.kind \in Loading
         /\ c.step = "read" => c.kind \in {"list", "detail", "assign"}
         /\ c.step = "audit" => c.kind = "override"
         /\ c.step = "done" => c.kind \in Works
<1>1. c.kind \in Kinds /\ c.step \in StepsOf(c.kind)
  BY DEF IsRequest
<1>2. c.kind \in {"list", "detail", "assign", "override", "act", "authorize", "note", "close"}
  BY <1>1 DEF Kinds, Works
<1>3. QED BY <1>1, <1>2, StepsAre DEF Works, Loading

\* What a load holds after its first read and after its second.
LEMMA ReadFirst ==
  ASSUME NEW c, c = [kind |-> c.kind, step |-> c.step, main |-> c.main, pay |-> c.pay, audit |-> c.audit, as |-> c.as],
         NEW s, NEW d, d = [ReadsFirst(c) EXCEPT !.step = s]
  PROVE  /\ d = [kind |-> d.kind, step |-> d.step, main |-> d.main, pay |-> d.pay, audit |-> d.audit, as |-> d.as]
         /\ d.kind = c.kind /\ d.step = s /\ d.main = now /\ d.audit = c.audit
         /\ record = "order" /\ c.kind = "detail" => d.pay = c.pay /\ d.as = c.as
         /\ ~(record = "order" /\ c.kind = "detail") => d.pay = now /\ d.as = escalation
<1>1. CASE record = "order" /\ c.kind = "detail"
  <2>1. PICK e : e = [c EXCEPT !.main = now]
    OBVIOUS
  <2>2. e = [kind |-> c.kind, step |-> c.step, main |-> now, pay |-> c.pay, audit |-> c.audit, as |-> c.as]
    BY <2>1
  <2>3. d = [e EXCEPT !.step = s]
    BY <1>1, <2>1 DEF ReadsFirst
  <2>4. d = [kind |-> c.kind, step |-> s, main |-> now, pay |-> c.pay, audit |-> c.audit, as |-> c.as]
    BY <2>2, <2>3
  <2>5. d = [kind |-> d.kind, step |-> d.step, main |-> d.main, pay |-> d.pay, audit |-> d.audit, as |-> d.as]
    BY ONLY <2>4
  <2>6. QED BY <1>1, <2>4, <2>5
<1>2. CASE ~(record = "order" /\ c.kind = "detail")
  <2>1. PICK e : e = [c EXCEPT !.main = now, !.pay = now, !.as = escalation]
    OBVIOUS
  <2>2. e = [kind |-> c.kind, step |-> c.step, main |-> now, pay |-> now, audit |-> c.audit, as |-> escalation]
    BY <2>1
  <2>3. d = [e EXCEPT !.step = s]
    BY <1>2, <2>1 DEF ReadsFirst
  <2>4. d = [kind |-> c.kind, step |-> s, main |-> now, pay |-> now, audit |-> c.audit, as |-> escalation]
    BY <2>2, <2>3
  <2>5. d = [kind |-> d.kind, step |-> d.step, main |-> d.main, pay |-> d.pay, audit |-> d.audit, as |-> d.as]
    BY ONLY <2>4
  <2>6. QED BY <1>2, <2>4, <2>5
<1>3. QED BY <1>1, <1>2

\* What a request reads last is what there is.
LEMMA ReadThen ==
  ASSUME NEW c, c = [kind |-> c.kind, step |-> c.step, main |-> c.main, pay |-> c.pay, audit |-> c.audit, as |-> c.as],
         NEW s, NEW d, d = [ReadsThen(c) EXCEPT !.step = s]
  PROVE  /\ d = [kind |-> d.kind, step |-> d.step, main |-> d.main, pay |-> d.pay, audit |-> d.audit, as |-> d.as]
         /\ d.kind = c.kind /\ d.step = s /\ d.main = c.main
         /\ record = "order" => d.pay = now /\ d.as = escalation /\ d.audit = c.audit
         /\ record # "order" => d.pay = c.pay /\ d.as = c.as /\ d.audit = now
<1>1. CASE record = "order"
  <2>1. PICK e : e = [c EXCEPT !.pay = now, !.as = escalation]
    OBVIOUS
  <2>2. e = [kind |-> c.kind, step |-> c.step, main |-> c.main, pay |-> now, audit |-> c.audit, as |-> escalation]
    BY <2>1
  <2>3. d = [e EXCEPT !.step = s]
    BY <1>1, <2>1 DEF ReadsThen
  <2>4. d = [kind |-> c.kind, step |-> s, main |-> c.main, pay |-> now, audit |-> c.audit, as |-> escalation]
    BY <2>2, <2>3
  <2>5. d = [kind |-> d.kind, step |-> d.step, main |-> d.main, pay |-> d.pay, audit |-> d.audit, as |-> d.as]
    BY ONLY <2>4
  <2>6. QED BY <1>1, <2>4, <2>5
<1>2. CASE record # "order"
  <2>1. PICK e : e = [c EXCEPT !.audit = now]
    OBVIOUS
  <2>2. e = [kind |-> c.kind, step |-> c.step, main |-> c.main, pay |-> c.pay, audit |-> now, as |-> c.as]
    BY <2>1
  <2>3. d = [e EXCEPT !.step = s]
    BY <1>2, <2>1 DEF ReadsThen
  <2>4. d = [kind |-> c.kind, step |-> s, main |-> c.main, pay |-> c.pay, audit |-> now, as |-> c.as]
    BY <2>2, <2>3
  <2>5. d = [kind |-> d.kind, step |-> d.step, main |-> d.main, pay |-> d.pay, audit |-> d.audit, as |-> d.as]
    BY ONLY <2>4
  <2>6. QED BY <1>2, <2>4, <2>5
<1>3. QED BY <1>1, <1>2

-----------------------------------------------------------------------------
\* The server reads for a load.
LEMMA ReadKeeps ==
  ASSUME RecordsInv, NEW n \in Places, Read(n)
  PROVE  RecordsInv'
<1>u. UNCHANGED <<record, now, escalation, shownVars, asked, own, unread, missing, tangled, rowTangled, masked>>
  BY DEF Read
<1>v. seen' = seen /\ row' = row /\ audit' = audit /\ listed' = listed /\ own' = own /\ record' = record /\ now' = now
      /\ escalation' = escalation /\ unread' = unread /\ missing' = missing /\ tangled' = tangled /\ rowTangled' = rowTangled
  BY <1>u DEF shownVars
<1>t. RecordTypes
  BY DEF RecordsInv
<1>1. PICK c : c = underway[n]
  OBVIOUS
<1>2. c.step \in {"load", "asked", "half"} /\ (c.step = "asked" => c.kind \in {"list", "detail"})
  BY <1>1 DEF Read
<1>3. IsRequest(c) /\ c # Quiet /\ (~tangled => NotBehind(c))
  BY <1>1, <1>2 DEF RecordsInv, RecordTypes, RequestsNotBehind, Quiet
<1>4. /\ c.step = "load" => c.kind = "assign"
      /\ c.step = "half" => c.kind \in Loading
  BY <1>3, StepOwners
<1>5. /\ c = [kind |-> c.kind, step |-> c.step, main |-> c.main, pay |-> c.pay, audit |-> c.audit, as |-> c.as]
      /\ c.kind \in Kinds /\ c.main \in 0..now /\ c.pay \in 0..now /\ c.audit \in 0..now
      /\ c.as \in Escalations /\ Rank[c.as] <= Rank[escalation]
      /\ record = "order" => c.kind \in {"list", "detail", "note", "close"}
      /\ record = "order" /\ c.kind = "detail" => c.audit = 0
  BY <1>3 DEF IsRequest
<1>6. /\ seen.main \in 0..now /\ seen.pay \in 0..now /\ audit \in 0..now /\ now \in Nat
      /\ own.main \in 0..now /\ own.pay \in 0..now /\ own.audit \in 0..now
      /\ own.as \in Escalations /\ Rank[own.as] <= Rank[escalation] /\ escalation \in Escalations
      /\ record \in {"job", "order"} /\ (record = "order" => audit = 0 /\ own.audit = 0)
  BY <1>t DEF RecordTypes
<1>7. \A k \in Escalations : Rank[k] \in Nat
  BY DEF Rank, Escalations
<1>8. PICK d : /\ underway' = [underway EXCEPT ![n] = d]
              /\ \/ c.step # "half" /\ d = [ReadsFirst(c) EXCEPT !.step = IF c.kind = "list" THEN "read" ELSE "half"]
                 \/ c.step = "half" /\ d = [ReadsThen(c) EXCEPT !.step = "read"]
  BY <1>1, <1>2, Zenon DEF Read
<1> DEFINE Good ==
      /\ IsRequest(d)' /\ d # Quiet /\ d.kind = c.kind /\ (Loads(d) <=> Loads(c)) /\ d.step # "audit" /\ c.step # "audit"
      /\ ~tangled => NotBehind(d)'
      /\ d.kind = "list" /\ d.step = "read" => d.main >= seen.main /\ d.pay >= seen.pay
<1>9. Good
  <2>1. CASE c.step # "half"
    <3>1. PICK s : s = IF c.kind = "list" THEN "read" ELSE "half"
      OBVIOUS
    <3>2. d = [ReadsFirst(c) EXCEPT !.step = s]
      BY <1>8, <2>1, <3>1
    <3>3. /\ d = [kind |-> d.kind, step |-> d.step, main |-> d.main, pay |-> d.pay, audit |-> d.audit, as |-> d.as]
          /\ d.kind = c.kind /\ d.step = s /\ d.main = now /\ d.audit = c.audit
          /\ record = "order" /\ c.kind = "detail" => d.pay = c.pay /\ d.as = c.as
          /\ ~(record = "order" /\ c.kind = "detail") => d.pay = now /\ d.as = escalation
      BY <1>5, <3>2, ReadFirst
    <3>4. c.kind \in {"list", "detail", "assign"} /\ s \in StepsOf(c.kind)
      BY <1>2, <1>4, <2>1, <3>1, StepsAre
    <3>5. d.main \in 0..now /\ d.pay \in 0..now /\ d.audit \in 0..now /\ d.as \in Escalations /\ Rank[d.as] <= Rank[escalation]
      BY <1>5, <1>6, <1>7, <3>3
    <3>6. IsRequest(d)
      BY <1>5, <3>1, <3>3, <3>4, <3>5 DEF IsRequest
    <3>7. IsRequest(d)'
      BY <1>v, <3>6 DEF IsRequest
    <3>8. d # Quiet /\ (Loads(d) <=> Loads(c)) /\ d.step # "audit" /\ c.step # "audit"
      BY <1>2, <1>4, <2>1, <3>1, <3>3, <3>4 DEF Quiet, Loads
    <3>9. ASSUME ~tangled PROVE NotBehind(d)'
      <4>1. c.kind \in Loading => c.pay >= seen.pay
        BY <1>3, <3>9 DEF NotBehind, Loading
      <4>2. d.main >= seen.main /\ d.pay >= seen.pay /\ d.main >= own.main
        BY <1>5, <1>6, <3>3, <3>4, <4>1 DEF Loading
      <4>3. record = "job" => d.pay >= own.pay /\ Rank[d.as] >= Rank[own.as]
        BY <1>5, <1>6, <1>7, <3>3
      <4>4. (d.kind \in Loading => d.step = "half") /\ d.kind \in {"list", "detail", "assign"}
        BY <3>1, <3>3, <3>4 DEF Loading
      <4>5. QED BY <1>v, <4>2, <4>3, <4>4 DEF NotBehind, Loading
    <3>10. d.main >= seen.main /\ (d.kind = "list" => d.pay >= seen.pay)
      BY <1>6, <3>3
    <3>11. QED BY <3>3, <3>7, <3>8, <3>9, <3>10
  <2>2. CASE c.step = "half"
    <3>2. d = [ReadsThen(c) EXCEPT !.step = "read"]
      BY <1>8, <2>2
    <3>3. /\ d = [kind |-> d.kind, step |-> d.step, main |-> d.main, pay |-> d.pay, audit |-> d.audit, as |-> d.as]
          /\ d.kind = c.kind /\ d.step = "read" /\ d.main = c.main
          /\ record = "order" => d.pay = now /\ d.as = escalation /\ d.audit = c.audit
          /\ record # "order" => d.pay = c.pay /\ d.as = c.as /\ d.audit = now
      BY <1>5, <3>2, ReadThen
    <3>4. c.kind \in Loading /\ d.step \in StepsOf(c.kind)
      BY <1>4, <2>2, <3>3, StepsAre DEF Loading
    <3>5. d.main \in 0..now /\ d.pay \in 0..now /\ d.audit \in 0..now /\ d.as \in Escalations /\ Rank[d.as] <= Rank[escalation]
      BY <1>5, <1>6, <1>7, <3>3
    <3>6. IsRequest(d)
      BY <1>5, <3>3, <3>4, <3>5 DEF IsRequest
    <3>7. IsRequest(d)'
      BY <1>v, <3>6 DEF IsRequest
    <3>8. d # Quiet /\ (Loads(d) <=> Loads(c)) /\ d.step # "audit" /\ c.step # "audit"
      BY <2>2, <3>3, <3>4 DEF Quiet, Loads, Loading
    <3>9. ASSUME ~tangled PROVE NotBehind(d)'
      <4>1. /\ c.main >= seen.main /\ c.pay >= seen.pay /\ c.main >= own.main
            /\ record = "job" => c.pay >= own.pay /\ Rank[c.as] >= Rank[own.as]
        BY <1>3, <2>2, <3>4, <3>9 DEF NotBehind, Loading
      <4>2. /\ d.main >= seen.main /\ d.pay >= seen.pay /\ d.main >= own.main
            /\ d.pay >= own.pay /\ Rank[d.as] >= Rank[own.as] /\ d.audit >= audit /\ d.audit >= own.audit
            /\ record = "order" => d.pay >= d.main
        <5>1. CASE record = "order"
          <6>1. d.audit = 0 /\ audit = 0 /\ own.audit = 0
            BY <1>5, <1>6, <3>3, <3>4, <5>1 DEF Loading
          <6>2. QED BY <1>5, <1>6, <1>7, <3>3, <4>1, <5>1, <6>1
        <5>2. CASE record = "job"
          BY <1>5, <1>6, <1>7, <3>3, <4>1, <5>2
        <5>3. QED BY <1>6, <5>1, <5>2
      <4>3. d.kind \in Loading /\ d.step = "read"
        BY <3>3, <3>4
      <4>4. QED BY <1>v, <4>2, <4>3 DEF NotBehind, Loading
    <3>10. d.kind # "list"
      BY <3>3, <3>4 DEF Loading
    <3>11. QED BY <3>3, <3>7, <3>8, <3>9, <3>10
  <2>3. QED BY <2>1, <2>2
<1> HIDE DEF Good
<1>10. underway'[n] = d /\ \A m \in Places \ {n} : underway'[m] = underway[m]
  BY <1>8, <1>t, Replaced
<1>11. RecordTypes'
  <2>1. Rank[escalation] <= Rank[escalation'] /\ now' \in Nat /\ now <= now' /\ escalation' \in Escalations
    BY <1>v, <1>6, <1>7
  <2>2. underway' = [m \in Places |-> underway'[m]] /\ \A m \in Places : IsRequest(underway[m])'
    BY <1>8, <1>9, <1>v, <1>t, <2>1, RequestsKept DEF Good
  <2>3. QED BY <1>v, <1>t, <2>2 DEF RecordTypes
<1>12. RequestsApart'
  BY <1>1, <1>3, <1>8, <1>9, <1>v, ApartKept DEF Good
<1>13. RequestsNotBehind'
  <2>1. SUFFICES ASSUME ~tangled, NEW a \in Places PROVE NotBehind(underway[a])'
    BY <1>v DEF RequestsNotBehind
  <2>2. CASE a = n
    BY <1>9, <1>10, <2>1, <2>2 DEF Good, NotBehind
  <2>3. CASE a # n
    <3>1. underway'[a] = underway[a] /\ NotBehind(underway[a])
      BY <1>10, <2>1, <2>3 DEF RecordsInv, RequestsNotBehind
    <3>2. QED BY <1>v, <3>1 DEF NotBehind
  <2>4. QED BY <2>2, <2>3
<1>14. \A a \in Places : /\ Loads(underway'[a]) <=> Loads(underway[a])
                         /\ underway'[a].kind = underway[a].kind
                         /\ underway'[a].step = "audit" <=> underway[a].step = "audit"
                         /\ underway'[a] # Quiet <=> underway[a] # Quiet
  BY <1>1, <1>3, <1>9, <1>10 DEF Good
<1>15. OwnIsThere'
  <2>1. OwnIsThere
    BY DEF RecordsInv
  <2>2. QED BY <1>v, <1>14, <2>1 DEF OwnIsThere, Loads
<1>16. RowFollows'
  <2>1. SUFFICES ASSUME ~rowTangled PROVE RowFollows'
    BY <1>v DEF RowFollows
  <2>2. \A a \in Places : underway'[a].kind = "list" /\ underway'[a].step = "read" =>
                             underway'[a].main >= seen.main /\ underway'[a].pay >= seen.pay
    BY <1>9, <1>10, <2>1 DEF Good, RecordsInv, RowFollows
  <2>3. QED BY <1>v, <1>14, <2>1, <2>2 DEF RowFollows, RecordsInv, Loads
<1>17. QED BY <1>11, <1>12, <1>13, <1>15, <1>16 DEF RecordsInv

-----------------------------------------------------------------------------
\* A request that ends, and the ones beside it.
LEMMA Ended ==
  ASSUME RecordsInv, NEW n \in Places, Ends(n), underway[n] # Quiet,
         UNCHANGED <<record, now, escalation, tangled>>
  PROVE  /\ underway' = [m \in Places |-> underway'[m]] /\ \A m \in Places : IsRequest(underway[m])'
         /\ underway'[n] = Quiet /\ \A m \in Places \ {n} : underway'[m] = underway[m]
         /\ RequestsApart'
<1>1. PICK d : d = Quiet
  OBVIOUS
<1>2. underway' = [underway EXCEPT ![n] = d]
  BY <1>1 DEF Ends
<1>3. IsRequest(d)'
  BY <1>1 DEF IsRequest
<1>4. Rank[escalation] <= Rank[escalation'] /\ now' \in Nat /\ now <= now' /\ escalation' \in Escalations
  BY DEF RecordsInv, RecordTypes, Rank, Escalations
<1>t. RecordTypes /\ record' = record /\ tangled' = tangled
  BY DEF RecordsInv
<1>5. underway' = [m \in Places |-> underway'[m]] /\ \A m \in Places : IsRequest(underway[m])'
  BY <1>2, <1>3, <1>4, <1>t, RequestsKept
<1>6. underway'[n] = Quiet /\ \A m \in Places \ {n} : underway'[m] = underway[m]
  BY <1>1, <1>2, <1>t, Replaced
<1>7. RequestsApart'
  BY <1>1, <1>2, <1>t, ApartKept
<1>8. QED BY <1>5, <1>6, <1>7

\* What a request is, and what may be beside it.
LEMMA RequestIs ==
  ASSUME RecordsInv, NEW n \in Places, NEW c, c = underway[n], c # Quiet
  PROVE  /\ c = [kind |-> c.kind, step |-> c.step, main |-> c.main, pay |-> c.pay, audit |-> c.audit, as |-> c.as]
         /\ c.kind \in Kinds /\ c.step \in StepsOf(c.kind) /\ c.main \in 0..now /\ c.pay \in 0..now /\ c.audit \in 0..now
         /\ c.as \in Escalations /\ Rank[c.as] <= Rank[escalation]
         /\ record = "order" => c.kind \in {"list", "detail", "note", "close"}
         /\ record = "order" /\ c.kind = "detail" => c.audit = 0
         /\ c.step = "done" => (c.kind = "note" => c.as = "open") /\ (c.kind = "close" => c.as = "closed")
         /\ ~tangled => NotBehind(c) /\ \A m \in Places \ {n} : underway[m] # Quiet => Apart(record, c.kind, underway[m].kind)
         /\ ~rowTangled => \A m \in Places \ {n} : underway[m] = Quiet
<1>1. IsRequest(c)
  BY DEF RecordsInv, RecordTypes
<1>2. ~tangled => NotBehind(c) /\ \A m \in Places \ {n} : underway[m] # Quiet => Apart(record, c.kind, underway[m].kind)
  BY DEF RecordsInv, RequestsNotBehind, RequestsApart
<1>3. ~rowTangled => \A m \in Places \ {n} : underway[m] = Quiet
  BY DEF RecordsInv, RowFollows
<1>4. QED BY <1>1, <1>2, <1>3 DEF IsRequest

\* What the page and the server hold.
LEMMA PageIs ==
  ASSUME RecordsInv
  PROVE  /\ record \in {"job", "order"} /\ now \in Nat /\ escalation \in Escalations
         /\ seen = [main |-> seen.main, pay |-> seen.pay] /\ seen.main \in 0..now /\ seen.pay \in 0..now
         /\ row = [main |-> row.main, pay |-> row.pay] /\ row.main \in 0..now /\ row.pay \in 0..now
         /\ audit \in 0..now /\ (record = "order" => audit = 0 /\ own.audit = 0)
         /\ listed = [times |-> listed.times, as |-> listed.as] /\ listed.times \in Nat /\ listed.as \in Escalations
         /\ listed.times > 0 => escalation # "none"
         /\ own = [main |-> own.main, pay |-> own.pay, audit |-> own.audit, as |-> own.as]
         /\ own.main \in 0..now /\ own.pay \in 0..now /\ own.audit \in 0..now
         /\ own.as \in Escalations /\ Rank[own.as] <= Rank[escalation]
BY DEF RecordsInv, RecordTypes

\* The flags of the page are flags.
LEMMA FlagsAre == RecordsInv => unread \in BOOLEAN /\ tangled \in BOOLEAN /\ rowTangled \in BOOLEAN
BY DEF RecordsInv, RecordTypes

\* Escalations are ranked by numbers, the absent one lowest.
LEMMA RankIsNat == \A k \in Escalations : Rank[k] \in Nat /\ (k # "none" => Rank[k] >= 1) /\ Rank[k] <= 2
                                         /\ (k = "none" => Rank[k] = 0) /\ (k = "open" => Rank[k] = 1) /\ (k = "closed" => Rank[k] = 2)
BY DEF Rank, Escalations

\* What a record of two moments holds.
LEMMA ShowsIs == \A c : Shows(c) = [main |-> Shows(c).main, pay |-> Shows(c).pay] /\ Shows(c).main = c.main /\ Shows(c).pay = c.pay
BY DEF Shows

-----------------------------------------------------------------------------
\* The list arrives.
LEMMA ShowListKeeps ==
  ASSUME RecordsInv, NEW n \in Places, ShowList(n)
  PROVE  RecordsInv'
<1>1. PICK c : c = underway[n]
  OBVIOUS
<1>2. c.kind = "list" /\ c.step = "read" /\ Ends(n) /\ row' = Shows(c) /\ c # Quiet
      /\ seen' = IF record = "order" /\ seen # Unloaded THEN [seen EXCEPT !.pay = c.pay] ELSE seen
  BY <1>1 DEF ShowList, Quiet
<1>v. UNCHANGED <<record, now, escalation, audit, listed, asked, own, unread, missing, tangled, rowTangled, masked>>
  BY DEF ShowList
<1>3. /\ underway' = [m \in Places |-> underway'[m]] /\ \A m \in Places : IsRequest(underway[m])'
      /\ underway'[n] = Quiet /\ \A m \in Places \ {n} : underway'[m] = underway[m]
      /\ RequestsApart'
  BY <1>1, <1>2, <1>v, Ended
<1>4. /\ c.main \in 0..now /\ c.pay \in 0..now
      /\ ~tangled => NotBehind(c) /\ \A m \in Places \ {n} : underway[m] # Quiet => Apart(record, c.kind, underway[m].kind)
      /\ ~rowTangled => \A m \in Places \ {n} : underway[m] = Quiet
  BY <1>1, <1>2, RequestIs
<1>5. /\ row' = [main |-> row'.main, pay |-> row'.pay] /\ row'.main = c.main /\ row'.pay = c.pay
      /\ seen' = [main |-> seen'.main, pay |-> seen'.pay] /\ seen'.main = seen.main /\ seen'.pay \in {seen.pay, c.pay}
      /\ (record # "order" => seen' = seen)
  <2>1. seen = [main |-> seen.main, pay |-> seen.pay]
    BY PageIs
  <2>2. CASE record = "order" /\ seen # Unloaded
    <3>1. seen' = [main |-> seen.main, pay |-> c.pay]
      BY <1>2, <2>1, <2>2
    <3>2. QED BY <1>2, <2>2, <3>1, ShowsIs
  <2>3. CASE ~(record = "order" /\ seen # Unloaded)
    BY <1>2, <2>1, <2>3, ShowsIs
  <2>4. QED BY <2>2, <2>3
<1>6. RecordTypes'
  <2>1. row'.main \in 0..now /\ row'.pay \in 0..now /\ seen'.main \in 0..now /\ seen'.pay \in 0..now
    BY <1>4, <1>5, PageIs
  <2>2. RecordTypes
    BY DEF RecordsInv
  <2>3. QED BY <1>v, <1>3, <1>5, <2>1, <2>2 DEF RecordTypes
<1>7. RequestsNotBehind'
  <2>1. SUFFICES ASSUME ~tangled, NEW a \in Places, underway'[a] # Quiet PROVE NotBehind(underway[a])'
    BY <1>v DEF RequestsNotBehind, NotBehind
  <2>2. a # n /\ underway'[a] = underway[a] /\ NotBehind(underway[a]) /\ Apart(record, "list", underway[a].kind)
    BY <1>2, <1>3, <1>4, <2>1 DEF RecordsInv, RequestsNotBehind
  <2>3. CASE record = "order"
    <3>1. underway[a].kind \in {"note", "close"}
      BY <2>2, <2>3 DEF Apart
    <3>2. QED BY <1>v, <2>2, <3>1 DEF NotBehind, Loading
  <2>4. CASE record # "order"
    BY <1>v, <1>5, <2>2, <2>4 DEF NotBehind
  <2>5. QED BY <2>3, <2>4
<1>8. OwnIsThere'
  <2>1. SUFFICES ASSUME ~tangled, ~unread, \A m \in Places : ~Loads(underway'[m]) PROVE OwnIsThere'
    BY <1>v DEF OwnIsThere, Loads
  <2>2. \A m \in Places : ~Loads(underway[m])
    BY <1>1, <1>2, <1>3, <2>1 DEF Loads, Loading
  <2>3. (\A m \in Places : underway'[m].step # "audit") => \A m \in Places : underway[m].step # "audit"
    BY <1>1, <1>2, <1>3
  <2>4. OwnIsThere
    BY DEF RecordsInv
  <2>5. seen'.pay >= seen.pay
    BY <1>2, <1>4, <1>5, <2>1, PageIs DEF NotBehind
  <2>6. seen'.main = seen.main /\ seen'.pay \in Nat /\ seen.pay \in Nat /\ seen.main \in Nat /\ own.pay \in Nat
    BY <1>4, <1>5, PageIs
  <2>7. QED BY <1>v, <2>1, <2>2, <2>3, <2>4, <2>5, <2>6 DEF OwnIsThere
<1>9. RowFollows'
  <2>1. SUFFICES ASSUME ~rowTangled PROVE RowFollows'
    BY <1>v DEF RowFollows
  <2>2. \A m \in Places : underway'[m] = Quiet
    BY <1>3, <1>4, <2>1
  <2>3. c.main >= seen.main /\ c.pay >= seen.pay
    BY <1>1, <1>2, <2>1 DEF RecordsInv, RowFollows
  <2>4. row'.main >= seen'.main /\ row'.pay >= seen'.pay
    BY <1>4, <1>5, <2>3
  <2>5. QED BY <2>2, <2>4 DEF RowFollows, Quiet
<1>10. QED BY <1>3, <1>6, <1>7, <1>8, <1>9 DEF RecordsInv

\* The record arrives, in the place of what was there.
LEMMA ShowRecordKeeps ==
  ASSUME RecordsInv, NEW n \in Places, NEW lacks, ShowRecord(n, lacks)
  PROVE  RecordsInv'
<1>1. PICK c : c = underway[n]
  OBVIOUS
<1>2. c.kind \in Loading /\ c.step = "read" /\ Ends(n) /\ seen' = Shows(c) /\ row' = Shows(c) /\ c # Quiet
      /\ audit' = (IF "audit" \in lacks THEN 0 ELSE c.audit) /\ missing' = lacks
      /\ listed' = (IF "log" \in lacks \/ c.as = "none" THEN Unlisted ELSE [times |-> 1, as |-> c.as]) /\ unread' = FALSE
  BY <1>1 DEF ShowRecord, Quiet, Loading
<1>v. UNCHANGED <<record, now, escalation, asked, own, tangled, rowTangled, masked>>
  BY DEF ShowRecord
<1>3. /\ underway' = [m \in Places |-> underway'[m]] /\ \A m \in Places : IsRequest(underway[m])'
      /\ underway'[n] = Quiet /\ \A m \in Places \ {n} : underway'[m] = underway[m]
      /\ RequestsApart'
  BY <1>1, <1>2, <1>v, Ended
<1>4. /\ c.main \in 0..now /\ c.pay \in 0..now /\ c.audit \in 0..now
      /\ c.as \in Escalations /\ Rank[c.as] <= Rank[escalation]
      /\ record = "order" => c.kind \in {"list", "detail", "note", "close"}
      /\ record = "order" /\ c.kind = "detail" => c.audit = 0
      /\ ~tangled => NotBehind(c) /\ \A m \in Places \ {n} : underway[m] # Quiet => Apart(record, c.kind, underway[m].kind)
      /\ ~rowTangled => \A m \in Places \ {n} : underway[m] = Quiet
  BY <1>1, <1>2, RequestIs
<1>5. /\ row' = [main |-> row'.main, pay |-> row'.pay] /\ row'.main = c.main /\ row'.pay = c.pay
      /\ seen' = [main |-> seen'.main, pay |-> seen'.pay] /\ seen'.main = c.main /\ seen'.pay = c.pay
      /\ listed' = [times |-> listed'.times, as |-> listed'.as] /\ listed'.as \in {"none", c.as} /\ listed'.times \in {0, 1}
      /\ "log" \notin lacks => listed'.as = c.as
      /\ listed'.times # 0 => c.as # "none"
  <2>1. /\ listed' = [times |-> listed'.times, as |-> listed'.as] /\ listed'.as \in {"none", c.as} /\ listed'.times \in {0, 1}
        /\ "log" \notin lacks => listed'.as = c.as
        /\ listed'.times # 0 => c.as # "none"
    <3>1. CASE listed' = Unlisted /\ ("log" \in lacks \/ c.as = "none")
      BY <3>1 DEF Unlisted
    <3>2. CASE listed' = [times |-> 1, as |-> c.as] /\ c.as # "none"
      BY <3>2
    <3>3. QED BY <1>2, <3>1, <3>2
  <2>2. QED BY <1>2, <2>1, ShowsIs
<1>o. record = "order" => c.kind = "detail"
  BY <1>2, <1>4 DEF Loading
<1>6. RecordTypes'
  <2>1. /\ row'.main \in 0..now /\ row'.pay \in 0..now /\ seen'.main \in 0..now /\ seen'.pay \in 0..now
        /\ audit' \in 0..now /\ listed'.times \in Nat /\ listed'.as \in Escalations
    <3>1. now \in Nat
      BY DEF RecordsInv, RecordTypes
    <3>2. audit' \in {0, c.audit}
      BY <1>2
    <3>3. QED BY <1>4, <1>5, <3>1, <3>2 DEF Escalations
  <2>2. listed'.times > 0 => escalation # "none"
    <3>1. c.as # "none" => Rank[c.as] >= 1 /\ Rank[c.as] \in Nat
      BY <1>4, RankIsNat
    <3>2. escalation = "none" => Rank[escalation] = 0
      BY PageIs, RankIsNat
    <3>3. QED BY <1>4, <1>5, <3>1, <3>2
  <2>3. record = "order" => audit' = 0 /\ own.audit = 0
    BY <1>2, <1>4, <1>o, PageIs
  <2>4. RecordTypes
    BY DEF RecordsInv
  <2>5. unread' \in BOOLEAN
    BY <1>2
  <2>6. QED BY <1>v, <1>3, <1>5, <2>1, <2>2, <2>3, <2>4, <2>5 DEF RecordTypes
<1>7. RequestsNotBehind'
  <2>1. SUFFICES ASSUME ~tangled, NEW a \in Places, underway'[a] # Quiet PROVE NotBehind(underway[a])'
    BY <1>v DEF RequestsNotBehind, NotBehind
  <2>2. underway'[a] = underway[a] /\ underway[a].kind = "list" /\ record = "job"
    BY <1>2, <1>3, <1>4, <2>1 DEF Apart
  <2>3. QED BY <1>v, <2>2 DEF NotBehind, Loading
<1>8. OwnIsThere'
  <2>1. SUFFICES ASSUME ~tangled PROVE OwnIsThere'
    BY <1>v DEF OwnIsThere
  <2>2. /\ c.main >= own.main /\ c.pay >= own.pay /\ c.audit >= own.audit /\ Rank[c.as] >= Rank[own.as]
        /\ record = "order" => c.pay >= c.main
    BY <1>2, <1>4, <1>o, <2>1 DEF NotBehind, Loading
  <2>3. listed'.times <= 1
    BY <1>5
  <2>4. QED BY <1>v, <1>2, <1>5, <2>2, <2>3 DEF OwnIsThere
<1>9. RowFollows'
  <2>1. SUFFICES ASSUME ~rowTangled PROVE RowFollows'
    BY <1>v DEF RowFollows
  <2>2. \A m \in Places : underway'[m] = Quiet
    BY <1>3, <1>4, <2>1
  <2>4. row'.main >= seen'.main /\ row'.pay >= seen'.pay
    BY <1>4, <1>5
  <2>5. QED BY <2>2, <2>4 DEF RowFollows, Quiet
<1>10. QED BY <1>3, <1>6, <1>7, <1>8, <1>9 DEF RecordsInv

\* An order of the page is answered: an action or a payment is shown at once.
LEMMA ShowDoneKeeps ==
  ASSUME RecordsInv, NEW n \in Places, ShowDone(n)
  PROVE  RecordsInv'
<1>1. PICK c : c = underway[n]
  OBVIOUS
<1>2. c.kind \in {"act", "authorize"} /\ c.step = "done" /\ Ends(n) /\ seen' = Shows(c) /\ row' = Shows(c) /\ c # Quiet
      /\ own' = [own EXCEPT !.pay = c.pay, !.main = IF c.kind = "act" THEN c.main ELSE own.main]
  BY <1>1 DEF ShowDone, Quiet, syncJob
<1>v. UNCHANGED <<record, now, escalation, audit, listed, asked, unread, missing, tangled, rowTangled, masked>>
  BY DEF ShowDone
<1>3. /\ underway' = [m \in Places |-> underway'[m]] /\ \A m \in Places : IsRequest(underway[m])'
      /\ underway'[n] = Quiet /\ \A m \in Places \ {n} : underway'[m] = underway[m]
      /\ RequestsApart'
  BY <1>1, <1>2, <1>v, Ended
<1>4. /\ c.main \in 0..now /\ c.pay \in 0..now /\ record # "order"
      /\ ~tangled => NotBehind(c) /\ \A m \in Places \ {n} : underway[m] # Quiet => Apart(record, c.kind, underway[m].kind)
      /\ ~rowTangled => \A m \in Places \ {n} : underway[m] = Quiet
  BY <1>1, <1>2, RequestIs
<1>5. /\ row' = [main |-> row'.main, pay |-> row'.pay] /\ row'.main = c.main /\ row'.pay = c.pay
      /\ seen' = [main |-> seen'.main, pay |-> seen'.pay] /\ seen'.main = c.main /\ seen'.pay = c.pay
  BY <1>2, ShowsIs
<1>6. /\ own' = [main |-> own'.main, pay |-> own'.pay, audit |-> own'.audit, as |-> own'.as]
      /\ own'.main \in {own.main, c.main} /\ own'.pay = c.pay /\ own'.audit = own.audit /\ own'.as = own.as
  <2>1. PICK to : to = IF c.kind = "act" THEN c.main ELSE own.main
    OBVIOUS
  <2>2. own' = [main |-> to, pay |-> c.pay, audit |-> own.audit, as |-> own.as]
    BY <1>2, <2>1, PageIs
  <2>3. QED BY <2>1, <2>2
<1>7. RecordTypes'
  <2>1. /\ row'.main \in 0..now /\ row'.pay \in 0..now /\ seen'.main \in 0..now /\ seen'.pay \in 0..now
        /\ own'.main \in 0..now /\ own'.pay \in 0..now
    BY <1>4, <1>5, <1>6, PageIs
  <2>2. RecordTypes
    BY DEF RecordsInv
  <2>3. QED BY <1>v, <1>3, <1>4, <1>5, <1>6, <2>1, <2>2 DEF RecordTypes
<1>8. RequestsNotBehind'
  <2>1. SUFFICES ASSUME ~tangled, NEW a \in Places, underway'[a] # Quiet PROVE NotBehind(underway[a])'
    BY <1>v DEF RequestsNotBehind, NotBehind
  <2>2. underway'[a] = underway[a] /\ underway[a].kind \in {"list", "override", "note", "close"} /\ NotBehind(underway[a])
        /\ underway[a] # Quiet
    BY <1>2, <1>3, <1>4, <2>1 DEF Apart, RecordsInv, RequestsNotBehind
  <2>3. QED BY <1>v, <1>4, <2>2 DEF NotBehind, Loading
<1>9. OwnIsThere'
  <2>1. SUFFICES ASSUME ~tangled, ~unread, \A m \in Places : ~Loads(underway'[m]) PROVE OwnIsThere'
    BY <1>v DEF OwnIsThere, Loads
  <2>2. \A m \in Places : ~Loads(underway[m])
    BY <1>1, <1>2, <1>3, <2>1 DEF Loads
  <2>3. (\A m \in Places : underway'[m].step # "audit") => \A m \in Places : underway[m].step # "audit"
    BY <1>1, <1>2, <1>3
  <2>4. OwnIsThere
    BY DEF RecordsInv
  <2>5. c.main >= seen.main /\ seen.main >= own.main
    BY <1>2, <1>4, <2>1, <2>2, <2>4 DEF NotBehind, OwnIsThere
  <2>6. seen'.main >= own'.main /\ seen'.pay >= own'.pay
    BY <1>4, <1>5, <1>6, <2>5, PageIs
  <2>7. QED BY <1>v, <1>4, <1>6, <2>1, <2>2, <2>3, <2>4, <2>6 DEF OwnIsThere
<1>10. RowFollows'
  <2>1. SUFFICES ASSUME ~rowTangled PROVE RowFollows'
    BY <1>v DEF RowFollows
  <2>2. \A m \in Places : underway'[m] = Quiet
    BY <1>3, <1>4, <2>1
  <2>3. row'.main >= seen'.main /\ row'.pay >= seen'.pay
    BY <1>4, <1>5
  <2>4. QED BY <2>2, <2>3 DEF RowFollows, Quiet
<1>11. QED BY <1>3, <1>7, <1>8, <1>9, <1>10 DEF RecordsInv

\* The audit of an override arrives.
LEMMA ShowAuditKeeps ==
  ASSUME RecordsInv, NEW n \in Places, ShowAudit(n)
  PROVE  RecordsInv'
<1>1. PICK c : c = underway[n]
  OBVIOUS
<1>2. c.step = "audit" /\ Ends(n) /\ audit' = now /\ c # Quiet
  BY <1>1 DEF ShowAudit, Quiet
<1>v. UNCHANGED <<record, now, escalation, seen, row, listed, asked, own, unread, tangled, rowTangled, masked>>
      /\ missing' = missing \ {"audit"}
  BY DEF ShowAudit
<1>3. /\ underway' = [m \in Places |-> underway'[m]] /\ \A m \in Places : IsRequest(underway[m])'
      /\ underway'[n] = Quiet /\ \A m \in Places \ {n} : underway'[m] = underway[m]
      /\ RequestsApart'
  BY <1>1, <1>2, <1>v, Ended
<1>4. /\ c.kind = "override" /\ record # "order"
      /\ ~tangled => \A m \in Places \ {n} : underway[m] # Quiet => Apart(record, c.kind, underway[m].kind)
      /\ ~rowTangled => \A m \in Places \ {n} : underway[m] = Quiet
  <2>1. IsRequest(c)
    BY <1>1 DEF RecordsInv, RecordTypes
  <2>2. c.kind = "override"
    BY <1>2, <2>1, StepOwners
  <2>3. QED BY <1>1, <1>2, <2>2, RequestIs
<1>5. RecordTypes'
  <2>1. now \in Nat /\ RecordTypes
    BY DEF RecordsInv, RecordTypes
  <2>2. audit' \in 0..now
    BY <1>2, <2>1
  <2>3. QED BY <1>v, <1>3, <1>4, <2>1, <2>2 DEF RecordTypes
<1>6. RequestsNotBehind'
  <2>1. SUFFICES ASSUME ~tangled, NEW a \in Places, underway'[a] # Quiet PROVE NotBehind(underway[a])'
    BY <1>v DEF RequestsNotBehind, NotBehind
  <2>2. underway'[a] = underway[a] /\ underway[a].kind \in {"list", "act", "authorize", "note", "close"} /\ NotBehind(underway[a])
        /\ underway[a] # Quiet
    BY <1>2, <1>3, <1>4, <2>1 DEF Apart, RecordsInv, RequestsNotBehind
  <2>3. QED BY <1>v, <2>2 DEF NotBehind, Loading
<1>7. OwnIsThere'
  <2>1. SUFFICES ASSUME ~tangled, ~unread, \A m \in Places : ~Loads(underway'[m]) PROVE OwnIsThere'
    BY <1>v DEF OwnIsThere, Loads
  <2>2. \A m \in Places : ~Loads(underway[m])
    BY <1>1, <1>3, <1>4, <2>1 DEF Loads
  <2>3. OwnIsThere
    BY DEF RecordsInv
  <2>4. audit' >= own.audit
    BY <1>2, PageIs
  <2>5. QED BY <1>v, <2>1, <2>2, <2>3, <2>4 DEF OwnIsThere
<1>8. RowFollows'
  <2>1. SUFFICES ASSUME ~rowTangled PROVE RowFollows'
    BY <1>v DEF RowFollows
  <2>2. \A m \in Places : underway'[m] = Quiet
    BY <1>3, <1>4, <2>1
  <2>3. \A m \in Places : ~Loads(underway[m]) /\ underway[m].kind # "list"
    BY <1>1, <1>4, <2>1 DEF Loads, Quiet
  <2>4. ~unread => row.main >= seen.main /\ row.pay >= seen.pay
    BY <2>1, <2>3 DEF RecordsInv, RowFollows
  <2>5. QED BY <1>v, <2>2, <2>4 DEF RowFollows, Quiet
<1>9. QED BY <1>3, <1>5, <1>6, <1>7, <1>8 DEF RecordsInv

\* An escalation is created or updated.
LEMMA ShowEscalationKeeps ==
  ASSUME RecordsInv, NEW n \in Places, ShowEscalation(n)
  PROVE  RecordsInv'
<1>1. PICK c : c = underway[n]
  OBVIOUS
<1>2. c.kind \in {"note", "close"} /\ c.step = "done" /\ Ends(n) /\ c # Quiet
      /\ (c.kind = "note" => listed' = [times |-> listed.times + 1, as |-> c.as])
      /\ (c.kind # "note" => listed' = [listed EXCEPT !.as = IF listed.times = 0 THEN listed.as ELSE c.as])
      /\ own' = [own EXCEPT !.as = c.as]
  BY <1>1 DEF ShowEscalation, Quiet
<1>v. UNCHANGED <<record, now, escalation, seen, row, audit, asked, unread, missing, tangled, rowTangled, masked>>
  BY DEF ShowEscalation
<1>3. /\ underway' = [m \in Places |-> underway'[m]] /\ \A m \in Places : IsRequest(underway[m])'
      /\ underway'[n] = Quiet /\ \A m \in Places \ {n} : underway'[m] = underway[m]
      /\ RequestsApart'
  BY <1>1, <1>2, <1>v, Ended
<1>4. /\ c.as \in Escalations /\ Rank[c.as] <= Rank[escalation] /\ c.as # "none"
      /\ ~tangled => NotBehind(c) /\ \A m \in Places \ {n} : underway[m] # Quiet => Apart(record, c.kind, underway[m].kind)
      /\ ~rowTangled => \A m \in Places \ {n} : underway[m] = Quiet
  BY <1>1, <1>2, RequestIs
<1>5. own' = [main |-> own.main, pay |-> own.pay, audit |-> own.audit, as |-> c.as]
      /\ own'.main = own.main /\ own'.pay = own.pay /\ own'.audit = own.audit /\ own'.as = c.as
  BY <1>2, PageIs
<1>6. /\ listed' = [times |-> listed'.times, as |-> listed'.as]
      /\ c.kind = "note" => listed'.times = listed.times + 1 /\ listed'.as = c.as
      /\ c.kind = "close" => listed'.times = listed.times /\ listed'.as = (IF listed.times = 0 THEN listed.as ELSE c.as)
  <2>1. CASE c.kind = "note"
    BY <1>2, <2>1
  <2>2. CASE c.kind = "close"
    <3>1. PICK to : to = IF listed.times = 0 THEN listed.as ELSE c.as
      OBVIOUS
    <3>2. listed' = [times |-> listed.times, as |-> to]
      BY <1>2, <2>2, <3>1, PageIs
    <3>3. QED BY <2>2, <3>1, <3>2
  <2>3. QED BY <1>2, <2>1, <2>2
<1>e. escalation # "none"
  <2>1. Rank[c.as] >= 1 /\ Rank[c.as] \in Nat /\ Rank[escalation] \in Nat /\ (escalation = "none" => Rank[escalation] = 0)
    BY <1>4, PageIs, RankIsNat
  <2>2. QED BY <1>4, <2>1
<1>7. RecordTypes'
  <2>1. listed'.times \in Nat /\ listed'.as \in Escalations
    BY <1>2, <1>4, <1>6, PageIs
  <2>2. own' = [main |-> own'.main, pay |-> own'.pay, audit |-> own'.audit, as |-> own'.as]
    BY ONLY <1>5
  <2>3. RecordTypes
    BY DEF RecordsInv
  <2>4. listed' = [times |-> listed'.times, as |-> listed'.as] /\ own'.as \in Escalations /\ Rank[own'.as] <= Rank[escalation]
    BY <1>4, <1>5, <1>6
  <2>5. own'.main \in 0..now /\ own'.pay \in 0..now /\ own'.audit \in 0..now /\ (record = "order" => own'.audit = 0)
    BY <1>5, PageIs
  <2>6. QED BY <1>v, <1>3, <1>e, <2>1, <2>2, <2>3, <2>4, <2>5, Zenon DEF RecordTypes
<1>8. RequestsNotBehind'
  <2>1. SUFFICES ASSUME ~tangled, NEW a \in Places, underway'[a] # Quiet PROVE NotBehind(underway[a])'
    BY <1>v DEF RequestsNotBehind, NotBehind
  <2>2. underway'[a] = underway[a] /\ underway[a].kind \in {"list", "act", "authorize", "override"} /\ NotBehind(underway[a])
        /\ underway[a] # Quiet
    BY <1>2, <1>3, <1>4, <2>1 DEF Apart, RecordsInv, RequestsNotBehind
  <2>3. QED BY <1>v, <2>2 DEF NotBehind, Loading
<1>9. OwnIsThere'
  <2>1. SUFFICES ASSUME ~tangled, ~unread, \A m \in Places : ~Loads(underway'[m]) PROVE OwnIsThere'
    BY <1>v DEF OwnIsThere, Loads
  <2>2. \A m \in Places : ~Loads(underway[m])
    BY <1>1, <1>2, <1>3, <2>1 DEF Loads
  <2>3. (\A m \in Places : underway'[m].step # "audit") => \A m \in Places : underway[m].step # "audit"
    BY <1>1, <1>2, <1>3
  <2>4. OwnIsThere
    BY DEF RecordsInv
  <2>5. listed'.times <= 1 /\ listed'.as = c.as
    <3>1. listed.times <= 1
      BY <2>1, <2>2, <2>4 DEF OwnIsThere
    <3>2. (c.kind = "note" => listed.times = 0) /\ (c.kind = "close" => listed.times > 0)
      BY <1>2, <1>4, <2>1 DEF NotBehind
    <3>3. QED BY <1>2, <1>6, <3>1, <3>2, PageIs
  <2>6. Rank[listed'.as] >= Rank[own'.as]
    BY <1>4, <1>5, <2>5, RankIsNat
  <2>7. QED BY <1>v, <1>5, <2>1, <2>2, <2>3, <2>4, <2>5, <2>6 DEF OwnIsThere
<1>10. RowFollows'
  <2>1. SUFFICES ASSUME ~rowTangled PROVE RowFollows'
    BY <1>v DEF RowFollows
  <2>2. \A m \in Places : underway'[m] = Quiet
    BY <1>3, <1>4, <2>1
  <2>3. \A m \in Places : ~Loads(underway[m]) /\ underway[m].kind # "list"
    BY <1>1, <1>2, <1>4, <2>1 DEF Loads, Quiet
  <2>4. ~unread => row.main >= seen.main /\ row.pay >= seen.pay
    BY <2>1, <2>3 DEF RecordsInv, RowFollows
  <2>5. QED BY <1>v, <2>2, <2>4 DEF RowFollows, Quiet
<1>11. QED BY <1>3, <1>7, <1>8, <1>9, <1>10 DEF RecordsInv

\* An answer gets lost.
LEMMA LosingKeeps ==
  ASSUME RecordsInv, NEW n \in Places, LoseAnswerOf(n)
  PROVE  RecordsInv'
<1>1. PICK c : c = underway[n]
  OBVIOUS
<1> DEFINE loads == c.kind \in {"list", "detail"} \/ c.step \in {"load", "half", "read", "audit"}
<1>2. /\ Ends(n) /\ c # Quiet
      /\ unread' = (unread \/ loads)
      /\ listed' = (IF c.kind \in Loading /\ loads THEN Unlisted ELSE listed)
      /\ audit' = (IF c.kind \in Loading /\ loads THEN 0 ELSE audit)
  BY <1>1, Zenon DEF LoseAnswerOf
<1>v. UNCHANGED <<record, now, escalation, seen, row, asked, own, missing, tangled, rowTangled>>
  BY DEF LoseAnswerOf
<1>3. /\ underway' = [m \in Places |-> underway'[m]] /\ \A m \in Places : IsRequest(underway[m])'
      /\ underway'[n] = Quiet /\ \A m \in Places \ {n} : underway'[m] = underway[m]
      /\ RequestsApart'
  BY <1>1, <1>2, <1>v, Ended
<1>4. /\ ~tangled => \A m \in Places \ {n} : underway[m] # Quiet => Apart(record, c.kind, underway[m].kind)
      /\ ~rowTangled => \A m \in Places \ {n} : underway[m] = Quiet
  BY <1>1, <1>2, RequestIs
<1>5. audit' \in {0, audit} /\ listed' \in {Unlisted, listed}
  BY <1>2
<1>6. RecordTypes'
  <2>1. audit' \in 0..now /\ (record = "order" => audit' = 0 /\ own.audit = 0)
    BY <1>5, PageIs
  <2>2. unread' \in BOOLEAN
    BY <1>2, Zenon
  <2>3. /\ listed' = [times |-> listed'.times, as |-> listed'.as] /\ listed'.times \in Nat /\ listed'.as \in Escalations
        /\ listed'.times > 0 => escalation # "none"
    <3>1. CASE listed' = listed
      BY <3>1, PageIs
    <3>2. CASE listed' = Unlisted
      BY <3>2 DEF Unlisted, Escalations
    <3>3. QED BY <1>5, <3>1, <3>2
  <2>4. RecordTypes
    BY DEF RecordsInv
  <2>5. QED BY <1>v, <1>3, <2>1, <2>2, <2>3, <2>4, Zenon DEF RecordTypes
<1>7. RequestsNotBehind'
  <2>1. SUFFICES ASSUME ~tangled, NEW a \in Places, underway'[a] # Quiet PROVE NotBehind(underway[a])'
    BY <1>v DEF RequestsNotBehind, NotBehind
  <2>2. underway'[a] = underway[a] /\ NotBehind(underway[a]) /\ Apart(record, c.kind, underway[a].kind) /\ underway[a] # Quiet
    BY <1>3, <1>4, <2>1 DEF RecordsInv, RequestsNotBehind
  <2>3. CASE c.kind \in Loading
    <3>1. underway[a].kind = "list" /\ record = "job"
      BY <2>2, <2>3 DEF Apart
    <3>2. QED BY <1>v, <2>2, <3>1 DEF NotBehind, Loading
  <2>4. CASE c.kind \notin Loading
    <3>1. listed' = listed /\ audit' = audit
      BY <1>2, <2>4
    <3>2. QED BY <1>v, <2>2, <3>1 DEF NotBehind
  <2>5. QED BY <2>3, <2>4
<1>8. ~unread' => ~unread /\ ~loads
  BY <1>2, Zenon
<1>9. OwnIsThere'
  <2>1. SUFFICES ASSUME ~tangled, ~unread', \A m \in Places : ~Loads(underway'[m]) PROVE OwnIsThere'
    BY <1>v DEF OwnIsThere, Loads
  <2>2. ~unread /\ ~Loads(c) /\ c.step # "audit" /\ listed' = listed /\ audit' = audit
    BY <1>2, <1>8, <2>1 DEF Loads
  <2>3. /\ \A m \in Places : ~Loads(underway[m])
        /\ (\A m \in Places : underway'[m].step # "audit") => \A m \in Places : underway[m].step # "audit"
    BY <1>1, <1>3, <2>1, <2>2
  <2>4. OwnIsThere
    BY DEF RecordsInv
  <2>5. QED BY <1>v, <2>1, <2>2, <2>3, <2>4 DEF OwnIsThere
<1>10. RowFollows'
  <2>1. SUFFICES ASSUME ~rowTangled PROVE RowFollows'
    BY <1>v DEF RowFollows
  <2>2. \A m \in Places : underway'[m] = Quiet
    BY <1>3, <1>4, <2>1
  <2>3. ~unread' => row.main >= seen.main /\ row.pay >= seen.pay
    <3>1. SUFFICES ASSUME ~unread' PROVE row.main >= seen.main /\ row.pay >= seen.pay
      OBVIOUS
    <3>2. ~unread /\ ~Loads(c) /\ c.kind # "list"
      BY <1>8, <3>1 DEF Loads
    <3>3. \A m \in Places : ~Loads(underway[m]) /\ underway[m].kind # "list"
      BY <1>1, <1>4, <2>1, <3>2 DEF Loads, Quiet
    <3>4. QED BY <2>1, <3>2, <3>3 DEF RecordsInv, RowFollows
  <2>4. QED BY <1>v, <2>2, <2>3 DEF RowFollows, Quiet
<1>11. QED BY <1>3, <1>6, <1>7, <1>9, <1>10 DEF RecordsInv

\* An assignment or an override was carried out: what it changed is loaded next.
LEMMA LoadAfterKeeps ==
  ASSUME RecordsInv, NEW n \in Places, LoadAfter(n)
  PROVE  RecordsInv'
<1>1. PICK c : c = underway[n]
  OBVIOUS
<1>2. /\ c.kind \in {"assign", "override"} /\ c.step = "done" /\ c # Quiet
      /\ own' = [own EXCEPT !.audit = c.audit, !.main = IF c.kind = "assign" THEN c.audit ELSE own.main]
      /\ underway' = [underway EXCEPT ![n].step = IF c.kind = "assign" THEN "load" ELSE "audit"]
  BY <1>1 DEF LoadAfter, Quiet
<1>v. UNCHANGED <<record, now, escalation, seen, row, audit, listed, asked, unread, missing, tangled, rowTangled, masked>>
  BY DEF LoadAfter, shownVars
<1>3. /\ c = [kind |-> c.kind, step |-> c.step, main |-> c.main, pay |-> c.pay, audit |-> c.audit, as |-> c.as]
      /\ c.kind \in Kinds /\ c.main \in 0..now /\ c.pay \in 0..now /\ c.audit \in 0..now
      /\ c.as \in Escalations /\ Rank[c.as] <= Rank[escalation]
      /\ ~tangled => NotBehind(c) /\ \A m \in Places \ {n} : underway[m] # Quiet => Apart(record, c.kind, underway[m].kind)
      /\ ~rowTangled => \A m \in Places \ {n} : underway[m] = Quiet
  BY <1>1, <1>2, RequestIs
<1>o. record = "job"
  <2>1. record # "order"
    BY <1>1, <1>2, RequestIs
  <2>2. QED BY <2>1, PageIs
<1>4. PICK s : s = IF c.kind = "assign" THEN "load" ELSE "audit"
  OBVIOUS
<1>5. PICK d : d = [c EXCEPT !.step = s]
  OBVIOUS
<1>6. d = [kind |-> c.kind, step |-> s, main |-> c.main, pay |-> c.pay, audit |-> c.audit, as |-> c.as]
  BY <1>3, <1>5
<1>7. d.kind = c.kind /\ d.step = s /\ d.main = c.main /\ d.pay = c.pay /\ d.audit = c.audit /\ d.as = c.as
  BY <1>6
<1>8. underway' = [underway EXCEPT ![n] = d]
  <2>1. underway' = [underway EXCEPT ![n].step = s]
    BY <1>2, <1>4
  <2>2. QED BY <1>1, <1>5, <2>1, Zenon
<1>9. IsRequest(d)' /\ d # Quiet
  <2>1. d = [kind |-> d.kind, step |-> d.step, main |-> d.main, pay |-> d.pay, audit |-> d.audit, as |-> d.as]
    BY ONLY <1>6
  <2>2. s \in StepsOf(c.kind)
    BY <1>2, <1>4, StepsAre
  <2>3. IsRequest(d)
    BY <1>2, <1>3, <1>o, <1>4, <1>7, <2>1, <2>2 DEF IsRequest
  <2>4. d # Quiet
    BY <1>2, <1>7 DEF Quiet
  <2>5. QED BY <1>v, <2>3, <2>4 DEF IsRequest
<1>t. RecordTypes
  BY DEF RecordsInv
<1>10. underway'[n] = d /\ \A m \in Places \ {n} : underway'[m] = underway[m]
  BY <1>8, <1>t, Replaced
<1>11. own' = [main |-> own'.main, pay |-> own'.pay, audit |-> own'.audit, as |-> own'.as]
       /\ own'.main = (IF c.kind = "assign" THEN c.audit ELSE own.main) /\ own'.pay = own.pay /\ own'.audit = c.audit /\ own'.as = own.as
  <2>1. PICK to : to = IF c.kind = "assign" THEN c.audit ELSE own.main
    OBVIOUS
  <2>2. own' = [main |-> to, pay |-> own.pay, audit |-> c.audit, as |-> own.as]
    BY <1>2, <2>1, PageIs
  <2>3. QED BY <2>1, <2>2
<1>12. RecordTypes'
  <2>1. Rank[escalation] <= Rank[escalation'] /\ now' \in Nat /\ now <= now' /\ escalation' \in Escalations
    BY <1>v, PageIs, RankIsNat
  <2>2. underway' = [m \in Places |-> underway'[m]] /\ \A m \in Places : IsRequest(underway[m])'
    BY <1>8, <1>9, <1>v, <1>t, <2>1, RequestsKept
  <2>3. own'.main \in 0..now /\ own'.pay \in 0..now /\ own'.audit \in 0..now
    BY <1>3, <1>11, PageIs
  <2>4. QED BY <1>v, <1>o, <1>t, <1>11, <2>2, <2>3 DEF RecordTypes
<1>13. RequestsApart'
  BY <1>1, <1>2, <1>7, <1>8, <1>v, ApartKept
<1>14. RequestsNotBehind'
  <2>1. SUFFICES ASSUME ~tangled, NEW a \in Places, underway'[a] # Quiet PROVE NotBehind(underway[a])'
    BY <1>v DEF RequestsNotBehind, NotBehind
  <2>2. CASE a = n
    <3>1. NotBehind(c)
      BY <1>3, <2>1
    <3>2. QED BY <1>2, <1>4, <1>7, <1>10, <1>v, <2>2, <3>1 DEF NotBehind, Loading
  <2>3. CASE a # n
    <3>1. underway'[a] = underway[a] /\ underway[a] # Quiet /\ NotBehind(underway[a])
          /\ underway[a].kind \in {"list", "act", "authorize", "note", "close"}
      BY <1>2, <1>3, <1>10, <2>1, <2>3 DEF Apart, Loading, RecordsInv, RequestsNotBehind
    <3>2. QED BY <1>v, <1>o, <3>1 DEF NotBehind, Loading
  <2>4. QED BY <2>2, <2>3
<1>15. CASE c.kind = "assign"
  <2>1. Loads(underway'[n])
    BY <1>4, <1>7, <1>10, <1>15 DEF Loads
  <2>2. OwnIsThere'
    BY <2>1 DEF OwnIsThere, Loads
  <2>3. RowFollows'
    <3>1. SUFFICES ASSUME ~rowTangled PROVE RowFollows'
      BY <1>v DEF RowFollows
    <3>2. \A m \in Places : underway'[m] # Quiet => m = n
      BY <1>3, <1>10, <3>1
    <3>3. \A m \in Places : ~(underway'[m].kind = "list" /\ underway'[m].step = "read")
      BY <1>7, <1>10, <1>15, <3>2 DEF Quiet
    <3>4. QED BY <2>1, <3>2, <3>3 DEF RowFollows, Loads
  <2>4. QED BY <1>12, <1>13, <1>14, <2>2, <2>3 DEF RecordsInv
<1>16. CASE c.kind = "override"
  <2>1. ~Loads(c) /\ ~Loads(d) /\ d.step = "audit" /\ d.kind # "list"
    BY <1>4, <1>7, <1>16 DEF Loads
  <2>2. OwnIsThere'
    <3>1. SUFFICES ASSUME ~tangled, ~unread, \A m \in Places : ~Loads(underway'[m]) PROVE OwnIsThere'
      BY <1>v DEF OwnIsThere, Loads
    <3>2. \A m \in Places : ~Loads(underway[m])
      BY <1>1, <1>10, <2>1, <3>1
    <3>3. OwnIsThere
      BY DEF RecordsInv
    <3>4. underway'[n].step = "audit"
      BY <1>10, <2>1
    <3>5. own'.main = own.main /\ own'.pay = own.pay /\ own'.as = own.as
      BY <1>11, <1>16
    <3>6. QED BY <1>v, <3>1, <3>2, <3>3, <3>4, <3>5 DEF OwnIsThere
  <2>3. RowFollows'
    <3>1. SUFFICES ASSUME ~rowTangled PROVE RowFollows'
      BY <1>v DEF RowFollows
    <3>2. \A m \in Places : underway'[m] # Quiet => m = n
      BY <1>3, <1>10, <3>1
    <3>3. \A m \in Places : ~(underway'[m].kind = "list" /\ underway'[m].step = "read")
      BY <1>10, <2>1, <3>2 DEF Quiet
    <3>4. ~unread => row.main >= seen.main /\ row.pay >= seen.pay
      <4>1. \A m \in Places : ~Loads(underway[m]) /\ underway[m].kind # "list"
        BY <1>1, <1>3, <1>16, <2>1, <3>1 DEF Loads, Quiet
      <4>2. QED BY <3>1, <4>1 DEF RecordsInv, RowFollows
    <3>5. QED BY <1>v, <3>2, <3>3, <3>4 DEF RowFollows
  <2>4. QED BY <1>12, <1>13, <1>14, <2>2, <2>3 DEF RecordsInv
<1>17. QED BY <1>2, <1>15, <1>16

\* The server carries out an order of the page.
LEMMA CarryKeeps ==
  ASSUME RecordsInv, NEW n \in Places, Carry(n)
  PROVE  RecordsInv'
<1>1. PICK c : c = underway[n]
  OBVIOUS
<1>2. PICK to : to = CASE c.kind = "note" -> "open" [] c.kind = "close" -> "closed" [] OTHER -> escalation
  OBVIOUS
<1>3. /\ c.kind = "note" => to = "open"
      /\ c.kind = "close" => to = "closed"
      /\ c.kind \notin {"note", "close"} => to = escalation
  BY <1>2, Zenon
<1>4. /\ c.kind \in Works /\ c.step = "asked" /\ c # Quiet /\ (c.kind = "note" => escalation = "none")
      /\ now' = now + 1 /\ escalation' = to
      /\ underway' = [underway EXCEPT ![n] = [c EXCEPT !.step = "done", !.as = to, !.audit = now + 1,
                        !.main = IF c.kind = "act" THEN now + 1 ELSE c.main,
                        !.pay = IF c.kind \in {"act", "authorize"} THEN now + 1 ELSE c.pay]]
  <2>1. c.step = "asked" => c # Quiet
    BY DEF Quiet
  <2>2. QED BY <1>1, <1>2, <2>1, Zenon DEF Carry
<1>v. UNCHANGED <<record, seen, row, audit, listed, asked, own, unread, missing, tangled, rowTangled, masked>>
  BY DEF Carry, shownVars
<1>5. /\ c = [kind |-> c.kind, step |-> c.step, main |-> c.main, pay |-> c.pay, audit |-> c.audit, as |-> c.as]
      /\ c.kind \in Kinds /\ c.main \in 0..now /\ c.pay \in 0..now /\ c.audit \in 0..now
      /\ record = "order" => c.kind \in {"list", "detail", "note", "close"}
      /\ ~tangled => NotBehind(c)
  BY <1>1, <1>4, RequestIs
<1>6. PICK main : main = IF c.kind = "act" THEN now + 1 ELSE c.main
  OBVIOUS
<1>7. PICK pay : pay = IF c.kind \in {"act", "authorize"} THEN now + 1 ELSE c.pay
  OBVIOUS
<1>8. PICK d : d = [c EXCEPT !.step = "done", !.as = to, !.audit = now + 1, !.main = main, !.pay = pay]
  OBVIOUS
<1>9. d = [kind |-> c.kind, step |-> "done", main |-> main, pay |-> pay, audit |-> now + 1, as |-> to]
  BY <1>5, <1>8
<1>10. d.kind = c.kind /\ d.step = "done" /\ d.main = main /\ d.pay = pay /\ d.audit = now + 1 /\ d.as = to
  BY <1>9
<1>11. underway' = [underway EXCEPT ![n] = d]
  BY <1>4, <1>6, <1>7, <1>8, Zenon
<1>12. now \in Nat /\ now' \in Nat /\ now <= now' /\ to \in Escalations /\ Rank[escalation] <= Rank[to]
  <2>1. to \in Escalations /\ escalation \in Escalations
    BY <1>3, PageIs DEF Escalations
  <2>2. Rank[escalation] <= Rank[to]
    BY <1>3, <1>4, <2>1, RankIsNat DEF Escalations
  <2>3. QED BY <1>4, <2>1, <2>2, PageIs
<1>13. IsRequest(d)' /\ d # Quiet
  <2>1. d = [kind |-> d.kind, step |-> d.step, main |-> d.main, pay |-> d.pay, audit |-> d.audit, as |-> d.as]
    BY ONLY <1>9
  <2>2. "done" \in StepsOf(c.kind)
    <3>1. c.kind \in {"assign", "override", "act", "authorize", "note", "close"}
      BY <1>4 DEF Works
    <3>2. QED BY <3>1, StepsAre
  <2>3. main \in 0..now' /\ pay \in 0..now' /\ now + 1 \in 0..now'
    BY <1>4, <1>5, <1>6, <1>7, <1>12
  <2>4. Rank[to] <= Rank[to] /\ escalation' = to /\ c.kind # "detail"
    BY <1>4, <1>12, RankIsNat DEF Works
  <2>5. QED BY <1>v, <1>3, <1>5, <1>10, <1>12, <2>1, <2>2, <2>3, <2>4 DEF IsRequest, Quiet
<1>t. RecordTypes
  BY DEF RecordsInv
<1>14. underway'[n] = d /\ \A m \in Places \ {n} : underway'[m] = underway[m]
  BY <1>11, <1>t, Replaced
<1>15. RecordTypes'
  <2>1. underway' = [m \in Places |-> underway'[m]] /\ \A m \in Places : IsRequest(underway[m])'
    BY <1>4, <1>11, <1>12, <1>13, <1>v, <1>t, RequestsKept
  <2>2. \A k \in 0..now : k \in 0..now'
    BY <1>12
  <2>3. /\ seen'.main \in 0..now' /\ seen'.pay \in 0..now' /\ row'.main \in 0..now' /\ row'.pay \in 0..now'
        /\ audit' \in 0..now' /\ own'.main \in 0..now' /\ own'.pay \in 0..now' /\ own'.audit \in 0..now'
    BY <1>v, <2>2, PageIs
  <2>4. Rank[own.as] <= Rank[to]
    BY <1>12, PageIs, RankIsNat
  <2>5. listed.times > 0 => to # "none"
    BY <1>3, PageIs
  <2>6. /\ record' \in {"job", "order"} /\ now' \in Nat /\ escalation' \in Escalations
        /\ seen' = [main |-> seen'.main, pay |-> seen'.pay] /\ row' = [main |-> row'.main, pay |-> row'.pay]
        /\ (record' = "order" => audit' = 0 /\ own'.audit = 0)
        /\ listed' = [times |-> listed'.times, as |-> listed'.as] /\ listed'.times \in Nat /\ listed'.as \in Escalations
        /\ own' = [main |-> own'.main, pay |-> own'.pay, audit |-> own'.audit, as |-> own'.as]
        /\ own'.as \in Escalations
    BY <1>v, <1>4, <1>12, PageIs
  <2>7. unread' \in BOOLEAN /\ tangled' \in BOOLEAN /\ rowTangled' \in BOOLEAN
    BY <1>v, FlagsAre
  <2>8. (listed'.times > 0 => escalation' # "none") /\ Rank[own'.as] <= Rank[escalation']
    BY <1>v, <1>4, <2>4, <2>5
  <2>9. QED BY <2>1, <2>3, <2>6, <2>7, <2>8, Zenon DEF RecordTypes
<1>16. RequestsApart'
  BY <1>1, <1>4, <1>10, <1>11, <1>v, ApartKept
<1>17. RequestsNotBehind'
  <2>1. SUFFICES ASSUME ~tangled, NEW a \in Places, underway'[a] # Quiet PROVE NotBehind(underway[a])'
    BY <1>v DEF RequestsNotBehind, NotBehind
  <2>2. CASE a = n
    <3>1. c.kind \in {"assign", "act", "authorize"} => c.main >= seen.main /\ c.pay >= seen.pay
      BY <1>4, <1>5, <2>1 DEF NotBehind
    <3>2. c.kind = "close" => listed.times > 0
      BY <1>4, <1>5, <2>1 DEF NotBehind
    <3>3. c.kind = "note" => listed.times = 0
      BY <1>4, PageIs
    <3>4. c.kind \in {"assign", "act", "authorize"} => main >= seen.main /\ pay >= seen.pay
      BY <1>5, <1>6, <1>7, <3>1, PageIs
    <3>5. c.kind \notin {"list", "detail"}
      BY <1>4 DEF Works
    <3>6. QED BY <1>10, <1>14, <1>v, <2>2, <3>2, <3>3, <3>4, <3>5 DEF NotBehind
  <2>3. CASE a # n
    <3>1. underway'[a] = underway[a] /\ NotBehind(underway[a])
      BY <1>14, <2>1, <2>3 DEF RecordsInv, RequestsNotBehind
    <3>2. QED BY <1>v, <3>1 DEF NotBehind
  <2>4. QED BY <2>2, <2>3
<1>18. \A a \in Places : /\ Loads(underway'[a]) <=> Loads(underway[a])
                         /\ underway'[a].kind = underway[a].kind
                         /\ underway'[a].step = "audit" <=> underway[a].step = "audit"
                         /\ underway'[a] # Quiet <=> underway[a] # Quiet
                         /\ underway'[a].kind = "list" => underway'[a] = underway[a]
  <2>1. c.kind \notin {"list", "detail"}
    BY <1>4 DEF Works
  <2>2. QED BY <1>1, <1>4, <1>10, <1>13, <1>14, <2>1 DEF Loads
<1>19. OwnIsThere'
  <2>1. OwnIsThere
    BY DEF RecordsInv
  <2>2. QED BY <1>v, <1>18, <2>1 DEF OwnIsThere, Loads
<1>20. RowFollows'
  <2>1. RowFollows
    BY DEF RecordsInv
  <2>2. QED BY <1>v, <1>18, <2>1 DEF RowFollows, Loads
<1>21. QED BY <1>15, <1>16, <1>17, <1>19, <1>20 DEF RecordsInv

\* A renewed session loads the list and the record at once.
LEMMA RenewKeeps ==
  ASSUME RecordsInv, RenewRecord
  PROVE  RecordsInv'
<1>v. UNCHANGED <<record, now, escalation, seen, row, audit, own, unread, missing>> /\ rowTangled' = TRUE
      /\ tangled' = (record = "order" \/ UnderWay(Rivals("detail")))
      /\ listed' = IF record = "order" THEN Unlisted ELSE listed
  BY DEF RenewRecord
<1>t. RecordTypes
  BY DEF RecordsInv
<1>u. underway = [m \in Places |-> underway[m]]
  BY <1>t DEF RecordTypes
<1>1. PICK p \in Places : underway[p] = Quiet /\ Started(underway, "list") = [underway EXCEPT ![p] = Request("list")]
  <2>1. \E q \in Places : underway[q] = Quiet
    <3>1. SUFFICES ASSUME {q \in Places : underway[q] = Quiet} = {} PROVE FALSE
      OBVIOUS
    <3>2. Room(2)
      BY DEF RenewRecord
    <3>3. QED BY <3>1, <3>2, FS_EmptySet DEF Room
  <2>2. PICK requests : requests = underway
    OBVIOUS
  <2>3. QED BY <1>u, <2>1, <2>2, StartedIn
<1>2. PICK q \in Places : q # p /\ underway[q] = Quiet /\ underway' = [[underway EXCEPT ![p] = Request("list")] EXCEPT ![q] = Request("detail")]
  <2>1. PICK other \in Places \ {p} : underway[other] = Quiet
    BY RoomForTwo DEF RenewRecord
  <2>2. PICK requests : requests = [underway EXCEPT ![p] = Request("list")]
    OBVIOUS
  <2>3. requests = [m \in Places |-> IF m = p THEN Request("list") ELSE underway[m]]
    BY <1>u, <2>2
  <2>4. requests = [m \in Places |-> requests[m]] /\ requests[other] = Quiet /\ requests[p] = Request("list")
    BY <2>1, <2>3
  <2>5. PICK q \in Places : requests[q] = Quiet /\ Started(requests, "detail") = [requests EXCEPT ![q] = Request("detail")]
    BY <2>1, <2>4, StartedIn
  <2>6. requests[p] # Quiet
    BY <2>4, QuietIsNone DEF Kinds
  <2>7. q # p /\ underway[q] = Quiet
    BY <2>3, <2>5, <2>6
  <2>8. underway' = [requests EXCEPT ![q] = Request("detail")]
    BY <1>1, <2>2, <2>5 DEF RenewRecord
  <2>9. QED BY <2>2, <2>7, <2>8
<1>3. PICK d : d = Request("list")
  OBVIOUS
<1>4. PICK e : e = Request("detail")
  OBVIOUS
<1>5. d.kind = "list" /\ e.kind = "detail" /\ d.step = "asked" /\ e.step = "asked" /\ e.main = seen.main /\ e.pay = seen.pay
  BY <1>3, <1>4 DEF Request
<1>6. underway' = [m \in Places |-> IF m = q THEN e ELSE IF m = p THEN d ELSE underway[m]]
  <2>1. underway' = [[underway EXCEPT ![p] = d] EXCEPT ![q] = e]
    BY <1>2, <1>3, <1>4
  <2>2. QED BY <1>u, <2>1
<1>7. /\ underway'[q] = e /\ underway'[p] = d /\ \A m \in Places \ {p, q} : underway'[m] = underway[m]
      /\ underway' = [m \in Places |-> underway'[m]]
  BY <1>2, <1>6
<1>8. RecordTypes'
  <2>1. IsRequest(d) /\ IsRequest(e)
    BY <1>3, <1>4, <1>t, RequestTyped DEF Kinds
  <2>2. ASSUME NEW m \in Places PROVE IsRequest(underway[m])'
    <3>1. PICK c : c = underway'[m]
      OBVIOUS
    <3>2. c \in {d, e, underway[m]}
      BY <1>7, <3>1
    <3>3. IsRequest(c)
      BY <1>t, <2>1, <3>2 DEF RecordTypes
    <3>4. now \in Nat /\ escalation \in Escalations /\ Rank[escalation] \in Nat
      BY PageIs, RankIsNat
    <3>5. IsRequest(c)'
      BY <1>v, <3>3, <3>4, RequestKept
    <3>6. QED BY <3>1, <3>5 DEF IsRequest
  <2>3. tangled' \in BOOLEAN
    BY <1>v, Zenon
  <2>4. rowTangled' \in BOOLEAN
    BY <1>v
  <2>5. /\ listed' = [times |-> listed'.times, as |-> listed'.as] /\ listed'.times \in Nat
        /\ listed'.as \in Escalations /\ (listed'.times > 0 => escalation # "none")
    <3>1. CASE listed' = listed
      BY <3>1, PageIs
    <3>2. CASE listed' = Unlisted
      BY <3>2 DEF Unlisted, Escalations
    <3>3. QED BY <1>v, <3>1, <3>2
  <2>6. QED BY <1>v, <1>t, <1>7, <2>2, <2>3, <2>4, <2>5, Zenon DEF RecordTypes
<1>9. ASSUME ~tangled' PROVE record = "job" /\ \A m \in Places \ {q} : underway'[m] = Quiet \/ underway'[m].kind = "list"
  <2>1. ~(record = "order") /\ ~UnderWay(Rivals("detail"))
    BY <1>v, <1>9
  <2>2. record = "job"
    BY <2>1, PageIs
  <2>3. ASSUME NEW m \in Places \ {p, q}, underway[m] # Quiet PROVE underway[m].kind = "list"
    <3>1. underway[m].kind \in Kinds /\ (record = "order" => underway[m].kind \in {"list", "detail", "note", "close"})
      BY <2>3, <1>t DEF RecordTypes, IsRequest
    <3>2. underway[m].kind \notin Rivals("detail")
      BY <2>1 DEF UnderWay
    <3>3. "detail" \in Kinds /\ "detail" \notin Works
      BY DEF Kinds, Works
    <3>4. Apart(record, "detail", underway[m].kind)
      BY <2>2, <3>1, <3>2, <3>3, RivalsApart
    <3>5. QED BY <3>4 DEF Apart, Loading
  <2>4. QED BY <1>5, <1>7, <2>2, <2>3
<1>10. RequestsApart'
  <2>1. SUFFICES ASSUME ~tangled', NEW a \in Places, NEW b \in Places, a # b, underway'[a] # Quiet, underway'[b] # Quiet
                 PROVE  Apart(record, underway'[a].kind, underway'[b].kind)
    BY <1>v DEF RequestsApart
  <2>2. record = "job" /\ underway'[a].kind \in {"list", "detail"} /\ underway'[b].kind \in {"list", "detail"}
        /\ ~(underway'[a].kind = "detail" /\ underway'[b].kind = "detail")
    BY <1>5, <1>7, <1>9, <2>1
  <2>3. QED BY <2>2 DEF Apart, Loading
<1>11. RequestsNotBehind'
  <2>1. SUFFICES ASSUME ~tangled', NEW a \in Places, underway'[a] # Quiet PROVE NotBehind(underway[a])'
    BY DEF RequestsNotBehind, NotBehind
  <2>2. CASE a = q
    <3>1. seen'.main = seen.main /\ seen'.pay = seen.pay /\ seen.main \in Nat /\ seen.pay \in Nat
      BY <1>v, PageIs
    <3>2. QED BY <1>5, <1>7, <2>2, <3>1 DEF NotBehind
  <2>3. CASE a # q
    BY <1>v, <1>9, <2>1, <2>3 DEF NotBehind, Loading
  <2>4. QED BY <2>2, <2>3
<1>12. OwnIsThere'
  BY <1>5, <1>7 DEF OwnIsThere, Loads
<1>13. RowFollows'
  BY <1>v DEF RowFollows
<1>14. QED BY <1>8, <1>10, <1>11, <1>12, <1>13 DEF RecordsInv

\* Others change the record.
LEMMA ServerKeepsRecord ==
  ASSUME RecordsInv, ServerChanges
  PROVE  RecordsInv'
<1>v. /\ now' = now + 1
      /\ UNCHANGED <<record, escalation, seen, row, audit, listed, asked, underway, own, unread, missing, tangled, rowTangled, masked>>
  BY DEF ServerChanges, shownVars
<1>1. now \in Nat /\ now' \in Nat /\ now <= now' /\ escalation \in Escalations /\ Rank[escalation] \in Nat
  BY <1>v, PageIs, RankIsNat
<1>2. RecordTypes'
  <2>1. ASSUME NEW m \in Places PROVE IsRequest(underway[m])'
    <3>1. PICK c : c = underway[m]
      OBVIOUS
    <3>2. IsRequest(c)
      BY <3>1 DEF RecordsInv, RecordTypes
    <3>3. IsRequest(c)'
      BY <1>v, <1>1, <3>2, RequestKept
    <3>4. QED BY <1>v, <3>1, <3>3 DEF IsRequest
  <2>2. \A k \in 0..now : k \in 0..now'
    BY <1>1
  <2>3. /\ seen'.main \in 0..now' /\ seen'.pay \in 0..now' /\ row'.main \in 0..now' /\ row'.pay \in 0..now'
        /\ audit' \in 0..now' /\ own'.main \in 0..now' /\ own'.pay \in 0..now' /\ own'.audit \in 0..now'
    BY <1>v, <2>2, PageIs
  <2>4. RecordTypes
    BY DEF RecordsInv
  <2>5. QED BY <1>v, <1>1, <2>1, <2>3, <2>4 DEF RecordTypes
<1>3. RequestsApart' /\ RequestsNotBehind' /\ OwnIsThere' /\ RowFollows'
  <2>1. RequestsApart /\ RequestsNotBehind /\ OwnIsThere /\ RowFollows
    BY DEF RecordsInv
  <2>2. \A m \in Places : NotBehind(underway[m])' <=> NotBehind(underway[m])
    BY <1>v DEF NotBehind
  <2>3. RequestsApart' /\ RequestsNotBehind'
    BY <1>v, <2>1, <2>2 DEF RequestsApart, RequestsNotBehind
  <2>4. OwnIsThere' /\ RowFollows'
    BY <1>v, <2>1 DEF OwnIsThere, RowFollows, Loads
  <2>5. QED BY <2>3, <2>4
<1>4. QED BY <1>2, <1>3 DEF RecordsInv

\* Every step keeps the invariant.
LEMMA RecordsStepInv == RecordsInv /\ [RecordsNext]_recordVars => RecordsInv'
<1> SUFFICES ASSUME RecordsInv, [RecordsNext]_recordVars PROVE RecordsInv'
  OBVIOUS
<1>1. CASE RefreshRecord
  <2>1. PICK kind : kind = IF record = "job" THEN "list" ELSE "detail"
    OBVIOUS
  <2>2. AskRecord(kind) /\ listed' = IF record = "order" THEN Unlisted ELSE listed
    BY <1>1, <2>1 DEF RefreshRecord
  <2>3. kind \in {"list", "detail"} /\ kind \in Kinds /\ kind \notin Works /\ (record = "order" => kind = "detail")
    BY <2>1 DEF Kinds, Works
  <2>4. QED BY <2>2, <2>3, AskKeeps
<1>2. ASSUME NEW kind \in Works, Order(kind) PROVE RecordsInv'
  <2>1. AskRecord(kind) /\ listed' = listed /\ ~UnderWay(Excluded(kind)) /\ kind \in Kinds
    BY <1>2 DEF Order, Kinds
  <2>2. (record = "order" => kind \in {"note", "close"}) /\ (kind = "close" => listed.times > 0)
    BY <1>2 DEF Order
  <2>3. QED BY <2>1, <2>2, AskKeeps
<1>3. CASE UNCHANGED recordVars
  <2>1. UNCHANGED <<record, now, escalation, seen, row, audit, listed, asked, underway, own, unread, missing, tangled, rowTangled, masked>>
    BY <1>3 DEF recordVars, shownVars
  <2>2. RecordTypes /\ RequestsApart /\ RequestsNotBehind /\ OwnIsThere /\ RowFollows
    BY DEF RecordsInv
  <2>3. RecordTypes' /\ RequestsApart'
    BY <2>1, <2>2 DEF RecordTypes, IsRequest, RequestsApart
  <2>4. RequestsNotBehind'
    BY <2>1, <2>2 DEF RequestsNotBehind, NotBehind
  <2>5. OwnIsThere' /\ RowFollows'
    BY <2>1, <2>2 DEF OwnIsThere, RowFollows, Loads
  <2>6. QED BY <2>3, <2>4, <2>5 DEF RecordsInv
<1>4. ASSUME NEW n \in Places,
             Read(n) \/ Carry(n) \/ ShowList(n) \/ (\E lacks \in SUBSET {"log", "audit"} : ShowRecord(n, lacks)) \/ ShowDone(n)
               \/ LoadAfter(n) \/ ShowAudit(n) \/ ShowEscalation(n) \/ LoseAnswerOf(n)
      PROVE  RecordsInv'
  BY <1>4, ReadKeeps, CarryKeeps, ShowListKeeps, ShowRecordKeeps, ShowDoneKeeps, LoadAfterKeeps,
     ShowAuditKeeps, ShowEscalationKeeps, LosingKeeps
<1>5. QED BY <1>1, <1>2, <1>3, <1>4, RenewKeeps, ServerKeepsRecord DEF RecordsNext

\* A page at rest shows its own finished work and parts that fit.
LEMMA RecordsHold == RecordsInv => RecordIsWhole
<1> SUFFICES ASSUME RecordsInv, AtRest PROVE RecordIsWhole
  BY DEF RecordIsWhole, OwnWorkIsShown, PartsFitTogether
<1>1. ~unread /\ ~tangled /\ \A n \in Places : underway[n].kind = "none" /\ underway[n].step = "none"
  BY DEF AtRest, Quiet
<1>2. \A n \in Places : ~Loads(underway[n]) /\ underway[n].step # "audit" /\ underway[n].kind # "list"
  BY <1>1 DEF Loads
<1>3. OwnWorkIsShown /\ (record = "order" => seen.pay >= seen.main)
  BY <1>1, <1>2 DEF RecordsInv, OwnIsThere, OwnWorkIsShown
<1>4. ~rowTangled => row.main >= seen.main /\ row.pay >= seen.pay
  BY <1>1, <1>2 DEF RecordsInv, RowFollows
<1>5. QED BY <1>3, <1>4 DEF RecordIsWhole, PartsFitTogether

\* No step turns the page back to something older.
LEMMA RecordsGoOn ==
  ASSUME RecordsInv, RecordsNext, ~tangled, ~unread'
  PROVE  seen'.main >= seen.main /\ seen'.pay >= seen.pay /\ (audit' >= audit \/ "audit" \in missing')
<1>1. seen.main \in Nat /\ seen.pay \in Nat /\ audit \in 0..now /\ now \in Nat
      /\ seen = [main |-> seen.main, pay |-> seen.pay]
  BY PageIs
<1>2. CASE seen' = seen /\ audit' = audit
  BY <1>1, <1>2
<1>3. CASE RefreshRecord \/ RenewRecord \/ ServerChanges \/ \E kind \in Works : Order(kind)
  BY <1>2, <1>3 DEF RefreshRecord, RenewRecord, ServerChanges, Order, AskRecord, shownVars
<1>4. ASSUME NEW n \in Places,
             Read(n) \/ Carry(n) \/ ShowList(n) \/ (\E lacks \in SUBSET {"log", "audit"} : ShowRecord(n, lacks)) \/ ShowDone(n)
               \/ LoadAfter(n) \/ ShowAudit(n) \/ ShowEscalation(n) \/ LoseAnswerOf(n)
      PROVE  seen'.main >= seen.main /\ seen'.pay >= seen.pay /\ (audit' >= audit \/ "audit" \in missing')
  <2>1. PICK c : c = underway[n]
    OBVIOUS
  <2>2. c # Quiet => NotBehind(c) /\ c.pay \in Nat /\ c.main \in Nat
    BY <2>1, RequestIs
  <2>3. CASE Read(n) \/ Carry(n) \/ LoadAfter(n) \/ ShowEscalation(n)
    BY <1>2, <2>3 DEF Read, Carry, LoadAfter, ShowEscalation, shownVars
  <2>4. CASE ShowList(n)
    <3>1. c.kind = "list" /\ audit' = audit /\ c # Quiet
          /\ seen' = IF record = "order" /\ seen # Unloaded THEN [seen EXCEPT !.pay = c.pay] ELSE seen
      BY <2>1, <2>4 DEF ShowList, Quiet
    <3>2. record = "order" => c.pay >= seen.pay
      BY <2>2, <3>1 DEF NotBehind
    <3>3. CASE seen' = seen
      BY <1>2, <3>1, <3>3
    <3>4. CASE record = "order" /\ seen' = [seen EXCEPT !.pay = c.pay]
      <4>1. seen' = [main |-> seen.main, pay |-> c.pay]
        BY <1>1, <3>4
      <4>2. seen'.main = seen.main /\ seen'.pay = c.pay
        BY <4>1
      <4>3. QED BY <1>1, <3>1, <3>2, <3>4, <4>2
    <3>5. QED BY <3>1, <3>3, <3>4
  <2>5. CASE \E lacks \in SUBSET {"log", "audit"} : ShowRecord(n, lacks)
    <3>1. c.kind \in Loading /\ c.step = "read" /\ c # Quiet /\ seen' = Shows(c) /\ (audit' = c.audit \/ "audit" \in missing')
      BY <2>1, <2>5 DEF ShowRecord, Quiet, Loading
    <3>2. c.main >= seen.main /\ c.pay >= seen.pay /\ c.audit >= audit
      BY <2>2, <3>1 DEF NotBehind, Loading
    <3>3. QED BY <3>1, <3>2, ShowsIs
  <2>6. CASE ShowDone(n)
    <3>1. c.kind \in {"act", "authorize"} /\ c # Quiet /\ seen' = Shows(c) /\ audit' = audit
      BY <2>1, <2>6 DEF ShowDone, Quiet
    <3>2. c.main >= seen.main /\ c.pay >= seen.pay
      BY <2>2, <3>1 DEF NotBehind
    <3>3. QED BY <1>1, <3>1, <3>2, ShowsIs
  <2>7. CASE ShowAudit(n)
    BY <1>1, <2>7 DEF ShowAudit
  <2>8. CASE LoseAnswerOf(n)
    <3> DEFINE loads == c.kind \in {"list", "detail"} \/ c.step \in {"load", "half", "read", "audit"}
    <3>1. /\ unread' = (unread \/ loads) /\ seen' = seen
          /\ audit' = (IF c.kind \in Loading /\ loads THEN 0 ELSE audit)
      BY <2>1, <2>8, Zenon DEF LoseAnswerOf
    <3>2. ~loads
      BY <3>1, Zenon
    <3>3. QED BY <1>2, <3>1, <3>2
  <2>9. QED BY <1>4, <2>3, <2>4, <2>5, <2>6, <2>7, <2>8
<1>5. QED BY <1>3, <1>4 DEF RecordsNext

-----------------------------------------------------------------------------
\* The menu page of a business.

Singles == {{r} : r \in Restaurants}
Orders == [Rows -> Nat]
FetchKinds == {"choice", "creation", "refresh", "move", "edit"}
WriteKinds == {"move", "edit", "orphan"}
Fetching == [of : Singles, sorted : Orders, step : {"sent", "read"}, by : FetchKinds]
Writing == [at : Singles, of : Singles, row : Rows, to : Nat, by : WriteKinds, step : {"sent", "done"}]
Moving == [step : {"writing", "loading"}, at : Singles, wanted : Orders]

\* The types, of what is under way too.
MenuTypes ==
  /\ known \subseteq Restaurants /\ chosen \in Singles /\ sorted \in [Restaurants -> Orders]
  /\ menu.of \in {{}} \cup Singles /\ menu.sorted \in Orders
  /\ fetches \in Seq(Fetching) /\ writes \subseteq Writing
  /\ move = NotMoving \/ move \in Moving
  /\ edit = NotEditing \/ (edit \in [row : Rows, to : Nat] /\ menu.of # {})

\* Loads are of the chosen restaurant unless they crossed, and what they read is its menu.
LoadsAreCurrent ==
  ~late => /\ \A n \in DOMAIN fetches : fetches[n].of = chosen
           /\ \A n \in DOMAIN fetches : fetches[n].step = "read" => \A r \in chosen : fetches[n].sorted = sorted[r]
           /\ fetches = <<>> => \A r \in chosen : menu = MenuOf(r)

\* A move is loaded once, after its requests.
OneMove ==
  /\ move.step # "writing" => \A w \in writes : w.by # "move"
  /\ move.step # "loading" => \A n \in DOMAIN fetches : fetches[n].by # "move"
  /\ \A n, m \in DOMAIN fetches : fetches[n].by = "move" /\ fetches[m].by = "move" => n = m

\* What a move that nothing disturbed has still to write, to the restaurant whose menu it was made from.
MoveGoesOn(r) ==
  /\ \A w \in writes : w.by = "move" /\ w.of = {r} /\ w.at = move.at /\ w.to = move.wanted[w.row]
  /\ \A q \in Rows : sorted[r][q] = move.wanted[q] \/ \E w \in writes : w.row = q /\ w.step = "sent"
  /\ move.at = {r} \/ \E w \in writes : w.step = "sent"
MoveIsDone == writes = {} /\ \A r \in move.at : sorted[r] = move.wanted
MoveGetsThere ==
  ~disturbed => /\ move.step = "writing" => \E r \in Restaurants : MoveGoesOn(r)
                /\ move.step = "loading" => MoveIsDone

\* The inductive invariant.
MenuInv == MenuTypes /\ LoadsAreCurrent /\ OneMove /\ MoveGetsThere

-----------------------------------------------------------------------------
\* How many of the three rows are in a set, and where an item is listed.
One(S, q) == IF q \in S THEN 1 ELSE 0

\* Rows are counted one by one.
LEMMA CountOfRows ==
  ASSUME NEW S, S \subseteq Rows
  PROVE  Cardinality(S) = One(S, 1) + One(S, 2) + One(S, 3)
<1>0. One(S, 1) \in Nat /\ One(S, 2) \in Nat /\ One(S, 3) \in Nat
  BY DEF One
<1>1. PICK A : A = S \cap {1}
  OBVIOUS
<1>2. PICK B : B = S \cap {1, 2}
  OBVIOUS
<1>3. IsFiniteSet(A) /\ Cardinality(A) = One(S, 1)
  <2>1. CASE 1 \in S
    <3>1. A = {1}
      BY <1>1, <2>1
    <3>2. QED BY <2>1, <3>1, FS_Singleton DEF One
  <2>2. CASE 1 \notin S
    <3>1. A = {}
      BY <1>1, <2>2
    <3>2. QED BY <2>2, <3>1, FS_EmptySet DEF One
  <2>3. QED BY <2>1, <2>2
<1>4. IsFiniteSet(B) /\ Cardinality(B) = One(S, 1) + One(S, 2)
  <2>1. CASE 2 \in S
    <3>1. B = A \cup {2} /\ 2 \notin A
      BY <1>1, <1>2, <2>1
    <3>2. Cardinality(A \cup {2}) = Cardinality(A) + 1 /\ IsFiniteSet(A \cup {2})
      BY <1>3, <3>1, FS_AddElement
    <3>3. One(S, 2) = 1
      BY <2>1 DEF One
    <3>4. QED BY <1>3, <3>1, <3>2, <3>3
  <2>2. CASE 2 \notin S
    <3>1. B = A
      BY <1>1, <1>2, <2>2
    <3>2. One(S, 2) = 0
      BY <2>2 DEF One
    <3>3. QED BY <1>0, <1>3, <3>1, <3>2
  <2>3. QED BY <2>1, <2>2
<1>x. PICK x, y, z : x = One(S, 1) /\ y = One(S, 2) /\ z = One(S, 3)
  OBVIOUS
<1>r. \A q \in S : q = 1 \/ q = 2 \/ q = 3
  BY DEF Rows
<1>y. x \in Nat /\ y \in Nat /\ z \in Nat
  BY <1>0, <1>x
<1>5. CASE 3 \in S
  <2>1. S = B \cup {3} /\ 3 \notin B
    BY <1>2, <1>5, <1>r
  <2>2. Cardinality(B \cup {3}) = Cardinality(B) + 1
    BY <1>4, <2>1, FS_AddElement
  <2>3. Cardinality(S) = Cardinality(B) + 1
    BY <2>1, <2>2
  <2>4. One(S, 3) = 1
    BY <1>5 DEF One
  <2>5. QED BY <1>4, <1>x, <1>y, <2>3, <2>4
<1>6. CASE 3 \notin S
  <2>1. S = B
    BY <1>2, <1>6, <1>r
  <2>2. Cardinality(S) = Cardinality(B)
    BY <2>1
  <2>3. One(S, 3) = 0
    BY <1>6 DEF One
  <2>4. QED BY <1>4, <1>x, <1>y, <2>2, <2>3
<1>7. QED BY <1>5, <1>6

Before(order, q, i) == order[q] < order[i] \/ (order[q] = order[i] /\ q < i)
Ahead(order, i) == {q \in Rows : Before(order, q, i)}
\* A row stands where as many rows as stand before it put it.
LEMMA PositionIs ==
  ASSUME NEW order \in Orders, NEW i \in Rows
  PROVE  /\ Position(order, i) = One(Ahead(order, i), 1) + One(Ahead(order, i), 2) + One(Ahead(order, i), 3)
         /\ Position(order, i) \in Nat
<1>1. PICK S : S = Ahead(order, i)
  OBVIOUS
<1>2. S \subseteq Rows
  BY <1>1 DEF Ahead
<1>3. Cardinality(S) = One(S, 1) + One(S, 2) + One(S, 3)
  BY <1>2, CountOfRows
<1>4. One(S, 1) \in Nat /\ One(S, 2) \in Nat /\ One(S, 3) \in Nat
  BY DEF One
<1>5. Position(order, i) = Cardinality(S)
  BY <1>1 DEF Position, Ahead, Before
<1>6. One(S, 1) + One(S, 2) + One(S, 3) \in Nat
  BY <1>4
<1>7. QED BY <1>1, <1>3, <1>5, <1>6

\* Numbers that are their places cannot be the places with two of them exchanged.
LEMMA PlacesStay ==
  ASSUME NEW x \in Nat, NEW y \in Nat, NEW z \in Nat, NEW d \in 0..2,
         NEW u \in 0..1, NEW v \in 0..1, NEW w \in 0..1, NEW a \in Nat, NEW b \in Nat, NEW c \in Nat,
         u = 1 <=> y < x, v = 1 <=> z < x, w = 1 <=> z < y,
         a = u + v, b = 1 - u + w, c = 2 - v - w
  PROVE  /\ x = d /\ y = (IF b = d THEN a ELSE b) /\ z = (IF c = d THEN a ELSE c) => a = d
         /\ y = d /\ x = (IF a = d THEN b ELSE a) /\ z = (IF c = d THEN b ELSE c) => b = d
         /\ z = d /\ x = (IF a = d THEN c ELSE a) /\ y = (IF b = d THEN c ELSE b) => c = d
OBVIOUS

\* A list in which every number is the place wanted is already as it is wanted, so moving an item renumbers one at least.
LEMMA MovedRenumbers ==
  ASSUME menu.sorted \in Orders, NEW i \in Rows, NEW d \in Spots, d # Position(menu.sorted, i)
  PROVE  Moved(i, d) \in Orders /\ \E q \in Rows : menu.sorted[q] # Moved(i, d)[q]
<1>1. PICK o : o = menu.sorted
  OBVIOUS
<1>2. PICK p : p = [q \in Rows |-> Position(o, q)]
  OBVIOUS
<1>3. \A q \in Rows : p[q] = One(Ahead(o, q), 1) + One(Ahead(o, q), 2) + One(Ahead(o, q), 3) /\ p[q] \in Nat
  BY <1>1, <1>2, PositionIs
<1>4. PICK m : m = [q \in Rows |-> IF q = i THEN d ELSE IF p[q] = d THEN p[i] ELSE p[q]]
  OBVIOUS
<1>5. Moved(i, d) = m
  BY <1>1, <1>2, <1>4 DEF Moved
<1>6. m \in Orders /\ d \in 0..2
  BY <1>3, <1>4 DEF Orders, Spots
<1>7. d # p[i]
  BY <1>1, <1>2
<1>8. ASSUME \A q \in Rows : o[q] = m[q] PROVE FALSE
  <2>1. 1 \in Rows /\ 2 \in Rows /\ 3 \in Rows /\ (i = 1 \/ i = 2 \/ i = 3)
    BY DEF Rows
  <2>2. o[1] \in Nat /\ o[2] \in Nat /\ o[3] \in Nat /\ p[1] \in Nat /\ p[2] \in Nat /\ p[3] \in Nat
    BY <1>1, <1>3, <2>1 DEF Orders
  <2>3. \A q \in Rows : o[q] = IF q = i THEN d ELSE IF p[q] = d THEN p[i] ELSE p[q]
    BY <1>4, <1>8
  <2>4. PICK u, v, w : u = One(Ahead(o, 1), 2) /\ v = One(Ahead(o, 1), 3) /\ w = One(Ahead(o, 2), 3)
    OBVIOUS
  <2>5. /\ u \in 0..1 /\ v \in 0..1 /\ w \in 0..1
        /\ u = 1 <=> o[2] < o[1]
        /\ v = 1 <=> o[3] < o[1]
        /\ w = 1 <=> o[3] < o[2]
    BY <2>1, <2>2, <2>4 DEF One, Ahead, Before
  <2>6. /\ One(Ahead(o, 1), 1) = 0 /\ One(Ahead(o, 2), 2) = 0 /\ One(Ahead(o, 3), 3) = 0
        /\ One(Ahead(o, 2), 1) = 1 - u /\ One(Ahead(o, 3), 1) = 1 - v /\ One(Ahead(o, 3), 2) = 1 - w
    BY <2>1, <2>2, <2>5 DEF One, Ahead, Before
  <2>7. p[1] = u + v /\ p[2] = 1 - u + w /\ p[3] = 2 - v - w
    BY <1>3, <2>1, <2>4, <2>5, <2>6
  <2>8. CASE i = 1
    <3>1. o[1] = d /\ o[2] = (IF p[2] = d THEN p[1] ELSE p[2]) /\ o[3] = (IF p[3] = d THEN p[1] ELSE p[3])
      BY <2>1, <2>3, <2>8
    <3>2. QED BY <1>6, <1>7, <2>2, <2>5, <2>7, <2>8, <3>1, PlacesStay
  <2>9. CASE i = 2
    <3>1. o[2] = d /\ o[1] = (IF p[1] = d THEN p[2] ELSE p[1]) /\ o[3] = (IF p[3] = d THEN p[2] ELSE p[3])
      BY <2>1, <2>3, <2>9
    <3>2. QED BY <1>6, <1>7, <2>2, <2>5, <2>7, <2>9, <3>1, PlacesStay
  <2>10. CASE i = 3
    <3>1. o[3] = d /\ o[1] = (IF p[1] = d THEN p[3] ELSE p[1]) /\ o[2] = (IF p[2] = d THEN p[3] ELSE p[2])
      BY <2>1, <2>3, <2>10
    <3>2. QED BY <1>6, <1>7, <2>2, <2>5, <2>7, <2>10, <3>1, PlacesStay
  <2>11. QED BY <2>1, <2>8, <2>9, <2>10
<1>9. QED BY <1>1, <1>5, <1>6, <1>8

-----------------------------------------------------------------------------
\* A list of loads with one more, and with one less.
LEMMA FetchIs ==
  ASSUME NEW r \in Restaurants, NEW by \in FetchKinds, NEW f, f = Fetch(r, by)
  PROVE  f \in Fetching /\ f.of = {r} /\ f.step = "sent" /\ f.by = by
BY DEF Fetch, Fetching, Singles, Orders

\* A load that begins stands last in the list.
LEMMA FetchedIs ==
  ASSUME NEW list \in Seq(Fetching), NEW r \in Restaurants, NEW by \in FetchKinds, NEW longer, longer = Fetched(list, r, by)
  PROVE  /\ longer \in Seq(Fetching) /\ longer # <<>>
         /\ \A n \in DOMAIN longer :
              \/ n \in DOMAIN list /\ longer[n] = list[n]
              \/ n = Len(list) + 1 /\ n \notin DOMAIN list /\ longer[n].of = {r} /\ longer[n].step = "sent" /\ longer[n].by = by
<1>1. PICK f : f = Fetch(r, by)
  OBVIOUS
<1>2. f \in Fetching /\ f.of = {r} /\ f.step = "sent" /\ f.by = by
  BY <1>1, FetchIs
<1>3. longer = Append(list, f)
  BY <1>1 DEF Fetched
<1>4. /\ longer \in Seq(Fetching) /\ longer # <<>> /\ Len(longer) = Len(list) + 1
      /\ \A i \in 1..Len(list) : longer[i] = list[i]
      /\ longer[Len(list) + 1] = f
  BY <1>2, <1>3, AppendProperties
<1>5. DOMAIN list = 1..Len(list) /\ DOMAIN longer = 1..(Len(list) + 1) /\ Len(list) \in Nat
  BY <1>4, LenProperties
<1>6. QED BY <1>2, <1>4, <1>5

\* Without one of its entries a list of loads holds the others, in their order.
LEMMA RemovedIs ==
  ASSUME NEW list \in Seq(Fetching), NEW n \in DOMAIN list, NEW shorter, shorter = RemoveAt(list, n)
  PROVE  /\ shorter \in Seq(Fetching)
         /\ \A k \in DOMAIN shorter :
              /\ k < n => k \in DOMAIN list /\ shorter[k] = list[k]
              /\ k >= n => k + 1 \in DOMAIN list /\ shorter[k] = list[k + 1]
<1>1. PICK size : size = Len(list)
  OBVIOUS
<1>2. size \in Nat /\ DOMAIN list = 1..size /\ n \in 1..size /\ \A i \in 1..size : list[i] \in Fetching
  BY <1>1, LenProperties, ElementOfSeq
<1>3. PICK a, b : a = SubSeq(list, 1, n - 1) /\ b = SubSeq(list, n + 1, size)
  OBVIOUS
<1>4. a \in Seq(Fetching) /\ Len(a) = n - 1 /\ \A i \in 1..(n - 1) : a[i] = list[i]
  <2>1. \A i \in 1..(n - 1) : list[i] \in Fetching
    BY <1>2
  <2>2. 1 \in Int /\ n - 1 \in Int
    BY <1>2
  <2>3. /\ a \in Seq(Fetching) /\ Len(a) = IF 1 <= n - 1 THEN n - 1 - 1 + 1 ELSE 0
        /\ \A i \in 1..(n - 1 - 1 + 1) : a[i] = list[1 + i - 1]
    BY <1>3, <2>1, <2>2, SubSeqProperties
  <2>4. QED BY <1>2, <2>3
<1>5. b \in Seq(Fetching) /\ Len(b) = size - n /\ \A i \in 1..(size - n) : b[i] = list[n + i]
  <2>1. \A i \in (n + 1)..size : list[i] \in Fetching
    BY <1>2
  <2>2. n + 1 \in Int /\ size \in Int
    BY <1>2
  <2>3. /\ b \in Seq(Fetching) /\ Len(b) = IF n + 1 <= size THEN size - (n + 1) + 1 ELSE 0
        /\ \A i \in 1..(size - (n + 1) + 1) : b[i] = list[n + 1 + i - 1]
    BY <1>3, <2>1, <2>2, SubSeqProperties
  <2>4. Len(b) = size - n
    BY <1>2, <2>3
  <2>5. ASSUME NEW i \in 1..(size - n) PROVE b[i] = list[n + i]
    <3>1. i \in 1..(size - (n + 1) + 1) /\ n + 1 + i - 1 = n + i
      BY <1>2
    <3>2. QED BY <2>3, <3>1
  <2>6. QED BY <2>3, <2>4, <2>5
<1>6. shorter = a \o b
  BY <1>1, <1>3 DEF RemoveAt
<1>7. /\ shorter \in Seq(Fetching) /\ Len(shorter) = Len(a) + Len(b)
      /\ \A i \in 1..(Len(a) + Len(b)) : shorter[i] = IF i <= Len(a) THEN a[i] ELSE b[i - Len(a)]
  BY <1>4, <1>5, <1>6, ConcatProperties
<1>8. Len(shorter) = size - 1 /\ DOMAIN shorter = 1..(size - 1)
  BY <1>2, <1>4, <1>5, <1>7, LenProperties
<1>9. ASSUME NEW k \in DOMAIN shorter
      PROVE  /\ k < n => k \in DOMAIN list /\ shorter[k] = list[k]
             /\ k >= n => k + 1 \in DOMAIN list /\ shorter[k] = list[k + 1]
  <2>1. k \in 1..(size - 1) /\ k \in 1..(Len(a) + Len(b))
    BY <1>2, <1>4, <1>5, <1>8
  <2>2. CASE k < n
    <3>1. k <= Len(a) /\ k \in 1..(n - 1) /\ k \in 1..size
      BY <1>2, <1>4, <2>1, <2>2
    <3>2. QED BY <1>2, <1>4, <1>7, <2>1, <2>2, <3>1
  <2>3. CASE k >= n
    <3>1. ~(k <= Len(a)) /\ k - Len(a) \in 1..(size - n) /\ n + (k - Len(a)) = k + 1 /\ k + 1 \in 1..size /\ ~(k < n)
      BY <1>2, <1>4, <2>1, <2>3
    <3>2. shorter[k] = b[k - Len(a)]
      BY <1>7, <2>1, <3>1
    <3>3. b[k - Len(a)] = list[n + (k - Len(a))]
      BY <1>5, <3>1
    <3>4. QED BY <1>2, <3>1, <3>2, <3>3
  <2>4. k \in Int /\ n \in Int
    BY <1>2, <2>1
  <2>5. QED BY <2>2, <2>3, <2>4
<1>10. QED BY <1>7, <1>9

-----------------------------------------------------------------------------
\* Loads that are all of one restaurant and show it as it is.
Current(list, r) ==
  \A n \in DOMAIN list : list[n].of = {r} /\ (list[n].step = "read" => list[n].sorted = sorted[r])
MoveLoads(list) == {n \in DOMAIN list : list[n].by = "move"}

\* The parts of the invariant that type the page, its loads, its writes and its move.
LEMMA MenuIs ==
  ASSUME MenuInv
  PROVE  /\ known \subseteq Restaurants /\ chosen \in Singles /\ sorted \in [Restaurants -> Orders]
         /\ menu.of \in {{}} \cup Singles /\ menu.sorted \in Orders
         /\ fetches \in Seq(Fetching) /\ writes \subseteq Writing
         /\ move = NotMoving \/ move \in Moving
         /\ edit = NotEditing \/ (edit \in [row : Rows, to : Nat] /\ menu.of # {})
         /\ move.step # "writing" => \A w \in writes : w.by # "move"
         /\ move.step # "loading" => MoveLoads(fetches) = {}
         /\ \A n, m \in MoveLoads(fetches) : n = m
BY DEF MenuInv, MenuTypes, OneMove, MoveLoads

\* A load begun leaves all loads current unless loads cross.
LEMMA NotCrossing ==
  ASSUME MenuInv, NEW r \in Restaurants, ~Crossing(r) PROVE Current(fetches, r)
<1>1. /\ \A n \in DOMAIN fetches : fetches[n].of = {r}
      /\ ~late \/ fetches = <<>>
  BY DEF Crossing
<1>2. ASSUME NEW n \in DOMAIN fetches PROVE fetches[n].of = {r} /\ (fetches[n].step = "read" => fetches[n].sorted = sorted[r])
  <2>1. fetches # <<>>
    <3>1. DOMAIN fetches = 1..Len(fetches) /\ Len(fetches) \in Nat
      BY MenuIs, LenProperties
    <3>2. Len(fetches) # 0
      BY <3>1
    <3>3. Len(<<>>) = 0
      BY EmptySeq
    <3>4. QED BY <3>2, <3>3
  <2>2. fetches[n].of = chosen /\ (fetches[n].step = "read" => \A q \in chosen : fetches[n].sorted = sorted[q])
    BY <1>1, <2>1 DEF MenuInv, LoadsAreCurrent
  <2>3. chosen = {r}
    BY <1>1, <2>2
  <2>4. QED BY <1>1, <2>2, <2>3
<1>3. QED BY <1>2 DEF Current

\* A load that begins for the chosen restaurant leaves the list current, and is a move's
\* load only if a move began it.
LEMMA AddedIs ==
  ASSUME NEW list \in Seq(Fetching), NEW r \in Restaurants, NEW by \in FetchKinds, NEW longer, longer = Fetched(list, r, by)
  PROVE  /\ longer \in Seq(Fetching) /\ longer # <<>>
         /\ Current(list, r) => Current(longer, r)
         /\ by # "move" => MoveLoads(longer) = MoveLoads(list)
         /\ MoveLoads(list) = {} => \A n, m \in MoveLoads(longer) : n = m
<1>1. /\ longer \in Seq(Fetching) /\ longer # <<>>
      /\ \A n \in DOMAIN longer :
           \/ n \in DOMAIN list /\ longer[n] = list[n]
           \/ n = Len(list) + 1 /\ n \notin DOMAIN list /\ longer[n].of = {r} /\ longer[n].step = "sent" /\ longer[n].by = by
  BY FetchedIs
<1>2. Current(list, r) => Current(longer, r)
  BY <1>1 DEF Current
<1>3. \A n \in DOMAIN list : n \in DOMAIN longer /\ longer[n] = list[n]
  <2>1. PICK f : f = Fetch(r, by)
    OBVIOUS
  <2>2. f \in Fetching /\ longer = Append(list, f)
    BY <2>1, FetchIs DEF Fetched
  <2>3. Len(longer) = Len(list) + 1 /\ \A i \in 1..Len(list) : longer[i] = list[i]
    BY <2>2, AppendProperties
  <2>4. DOMAIN list = 1..Len(list) /\ DOMAIN longer = 1..Len(longer) /\ Len(list) \in Nat
    BY <1>1, LenProperties
  <2>5. QED BY <2>3, <2>4
<1>4. by # "move" => MoveLoads(longer) = MoveLoads(list)
  BY <1>1, <1>3 DEF MoveLoads
<1>5. MoveLoads(list) = {} => \A n, m \in MoveLoads(longer) : n = m
  BY <1>1 DEF MoveLoads
<1>6. QED BY <1>1, <1>2, <1>4, <1>5

\* Loads stay current while the chosen restaurant and its menu stay.
LEMMA CurrentKept ==
  ASSUME NEW r \in Restaurants, NEW list, fetches' = list, ~late' => Current(list, r), chosen' = {r}, list # <<>>, sorted' = sorted
  PROVE  LoadsAreCurrent'
BY DEF LoadsAreCurrent, Current

\* Moves are kept by what leaves them, their requests, their loads and all orders alone.
LEMMA MovesKept ==
  ASSUME MenuInv, UNCHANGED <<move, writes>>, MoveLoads(fetches') = MoveLoads(fetches) PROVE OneMove'
<1>1. move'.step # "writing" => \A w \in writes' : w.by # "move"
  BY MenuIs
<1>2. move'.step # "loading" => \A n \in DOMAIN fetches' : fetches'[n].by # "move"
  BY MenuIs DEF MoveLoads
<1>3. \A n, m \in DOMAIN fetches' : fetches'[n].by = "move" /\ fetches'[m].by = "move" => n = m
  BY MenuIs DEF MoveLoads
<1>4. QED BY <1>1, <1>2, <1>3 DEF OneMove

\* A move gets there as long as it, its requests and the orders stay as they are.
LEMMA GettingThereKept ==
  ASSUME MenuInv, UNCHANGED <<move, writes, sorted>>, ~disturbed' => ~disturbed PROVE MoveGetsThere'
<1>1. MoveGetsThere
  BY DEF MenuInv
<1>2. QED BY <1>1 DEF MoveGetsThere, MoveGoesOn, MoveIsDone

\* A restaurant is chosen, created or loaded again.
LEMMA LoadBegins ==
  ASSUME MenuInv, NEW r \in Restaurants, NEW list, list \in Seq(Fetching), fetches' = list, list # <<>>, ~late' => Current(list, r),
         MoveLoads(list) = MoveLoads(fetches), chosen' = {r}, known' \subseteq Restaurants,
         UNCHANGED <<sorted, menu, move, writes, edit, disturbed>>
  PROVE  MenuInv'
<1>1. MenuTypes'
  <2>1. chosen' \in Singles
    BY DEF Singles
  <2>2. QED BY <2>1, MenuIs DEF MenuTypes
<1>2. LoadsAreCurrent'
  <2>1. sorted' = sorted
    OBVIOUS
  <2>2. QED BY <2>1, CurrentKept
<1>3. OneMove' /\ MoveGetsThere'
  BY MovesKept, GettingThereKept
<1>4. QED BY <1>1, <1>2, <1>3 DEF MenuInv

\* Choosing another restaurant keeps the invariant.
LEMMA ChooseKeeps == ASSUME MenuInv, NEW r \in Restaurants, ChooseRestaurant(r) PROVE MenuInv'
<1>1. /\ chosen' = {r} /\ fetches' = Fetched(fetches, r, "choice") /\ late' = Crossing(r)
      /\ UNCHANGED <<known, sorted, menu, move, writes, edit, disturbed>>
  BY DEF ChooseRestaurant
<1>2. PICK list : list = Fetched(fetches, r, "choice")
  OBVIOUS
<1>3. "choice" \in FetchKinds /\ "choice" # "move"
  BY DEF FetchKinds
<1>4. /\ list \in Seq(Fetching) /\ list # <<>> /\ (Current(fetches, r) => Current(list, r))
      /\ MoveLoads(list) = MoveLoads(fetches)
  BY <1>2, <1>3, MenuIs, AddedIs
<1>5. ~late' => Current(list, r)
  BY <1>1, <1>4, NotCrossing
<1>6. QED BY <1>1, <1>2, <1>4, <1>5, MenuIs, LoadBegins

\* Creating a restaurant keeps the invariant.
LEMMA CreateKeeps == ASSUME MenuInv, NEW r \in Restaurants, handleCreateRestaurant(r) PROVE MenuInv'
<1>1. /\ chosen' = {r} /\ fetches' = Fetched(Fetched(fetches, r, "choice"), r, "creation") /\ late' = Crossing(r)
      /\ known' = known \cup {r} /\ UNCHANGED <<sorted, menu, move, writes, edit, disturbed>>
  BY DEF handleCreateRestaurant
<1>2. PICK one : one = Fetched(fetches, r, "choice")
  OBVIOUS
<1>3. PICK list : list = Fetched(one, r, "creation")
  OBVIOUS
<1>4. "choice" \in FetchKinds /\ "creation" \in FetchKinds /\ "choice" # "move" /\ "creation" # "move"
  BY DEF FetchKinds
<1>5. /\ one \in Seq(Fetching) /\ (Current(fetches, r) => Current(one, r))
      /\ MoveLoads(one) = MoveLoads(fetches)
  BY <1>2, <1>4, MenuIs, AddedIs
<1>6. /\ list \in Seq(Fetching) /\ list # <<>> /\ (Current(one, r) => Current(list, r))
      /\ MoveLoads(list) = MoveLoads(one)
  BY <1>3, <1>4, <1>5, AddedIs
<1>7. ~late' => Current(list, r)
  BY <1>1, <1>5, <1>6, NotCrossing
<1>8. fetches' = list /\ known' \subseteq Restaurants
  BY <1>1, <1>2, <1>3, MenuIs
<1>9. QED BY <1>1, <1>5, <1>6, <1>7, <1>8, LoadBegins

\* Loading the menu again keeps the invariant.
LEMMA RefreshKeeps == ASSUME MenuInv, handleRefresh PROVE MenuInv'
<1>1. PICK r \in chosen : fetches' = Fetched(fetches, r, "refresh") /\ late' = Crossing(r)
  BY DEF handleRefresh
<1>2. UNCHANGED <<known, chosen, sorted, menu, move, writes, edit, disturbed>>
  BY DEF handleRefresh
<1>3. r \in Restaurants /\ chosen = {r}
  BY <1>1, MenuIs DEF Singles
<1>4. PICK list : list = Fetched(fetches, r, "refresh")
  OBVIOUS
<1>5. "refresh" \in FetchKinds /\ "refresh" # "move"
  BY DEF FetchKinds
<1>6. /\ list \in Seq(Fetching) /\ list # <<>> /\ (Current(fetches, r) => Current(list, r))
      /\ MoveLoads(list) = MoveLoads(fetches)
  BY <1>3, <1>4, <1>5, MenuIs, AddedIs
<1>7. ~late' => Current(list, r)
  BY <1>1, <1>3, <1>6, NotCrossing
<1>8. fetches' = list /\ chosen' = {r} /\ known' \subseteq Restaurants
  BY <1>1, <1>2, <1>3, <1>4, MenuIs
<1>9. QED BY <1>2, <1>3, <1>6, <1>7, <1>8, LoadBegins

-----------------------------------------------------------------------------
\* The menu is read, shown, or its load fails.
LEMMA ReadMenuKeeps == ASSUME MenuInv, NEW n \in DOMAIN fetches, ReadMenu(n) PROVE MenuInv'
<1>1. PICK f : f = fetches[n]
  OBVIOUS
<1>2. n \in 1..Len(fetches) /\ DOMAIN fetches = 1..Len(fetches) /\ f \in Fetching
  BY <1>1, MenuIs, LenProperties, ElementOfSeq
<1>3. PICK r \in f.of : fetches' = [fetches EXCEPT ![n].sorted = sorted[r], ![n].step = "read"]
  BY <1>1 DEF ReadMenu
<1>4. UNCHANGED <<known, chosen, sorted, menu, move, writes, edit, late, disturbed>>
  BY DEF ReadMenu
<1>5. f.of = {r} /\ r \in Restaurants /\ sorted[r] \in Orders
  BY <1>2, <1>3, MenuIs DEF Fetching, Singles
<1>6. PICK d : d = [f EXCEPT !.sorted = sorted[r], !.step = "read"]
  OBVIOUS
<1>7. d \in Fetching /\ d.of = {r} /\ d.sorted = sorted[r] /\ d.by = f.by
  BY <1>2, <1>5, <1>6 DEF Fetching
<1>8. fetches' = [fetches EXCEPT ![n] = d]
  <2>1. fetches = [k \in DOMAIN fetches |-> fetches[k]]
    BY <1>2, MenuIs, LenProperties
  <2>2. QED BY <1>1, <1>3, <1>6, <2>1
<1>9. /\ fetches' \in Seq(Fetching) /\ Len(fetches') = Len(fetches)
      /\ \A j \in 1..Len(fetches) : fetches'[j] = IF j = n THEN d ELSE fetches[j]
  BY <1>2, <1>7, <1>8, MenuIs, ExceptSeq
<1>10. DOMAIN fetches' = DOMAIN fetches
  BY <1>2, <1>9, LenProperties
<1>11. MenuTypes'
  BY <1>4, <1>9, MenuIs DEF MenuTypes
<1>12. LoadsAreCurrent'
  <2>1. SUFFICES ASSUME ~late PROVE LoadsAreCurrent'
    BY <1>4 DEF LoadsAreCurrent
  <2>2. /\ \A k \in DOMAIN fetches : fetches[k].of = chosen
        /\ \A k \in DOMAIN fetches : fetches[k].step = "read" => \A q \in chosen : fetches[k].sorted = sorted[q]
    BY <2>1 DEF MenuInv, LoadsAreCurrent
  <2>3. chosen = {r}
    BY <1>1, <1>5, <2>2
  <2>4. \A k \in DOMAIN fetches' : fetches'[k].of = chosen
    BY <1>2, <1>7, <1>9, <1>10, <2>2, <2>3
  <2>5. \A k \in DOMAIN fetches' : fetches'[k].step = "read" => \A q \in chosen : fetches'[k].sorted = sorted[q]
    BY <1>2, <1>7, <1>9, <1>10, <2>2, <2>3
  <2>6. fetches' # <<>>
    <3>1. Len(fetches') # 0
      BY <1>2, <1>9
    <3>2. QED BY <3>1, EmptySeq
  <2>7. QED BY <1>4, <2>4, <2>5, <2>6 DEF LoadsAreCurrent
<1>13. OneMove' /\ MoveGetsThere'
  <2>1. MoveLoads(fetches') = MoveLoads(fetches)
    BY <1>1, <1>2, <1>7, <1>9, <1>10 DEF MoveLoads
  <2>2. QED BY <1>4, <2>1, MovesKept, GettingThereKept
<1>14. QED BY <1>11, <1>12, <1>13 DEF MenuInv

\* A load that is over leaves the others as they were.
LEMMA FetchOverIs ==
  ASSUME MenuInv, NEW n \in DOMAIN fetches, FetchOver(n), UNCHANGED <<writes, sorted>>
  PROVE  /\ fetches' \in Seq(Fetching) /\ (move' = NotMoving \/ move' \in Moving)
         /\ \A k \in DOMAIN fetches' : \E m \in DOMAIN fetches : fetches'[k] = fetches[m]
         /\ OneMove' /\ MoveGetsThere'
<1>1. /\ fetches' = RemoveAt(fetches, n) /\ move' = (IF fetches[n].by = "move" THEN NotMoving ELSE move)
      /\ disturbed' = (disturbed /\ fetches[n].by # "move")
  BY Zenon DEF FetchOver
<1>2. /\ fetches' \in Seq(Fetching)
      /\ \A k \in DOMAIN fetches' :
           /\ k < n => k \in DOMAIN fetches /\ fetches'[k] = fetches[k]
           /\ k >= n => k + 1 \in DOMAIN fetches /\ fetches'[k] = fetches[k + 1]
  BY <1>1, MenuIs, RemovedIs
<1>3. n \in Nat /\ \A k \in DOMAIN fetches' : k \in Nat
  BY <1>2, MenuIs, LenProperties
<1>4. \A k \in DOMAIN fetches' : \E m \in DOMAIN fetches : m # n /\ fetches'[k] = fetches[m] /\ m = IF k < n THEN k ELSE k + 1
  BY <1>2, <1>3
<1>5. move' = NotMoving \/ move' \in Moving
  BY <1>1, MenuIs
<1>6. \A k, j \in DOMAIN fetches' : fetches'[k].by = "move" /\ fetches'[j].by = "move" => k = j
  <2>1. SUFFICES ASSUME NEW k \in DOMAIN fetches', NEW j \in DOMAIN fetches', fetches'[k].by = "move", fetches'[j].by = "move"
                 PROVE  k = j
    OBVIOUS
  <2>2. PICK a \in DOMAIN fetches : a # n /\ fetches'[k] = fetches[a] /\ a = IF k < n THEN k ELSE k + 1
    BY <1>4
  <2>3. PICK b \in DOMAIN fetches : b # n /\ fetches'[j] = fetches[b] /\ b = IF j < n THEN j ELSE j + 1
    BY <1>4
  <2>4. a = b
    BY <2>1, <2>2, <2>3, MenuIs DEF MoveLoads
  <2>5. QED BY <1>3, <2>2, <2>3, <2>4
<1>7. NotMoving.step = "none"
  BY DEF NotMoving
<1>8. CASE fetches[n].by = "move"
  <2>1. move' = NotMoving /\ move.step = "loading"
    BY <1>1, <1>8, MenuIs DEF MoveLoads
  <2>2. \A k \in DOMAIN fetches' : fetches'[k].by # "move"
    <3>1. SUFFICES ASSUME NEW k \in DOMAIN fetches', fetches'[k].by = "move" PROVE FALSE
      OBVIOUS
    <3>2. PICK a \in DOMAIN fetches : a # n /\ fetches'[k] = fetches[a]
      BY <1>4
    <3>3. QED BY <1>8, <3>1, <3>2, MenuIs DEF MoveLoads
  <2>3. \A w \in writes' : w.by # "move"
    BY <2>1, MenuIs
  <2>4. OneMove'
    BY <1>6, <2>2, <2>3 DEF OneMove
  <2>5. MoveGetsThere'
    BY <1>7, <2>1 DEF MoveGetsThere
  <2>6. QED BY <1>2, <1>4, <1>5, <2>4, <2>5
<1>9. CASE fetches[n].by # "move"
  <2>1. move' = move /\ (~disturbed' => ~disturbed)
    <3>1. move' = move
      BY <1>1, <1>9
    <3>2. ~disturbed' => ~disturbed
      BY <1>1, <1>9, Zenon
    <3>3. QED BY <3>1, <3>2
  <2>2. OneMove'
    <3>1. move'.step # "loading" => \A k \in DOMAIN fetches' : fetches'[k].by # "move"
      BY <1>4, <2>1, MenuIs DEF MoveLoads
    <3>2. move'.step # "writing" => \A w \in writes' : w.by # "move"
      BY <2>1, MenuIs
    <3>3. QED BY <1>6, <3>1, <3>2 DEF OneMove
  <2>3. MoveGetsThere'
    BY <2>1, GettingThereKept
  <2>4. QED BY <1>2, <1>4, <1>5, <2>2, <2>3
<1>10. QED BY <1>8, <1>9

\* Showing a menu that was loaded keeps the invariant.
LEMMA ShowFetchedKeeps == ASSUME MenuInv, NEW n \in DOMAIN fetches, ShowFetched(n) PROVE MenuInv'
<1>1. PICK f : f = fetches[n]
  OBVIOUS
<1>2. /\ f.step = "read" /\ FetchOver(n) /\ menu' = [of |-> f.of, sorted |-> f.sorted]
      /\ UNCHANGED <<known, chosen, sorted, writes, edit, late>>
  BY <1>1 DEF ShowFetched
<1>3. f \in Fetching
  BY <1>1, MenuIs, LenProperties, ElementOfSeq
<1>4. /\ fetches' \in Seq(Fetching) /\ (move' = NotMoving \/ move' \in Moving)
      /\ \A k \in DOMAIN fetches' : \E m \in DOMAIN fetches : fetches'[k] = fetches[m]
      /\ OneMove' /\ MoveGetsThere'
  BY <1>2, FetchOverIs
<1>5. MenuTypes'
  <2>1. menu'.of \in Singles /\ menu'.sorted \in Orders /\ menu'.of # {}
    BY <1>2, <1>3 DEF Fetching, Singles
  <2>2. QED BY <1>2, <1>4, <2>1, MenuIs DEF MenuTypes
<1>6. LoadsAreCurrent'
  <2>1. SUFFICES ASSUME ~late PROVE LoadsAreCurrent'
    BY <1>2 DEF LoadsAreCurrent
  <2>2. /\ \A k \in DOMAIN fetches : fetches[k].of = chosen
        /\ \A k \in DOMAIN fetches : fetches[k].step = "read" => \A q \in chosen : fetches[k].sorted = sorted[q]
    BY <2>1 DEF MenuInv, LoadsAreCurrent
  <2>3. PICK r \in Restaurants : chosen = {r}
    BY MenuIs DEF Singles
  <2>4. menu' = [of |-> {r}, sorted |-> sorted[r]]
    BY <1>1, <1>2, <2>2, <2>3
  <2>5. \A q \in chosen' : menu' = [of |-> {q}, sorted |-> sorted'[q]]
    BY <1>2, <2>3, <2>4
  <2>6. \A k \in DOMAIN fetches' : fetches'[k].of = chosen' /\ (fetches'[k].step = "read" => \A q \in chosen' : fetches'[k].sorted = sorted'[q])
    BY <1>2, <1>4, <2>2
  <2>7. QED BY <2>5, <2>6 DEF LoadsAreCurrent, MenuOf
<1>7. QED BY <1>4, <1>5, <1>6 DEF MenuInv

\* A load that failed keeps the invariant.
LEMMA FetchFailsKeeps == ASSUME MenuInv, NEW n \in DOMAIN fetches, FetchFails(n) PROVE MenuInv'
<1>1. FetchOver(n) /\ late' = TRUE /\ UNCHANGED <<known, chosen, sorted, menu, writes, edit>>
  BY DEF FetchFails
<1>2. fetches' \in Seq(Fetching) /\ (move' = NotMoving \/ move' \in Moving) /\ OneMove' /\ MoveGetsThere'
  BY <1>1, FetchOverIs
<1>3. MenuTypes'
  BY <1>1, <1>2, MenuIs DEF MenuTypes
<1>4. LoadsAreCurrent'
  BY <1>1 DEF LoadsAreCurrent
<1>5. QED BY <1>2, <1>3, <1>4 DEF MenuInv

-----------------------------------------------------------------------------
\* What leaves the menu and its loads alone leaves them current.
LEMMA LoadsKept ==
  ASSUME MenuInv, UNCHANGED <<chosen, sorted, menu, fetches, late>> PROVE LoadsAreCurrent'
<1>1. LoadsAreCurrent
  BY DEF MenuInv
<1>2. QED BY <1>1 DEF LoadsAreCurrent, MenuOf

\* A write that is sent is typed and carries what it was made of.
LEMMA WriteIs ==
  ASSUME MenuInv, menu.of # {}, NEW q \in Rows, NEW to \in Nat, NEW by \in WriteKinds, NEW w, w = Write(q, to, by)
  PROVE  w \in Writing /\ w.at = chosen /\ w.of = menu.of /\ w.row = q /\ w.to = to /\ w.by = by /\ w.step = "sent"
<1>1. chosen \in Singles /\ menu.of \in Singles
  BY MenuIs
<1>2. QED BY <1>1 DEF Write, Writing

\* An item is moved: its requests are sent.
LEMMA MoveItemKeeps == ASSUME MenuInv, NEW i \in Rows, NEW d \in Spots, handleMoveItem(i, d) PROVE MenuInv'
<1>1. PICK m : m = Moved(i, d)
  OBVIOUS
<1>2. /\ menu.of # {} /\ move = NotMoving
      /\ d = Position(menu.sorted, i) + 1 \/ d + 1 = Position(menu.sorted, i)
      /\ move' = [step |-> "writing", at |-> chosen, wanted |-> m]
      /\ writes' = writes \cup {Write(q, m[q], "move") : q \in Renumbered(m)}
      /\ disturbed' = (writes # {} \/ \E r \in menu.of : menu.sorted # sorted[r])
      /\ UNCHANGED <<known, chosen, sorted, menu, fetches, edit, late>>
  BY <1>1, Zenon DEF handleMoveItem
<1>3. m \in Orders /\ \E q \in Rows : menu.sorted[q] # m[q]
  <2>1. Position(menu.sorted, i) \in Nat
    BY MenuIs, PositionIs
  <2>2. d # Position(menu.sorted, i)
    BY <1>2, <2>1 DEF Spots
  <2>3. QED BY <1>1, <2>2, MenuIs, MovedRenumbers
<1>4. PICK new : new = {Write(q, m[q], "move") : q \in Renumbered(m)}
  OBVIOUS
<1>5. ASSUME NEW q \in Rows, NEW w, w = Write(q, m[q], "move")
      PROVE  w \in Writing /\ w.at = chosen /\ w.of = menu.of /\ w.row = q /\ w.to = m[q] /\ w.by = "move" /\ w.step = "sent"
  <2>1. m[q] \in Nat /\ "move" \in WriteKinds
    BY <1>3 DEF Orders, WriteKinds
  <2>2. QED BY <1>2, <1>5, <2>1, WriteIs
<1>6. \A q \in Renumbered(m) : q \in Rows
  BY DEF Renumbered
<1>7. \A w \in new : w \in Writing /\ w.at = chosen /\ w.of = menu.of /\ w.row \in Rows /\ w.to = m[w.row] /\ w.by = "move" /\ w.step = "sent"
  BY <1>4, <1>5, <1>6
<1>8. \A q \in Rows : menu.sorted[q] # m[q] => \E w \in new : w.row = q /\ w.step = "sent"
  <2>1. SUFFICES ASSUME NEW q \in Rows, menu.sorted[q] # m[q] PROVE \E w \in new : w.row = q /\ w.step = "sent"
    OBVIOUS
  <2>2. PICK w : w = Write(q, m[q], "move")
    OBVIOUS
  <2>3. w \in new
    BY <1>4, <2>1, <2>2 DEF Renumbered
  <2>4. w.row = q /\ w.step = "sent"
    BY <1>5, <2>2
  <2>5. QED BY <2>3, <2>4
<1>9. /\ move'.step = "writing" /\ move'.at = chosen /\ move'.wanted = m /\ move' \in Moving
  BY <1>2, <1>3, MenuIs DEF Moving
<1>10. MenuTypes'
  <2>1. writes' \subseteq Writing
    BY <1>2, <1>4, <1>7, MenuIs
  <2>2. QED BY <1>2, <1>9, <2>1, MenuIs DEF MenuTypes
<1>11. OneMove'
  <2>1. NotMoving.step = "none"
    BY DEF NotMoving
  <2>2. MoveLoads(fetches) = {}
    BY <1>2, <2>1, MenuIs
  <2>3. QED BY <1>2, <1>9, <2>2 DEF OneMove, MoveLoads
<1>12. MoveGetsThere'
  <2>1. SUFFICES ASSUME ~disturbed' PROVE \E r \in Restaurants : MoveGoesOn(r)'
    BY <1>9 DEF MoveGetsThere
  <2>2. writes = {} /\ \A r \in menu.of : menu.sorted = sorted[r]
    BY <1>2, <2>1, Zenon
  <2>3. PICK r \in Restaurants : menu.of = {r}
    BY <1>2, MenuIs DEF Singles
  <2>4. menu.sorted = sorted[r] /\ writes' = new
    BY <1>2, <1>4, <2>2, <2>3
  <2>5. \A w \in writes' : w.by = "move" /\ w.of = {r} /\ w.at = move'.at /\ w.to = move'.wanted[w.row]
    BY <1>7, <1>9, <2>3, <2>4
  <2>6. \A q \in Rows : sorted'[r][q] = move'.wanted[q] \/ \E w \in writes' : w.row = q /\ w.step = "sent"
    BY <1>2, <1>8, <1>9, <2>4
  <2>7. \E w \in writes' : w.step = "sent"
    BY <1>3, <1>8, <2>4
  <2>8. MoveGoesOn(r)'
    BY <2>5, <2>6, <2>7 DEF MoveGoesOn
  <2>9. QED BY <2>8
<1>13. LoadsAreCurrent'
  BY <1>2, LoadsKept
<1>14. QED BY <1>10, <1>11, <1>12, <1>13 DEF MenuInv

\* An item is opened in the form, and the form is sent.
LEMMA StartEditKeeps == ASSUME MenuInv, NEW i \in Rows, handleStartEditItem(i) PROVE MenuInv'
<1>1. /\ menu.of # {} /\ edit' = [row |-> i, to |-> menu.sorted[i]]
      /\ UNCHANGED <<known, chosen, sorted, menu, fetches, move, writes, late, disturbed>>
  BY DEF handleStartEditItem
<1>2. edit' \in [row : Rows, to : Nat]
  BY <1>1, MenuIs DEF Orders
<1>3. MenuTypes'
  BY <1>1, <1>2, MenuIs DEF MenuTypes
<1>4. MoveLoads(fetches') = MoveLoads(fetches)
  BY <1>1
<1>5. OneMove' /\ MoveGetsThere' /\ LoadsAreCurrent'
  BY <1>1, <1>4, MovesKept, GettingThereKept, LoadsKept
<1>6. QED BY <1>3, <1>5 DEF MenuInv

\* Saving an edited item keeps the invariant.
LEMMA UpdateItemKeeps == ASSUME MenuInv, handleUpdateItem PROVE MenuInv'
<1>1. PICK w : w = Write(edit.row, edit.to, "edit")
  OBVIOUS
<1>2. /\ edit # NotEditing /\ writes' = writes \cup {w} /\ disturbed' = TRUE
      /\ UNCHANGED <<known, chosen, sorted, menu, fetches, move, edit, late>>
  BY <1>1 DEF handleUpdateItem
<1>3. w \in Writing /\ w.by = "edit"
  <2>1. edit.row \in Rows /\ edit.to \in Nat /\ menu.of # {} /\ "edit" \in WriteKinds
    BY <1>2, MenuIs DEF WriteKinds
  <2>2. QED BY <1>1, <2>1, WriteIs
<1>4. MenuTypes'
  BY <1>2, <1>3, MenuIs DEF MenuTypes
<1>5. OneMove'
  BY <1>2, <1>3, MenuIs DEF OneMove, MoveLoads
<1>6. MoveGetsThere'
  BY <1>2 DEF MoveGetsThere
<1>7. LoadsAreCurrent'
  BY <1>2, LoadsKept
<1>8. QED BY <1>4, <1>5, <1>6, <1>7 DEF MenuInv

\* The API renumbers an item.
LEMMA MenuItemKeeps == ASSUME MenuInv, NEW w \in writes, updateMenuItem(w) PROVE MenuInv'
<1>1. /\ w.step = "sent" /\ w.at = w.of
      /\ sorted' = [r \in Restaurants |-> IF r \in w.of THEN [sorted[r] EXCEPT ![w.row] = w.to] ELSE sorted[r]]
      /\ writes' = (writes \ {w}) \cup {[w EXCEPT !.step = "done"]}
      /\ late' = TRUE /\ UNCHANGED <<known, chosen, menu, fetches, move, edit, disturbed>>
  BY DEF updateMenuItem
<1>2. w \in Writing
  BY MenuIs
<1>3. PICK v : v = [w EXCEPT !.step = "done"]
  OBVIOUS
<1>4. v \in Writing /\ v.at = w.at /\ v.of = w.of /\ v.row = w.row /\ v.to = w.to /\ v.by = w.by /\ v.step = "done"
  BY <1>2, <1>3 DEF Writing
<1>5. writes' = (writes \ {w}) \cup {v}
  BY <1>1, <1>3
<1>6. w.row \in Rows /\ w.to \in Nat
  BY <1>2 DEF Writing
<1>7. \A r \in Restaurants : sorted[r] \in [Rows -> Nat]
  BY MenuIs DEF Orders
<1>8. \A r \in Restaurants : \A q \in Rows : sorted'[r][q] = IF r \in w.of /\ q = w.row THEN w.to ELSE sorted[r][q]
  BY <1>1, <1>6, <1>7
<1>9. sorted' \in [Restaurants -> Orders]
  BY <1>1, <1>6, <1>7 DEF Orders
<1>10. MenuTypes'
  BY <1>1, <1>4, <1>5, <1>9, MenuIs DEF MenuTypes
<1>11. OneMove'
  BY <1>1, <1>4, <1>5, MenuIs DEF OneMove, MoveLoads
<1>12. LoadsAreCurrent'
  BY <1>1 DEF LoadsAreCurrent
<1>13. MoveGetsThere'
  <2>1. SUFFICES ASSUME ~disturbed PROVE /\ move.step = "writing" => \E r \in Restaurants : MoveGoesOn(r)'
                                         /\ move.step = "loading" => MoveIsDone'
    BY <1>1 DEF MoveGetsThere
  <2>2. move.step # "loading"
    BY <2>1 DEF MenuInv, MoveGetsThere, MoveIsDone
  <2>3. ASSUME move.step = "writing" PROVE \E r \in Restaurants : MoveGoesOn(r)'
    <3>1. PICK r \in Restaurants : MoveGoesOn(r)
      BY <2>1, <2>3 DEF MenuInv, MoveGetsThere
    <3>2. /\ \A x \in writes : x.by = "move" /\ x.of = {r} /\ x.at = move.at /\ x.to = move.wanted[x.row]
          /\ \A q \in Rows : sorted[r][q] = move.wanted[q] \/ \E x \in writes : x.row = q /\ x.step = "sent"
      BY <3>1 DEF MoveGoesOn
    <3>3. w.of = {r} /\ w.at = move.at /\ w.to = move.wanted[w.row]
      BY <3>2
    <3>4. \A x \in writes' : x.by = "move" /\ x.of = {r} /\ x.at = move'.at /\ x.to = move'.wanted[x.row]
      BY <1>1, <1>4, <1>5, <3>2
    <3>5. \A q \in Rows : sorted'[r][q] = move'.wanted[q] \/ \E x \in writes' : x.row = q /\ x.step = "sent"
      <4>1. SUFFICES ASSUME NEW q \in Rows PROVE sorted'[r][q] = move'.wanted[q] \/ \E x \in writes' : x.row = q /\ x.step = "sent"
        OBVIOUS
      <4>2. CASE q = w.row
        BY <1>1, <1>8, <3>3, <4>2
      <4>3. CASE q # w.row
        BY <1>1, <1>5, <1>8, <3>2, <4>3
      <4>4. QED BY <4>2, <4>3
    <3>6. move'.at = {r}
      BY <1>1, <3>3
    <3>7. MoveGoesOn(r)'
      BY <3>4, <3>5, <3>6 DEF MoveGoesOn
    <3>8. QED BY <3>7
  <2>4. QED BY <2>2, <2>3
<1>14. QED BY <1>10, <1>11, <1>12, <1>13 DEF MenuInv

\* Another operator renumbers an item.
LEMMA AnotherKeeps == ASSUME MenuInv, NEW r \in Restaurants, NEW i \in Rows, AnotherOperator(r, i, 2) PROVE MenuInv'
<1>1. /\ sorted' = [sorted EXCEPT ![r][i] = 2] /\ late' = TRUE /\ disturbed' = TRUE
      /\ UNCHANGED <<known, chosen, menu, fetches, move, writes, edit>>
  BY DEF AnotherOperator
<1>2. sorted' \in [Restaurants -> Orders]
  <2>1. sorted[r] \in [Rows -> Nat]
    BY MenuIs DEF Orders
  <2>2. [sorted[r] EXCEPT ![i] = 2] \in Orders
    BY <2>1 DEF Orders
  <2>3. QED BY <1>1, <2>2, MenuIs
<1>3. MenuTypes'
  BY <1>1, <1>2, MenuIs DEF MenuTypes
<1>4. MoveLoads(fetches') = MoveLoads(fetches)
  BY <1>1
<1>5. OneMove'
  BY <1>1, <1>4, MovesKept
<1>6. MoveGetsThere' /\ LoadsAreCurrent'
  BY <1>1 DEF MoveGetsThere, LoadsAreCurrent
<1>7. QED BY <1>3, <1>5, <1>6 DEF MenuInv

-----------------------------------------------------------------------------
\* A move has been written, and its menu is loaded.
LEMMA MoveSucceedsKeeps == ASSUME MenuInv, MoveSucceeds PROVE MenuInv'
<1>1. /\ move.step = "writing" /\ \A w \in Ours : w.step = "done"
      /\ writes' = writes \ Ours /\ move' = [move EXCEPT !.step = "loading"]
      /\ UNCHANGED <<known, chosen, sorted, menu, edit, disturbed>>
  BY DEF MoveSucceeds
<1>2. PICK r \in move.at : fetches' = Fetched(fetches, r, "move") /\ late' = (move.at # chosen \/ Crossing(r))
  BY DEF MoveSucceeds
<1>3. move \in Moving /\ move' \in Moving /\ move'.step = "loading" /\ move'.at = move.at /\ move'.wanted = move.wanted
  <2>1. NotMoving.step = "none"
    BY DEF NotMoving
  <2>2. move \in Moving
    BY <1>1, <2>1, MenuIs
  <2>3. QED BY <1>1, <2>2 DEF Moving
<1>4. r \in Restaurants /\ move.at = {r} /\ move.wanted \in Orders
  BY <1>2, <1>3 DEF Moving, Singles
<1>5. PICK list : list = Fetched(fetches, r, "move")
  OBVIOUS
<1>6. MoveLoads(fetches) = {}
  BY <1>1, MenuIs
<1>7. /\ list \in Seq(Fetching) /\ list # <<>> /\ (Current(fetches, r) => Current(list, r))
      /\ \A n, k \in MoveLoads(list) : n = k
  <2>1. "move" \in FetchKinds
    BY DEF FetchKinds
  <2>2. QED BY <1>4, <1>5, <1>6, <2>1, MenuIs, AddedIs
<1>8. fetches' = list
  BY <1>2, <1>5
<1>9. MenuTypes'
  BY <1>1, <1>3, <1>7, <1>8, MenuIs DEF MenuTypes
<1>10. LoadsAreCurrent'
  <2>1. SUFFICES ASSUME ~late' PROVE LoadsAreCurrent'
    BY DEF LoadsAreCurrent
  <2>2. move.at = chosen /\ ~Crossing(r)
    BY <1>2, <2>1, Zenon
  <2>3. Current(list, r)
    BY <1>4, <1>7, <2>2, NotCrossing
  <2>4. chosen' = {r} /\ sorted' = sorted
    BY <1>1, <1>4, <2>2
  <2>5. QED BY <1>4, <1>7, <1>8, <2>3, <2>4, CurrentKept
<1>11. OneMove'
  <2>1. \A w \in writes' : w.by # "move"
    BY <1>1 DEF Ours
  <2>2. \A n, m \in DOMAIN fetches' : fetches'[n].by = "move" /\ fetches'[m].by = "move" => n = m
    BY <1>7, <1>8 DEF MoveLoads
  <2>3. QED BY <1>3, <2>1, <2>2 DEF OneMove
<1>12. MoveGetsThere'
  <2>1. SUFFICES ASSUME ~disturbed PROVE MoveIsDone'
    BY <1>1, <1>3 DEF MoveGetsThere
  <2>2. PICK s \in Restaurants : MoveGoesOn(s)
    BY <1>1, <2>1 DEF MenuInv, MoveGetsThere
  <2>3. /\ \A w \in writes : w.by = "move"
        /\ \A q \in Rows : sorted[s][q] = move.wanted[q] \/ \E w \in writes : w.row = q /\ w.step = "sent"
        /\ move.at = {s} \/ \E w \in writes : w.step = "sent"
    BY <2>2 DEF MoveGoesOn
  <2>4. Ours = writes
    BY <2>3 DEF Ours
  <2>5. writes' = {} /\ \A w \in writes : w.step # "sent"
    BY <1>1, <2>4
  <2>6. s = r /\ \A q \in Rows : sorted[r][q] = move.wanted[q]
    BY <1>4, <2>3, <2>5
  <2>7. sorted[r] \in [Rows -> Nat] /\ move.wanted \in [Rows -> Nat]
    BY <1>4, MenuIs DEF Orders
  <2>8. sorted[r] = move.wanted
    BY <2>6, <2>7
  <2>9. \A q \in move'.at : sorted'[q] = move'.wanted
    BY <1>1, <1>3, <1>4, <2>8
  <2>10. QED BY <2>5, <2>9 DEF MoveIsDone
<1>13. QED BY <1>9, <1>10, <1>11, <1>12 DEF MenuInv

\* The form is saved, and its menu is loaded.
LEMMA EditSucceedsKeeps == ASSUME MenuInv, NEW w \in writes, EditSucceeds(w) PROVE MenuInv'
<1>1. /\ w.by = "edit" /\ writes' = writes \ {w} /\ edit' = NotEditing
      /\ UNCHANGED <<known, chosen, sorted, menu, move, disturbed>>
  BY DEF EditSucceeds
<1>2. PICK r \in w.at : fetches' = Fetched(fetches, r, "edit") /\ late' = (w.at # chosen \/ Crossing(r))
  BY DEF EditSucceeds
<1>3. r \in Restaurants /\ w.at = {r}
  BY <1>2, MenuIs DEF Writing, Singles
<1>4. PICK list : list = Fetched(fetches, r, "edit")
  OBVIOUS
<1>5. /\ list \in Seq(Fetching) /\ list # <<>> /\ (Current(fetches, r) => Current(list, r))
      /\ MoveLoads(list) = MoveLoads(fetches)
  <2>1. "edit" \in FetchKinds /\ "edit" # "move"
    BY DEF FetchKinds
  <2>2. QED BY <1>3, <1>4, <2>1, MenuIs, AddedIs
<1>6. fetches' = list
  BY <1>2, <1>4
<1>7. MenuTypes'
  BY <1>1, <1>5, <1>6, MenuIs DEF MenuTypes
<1>8. LoadsAreCurrent'
  <2>1. SUFFICES ASSUME ~late' PROVE LoadsAreCurrent'
    BY DEF LoadsAreCurrent
  <2>2. w.at = chosen /\ ~Crossing(r)
    BY <1>2, <2>1, Zenon
  <2>3. Current(list, r)
    BY <1>3, <1>5, <2>2, NotCrossing
  <2>4. chosen' = {r} /\ sorted' = sorted
    BY <1>1, <1>3, <2>2
  <2>5. QED BY <1>3, <1>5, <1>6, <2>3, <2>4, CurrentKept
<1>9. OneMove'
  BY <1>1, <1>5, <1>6, MenuIs DEF OneMove, MoveLoads
<1>10. MoveGetsThere'
  <2>1. SUFFICES ASSUME ~disturbed PROVE /\ move.step = "writing" => FALSE
                                         /\ move.step = "loading" => FALSE
    BY <1>1 DEF MoveGetsThere
  <2>2. QED BY <1>1, <2>1 DEF MenuInv, MoveGetsThere, MoveGoesOn, MoveIsDone
<1>11. QED BY <1>7, <1>8, <1>9, <1>10 DEF MenuInv

\* A request whose handler gave up keeps the invariant when it ends.
LEMMA OrphanEndsKeeps == ASSUME MenuInv, NEW w \in writes, OrphanEnds(w) PROVE MenuInv'
<1>1. /\ w.by = "orphan" /\ writes' = writes \ {w}
      /\ UNCHANGED <<known, chosen, sorted, menu, fetches, move, edit, late, disturbed>>
  BY DEF OrphanEnds
<1>2. MenuTypes'
  BY <1>1, MenuIs DEF MenuTypes
<1>3. LoadsAreCurrent'
  BY <1>1, LoadsKept
<1>4. OneMove'
  BY <1>1, MenuIs DEF OneMove, MoveLoads
<1>5. MoveGetsThere'
  <2>1. SUFFICES ASSUME ~disturbed PROVE /\ move.step = "writing" => FALSE
                                         /\ move.step = "loading" => FALSE
    BY <1>1 DEF MoveGetsThere
  <2>2. QED BY <1>1, <2>1 DEF MenuInv, MoveGetsThere, MoveGoesOn, MoveIsDone
<1>6. QED BY <1>2, <1>3, <1>4, <1>5 DEF MenuInv

\* A request fails, and with it the move that it belongs to.
LEMMA WriteFailsKeeps == ASSUME MenuInv, NEW w \in writes, WriteFails(w) PROVE MenuInv'
<1>1. UNCHANGED <<known, chosen, sorted, menu, fetches, edit, late, disturbed>>
  BY DEF WriteFails
<1>2. LoadsAreCurrent'
  BY <1>1, LoadsKept
<1>3. NotMoving.step = "none"
  BY DEF NotMoving
<1>4. CASE w.by = "move"
  <2>1. /\ move' = NotMoving
        /\ writes' = {[v EXCEPT !.by = IF v.by = "move" THEN "orphan" ELSE v.by] : v \in writes \ {w}}
    BY <1>4 DEF WriteFails
  <2>2. ASSUME NEW v \in writes, NEW x, x = [v EXCEPT !.by = IF v.by = "move" THEN "orphan" ELSE v.by]
        PROVE  x \in Writing /\ x.by # "move"
    <3>1. v \in Writing
      BY MenuIs
    <3>2. PICK by : by = IF v.by = "move" THEN "orphan" ELSE v.by
      OBVIOUS
    <3>3. by \in WriteKinds /\ by # "move"
      BY <3>1, <3>2 DEF Writing, WriteKinds
    <3>4. x = [v EXCEPT !.by = by]
      BY <2>2, <3>2
    <3>5. QED BY <3>1, <3>3, <3>4 DEF Writing
  <2>3. \A x \in writes' : x \in Writing /\ x.by # "move"
    BY <2>1, <2>2
  <2>4. MenuTypes'
    BY <1>1, <2>1, <2>3, MenuIs DEF MenuTypes
  <2>5. move.step = "writing"
    BY <1>4, MenuIs
  <2>6. MoveLoads(fetches) = {}
    BY <2>5, MenuIs
  <2>7. OneMove'
    BY <1>1, <2>3, <2>6 DEF OneMove, MoveLoads
  <2>8. MoveGetsThere'
    BY <1>3, <2>1 DEF MoveGetsThere
  <2>9. QED BY <1>2, <2>4, <2>7, <2>8 DEF MenuInv
<1>5. CASE w.by # "move"
  <2>1. move' = move /\ writes' = writes \ {w}
    BY <1>5 DEF WriteFails
  <2>2. MenuTypes'
    BY <1>1, <2>1, MenuIs DEF MenuTypes
  <2>3. OneMove'
    BY <1>1, <2>1, MenuIs DEF OneMove, MoveLoads
  <2>4. MoveGetsThere'
    <3>1. SUFFICES ASSUME ~disturbed PROVE /\ move.step = "writing" => FALSE
                                           /\ move.step = "loading" => FALSE
      BY <1>1, <2>1 DEF MoveGetsThere
    <3>2. QED BY <1>5, <3>1 DEF MenuInv, MoveGetsThere, MoveGoesOn, MoveIsDone
  <2>5. QED BY <1>2, <2>2, <2>3, <2>4 DEF MenuInv
<1>6. QED BY <1>4, <1>5

-----------------------------------------------------------------------------
\* Steps elsewhere keep the invariant.
LEMMA MenuStutters == MenuInv /\ UNCHANGED menuDeskVars => MenuInv'
<1> SUFFICES ASSUME MenuInv, UNCHANGED menuDeskVars PROVE MenuInv'
  OBVIOUS
<1>1. UNCHANGED <<known, chosen, sorted, menu, fetches, move, writes, edit, late, disturbed>>
  BY DEF menuDeskVars
<1>2. MoveLoads(fetches') = MoveLoads(fetches)
  BY <1>1
<1>3. MenuTypes'
  BY <1>1, MenuIs DEF MenuTypes
<1>4. LoadsAreCurrent' /\ OneMove' /\ MoveGetsThere'
  BY <1>1, <1>2, MovesKept, GettingThereKept, LoadsKept
<1>5. QED BY <1>3, <1>4 DEF MenuInv

\* The menu page as it opens satisfies the invariant.
LEMMA MenuInitInv == MenuDeskInit => MenuInv
<1> SUFFICES ASSUME MenuDeskInit PROVE MenuInv
  OBVIOUS
<1>1. /\ known \in {Restaurants} \cup {{r} : r \in Restaurants}
      /\ menu = NoMenu /\ move = NotMoving /\ writes = {} /\ edit = NotEditing /\ late = FALSE /\ disturbed = FALSE
  BY DEF MenuDeskInit
<1>2. PICK r \in known : chosen = {r} /\ fetches = <<Fetch(r, "choice")>>
  BY DEF MenuDeskInit
<1>3. r \in Restaurants /\ known \subseteq Restaurants
  BY <1>1, <1>2
<1>4. PICK f : f = Fetch(r, "choice")
  OBVIOUS
<1>5. f \in Fetching /\ f.of = {r} /\ f.step = "sent" /\ f.by = "choice"
  <2>1. "choice" \in FetchKinds
    BY DEF FetchKinds
  <2>2. QED BY <1>3, <1>4, <2>1, FetchIs
<1>6. fetches \in Seq(Fetching) /\ DOMAIN fetches = {1} /\ fetches[1] = f /\ fetches # <<>>
  BY <1>2, <1>4, <1>5
<1>7. sorted \in [Restaurants -> Orders]
  <2>1. PICK order \in {[i \in Rows |-> 0], [i \in Rows |-> i - 1], [i \in Rows |-> IF i = 3 THEN 0 ELSE 2]} :
          sorted = [q \in Restaurants |-> order]
    BY DEF MenuDeskInit
  <2>2. order \in Orders
    BY <2>1 DEF Orders, Rows
  <2>3. QED BY <2>1, <2>2
<1>8. menu.of = {} /\ menu.sorted \in Orders
  BY <1>1 DEF NoMenu, Orders
<1>9. NotMoving.step = "none"
  BY DEF NotMoving
<1>10. MenuTypes
  <2>1. chosen \in Singles
    BY <1>2, <1>3 DEF Singles
  <2>2. QED BY <1>1, <1>3, <1>6, <1>7, <1>8, <2>1 DEF MenuTypes
<1>11. LoadsAreCurrent
  BY <1>2, <1>5, <1>6 DEF LoadsAreCurrent
<1>12. OneMove
  BY <1>1, <1>5, <1>6 DEF OneMove
<1>13. MoveGetsThere
  BY <1>1, <1>9 DEF MoveGetsThere
<1>14. QED BY <1>10, <1>11, <1>12, <1>13 DEF MenuInv

\* Every step of the menu page keeps it.
LEMMA MenuStepInv == MenuInv /\ [MenuDeskNext]_menuDeskVars => MenuInv'
<1> SUFFICES ASSUME MenuInv, [MenuDeskNext]_menuDeskVars PROVE MenuInv'
  OBVIOUS
<1>1. CASE handleRefresh \/ MoveSucceeds \/ handleUpdateItem
  BY <1>1, RefreshKeeps, MoveSucceedsKeeps, UpdateItemKeeps
<1>2. CASE \E r \in Restaurants : \/ ChooseRestaurant(r) \/ handleCreateRestaurant(r)
                                  \/ \E i \in Rows : AnotherOperator(r, i, 2)
  BY <1>2, ChooseKeeps, CreateKeeps, AnotherKeeps
<1>3. CASE \E n \in DOMAIN fetches : ReadMenu(n) \/ ShowFetched(n) \/ FetchFails(n)
  BY <1>3, ReadMenuKeeps, ShowFetchedKeeps, FetchFailsKeeps
<1>4. CASE \E i \in Rows : handleStartEditItem(i) \/ \E d \in Spots : handleMoveItem(i, d)
  BY <1>4, StartEditKeeps, MoveItemKeeps
<1>5. CASE \E w \in writes : updateMenuItem(w) \/ EditSucceeds(w) \/ OrphanEnds(w) \/ WriteFails(w)
  BY <1>5, MenuItemKeeps, EditSucceedsKeeps, OrphanEndsKeeps, WriteFailsKeeps
<1>6. CASE UNCHANGED menuDeskVars
  BY <1>6, MenuStutters
<1>7. QED BY <1>1, <1>2, <1>3, <1>4, <1>5, <1>6, Zenon DEF MenuDeskNext

\* The invariant says that the page shows the menu, in the order the moves gave it.
LEMMA MenuHolds == MenuInv => MenuDeskIsSound
<1> SUFFICES ASSUME MenuInv PROVE MenuDeskIsSound
  OBVIOUS
<1>1. PICK r \in Restaurants : chosen = {r}
  BY MenuIs DEF Singles
<1>2. MenuIsOfTheChosen
  BY <1>1 DEF MenuInv, LoadsAreCurrent, MenuIsOfTheChosen
<1>3. MovedAsAsked
  <2>1. SUFFICES ASSUME move.step = "loading", ~disturbed PROVE \E q \in move.at : sorted[q] = move.wanted
    BY DEF MovedAsAsked
  <2>2. \A q \in move.at : sorted[q] = move.wanted
    BY <2>1 DEF MenuInv, MoveGetsThere, MoveIsDone
  <2>3. move # NotMoving
    BY <2>1 DEF NotMoving
  <2>4. \E q : q \in move.at
    BY <2>3, MenuIs DEF Moving, Singles
  <2>5. QED BY <2>2, <2>4
<1>4. QED BY <1>2, <1>3 DEF MenuDeskIsSound

-----------------------------------------------------------------------------
\* All pages side by side.

\* A step of the pages is a step of one of them, or none, for each of them.
LEMMA PagesStep ==
  ASSUME [Next]_pagesVars
  PROVE  /\ [PilotsNext]_pilotVars /\ [StoreNext]_storeVars /\ [SessionNext]_sessionVars /\ [DesksNext]_deskPageVars
         /\ [RecordsNext]_recordVars /\ [DriverDeskNext]_driverDeskVars /\ [MenuDeskNext]_menuDeskVars /\ [InboxNext]_inboxVars
<1>1. CASE UNCHANGED pagesVars
  BY <1>1 DEF pagesVars
<1>2. CASE Next
  <2>1. \/ PilotsNext /\ UNCHANGED <<storeVars, sessionVars, deskPageVars, recordVars, driverDeskVars, menuDeskVars, inboxVars>>
        \/ StoreNext /\ UNCHANGED <<pilotVars, sessionVars, deskPageVars, recordVars, driverDeskVars, menuDeskVars, inboxVars>>
        \/ SessionNext /\ UNCHANGED <<pilotVars, storeVars, deskPageVars, recordVars, driverDeskVars, menuDeskVars, inboxVars>>
        \/ DesksNext /\ UNCHANGED <<pilotVars, storeVars, sessionVars, recordVars, driverDeskVars, menuDeskVars, inboxVars>>
        \/ RecordsNext /\ UNCHANGED <<pilotVars, storeVars, sessionVars, deskPageVars, driverDeskVars, menuDeskVars, inboxVars>>
        \/ DriverDeskNext /\ UNCHANGED <<pilotVars, storeVars, sessionVars, deskPageVars, recordVars, menuDeskVars, inboxVars>>
        \/ MenuDeskNext /\ UNCHANGED <<pilotVars, storeVars, sessionVars, deskPageVars, recordVars, driverDeskVars, inboxVars>>
        \/ InboxNext /\ UNCHANGED <<pilotVars, storeVars, sessionVars, deskPageVars, recordVars, driverDeskVars, menuDeskVars>>
    BY <1>2 DEF Next
  <2>2. QED BY <2>1
<1>3. QED BY <1>1, <1>2

\* The invariants of all the pages together.
PagesInv == PilotsInv /\ StoreInv /\ SessionInv /\ DesksInv /\ RecordsInv /\ DriverInv /\ MenuInv /\ InboxInv

\* The pages hold their invariants in every reachable state.
LEMMA PagesInvariant == Spec => []PagesInv
<1>1. Init => PagesInv
  BY PilotsInitInv, StoreInitInv, SessionInitInv, DesksInitInv, RecordsInitInv, DriverInitInv, MenuInitInv, InboxInitInv
  DEF Init, PagesInv
<1>2. PagesInv /\ [Next]_pagesVars => PagesInv'
  BY PagesStep, PilotsStepInv, StoreStepInv, SessionStepInv, DesksStepInv, RecordsStepInv, DriverStepInv, MenuStepInv,
     InboxStepInv DEF PagesInv
<1>3. QED BY <1>1, <1>2, PTL DEF Spec

\* Every page keeps its variables in their types (MCPages.PagesTypeOK).
THEOREM PagesAreTyped == Spec => []PagesTypeOK
<1>1. SessionInv => SessionTypeOK
  BY DEF SessionInv, SessionTypes
<1>2. PagesInv => PagesTypeOK
  BY <1>1, PilotsHold, StoreHolds, DesksHold DEF PagesInv, PagesTypeOK
<1>3. QED BY <1>2, PagesInvariant, PTL

\* A page at rest shows what the service has, and all of it, unless calls crossed, an answer
\* got lost, another person wrote, the other list of notifications marked some as read, or a
\* record was loaded without its audit or escalations (MCPages.PagesShowTheServer).
THEOREM PagesAreCurrent == Spec => []PagesShowTheServer
<1>1. PagesInv => PagesShowTheServer
  BY PilotsHold, DesksHold, RecordsHold, MenuHolds, InboxHolds DEF PagesInv, PagesShowTheServer
<1>2. QED BY <1>1, PagesInvariant, PTL

\* A customer's order is the cart, is charged as shown, and has two payments authorized only if
\* an answer was lost, to the page or, from the provider, to the service (MCPages.OrdersAreAsShown).
THEOREM OrdersAreTheCarts == Spec => []OrdersAreAsShown
<1>1. PagesInv => OrdersAreAsShown
  BY StoreHolds DEF PagesInv, OrdersAreAsShown
<1>2. QED BY <1>1, PagesInvariant, PTL

\* The restored session is the newest one and has its cookie, and the page never waits for
\* nothing (MCPages.SessionsHold).
THEOREM SessionsAreRestored == Spec => []SessionsHold
<1>1. SessionInv => SessionsHold
  BY DEF SessionInv, SessionsHold
<1>2. QED BY <1>1, PagesInvariant, PTL DEF PagesInv

\* The driver's page at rest shows the driver's work and offers as they are and takes no proof for
\* granted, unless answers crossed, got lost or the job was changed elsewhere
\* (DriverDesk.DeskMatchesWork).
THEOREM DeskShowsTheWork == Spec => []DeskMatchesWork
<1>1. QED BY DriverHolds, PagesInvariant, PTL DEF PagesInv

\* An update reaches the workspace it was made for, a profile is saved where it was edited, and
\* a page of a record turns back to an older state only when answers crossed, a load failed or
\* one went on without the audit (MCPages.NothingGoesAstray).
THEOREM NothingIsLost == Spec => NothingGoesAstray
<1>1. PagesInv => UpdatesStayInSelected /\ SavedWhereTyped
  BY PilotsHold DEF PagesInv
<1>2. ASSUME PagesInv, [Next]_pagesVars
      PROVE  [tangled \/ unread' \/ (seen'.main >= seen.main /\ seen'.pay >= seen.pay /\ (audit' >= audit \/ "audit" \in missing'))]_recordVars
  <2>1. CASE UNCHANGED recordVars
    BY <2>1
  <2>2. CASE RecordsNext
    BY <1>2, <2>2, RecordsGoOn DEF PagesInv
  <2>3. QED BY <1>2, <2>1, <2>2, PagesStep
<1>3. QED BY <1>1, <1>2, PagesInvariant, PTL DEF Spec, NothingGoesAstray, NothingGoesBack
=============================================================================
