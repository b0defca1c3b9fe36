------------------------------- MODULE Desks --------------------------------
(***************************************************************************)
(* The pages of the consoles (apps/web) that load a list or a summary and  *)
(* let a person choose what is listed, refresh it, or save something.  An  *)
(* effect loads when the page opens, when the choice changes and when the  *)
(* session is renewed; most pages drop the answer of an effect that has    *)
(* been superseded.  The answers of handlers are never dropped.            *)
(***************************************************************************)
EXTENDS Naturals, FiniteSets

CONSTANTS Keys,       \* what can be chosen: a filter, a date, a search, the id of a route
          MaxSaves,   \* bound: saves
          MaxLoads,   \* bound: effects and refreshes
          MaxPending  \* bound: requests under way at once

ASSUME DesksAssumption == MaxLoads \in Nat \ {0} /\ MaxPending \in Nat \ {0} /\ MaxSaves \in Nat

VARIABLES desk,     \* the page
          key,      \* what is chosen on it
          written,  \* the saves that the server holds
          shown,    \* what the page displays
          calls,    \* calls[n]: a request under way
          loading,  \* the page says it is loading
          broken,   \* the page's error
          started,  \* effects and refreshes so far
          heard,    \* the saves whose success the page knows
          missed,   \* a load failed and none has succeeded since
          crossed   \* answers that nothing orders were under way at once

deskPageVars == <<desk, key, written, shown, calls, loading, broken, started, heard, missed, crossed>>

NoRows == [key |-> "none", rows |-> {}]
NotAsked == [kind |-> "none"]
Call(kind, k) == [kind |-> kind, key |-> k, step |-> "asked", rows |-> {}, save |-> 0]

-----------------------------------------------------------------------------
\* What tells the pages apart.  guarded: superseded effects are dropped; keyed: by what the
\* effect loads; refreshes: a button loads outside the effect; saves: what follows a save;
\* waits: one save at a time; hides: nothing is usable while the page loads; fails: an
\* error takes the place of the page.
Page == [guarded |-> TRUE, keyed |-> "no", refreshes |-> FALSE, saves |-> "no", waits |-> TRUE,
         hides |-> FALSE, fails |-> FALSE]
Loaded == [Page EXCEPT !.hides = TRUE]
Unguarded == [Page EXCEPT !.guarded = FALSE]
Saving == [Unguarded EXCEPT !.saves = "reload"]

BusinessFinanceShell == [Page EXCEPT !.saves = "reload", !.waits = FALSE, !.fails = TRUE]
AdminFinanceShell == [Page EXCEPT !.fails = TRUE]
AdminDemoRequestsShell == [Loaded EXCEPT !.keyed = "filter", !.saves = "patch", !.waits = FALSE]
AdminOperationalResetsShell == [Loaded EXCEPT !.saves = "patch"]
AdminFleetsShell == [Saving EXCEPT !.waits = FALSE]
AdminFleetDriversShell == [Saving EXCEPT !.waits = FALSE, !.keyed = "route"]
FleetWorkspaceShell == [Page EXCEPT !.fails = TRUE]
FleetDriverDetailShell == [Page EXCEPT !.fails = TRUE, !.keyed = "route"]
FleetTeamShell == [Page EXCEPT !.saves = "reload"]
AdminDriversShell == [Loaded EXCEPT !.refreshes = TRUE]
ReportsShell_Late == [Loaded EXCEPT !.guarded = FALSE, !.refreshes = TRUE, !.keyed = "filter"]
ReportsShell == [Loaded EXCEPT !.refreshes = TRUE, !.keyed = "filter"]
PaymentsShell == Loaded
AdminCommandShell == [Loaded EXCEPT !.refreshes = TRUE, !.keyed = "filter"]
AdminShell == Loaded
AdminValidationEvidenceShell == Loaded
AdminReleaseReadinessShell == Loaded
AdminPilotRehearsalShell == [Loaded EXCEPT !.keyed = "route"]
AdminMenuHistoryShell == [Page EXCEPT !.keyed = "filter"]
CustomerTrackingShell == [Loaded EXCEPT !.keyed = "route"]
AdminGovernanceShell == Unguarded
AdminAnalyticsShell == Unguarded
AdminNotificationsShell == Saving
AdminUsersShell == [Saving EXCEPT !.keyed = "filter"]
AdminOrgsShell == [Saving EXCEPT !.keyed = "filter"]
AdminOrgMembersShell == [Saving EXCEPT !.keyed = "route"]
BusinessTeamShell == Saving
AdminDispatchAuditShell == [Page EXCEPT !.keyed = "route", !.fails = TRUE]

Pages == [finance |-> BusinessFinanceShell, adminFinance |-> AdminFinanceShell,
          demoRequests |-> AdminDemoRequestsShell, resets |-> AdminOperationalResetsShell,
          fleets |-> AdminFleetsShell, fleetDrivers |-> AdminFleetDriversShell,
          fleet |-> FleetWorkspaceShell, fleetDriver |-> FleetDriverDetailShell,
          fleetTeam |-> FleetTeamShell, drivers |-> AdminDriversShell, reports |-> ReportsShell,
          payments |-> PaymentsShell, command |-> AdminCommandShell, admin |-> AdminShell,
          evidence |-> AdminValidationEvidenceShell, readiness |-> AdminReleaseReadinessShell,
          rehearsal |-> AdminPilotRehearsalShell, menuHistory |-> AdminMenuHistoryShell,
          tracking |-> CustomerTrackingShell, governance |-> AdminGovernanceShell,
          analytics |-> AdminAnalyticsShell, notifications |-> AdminNotificationsShell,
          users |-> AdminUsersShell, orgs |-> AdminOrgsShell, members |-> AdminOrgMembersShell,
          team |-> BusinessTeamShell, audit |-> AdminDispatchAuditShell]
Here == Pages[desk]

-----------------------------------------------------------------------------
Slots == 1..MaxPending
Free == {n \in Slots : calls[n] = NotAsked}
Slot == CHOOSE n \in Free : \A m \in Free : n <= m
Busy(kinds) == \E n \in Slots : calls[n].kind \in kinds
Usable == ~(Here.hides /\ loading) /\ ~(Here.fails /\ broken)

\* The effect's cleanup, and the effect.
LatePages == {"fleets", "fleetDrivers", "governance", "analytics", "notifications",
              "users", "orgs", "members", "team"}
Kept == [n \in Slots |-> IF Here.guarded /\ calls[n].kind = "effect" THEN NotAsked ELSE calls[n]]

Effect(k) ==
  LET free == {n \in Slots : Kept[n] = NotAsked}
  IN /\ free # {} /\ started < MaxLoads
     /\ calls' = [Kept EXCEPT ![CHOOSE n \in free : \A m \in free : n <= m] = Call("effect", k)]
     /\ started' = started + 1 /\ loading' = TRUE /\ broken' = FALSE
     /\ crossed' = (crossed \/ Busy({"load", "save", "session"})
                    \/ (desk \in LatePages /\ Busy({"effect"})))

ChooseKey(k) ==
  /\ Here.keyed # "no" /\ k # key /\ (Here.keyed = "filter" => Usable)
  /\ key' = k /\ Effect(k)
  /\ UNCHANGED <<desk, written, shown, heard, missed>>

\* The provider renews the session, by itself or because a button asked for it.
RenewSession == Effect(key) /\ UNCHANGED <<desk, key, written, shown, heard, missed>>

\* A refresh renews the session first, and loads what was chosen when it was pressed.
PressRefresh ==
  /\ Here.refreshes /\ Usable /\ Free # {} /\ started < MaxLoads
  /\ calls' = [calls EXCEPT ![Slot] = Call("session", key)]
  /\ crossed' = (crossed \/ Busy({"effect", "load", "session"}))
  /\ UNCHANGED <<desk, key, written, shown, loading, broken, started, heard, missed>>

RefreshLoads(n) ==
  /\ calls[n].kind = "session" /\ started < MaxLoads
  /\ calls' = [calls EXCEPT ![n] = Call("load", calls[n].key)]
  /\ loading' = TRUE /\ broken' = FALSE /\ started' = started + 1
  /\ UNCHANGED <<desk, key, written, shown, heard, missed, crossed>>

NoSessionLeft(n) ==
  /\ calls[n].kind = "session"
  /\ calls' = [calls EXCEPT ![n] = NotAsked]
  /\ UNCHANGED <<desk, key, written, shown, loading, broken, started, heard, missed, crossed>>

-----------------------------------------------------------------------------
Saves == 1..MaxSaves
Unsaved == {s \in Saves : s \notin written /\ ~\E n \in Slots : calls[n].kind = "save" /\ calls[n].save = s}

Save ==
  /\ Here.saves # "no" /\ Usable /\ shown # NoRows /\ Free # {} /\ Unsaved # {}
  /\ Here.waits => ~Busy({"save", "load"})
  /\ \E s \in Unsaved :
       /\ \A t \in Unsaved : s <= t
       /\ calls' = [calls EXCEPT ![Slot] = [Call("save", key) EXCEPT !.save = s]]
  /\ crossed' = (crossed \/ Free # Slots)
  /\ UNCHANGED <<desk, key, written, shown, loading, broken, started, heard, missed>>

\* The server answers: it reads its rows, or writes the save.
Serve(n) ==
  /\ calls[n].kind \in {"effect", "load", "save"} /\ calls[n].step = "asked"
  /\ written' = IF calls[n].kind = "save" THEN written \cup {calls[n].save} ELSE written
  /\ calls' = [calls EXCEPT ![n].step = "served", ![n].rows = written']
  /\ UNCHANGED <<desk, key, shown, loading, broken, started, heard, missed, crossed>>

ShowRows(n) ==
  /\ calls[n].kind \in {"effect", "load"} /\ calls[n].step = "served"
  /\ shown' = [key |-> calls[n].key, rows |-> calls[n].rows]
  /\ calls' = [calls EXCEPT ![n] = NotAsked]
  /\ loading' = FALSE /\ missed' = FALSE
  /\ UNCHANGED <<desk, key, written, broken, started, heard, crossed>>

SaveSucceeded(n) ==
  /\ calls[n].kind = "save" /\ calls[n].step = "served"
  /\ heard' = heard \cup {calls[n].save}
  /\ calls' = [calls EXCEPT ![n] = IF Here.saves = "reload" THEN Call("load", calls[n].key) ELSE NotAsked]
  /\ shown' = IF Here.saves = "patch" THEN [shown EXCEPT !.rows = @ \cup {calls[n].save}] ELSE shown
  /\ UNCHANGED <<desk, key, written, loading, broken, started, missed, crossed>>

\* An answer is an error or never comes, whether or not the server did its part.
CallFailed(n) ==
  /\ calls[n].kind \in {"effect", "load", "save"}
  /\ calls' = [calls EXCEPT ![n] = NotAsked]
  /\ broken' = TRUE
  /\ loading' = IF calls[n].kind = "save" THEN loading ELSE FALSE
  /\ missed' = (missed \/ calls[n].kind # "save")
  /\ UNCHANGED <<desk, key, written, shown, started, heard, crossed>>

DesksInit ==
  /\ desk \in DOMAIN Pages /\ key \in Keys /\ written = {} /\ shown = NoRows
  /\ calls = [n \in Slots |-> IF n = 1 THEN Call("effect", key) ELSE NotAsked]
  /\ loading = TRUE /\ broken = FALSE /\ started = 1 /\ heard = {} /\ missed = FALSE /\ crossed = FALSE

DesksNext ==
  \/ \E k \in Keys : ChooseKey(k)
  \/ RenewSession \/ PressRefresh \/ Save
  \/ \E n \in Slots : \/ RefreshLoads(n) \/ NoSessionLeft(n) \/ Serve(n) \/ ShowRows(n)
                      \/ SaveSucceeded(n) \/ CallFailed(n)

-----------------------------------------------------------------------------
DesksTypeOK ==
  /\ desk \in DOMAIN Pages /\ key \in Keys /\ written \subseteq Saves /\ heard \subseteq written
  /\ shown.rows \subseteq written /\ loading \in BOOLEAN /\ started \in 1..MaxLoads
  /\ \A n \in Slots : calls[n].kind \in {"none", "effect", "session", "load", "save"}

\* A page at rest that failed to load nothing shows what is chosen on it, with every save
\* it reported as done, unless answers crossed that nothing orders: a refresh or a save
\* with another load, or two loads of the pages that drop no answer.
DeskIsCurrent ==
  Free = Slots /\ ~missed /\ ~crossed => shown.key = key /\ heard \subseteq shown.rows
=============================================================================
