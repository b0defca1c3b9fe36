----------------------------- MODULE Readiness ------------------------------
(***************************************************************************)
(* Who says that something is ready, and on what grounds: the guardrail of *)
(* a pilot workspace as the API and as the web application compute it, the *)
(* rehearsal recommendation (pilots.service.ts), the release verdict       *)
(* (validation-evidence.service.ts) and the readiness of fleet couriers in *)
(* SQL and in TypeScript (fleets.service.ts).                              *)
(***************************************************************************)
EXTENDS Integers, FiniteSets, Cases

CONSTANTS CheckKeys,     \* the readiness checks of a workspace
          Ages,          \* ages of stored evidence, in seconds
          LocationAges   \* ages of a courier's last location, in minutes

ASSUME AgesAssumption == Ages \subseteq Nat /\ LocationAges \subseteq Nat

Modes == {"DEMO", "CONTROLLED_PILOT", "INTERNAL_TEST", "LIVE_READY"}
WorkspaceStatuses == {"DRAFT", "ONBOARDING", "READY_FOR_REHEARSAL", "IN_REHEARSAL", "PAUSED",
                      "ACTIVE", "CLOSED"}
Stages == {"NOT_STARTED", "MERCHANT_SETUP", "COURIER_SETUP", "PAYMENT_CHECKS",
           "SUPPORT_OWNERS_ASSIGNED", "REHEARSAL_READY", "PILOT_READY"}
CheckStatuses == {"NOT_STARTED", "IN_PROGRESS", "PASSED", "BLOCKED", "WAIVED"}
EvidenceStatuses == {"PASSED", "FAILED", "SKIPPED", "UNKNOWN"}

isRehearsalReady(w) == w.stage \in {"REHEARSAL_READY", "PILOT_READY"}

-----------------------------------------------------------------------------
\* Guardrails: a level and the badge that is shown with it.
Guardrail(level, badge) == [level |-> level, badge |-> badge]

Testing(w) == w.status \in {"ACTIVE", "IN_REHEARSAL"}

buildGuardrailState_PausesLast(w) ==
  CASE w.mode = "DEMO" -> Guardrail("INFO", "Demo workspace")
    [] w.mode # "DEMO" /\ w.status = "PAUSED" -> Guardrail("PAUSED", "Paused")
    [] OTHER -> Guardrail("WARNING", "Controlled pilot")

buildGuardrailState(w) ==
  CASE w.status = "PAUSED" -> Guardrail("PAUSED", "Paused")
    [] w.status # "PAUSED" /\ w.mode = "DEMO" -> Guardrail("INFO", "Demo workspace")
    [] w.status # "PAUSED" /\ w.mode = "INTERNAL_TEST" ->
         Guardrail(IF Testing(w) THEN "CAUTION" ELSE "INFO", "Internal test")
    [] w.status # "PAUSED" /\ w.mode = "CONTROLLED_PILOT" ->
         Guardrail(IF isRehearsalReady(w) THEN "CAUTION" ELSE "WARNING", "Controlled pilot")
    [] w.status # "PAUSED" /\ w.mode = "LIVE_READY" /\ w.stage = "PILOT_READY" ->
         Guardrail("READY", "Live-ready")
    [] OTHER -> Guardrail("WARNING", "Live-ready review")

\* The web application decides again, from the same workspace.
ControlledPilot(w) ==
  Guardrail(IF ~isRehearsalReady(w) THEN "WARNING" ELSE "CAUTION", "Controlled pilot")

getPilotGuardrailState(w) ==
  IF w.status = "PAUSED" THEN Guardrail("PAUSED", "Paused")
  ELSE CASE w.mode = "DEMO" -> Guardrail("INFO", "Demo workspace")
         [] w.mode = "INTERNAL_TEST" ->
              Guardrail(IF Testing(w) THEN "CAUTION" ELSE "INFO", "Internal test")
         [] w.mode = "CONTROLLED_PILOT" -> ControlledPilot(w)
         [] OTHER -> IF w.stage = "PILOT_READY" THEN Guardrail("READY", "Live-ready")
                                                ELSE Guardrail("WARNING", "Live-ready review")

-----------------------------------------------------------------------------
\* Stored evidence: the latest run of each type, or none.
EvidenceTypes == {"RELEASE_VERIFY", "PAID_DELIVERY_PROOF", "PLAYWRIGHT_SMOKE",
                  "PLAYWRIGHT_SMOKE_REQUIRED_AUTH"}
Required == EvidenceTypes \ {"PLAYWRIGHT_SMOKE"}
NoRun == [status |-> "NONE", age |-> 0]
Runs == {NoRun} \cup [status : EvidenceStatuses, age : Ages]

\* Pilots count milliseconds against 24 hours, release readiness whole minutes.
FreshForPilot(run) == run # NoRun /\ run.age <= 24 * 60 * 60
FreshForRelease(run) == run # NoRun /\ run.age \div 60 <= 24 * 60

\* buildValidationPosture
Posture(latest) ==
  LET signals == {latest[t] : t \in Required}
  IN CASE \E s \in signals : s.status = "FAILED" -> "FAILED"
       [] /\ \A s \in signals : s.status # "FAILED"
          /\ \E s \in signals : s.status = "SKIPPED" -> "SKIPPED"
       [] \A s \in signals : s.status = "PASSED" /\ FreshForPilot(s) -> "PASSED"
       [] OTHER -> "UNKNOWN"

\* getReleaseReadiness
Stored(run) == run # NoRun
NeedsReview(latest) ==
  \/ \E t \in Required : ~Stored(latest[t]) \/ ~FreshForRelease(latest[t])
                         \/ latest[t].status # "PASSED"
  \/ ~Stored(latest["PLAYWRIGHT_SMOKE"]) \/ ~FreshForRelease(latest["PLAYWRIGHT_SMOKE"])
  \/ latest["PLAYWRIGHT_SMOKE"].status # "PASSED"

Verdict(latest) ==
  CASE \E t \in Required : latest[t].status = "FAILED" -> "BLOCKED"
    [] (\A t \in Required : latest[t].status # "FAILED") /\ NeedsReview(latest) -> "NEEDS_REVIEW"
    [] OTHER -> "READY"

ReleaseActions(latest) ==
  {<<"fix", t>> : t \in {r \in Required : latest[r].status = "FAILED"}}
  \cup (IF \E t \in Required : ~FreshForRelease(latest[t]) \/ latest[t].status # "PASSED"
          THEN {<<"refresh", "evidence">>} ELSE {})
  \cup (IF ~FreshForRelease(latest["PLAYWRIGHT_SMOKE"])
           \/ latest["PLAYWRIGHT_SMOKE"].status # "PASSED"
          THEN {<<"record", "browser smoke">>} ELSE {})

-----------------------------------------------------------------------------
\* The rehearsal cockpit of a workspace: checks, open escalations and the posture.
Passed(checks) == {k \in CheckKeys : checks[k] = "PASSED"}
Waived(checks) == {k \in CheckKeys : checks[k] = "WAIVED"}
Blocked(checks) == {k \in CheckKeys : checks[k] = "BLOCKED"}
Incomplete(checks) ==
  Cardinality(Passed(checks)) + Cardinality(Waived(checks)) < Cardinality(CheckKeys)
ValidationKeys == {"paid_delivery_proof_current", "browser_smoke_current"}
validationChecklistClear(checks) ==
  \A k \in ValidationKeys : k \in CheckKeys /\ checks[k] \in {"PASSED", "WAIVED"}

buildRecommendation(in) ==
  CASE CheckKeys = {} -> "UNKNOWN"
    [] /\ CheckKeys # {}
       /\ in.status = "PAUSED" \/ Blocked(in.checks) # {} \/ in.urgent > 0 -> "BLOCKED"
    [] /\ CheckKeys # {}
       /\ in.status # "PAUSED" /\ Blocked(in.checks) = {} /\ in.urgent = 0
       /\ \/ ~isRehearsalReady(in)
          \/ Incomplete(in.checks)
          \/ ~validationChecklistClear(in.checks)
          \/ in.posture # "PASSED" -> "NEEDS_REVIEW"
    [] OTHER -> "READY_FOR_REHEARSAL"

When(condition, action) == IF condition THEN {action} ELSE {}

buildRehearsalNextActions(in) ==
  When(in.status = "PAUSED", "resume profile")
  \cup When(~isRehearsalReady(in), "move stage")
  \cup When(Blocked(in.checks) # {}, "update blocked checks")
  \cup When(Incomplete(in.checks), "complete checks")
  \cup When(in.urgent > 0, "resolve escalations")
  \cup When(in.urgent = 0 /\ in.open > 0, "review escalations")
  \cup When(~in.owned, "confirm owners")
  \cup When(~validationChecklistClear(in.checks) \/ in.posture # "PASSED", "validate")
  \cup {"review limitations"}

-----------------------------------------------------------------------------
\* Couriers of a fleet.  A courier without a driver profile has none of its columns.
Never == -1   \* no location was ever reported

Couriers ==
  {c \in [area : {"courier"}, member : BOOLEAN, profile : BOOLEAN,
          verification : {"MISSING", "PENDING", "APPROVED", "REJECTED"}, vehicle : BOOLEAN,
          online : BOOLEAN, busy : BOOLEAN, seen : LocationAges \cup {Never}] :
     ~c.profile => /\ c.verification = "MISSING" /\ c.seen = Never
                   /\ ~c.vehicle /\ ~c.online /\ ~c.busy}

Seen(c) == c.seen # Never
locationRecentlySeen(c) == Seen(c) /\ c.seen <= 15

\* computeReadiness, for one courier's row.

Deployable(c) == c.verification = "APPROVED" /\ c.vehicle /\ c.online /\ ~c.busy

computeReadiness(c) ==
  CASE ~c.member -> "NOT_ELIGIBLE"
    [] c.member /\ (~c.profile \/ c.verification = "PENDING") -> "NEEDS_REVIEW"
    [] c.member /\ c.profile /\ c.verification # "PENDING" /\ ~Deployable(c) -> "NOT_ELIGIBLE"
    [] OTHER -> IF locationRecentlySeen(c) THEN "READY" ELSE "NEEDS_REVIEW"

\* readinessCase, the same question asked of the database for the fleet's counts.
readinessCase(c) ==
  CASE c.profile /\ c.member /\ Deployable(c) /\ Seen(c) /\ c.seen <= 15 -> "READY"
    [] c.member /\ (\/ ~c.profile
                    \/ c.verification = "PENDING"
                    \/ Deployable(c) /\ (~Seen(c) \/ c.seen > 15)) -> "NEEDS_REVIEW"
    [] OTHER -> "NOT_ELIGIBLE"

getRecommendedAction(c) ==
  CASE ~c.member -> "reactivate membership"
    [] c.member /\ ~c.profile -> "create profile"
    [] c.member /\ c.profile /\ c.verification = "PENDING" -> "review verification"
    [] c.member /\ c.profile /\ c.verification \in {"MISSING", "REJECTED"} -> "request verification"
    [] c.member /\ c.verification = "APPROVED" /\ ~c.vehicle -> "add vehicle"
    [] c.member /\ c.verification = "APPROVED" /\ c.vehicle /\ c.busy -> "clear active job"
    [] c.member /\ c.verification = "APPROVED" /\ c.vehicle /\ ~c.busy /\ ~c.online -> "go online"
    [] OTHER -> IF computeReadiness(c) = "NEEDS_REVIEW" THEN "refresh location" ELSE "ready"

-----------------------------------------------------------------------------
Workspaces == [area : {"rehearsal"}, mode : Modes, status : WorkspaceStatuses, stage : Stages,
               owned : BOOLEAN, checks : [CheckKeys -> CheckStatuses], urgent : {0, 1}, open : {0, 1},
               posture : {"PASSED", "FAILED", "SKIPPED", "UNKNOWN"}]

RehearsalCases == {w \in Workspaces : w.urgent <= w.open}
EvidenceCases == [area : {"evidence"}, latest : [EvidenceTypes -> Runs]]

\* The API and the web application never show a workspace different guardrails.
GuardrailsAgree ==
  About("rehearsal") => getPilotGuardrailState(case) = buildGuardrailState(case)

\* A rehearsal is never recommended under a guardrail that says to stop or to review,
\* except for a live-ready workspace that is only rehearsal-ready.
RecommendationHeedsGuardrail ==
  About("rehearsal") /\ buildRecommendation(case) = "READY_FOR_REHEARSAL" =>
    \/ buildGuardrailState(case).level \in {"INFO", "CAUTION", "READY"}
    \/ case.mode = "LIVE_READY" /\ case.stage = "REHEARSAL_READY"

\* The cockpit says what to do exactly when it does not recommend the rehearsal: the
\* list and the recommendation are computed apart.
ActionsExplainRecommendation ==
  About("rehearsal") =>
    (buildRecommendation(case) = "READY_FOR_REHEARSAL" <=>
       buildRehearsalNextActions(case)
         \subseteq {"review escalations", "confirm owners", "review limitations"})

\* Pilots and release readiness agree on the same evidence, up to the last minute of
\* the freshness window, which only one of them counts in full.
EvidenceJudgedAlike ==
  About("evidence") =>
    /\ Posture(case.latest) = "FAILED" <=> Verdict(case.latest) = "BLOCKED"
    /\ Verdict(case.latest) = "READY" =>
         \/ Posture(case.latest) = "PASSED"
         \/ \E t \in Required : case.latest[t].age \in 24 * 3600 + 1 .. 24 * 3600 + 59
    /\ Posture(case.latest) = "PASSED" =>
         ReleaseActions(case.latest) \subseteq {<<"record", "browser smoke">>}

\* The counts of a fleet and its list of couriers agree on every active member, and the
\* advice for a courier is to wait for nothing exactly when it is ready.
FleetCountsMatchList ==
  About("courier") /\ case.member =>
    /\ readinessCase(case) = computeReadiness(case)
    /\ computeReadiness(case) = "READY" <=> getRecommendedAction(case) = "ready"

\* The views of a pilot's readiness agree: guardrails, recommendation, actions, evidence
\* and the fleet's counts are computed in the API and again in the page.
ReadinessAgrees ==
  /\ GuardrailsAgree /\ RecommendationHeedsGuardrail /\ ActionsExplainRecommendation
  /\ EvidenceJudgedAlike /\ FleetCountsMatchList
=============================================================================
