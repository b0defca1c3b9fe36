----------------------------- MODULE Attention ------------------------------
(***************************************************************************)
(* Which jobs, orders and payments are brought to a person's attention.    *)
(* The same rows are judged apart by the daily briefing, the end-of-day    *)
(* report and the incident summary (apps/api, briefing and reports), the   *)
(* platform's intervention queue (admin.service), the jobs service, and by *)
(* the consoles in the browser (apps/web, orders-state, payments-state,    *)
(* dispatch-intelligence).  Ages are whole minutes.                        *)
(***************************************************************************)
EXTENDS Integers, Cases, CancellationSettlement

CONSTANTS JobAges   \* minutes since a row or a stage changed

ASSUME JobAgesAssumption == JobAges \subseteq Nat

JobStates == {"REQUESTED", "ASSIGNED", "EN_ROUTE_PICKUP", "PICKED_UP", "EN_ROUTE_DROP", "DELIVERED",
              "CANCELLED", "DISPATCH_FAILED"}
OrderStates == {"SUBMITTED", "PAYMENT_AUTHORIZED", "PAYMENT_FAILED", "FULFILLED"}
PayoutStates == {"PENDING", "READY", "PAID", "FAILED", "CANCELLED"}
NoLedger == "none"

Moving == {"EN_ROUTE_PICKUP", "PICKED_UP", "EN_ROUTE_DROP"}
Carried == {"ASSIGNED"} \cup Moving
ActiveJobs == {"REQUESTED"} \cup Carried

\* A customer's order with its job, payment and payout; a reason to hold a payout is a
\* column of its row.  stage is the age of the timeline event of the current status.
OrderRows ==
  {r \in [area : {"order"}, job : JobStates, payment : PaymentStatuses, order : OrderStates,
          payout : PayoutStates \cup {NoLedger}, held : BOOLEAN, age : JobAges, stage : JobAges] :
     /\ r.held => r.payout # NoLedger
     /\ r.stage >= r.age}

Delivered(r) == r.job = "DELIVERED"
NoDriver(r) == r.job \notin Carried \cup {"DELIVERED"}

-----------------------------------------------------------------------------
\* isPaymentRisk, the same in the briefing and in the report.
PaymentFailed(r) == r.payment = "FAILED" \/ r.order = "PAYMENT_FAILED"
Uncaptured(r) == Delivered(r) /\ r.payment # "CAPTURED"
PayoutReview(r) ==
  \/ r.payout = "FAILED" \/ r.held
  \/ Delivered(r) /\ r.payment = "CAPTURED" /\ r.payout = NoLedger
isPaymentRisk(r) == PaymentFailed(r) \/ Uncaptured(r) \/ PayoutReview(r)

Threshold(job) == CASE job = "REQUESTED" -> 15 [] job = "ASSIGNED" -> 20 [] OTHER -> 30
Waits(r) == r.job = "REQUESTED" /\ NoDriver(r) /\ r.age >= Threshold(r.job)
Stalls(r) == r.job \in Carried /\ r.age >= Threshold(r.job)

getBriefingCategory_NoUncaptured(r) ==
  CASE r.job = "DISPATCH_FAILED" -> "dispatch_failed"
    [] r.job # "DISPATCH_FAILED" /\ PaymentFailed(r) -> "payment_failed"
    [] r.job # "DISPATCH_FAILED" /\ ~PaymentFailed(r) /\ Waits(r) -> "active_without_driver"
    [] r.job # "DISPATCH_FAILED" /\ ~PaymentFailed(r) /\ Stalls(r) -> "stale_job"
    [] OTHER -> "none"

\* The first reason that applies; each of the later ones looks at another job status.
getBriefingCategory(r) ==
  CASE r.job = "DISPATCH_FAILED" -> "dispatch_failed"
    [] r.job # "DISPATCH_FAILED" /\ PaymentFailed(r) -> "payment_failed"
    [] ~PaymentFailed(r) /\ Uncaptured(r) -> "delivered_uncaptured"
    [] ~PaymentFailed(r) /\ Waits(r) -> "active_without_driver"
    [] ~PaymentFailed(r) /\ Stalls(r) -> "stale_job"
    [] OTHER -> "none"

isDelayedJob(r) ==
  CASE r.job = "REQUESTED" /\ NoDriver(r) -> r.age >= 15
    [] r.job = "ASSIGNED" -> r.age >= 20
    [] r.job \in Moving -> r.age >= 30
    [] OTHER -> FALSE

getReportCategory(r) ==
  IF r.job = "DISPATCH_FAILED" THEN "dispatch_failed"
  ELSE IF PaymentFailed(r) THEN "payment_failed"
  ELSE IF Uncaptured(r) THEN "delivered_uncaptured"
  ELSE IF isDelayedJob(r) THEN IF r.job = "REQUESTED" THEN "active_without_driver" ELSE "stale_job"
  ELSE IF PayoutReview(r) THEN "payout_review" ELSE "none"

\* buildOperationalIncidentSummary counts from the timeline, not from the row.
CommerciallyBlocked(r) == r.payment = "AUTHORIZED" /\ r.job \in {"REQUESTED", "DISPATCH_FAILED"}
buildIncident(r) ==
  CASE r.job = "DISPATCH_FAILED" -> "DISPATCH_FAILED_UNRESOLVED"
    [] r.job = "REQUESTED" /\ NoDriver(r) /\ r.stage >= 15 ->
         IF CommerciallyBlocked(r) THEN "PAYMENT_AUTHORIZED_DELIVERY_BLOCKED" ELSE "REQUESTED_STALE"
    [] r.job \in Carried /\ r.stage >= Threshold(r.job) -> "STALE"
    [] OTHER -> "none"

\* The platform's intervention queue: the conditions of its four queries, which hold for
\* rows of any age.  A job is stuck from the 30th minute on, but for its first instant.
Queues == {"dispatch_failed", "stuck_job", "payment_failure", "payment_capture_pending"}
Interventions(r) ==
  {c \in Queues :
     CASE c = "dispatch_failed" -> r.job = "DISPATCH_FAILED"
       [] c = "stuck_job" -> r.job \in Carried /\ r.age >= 30
       [] c = "payment_failure" -> PaymentFailed(r)
       [] OTHER -> r.payment = "AUTHORIZED" /\ Delivered(r)}

-----------------------------------------------------------------------------
\* The consoles.  getOrderFinancialRiskReasons, with the payment's summary at hand.
OrderRiskReasons(r) ==
  {x \in {"payment failed", "order payment failed", "uncaptured", "payout failed", "held", "no ledger"} :
     CASE x = "payment failed" -> r.payment = "FAILED"
       [] x = "order payment failed" -> r.order = "PAYMENT_FAILED"
       [] x = "uncaptured" -> Delivered(r) /\ r.payment # "CAPTURED"
       [] x = "payout failed" -> r.payout = "FAILED"
       [] x = "held" -> r.held
       [] OTHER -> r.payment = "CAPTURED" /\ Delivered(r) /\ r.payout = NoLedger}

isOrderFulfilled(r) == r.order = "FULFILLED" \/ (Delivered(r) /\ r.payment = "CAPTURED")
hasOrderPaymentRisk(r) == OrderRiskReasons(r) # {}

getOrderNextAction(r) ==
  IF hasOrderPaymentRisk(r) THEN "payment"
  ELSE IF r.job = "DISPATCH_FAILED" THEN "dispatch"
  ELSE IF r.job \in Carried THEN "monitor"
  ELSE IF isOrderFulfilled(r) THEN "view" ELSE "job"

getOrderDecisionState(r) ==
  IF hasOrderPaymentRisk(r) THEN "payment"
  ELSE IF isOrderFulfilled(r) THEN "fulfilled"
  ELSE IF PaymentFailed(r) THEN "payment"
  ELSE IF r.job = "DISPATCH_FAILED" THEN "dispatch"
  ELSE IF r.job \in Carried THEN "monitor" ELSE "job"

matchesNeedsAction(r) ==
  \/ hasOrderPaymentRisk(r) \/ r.job = "DISPATCH_FAILED"
  \/ r.payment = "AUTHORIZED" /\ r.job \notin Carried /\ ~isOrderFulfilled(r)

\* getPaymentRiskReasons of the payments console (captured cents of a cancelled payment
\* are not told apart).
PaymentRiskReasons(r) ==
  {x \in {"payment failed", "order payment failed", "capture pending", "payout failed", "held"} :
     CASE x = "payment failed" -> r.payment = "FAILED"
       [] x = "order payment failed" -> r.order = "PAYMENT_FAILED"
       [] x = "capture pending" -> Delivered(r) /\ r.payment = "AUTHORIZED"
       [] x = "payout failed" -> r.payout = "FAILED"
       [] OTHER -> r.held}

-----------------------------------------------------------------------------
\* The finance pages, for a row with or without an unresolved refund escalation.
FinanceColumn(r) == CASE r.payment \in {"CAPTURED", "PARTIALLY_REFUNDED", "REFUNDED"} -> "captured"
                      [] r.payment \in {"FAILED", "CANCELLED"} -> "failed"
                      [] OTHER -> "pending"
FinanceCaptured(r) == FinanceColumn(r) = "captured"
FailedFulfillment(r) == r.job \in {"CANCELLED", "DISPATCH_FAILED"} \/ r.order = "PAYMENT_FAILED"
FinancePayoutReview(r) ==
  FinanceCaptured(r) /\ Delivered(r) /\ (r.payout \in {NoLedger, "FAILED"} \/ r.held)

FinanceReviewStatus(r, supported) ==
  IF supported \/ (FinanceCaptured(r) /\ FailedFulfillment(r)) THEN "REFUND_REVIEW"
  ELSE IF \/ Delivered(r) /\ ~FinanceCaptured(r)
          \/ FinanceColumn(r) = "failed" \/ FinancePayoutReview(r) THEN "NEEDS_REVIEW"
  ELSE "CLEAR"

getFinanceRecommendedAction(r, supported) ==
  IF FinanceReviewStatus(r, supported) = "REFUND_REVIEW" THEN "support log"
  ELSE IF Delivered(r) /\ ~FinanceCaptured(r) THEN "delivery proof"
  ELSE IF FinancePayoutReview(r) THEN "payout ledger"
  ELSE IF FinanceColumn(r) = "failed" THEN "failed payment" ELSE "none"

-----------------------------------------------------------------------------
\* A job of the jobs console: attention as the service computes it, and what the page
\* makes of it.  waited: minutes since dispatch was requested.
JobRows ==
  [area : {"job"}, job : JobStates, payment : PaymentStatuses, waited : JobAges,
   late : BOOLEAN, located : BOOLEAN]

computeAttention(j) ==
  CASE j.job = "DISPATCH_FAILED" -> "BLOCKER"
    [] j.job = "REQUESTED" /\ j.waited >= 10 -> "BLOCKER"
    [] j.job \in Carried /\ j.late -> "RISK"
    [] OTHER -> "NORMAL"

Advice(severity, action) == [severity |-> severity, action |-> action]

AttentionAdvice(j) ==
  CASE computeAttention(j) = "BLOCKER" ->
         Advice("BLOCKER", IF NoDriver(j) THEN "RETRY_DISPATCH" ELSE "VIEW_JOB")
    [] computeAttention(j) # "BLOCKER" /\ j.job \in Carried /\ ~j.located -> Advice("RISK", "REVIEW_DRIVER")
    [] computeAttention(j) = "RISK" /\ j.located -> Advice("RISK", "VIEW_JOB")
    [] j.job = "DELIVERED" -> Advice("INFO", "VIEW_JOB")
    [] OTHER -> Advice("NORMAL", "NONE")

getDispatchIntelligence(j) ==
  CASE j.job = "DISPATCH_FAILED" -> Advice("BLOCKER", "RETRY_DISPATCH")
    [] j.job # "DISPATCH_FAILED" /\ j.payment = "REQUIRES_PAYMENT_METHOD" ->
         Advice(IF j.job \in ActiveJobs THEN "BLOCKER" ELSE "RISK", "COLLECT_PAYMENT_METHOD")
    [] j.job # "DISPATCH_FAILED" /\ j.payment = "REQUIRES_CONFIRMATION" -> Advice("RISK", "AUTHORIZE_PAYMENT")
    [] OTHER -> AttentionAdvice(j)

InReviewQueue(j) == getDispatchIntelligence(j).severity \in {"BLOCKER", "RISK"}

-----------------------------------------------------------------------------
\* Of one and the same row the report makes what the briefing makes, and beyond that only
\* payouts; and the report leaves out no row with a payment risk, although a failed
\* dispatch or a stale job may be the reason it is listed for.  Which rows each of them
\* reads is another question (Closeout.WindowsExplain).
BriefedIsReported ==
  About("order") =>
    /\ getReportCategory(case) # getBriefingCategory(case) =>
         getBriefingCategory(case) = "none" /\ getReportCategory(case) = "payout_review"
    /\ isPaymentRisk(case) => getReportCategory(case) # "none"

\* A row that matches a query of the platform's queue is one that a briefing tells of, and
\* the other way round but for orders without a courier, jobs assigned for less than half
\* an hour and deliveries whose payment is neither authorized nor failed; and every
\* stalled job that is briefed has an incident summary to open.
QueuesAgree ==
  About("order") =>
    /\ Interventions(case) # {} => getBriefingCategory(case) # "none"
    /\ getBriefingCategory(case) # "none" /\ Interventions(case) = {} =>
         \/ getBriefingCategory(case) = "active_without_driver"
         \/ getBriefingCategory(case) = "stale_job" /\ case.job = "ASSIGNED" /\ case.age < 30
         \/ getBriefingCategory(case) = "delivered_uncaptured" /\ case.payment # "AUTHORIZED"
    /\ getBriefingCategory(case) \in {"dispatch_failed", "active_without_driver", "stale_job"} =>
         buildIncident(case) # "none"

\* The consoles and the reports call the same orders a payment risk; the payments console
\* misses only deliveries that are neither authorized nor captured, and missing payouts.
RiskSeenAlike ==
  About("order") =>
    /\ hasOrderPaymentRisk(case) <=> isPaymentRisk(case)
    /\ isPaymentRisk(case) /\ PaymentRiskReasons(case) = {} =>
         Delivered(case) /\ (case.payment # "AUTHORIZED" \/ case.payout = NoLedger)
    /\ PaymentRiskReasons(case) # {} => isPaymentRisk(case)

\* Finance calls an order clear exactly when it asks nothing of its reader, and a payment
\* risk only if the money was given back, the payment is still open, or only the payout of
\* an order that was not delivered is in trouble; a captured failure is always reviewed.
FinanceSeesRisk ==
  About("order") => \A supported \in BOOLEAN :
    LET clear == FinanceReviewStatus(case, supported) = "CLEAR"
    IN /\ clear <=> getFinanceRecommendedAction(case, supported) = "none"
       /\ clear /\ isPaymentRisk(case) =>
            \/ Delivered(case) /\ case.payment \in {"PARTIALLY_REFUNDED", "REFUNDED"}
            \/ FinanceColumn(case) = "pending" /\ ~Delivered(case)
            \/ ~Delivered(case) /\ (case.payout = "FAILED" \/ case.held)
       /\ FinanceCaptured(case) /\ getBriefingCategory(case) \in {"dispatch_failed", "payment_failed"} =>
            ~clear

\* The order page never sends its reader one way in the headline and another way in the
\* button, and an order that needs action is listed under that filter, unless it waits
\* for its payment without having failed.
OrderPageAgrees ==
  About("order") =>
    /\ getOrderDecisionState(case) = "payment" <=> getOrderNextAction(case) = "payment"
    /\ getOrderDecisionState(case) = "fulfilled" /\ getOrderNextAction(case) # "view" =>
         case.order = "FULFILLED" /\ case.job \in Carried \cup {"DISPATCH_FAILED"}
    /\ getOrderNextAction(case) \in {"payment", "dispatch"} => matchesNeedsAction(case)
    /\ getOrderNextAction(case) = "job" /\ ~matchesNeedsAction(case) => case.payment # "AUTHORIZED"

\* A job the service flags is in the review queue, whichever of its problems the page puts
\* first, and a retry is advised only where retryDispatch takes the job.
FlaggedJobsAreReviewed ==
  About("job") =>
    /\ computeAttention(case) # "NORMAL" => InReviewQueue(case)
    /\ getDispatchIntelligence(case).action = "RETRY_DISPATCH" =>
         case.job \in {"REQUESTED", "DISPATCH_FAILED"}
=============================================================================
