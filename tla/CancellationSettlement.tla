----------------------- MODULE CancellationSettlement -----------------------
(***************************************************************************)
(* What a cancellation costs (packages/payments): a pure function of the   *)
(* job's status and the payment's amounts.  cancelJob evaluates it for the *)
(* job row and the worker evaluates it again when it moves the money.      *)
(* All amounts are whole cents.                                            *)
(***************************************************************************)
EXTENDS Integers

PaymentStatuses == {"REQUIRES_PAYMENT_METHOD", "REQUIRES_CONFIRMATION", "AUTHORIZED", "CAPTURED",
                    "PARTIALLY_REFUNDED", "REFUNDED", "FAILED", "CANCELLED"}

SettlementCodes == {"BEFORE_ASSIGNMENT_FULL_RELEASE", "AFTER_ASSIGNMENT_CANCELLATION_FEE",
                    "IN_PROGRESS_MANUAL_REVIEW"}

Least(a, b) == IF a <= b THEN a ELSE b
Greatest(a, b) == IF a >= b THEN a ELSE b

\* Math.round of a percentage of n cents: halves go up.
Percent_Truncated(n, percent) == (n * percent) \div 100
Percent(n, percent) == (n * percent + 50) \div 100

afterAssignmentPolicyFee(total) == Least(total, Greatest(250, Percent(total, 15)))
policyDriverImpact(total, payout) == Least(payout, Percent(afterAssignmentPolicyFee(total), 40))

phaseForJobStatus(jobStatus) ==
  CASE jobStatus \in {"REQUESTED", "DISPATCH_FAILED"} -> "BEFORE_ASSIGNMENT"
    [] jobStatus \in {"ASSIGNED", "EN_ROUTE_PICKUP"} -> "AFTER_ASSIGNMENT_BEFORE_PICKUP"
    [] OTHER -> "IN_PROGRESS"

\* The cancellation fee of an outcome is always what is retained.
Outcome(code, retained, refund, impact, action) ==
  [settlementCode |-> code, retained |-> retained, refund |-> refund,
   driverImpact |-> impact, providerAction |-> action]

Held(in) == in.authorized > 0 \/ in.status = "AUTHORIZED"

ReleaseInFull(in) ==
  Outcome("BEFORE_ASSIGNMENT_FULL_RELEASE", 0, in.captured, 0,
          CASE in.captured > 0 -> "REFUND_CAPTURED_PAYMENT"
            [] in.captured <= 0 /\ (\/ in.authorized > 0
                                    \/ in.status \in {"AUTHORIZED", "REQUIRES_CONFIRMATION",
                                                      "REQUIRES_PAYMENT_METHOD"})
                 -> "CANCEL_AUTHORIZATION"
            [] OTHER -> "NONE")

Retained(in) ==
  CASE in.captured > 0 -> Least(afterAssignmentPolicyFee(in.total), in.captured)
    [] in.captured <= 0 /\ Held(in) -> afterAssignmentPolicyFee(in.total)
    [] OTHER -> 0

RefundBeyondFee_WholeCharge(in) == in.captured
RefundBeyondFee(in) == IF in.captured > 0 THEN Greatest(0, in.captured - Retained(in)) ELSE 0

FeeAction(in) ==
  CASE in.captured > 0 /\ RefundBeyondFee(in) > 0 -> "REFUND_CAPTURED_PAYMENT"
    [] in.captured <= 0 /\ Held(in) /\ Retained(in) > 0 -> "CAPTURE_CANCELLATION_FEE"
    [] in.captured <= 0 /\ Held(in) /\ Retained(in) <= 0 -> "CANCEL_AUTHORIZATION"
    [] OTHER -> "NONE"

RetainFee(in) ==
  Outcome("AFTER_ASSIGNMENT_CANCELLATION_FEE", Retained(in), RefundBeyondFee(in),
          IF Retained(in) > 0 THEN Least(policyDriverImpact(in.total, in.payout), Retained(in)) ELSE 0,
          FeeAction(in))

ManualReview(in) ==
  Outcome("IN_PROGRESS_MANUAL_REVIEW", in.captured, 0, in.payout, "NONE")

determineCancellationSettlement(in) ==
  LET phase == phaseForJobStatus(in.jobStatus)
  IN CASE phase = "BEFORE_ASSIGNMENT" -> ReleaseInFull(in)
       [] phase = "AFTER_ASSIGNMENT_BEFORE_PICKUP" -> RetainFee(in)
       [] OTHER -> ManualReview(in)
=============================================================================
