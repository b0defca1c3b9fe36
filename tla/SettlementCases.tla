--------------------------- MODULE SettlementCases --------------------------
(***************************************************************************)
(* The settlement policy, case by case.  A case is a job                   *)
(* status and a payment as the platform can hold them.                     *)
(***************************************************************************)
EXTENDS CancellationSettlement, Cases

CONSTANTS Totals,      \* what customers pay
          Amounts      \* cents captured, and drivers' payouts

ASSUME TotalsAssumption == Totals \subseteq Nat
ASSUME AmountsAssumption == Amounts \subseteq Nat

JobStatusesAsked == {"REQUESTED", "DISPATCH_FAILED", "ASSIGNED", "EN_ROUTE_PICKUP", "PICKED_UP",
                     "EN_ROUTE_DROP", "DELIVERED", "CANCELLED"}

\* authorized is 0 before Stripe knows the payment and the total from then on; only a
\* payment that was captured has captured cents; the payout is part of the total.
SettlementInputs ==
  {c \in [area : {"settlement"}, jobStatus : JobStatusesAsked, total : Totals, payout : Amounts,
          status : PaymentStatuses, captured : Amounts, authorized : Totals \cup {0}] :
     /\ c.authorized \in {0, c.total}
     /\ c.captured <= c.authorized
     /\ c.captured > 0 => c.status \in {"CAPTURED", "PARTIALLY_REFUNDED", "REFUNDED"}
     /\ c.payout <= c.total}

SettlementInit == case \in SettlementInputs
SettlementSpec == SettlementInit /\ [][Next]_case

settlement == determineCancellationSettlement(case)

-----------------------------------------------------------------------------
\* Every captured cent is either kept or given back, and nothing more is given back:
\* the refund that the worker sends to Stripe never exceeds what was captured.
CapturedIsAccountedFor ==
  case.captured > 0 => settlement.retained + settlement.refund = case.captured

\* What is kept never exceeds what the customer was asked for: a capture of the fee
\* stays within the authorization, even for totals below the 250 cents minimum.
FeeWithinTotal == settlement.retained <= case.total

\* The provider call agrees with the amounts: money is refunded only if some was
\* captured, a fee is captured only from an untouched authorization.
ActionMatchesAmounts ==
  /\ settlement.providerAction = "REFUND_CAPTURED_PAYMENT" <=> settlement.refund > 0
  /\ settlement.providerAction = "CAPTURE_CANCELLATION_FEE" =>
       settlement.retained > 0 /\ case.captured = 0 /\ Held(case)

\* A settlement neither loses nor invents a cent, and asks the provider for exactly the
\* money it speaks of.
SettlementIsSound ==
  About("settlement") => CapturedIsAccountedFor /\ FeeWithinTotal /\ ActionMatchesAmounts

\* The fee is the nearest cent to 15 percent, halves up, within its floor and the total.
FeeIsNearestCent ==
  About("settlement") =>
    LET fee == afterAssignmentPolicyFee(case.total)
    IN 250 < fee /\ fee < case.total => 100 * fee - 15 * case.total \in -49..50
=============================================================================
