------------------------------ MODULE Tracking ------------------------------
(***************************************************************************)
(* How far an order is, as its customer, its courier and its operator read *)
(* it (apps/web, tracking-state and driver-execution): the stage, the      *)
(* steps, the route and the summary are each computed from the order's     *)
(* three statuses.                                                         *)
(***************************************************************************)
EXTENDS Integers, Sequences, Cases, CancellationSettlement

\* driverAssigned is jobs.assigned_driver_id; proven is a proof of delivery.
TrackedJobs == {"REQUESTED", "ASSIGNED", "EN_ROUTE_PICKUP", "PICKED_UP", "EN_ROUTE_DROP", "DELIVERED",
                "CANCELLED", "DISPATCH_FAILED"}
WithDriver == {"ASSIGNED", "EN_ROUTE_PICKUP", "PICKED_UP", "EN_ROUTE_DROP", "DELIVERED"}
TrackedOrders ==
  {o \in [area : {"tracked"}, job : TrackedJobs, payment : PaymentStatuses,
          order : {"SUBMITTED", "PAYMENT_AUTHORIZED", "PAYMENT_FAILED", "FULFILLED"}, proven : BOOLEAN] :
     /\ o.job = "DELIVERED" => o.proven
     /\ o.proven => o.job \in {"EN_ROUTE_DROP", "DELIVERED"}}

Assigned(o) == o.job \in WithDriver
Paid(o) == o.payment \in {"AUTHORIZED", "CAPTURED", "PARTIALLY_REFUNDED", "REFUNDED"}
Ended(o) == o.job = "DELIVERED" \/ o.order = "FULFILLED"

Steps == <<"order_placed", "payment_authorized", "driver_assigned", "picked_up", "out_for_delivery",
           "delivered">>

-----------------------------------------------------------------------------

\* getCurrentTrackingStage, as the stage's place among the steps.
StageIndex(o) ==
  IF Ended(o) THEN 6
  ELSE IF o.job = "EN_ROUTE_DROP" THEN 5
  ELSE IF o.job = "PICKED_UP" THEN 4
  ELSE IF Assigned(o) \/ o.job \in {"ASSIGNED", "EN_ROUTE_PICKUP"} THEN 3
  ELSE IF Paid(o) THEN 2 ELSE 1

Problem(o) == o.payment = "FAILED" \/ o.job = "DISPATCH_FAILED"

getTrackingSteps(o) == [i \in DOMAIN Steps |->
  CASE o.payment = "FAILED" /\ i = 2 -> "problem"
    [] o.job = "DISPATCH_FAILED" /\ i = 3 -> "problem"
    [] OTHER -> IF i < StageIndex(o) \/ Ended(o) THEN "complete"
                ELSE IF i > StageIndex(o) THEN "upcoming"
                ELSE IF Problem(o) THEN "problem" ELSE "current"]

getCustomerTrackingSummary(o) ==
  IF Ended(o) THEN "delivered"
  ELSE IF o.payment = "FAILED" THEN "payment issue"
  ELSE IF o.job = "DISPATCH_FAILED" THEN "under review"
  ELSE CASE o.job = "EN_ROUTE_DROP" -> "on the way"
         [] o.job = "PICKED_UP" -> "collected"
         [] o.job \in WithDriver \ {"EN_ROUTE_DROP", "PICKED_UP"} -> "courier"
         [] OTHER -> IF Paid(o) THEN "preparing" ELSE "waiting"

getCustomerTrackingNextStep(o) ==
  IF Ended(o) THEN "delivered"
  ELSE IF o.payment = "FAILED" THEN "payment issue"
  ELSE IF o.job = "DISPATCH_FAILED" THEN "under review"
  ELSE IF o.job = "EN_ROUTE_DROP" THEN "on the way"
  ELSE IF o.job = "PICKED_UP" THEN "collected"
  ELSE IF Assigned(o) THEN "courier"
  ELSE IF Paid(o) THEN "preparing" ELSE "waiting"

\* getCustomerRouteNodes
PickupNode(o) ==
  IF Problem(o) /\ StageIndex(o) = 2 THEN "problem" ELSE IF StageIndex(o) <= 2 THEN "current" ELSE "complete"
CourierNode(o) ==
  IF o.job = "DISPATCH_FAILED" THEN "problem"
  ELSE IF StageIndex(o) \in {3, 4} THEN "current" ELSE IF StageIndex(o) >= 5 THEN "complete" ELSE "upcoming"
DropoffNode(o) ==
  IF StageIndex(o) = 6 THEN "complete" ELSE IF StageIndex(o) = 5 THEN "current"
  ELSE IF o.job = "DISPATCH_FAILED" THEN "problem" ELSE "upcoming"

\* getOperatorTrackingStage, as the same places; an unassigned job is at 2.
OperatorIndex(o) ==
  CASE o.job = "DELIVERED" -> 6 [] o.job = "EN_ROUTE_DROP" -> 5 [] o.job = "PICKED_UP" -> 4
    [] o.job \in {"ASSIGNED", "EN_ROUTE_PICKUP"} -> 3 [] OTHER -> 2

-----------------------------------------------------------------------------
\* The courier's page: the rank of a status and the button that is offered.
statusRank(job) ==
  CASE job = "ASSIGNED" -> 1 [] job = "EN_ROUTE_PICKUP" -> 2 [] job = "PICKED_UP" -> 3
    [] job = "EN_ROUTE_DROP" -> 4 [] job = "DELIVERED" -> 6 [] OTHER -> 0

Transitions == <<"en-route-pickup", "picked-up", "en-route-drop", "delivered">>
OfferedTransition(o) ==
  CASE statusRank(o.job) \in 1..3 -> Transitions[statusRank(o.job)]
    [] statusRank(o.job) = 4 /\ o.proven -> "delivered"
    [] OTHER -> "none"

\* The steps that are done: pickup, collected, drop-off, proof, delivered.
StepsDone(o) ==
  {i \in 1..5 : CASE i \in 1..3 -> statusRank(o.job) > i
                  [] i = 4 -> o.proven \/ statusRank(o.job) = 6
                  [] OTHER -> statusRank(o.job) = 6}

\* What driver.service takes: each transition from one status, the last with a proof.
AcceptedTransition(o) ==
  CASE o.job = "ASSIGNED" -> "en-route-pickup"
    [] o.job = "EN_ROUTE_PICKUP" -> "picked-up"
    [] o.job = "PICKED_UP" -> "en-route-drop"
    [] o.job = "EN_ROUTE_DROP" /\ o.proven -> "delivered"
    [] OTHER -> "none"

NextJob(job) ==
  CASE job = "REQUESTED" -> "ASSIGNED" [] job = "ASSIGNED" -> "EN_ROUTE_PICKUP"
    [] job = "EN_ROUTE_PICKUP" -> "PICKED_UP" [] job = "PICKED_UP" -> "EN_ROUTE_DROP"
    [] job = "EN_ROUTE_DROP" -> "DELIVERED" [] OTHER -> job

-----------------------------------------------------------------------------
\* The views of one order tell one story: headline and next step name the same state, the
\* customer is never told to be further or less far than the operator (but for orders that
\* were fulfilled before their job was taken back), and the route shows a part as done only
\* if the step for it is done.
ViewsTellOneStory ==
  About("tracked") =>
    /\ getCustomerTrackingSummary(case) = getCustomerTrackingNextStep(case)
    /\ StageIndex(case) >= 2 /\ case.order # "FULFILLED" => StageIndex(case) = OperatorIndex(case)
    /\ DropoffNode(case) = "complete" => getTrackingSteps(case)[6] = "complete"
    /\ CourierNode(case) = "complete" => getTrackingSteps(case)[4] = "complete"
    /\ \A i, j \in DOMAIN Steps :
         i < j /\ getTrackingSteps(case)[i] = "upcoming" => getTrackingSteps(case)[j] # "complete"

\* Progress is never taken back as the job moves on: what a customer or a courier was shown
\* as done stays done, whatever the payment does meanwhile, short of failing.
ProgressStays ==
  About("tracked") =>
    LET moved == [case EXCEPT !.job = NextJob(case.job), !.proven = case.proven \/ case.job = "EN_ROUTE_DROP"]
    IN \A payment \in PaymentStatuses \ {"FAILED"} :
         LET next == [moved EXCEPT !.payment = payment]
         IN /\ StageIndex(next) >= StageIndex(case) \/ StageIndex(case) = 2
            /\ \A i \in 3..6 : getTrackingSteps(case)[i] = "complete" => getTrackingSteps(next)[i] = "complete"
            /\ StepsDone(case) \subseteq StepsDone(next)

\* The courier's page offers exactly the transition the service would take.
OfferedIsAccepted ==
  About("tracked") => OfferedTransition(case) = AcceptedTransition(case)
=============================================================================
