---------------------------- MODULE Eligibility -----------------------------
(***************************************************************************)
(* Which courier may get a job.  The same row of drivers is judged by the  *)
(* worker's query for candidates, by the list and the check of a manual    *)
(* assignment (jobs.service), by the recovery advice (briefing), by the    *)
(* administrators' readiness list (admin.service) and by the labels of the *)
(* assignment panel in the browser (driver-assignment).                    *)
(***************************************************************************)
EXTENDS Integers, FiniteSets, Cases

Verifications == {"MISSING", "PENDING", "APPROVED", "REJECTED"}

\* A driver and one job.  offer is the driver's row in job_offers for this job, if any;
\* fits: some vehicle of the job's type; equipped: a primary vehicle, of whatever type.
Candidates ==
  {c \in [area : {"candidate"}, active : BOOLEAN, online : BOOLEAN, busy : BOOLEAN, fits : BOOLEAN,
          equipped : BOOLEAN, verification : Verifications, located : BOOLEAN, recent : BOOLEAN,
          offer : {"none", "OFFERED", "ACCEPTED", "REJECTED", "EXPIRED"}] :
     c.recent => c.located}

Open(c) == c.offer \in {"OFFERED", "ACCEPTED"}

-----------------------------------------------------------------------------
\* jobs.service: the flags of a driver, from which everything else there follows.
Flags_IgnoresOffers(c) ==
  {f \in {"OFFLINE", "ACTIVE_JOB", "VEHICLE_MISMATCH", "VERIFICATION_NOT_APPROVED", "NO_LIVE_LOCATION"} :
     CASE f = "OFFLINE" -> ~c.online
       [] f = "ACTIVE_JOB" -> c.busy
       [] f = "VEHICLE_MISMATCH" -> ~c.fits
       [] f = "VERIFICATION_NOT_APPROVED" -> c.verification # "APPROVED"
       [] OTHER -> ~c.located}
Flags(c) ==
  {f \in {"OFFLINE", "ACTIVE_JOB", "VEHICLE_MISMATCH", "VERIFICATION_NOT_APPROVED",
          "NO_LIVE_LOCATION", "EXISTING_OPEN_OFFER"} :
     CASE f = "OFFLINE" -> ~c.online
       [] f = "ACTIVE_JOB" -> c.busy
       [] f = "VEHICLE_MISMATCH" -> ~c.fits
       [] f = "VERIFICATION_NOT_APPROVED" -> c.verification # "APPROVED"
       [] f = "NO_LIVE_LOCATION" -> ~c.located
       [] OTHER -> Open(c)}

eligible(c) == Flags(c) \subseteq {"NO_LIVE_LOCATION"}

\* The list holds active drivers only, the assignment asks again, and then the driver's
\* offer of this job is inserted, which the key of job and driver allows once.
Listed(c) == c.active
CheckedForReassign(c) == c.active /\ eligible(c)
AcceptedForReassign(c) == CheckedForReassign(c) /\ c.offer = "none"
ListedFirst(c) == c.online /\ ~c.busy /\ c.fits /\ c.verification = "APPROVED" /\ ~Open(c)

\* The first flag in the order of the reasons; the panel has the same order.
Reasons == <<"ACTIVE_JOB", "OFFLINE", "VEHICLE_MISMATCH", "VERIFICATION_NOT_APPROVED",
             "EXISTING_OPEN_OFFER">>
FirstReason(flags) ==
  IF \E i \in DOMAIN Reasons : Reasons[i] \in flags
    THEN Reasons[CHOOSE i \in DOMAIN Reasons :
                   Reasons[i] \in flags /\ \A k \in 1..i-1 : Reasons[k] \notin flags]
    ELSE "none"
buildEligibleDriverReason(c) == IF eligible(c) THEN "READY" ELSE FirstReason(Flags(c))
getBlockedDriverLabel(c) == IF eligible(c) THEN "READY" ELSE FirstReason(Flags(c))

\* getDriverAssignmentNextSteps: one step for each flag, or to choose another driver.
NextSteps(flags) == IF flags \ {"READY"} = {} THEN {"another"} ELSE flags \ {"READY"}

-----------------------------------------------------------------------------
\* The worker: a driver who had any offer of this job is not asked again.
selectDispatchCandidates(c) ==
  /\ c.active /\ c.online /\ ~c.busy
  /\ c.verification = "APPROVED" /\ c.fits
  /\ c.offer = "none"

\* dispatch-recovery.service
RecoveryReady(c) == c.active /\ ~c.busy /\ c.verification = "APPROVED" /\ c.online
RecoveryMatching(c) == RecoveryReady(c) /\ c.fits
RecoveryEligible(c) == RecoveryMatching(c) /\ ~Open(c)

\* admin.service
computeDriverReadinessStatus(c) ==
  CASE c.verification = "PENDING" -> "NEEDS_REVIEW"
    [] \/ c.verification \in {"MISSING", "REJECTED"}
       \/ c.verification = "APPROVED" /\ (~c.equipped \/ ~c.online \/ c.busy) -> "NOT_ELIGIBLE"
    [] OTHER -> IF c.recent THEN "READY" ELSE "NEEDS_REVIEW"

getDriverReadinessAction(c) ==
  IF c.verification = "PENDING" THEN "review verification"
  ELSE IF c.verification # "APPROVED" THEN "request verification"
  ELSE IF ~c.equipped THEN "check vehicle"
  ELSE IF c.busy THEN "clear job"
  ELSE IF ~c.online THEN "go online"
  ELSE IF ~c.recent THEN "refresh location" ELSE "ready"

ChecklistFails(c) ==
  {k \in {"verification", "vehicle", "active", "location", "job"} :
     CASE k = "verification" -> c.verification \notin {"APPROVED", "PENDING"}
       [] k = "vehicle" -> ~c.equipped
       [] k = "active" -> ~c.online
       [] k = "job" -> c.busy
       [] OTHER -> FALSE}

-----------------------------------------------------------------------------
\* The advice for a job that waits, from counts of the drivers and the latest offer.
\* fresh: some eligible driver had no offer of this job yet.
Advised == {"DISPATCH_FAILED", "REQUESTED", "ASSIGNED"}
PaymentBlockers == {"FAILED", "REQUIRES_PAYMENT_METHOD", "REQUIRES_CONFIRMATION", "CANCELLED"}

\* An open offer belongs to a requested job, an accepted one to an assigned job; a job
\* without offers has no driver; an eligible driver is a matching one, and so on.
Recoveries ==
  {r \in [area : {"recovery"}, job : Advised \cup {"DELIVERED", "CANCELLED", "PICKED_UP"},
          payment : PaymentBlockers \cup {"AUTHORIZED", "CAPTURED"},
          latest : {"none", "OFFERED", "ACCEPTED", "REJECTED", "EXPIRED"}, old : BOOLEAN,
          pool : 0..1, ready : 0..1, matching : 0..1, eligible : 0..1, fresh : BOOLEAN] :
     /\ r.latest = "OFFERED" => r.job = "REQUESTED"
     /\ r.latest = "ACCEPTED" <=> r.job \in {"ASSIGNED", "PICKED_UP", "DELIVERED"}
     /\ r.eligible <= r.matching /\ r.matching <= r.ready /\ r.ready <= r.pool
     /\ r.fresh => r.eligible = 1
     /\ r.latest = "none" => r.eligible = r.matching /\ r.fresh = (r.eligible = 1)}

StaleOffer(r) == r.latest = "OFFERED" /\ r.old

\* The count of a select without a from clause: one row, however many offers there are.
offerCount(r) == 1

buildDispatchRecoverySuggestion(r) ==
  IF r.job \notin Advised /\ r.payment # "FAILED" THEN "none"
  ELSE IF r.payment \in PaymentBlockers THEN "REVIEW_PAYMENT_RISK"
  ELSE IF StaleOffer(r) THEN IF r.eligible > 0 THEN "RETRY_DISPATCH" ELSE "REVIEW_DRIVER_POOL"
  ELSE IF r.eligible > 0 THEN "MANUAL_ASSIGN_DRIVER"
  ELSE IF r.pool > 0 /\ r.ready > 0 /\ r.matching = 0 THEN "REVIEW_DRIVER_POOL"
  ELSE IF r.pool > 0 /\ r.ready = 0 THEN "REVIEW_DRIVER_POOL"
  ELSE IF offerCount(r) = 0 THEN "RETRY_DISPATCH" ELSE "REVIEW_DRIVER_POOL"

\* retryDispatch refuses an assigned job and one with an offer that has not expired.
RetryAccepted(r) == r.job \in {"REQUESTED", "DISPATCH_FAILED"} /\ ~(r.latest = "OFFERED" /\ ~r.old)

-----------------------------------------------------------------------------
\* Whoever the worker would ask can be assigned by hand, and nobody else: drivers who let
\* an offer of this job pass are the only ones whom panel, check and advice call ready and
\* the insert then refuses.  The readiness list turns down a driver the worker would ask
\* only for want of a primary vehicle, and calls ready one it would not ask only if he is
\* deactivated, drives another vehicle or had an offer of this job.
EligibilityAgrees ==
  About("candidate") =>
    /\ CheckedForReassign(case) <=> RecoveryEligible(case)
    /\ AcceptedForReassign(case) <=> selectDispatchCandidates(case)
    /\ CheckedForReassign(case) /\ ~AcceptedForReassign(case) => case.offer \in {"REJECTED", "EXPIRED"}
    /\ Listed(case) => (ListedFirst(case) <=> eligible(case))
    /\ selectDispatchCandidates(case) /\ computeDriverReadinessStatus(case) = "NOT_ELIGIBLE" => ~case.equipped
    /\ computeDriverReadinessStatus(case) = "READY" /\ ~selectDispatchCandidates(case) =>
         ~case.active \/ ~case.fits \/ case.offer # "none"

\* The reasons shown for a driver agree: the panel's label is the service's reason, every
\* refused driver has one, and the readiness list advises to wait for nothing exactly for
\* the couriers it calls ready, naming a failed item of its checklist otherwise.
ReasonsAgree ==
  About("candidate") =>
    /\ getBlockedDriverLabel(case) = buildEligibleDriverReason(case)
    /\ buildEligibleDriverReason(case) # "none"
    /\ ~eligible(case) => buildEligibleDriverReason(case) \in NextSteps(Flags(case))
    /\ computeDriverReadinessStatus(case) = "READY" <=> getDriverReadinessAction(case) = "ready"
    /\ computeDriverReadinessStatus(case) = "NOT_ELIGIBLE" /\ case.verification # "PENDING" <=>
         ChecklistFails(case) # {} /\ case.verification # "PENDING"

\* A retry is advised only where the retry is accepted, and only for a stale offer while
\* somebody is eligible, never for a job without offers; a manual assignment only while
\* jobs can be reassigned, and the key of job and driver refuses all of the couriers it
\* counts only if the job had offers that they let pass.
AdviceIsAccepted ==
  About("recovery") =>
    LET advice == buildDispatchRecoverySuggestion(case)
    IN /\ advice = "RETRY_DISPATCH" => RetryAccepted(case) /\ StaleOffer(case) /\ case.eligible > 0
       /\ advice = "MANUAL_ASSIGN_DRIVER" =>
            /\ case.job \in {"REQUESTED", "ASSIGNED", "DISPATCH_FAILED"}
            /\ case.fresh \/ case.latest # "none"
=============================================================================
