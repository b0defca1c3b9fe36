------------------------------ MODULE Dispatch ------------------------------
(***************************************************************************)
(* Jobs, offers and drivers: how a job finds a driver and is carried out.  *)
(*                                                                         *)
(* Three kinds of process work on the same PostgreSQL rows: operators and  *)
(* consumers (apps/api jobs.service.ts), drivers (apps/api                 *)
(* driver.service.ts) and any number of outbox workers (apps/worker).      *)
(* Every operation is one transaction that holds the job's row lock, so    *)
(* each is one action here; what interleaves is the operations, the        *)
(* messages still waiting in outbox_messages and the passing of time.      *)
(*                                                                         *)
(* job_offers has the key (job_id, driver_id), so the table is a function  *)
(* of job and driver.  A row with status OFFERED is written "OFFERED"      *)
(* while expires_at lies ahead and "LAPSED" once the database clock has    *)
(* passed it.                                                              *)
(***************************************************************************)
EXTENDS Integers, FiniteSets

CONSTANTS Jobs, Drivers,
          NoJob, NoDriver,   \* SQL null
          Suitable,          \* job -> drivers active, approved and with the vehicle
          RetryKeys,         \* idempotency keys operators use with retry-dispatch
          Overrides,         \* the dispatch overrides operators use
          ClocksAgree        \* the processes' clocks agree with the database's

ASSUME NullsAssumption == NoJob \notin Jobs /\ NoDriver \notin Drivers
ASSUME SuitableAssumption == Suitable \in [Jobs -> SUBSET Drivers]
ASSUME ClocksAssumption == ClocksAgree \in BOOLEAN
ASSUME KeysAssumption == "created" \notin RetryKeys \cup Drivers

VARIABLES
  status,         \* jobs.status, "NONE" before the row exists
  assigned,       \* jobs.assigned_driver_id
  offer,          \* job_offers, by job and driver
  activeJob,      \* drivers.active_job_id
  online,         \* the drivers whose availability_status is ONLINE
  proof,          \* proof_of_delivery.delivered_by_driver_id, by job
  dispatchQueue,  \* unprocessed JOB_DISPATCH_REQUESTED messages: <<job, cause>>
  expiryQueue,    \* unprocessed JOB_OFFER_EXPIRY_CHECK messages: <<job, driver>>
  usedKeys        \* idempotency_keys of retry-dispatch: <<job, key>>

vars == <<status, assigned, offer, activeJob, online, proof,
          dispatchQueue, expiryQueue, usedKeys>>

JobStatuses == {"NONE", "REQUESTED", "DISPATCH_FAILED", "ASSIGNED", "EN_ROUTE_PICKUP",
                "PICKED_UP", "EN_ROUTE_DROP", "DELIVERED", "CANCELLED"}
ACTIVE_DRIVER_JOB_STATUSES == {"ASSIGNED", "EN_ROUTE_PICKUP", "PICKED_UP", "EN_ROUTE_DROP"}
RETRYABLE_JOB_STATUSES == {"REQUESTED", "DISPATCH_FAILED"}

REASSIGNABLE_WithPickedUp == {"REQUESTED", "ASSIGNED", "DISPATCH_FAILED", "EN_ROUTE_DROP"}
REASSIGNABLE_JOB_STATUSES == {"REQUESTED", "ASSIGNED", "DISPATCH_FAILED"}

CANCELLABLE_JOB_STATUSES == {"REQUESTED", "ASSIGNED", "EN_ROUTE_PICKUP", "DISPATCH_FAILED"}

OfferStatuses == {"NONE", "OFFERED", "LAPSED", "ACCEPTED", "REJECTED", "EXPIRED"}
Open == {"OFFERED", "LAPSED"}

\* What a dispatch message was sent for; its idempotency key names it.
Causes == {"created"} \cup RetryKeys \cup Drivers

TypeOK ==
  /\ status \in [Jobs -> JobStatuses]
  /\ assigned \in [Jobs -> Drivers \cup {NoDriver}]
  /\ offer \in [Jobs -> [Drivers -> OfferStatuses]]
  /\ activeJob \in [Drivers -> Jobs \cup {NoJob}]
  /\ online \subseteq Drivers
  /\ proof \in [Jobs -> Drivers \cup {NoDriver}]
  /\ dispatchQueue \subseteq Jobs \X Causes
  /\ expiryQueue \subseteq Jobs \X Drivers
  /\ usedKeys \subseteq Jobs \X RetryKeys

\* Before the first job: no rows but the drivers', all of them offline.
Init ==
  /\ status = [j \in Jobs |-> "NONE"]
  /\ assigned = [j \in Jobs |-> NoDriver]
  /\ offer = [j \in Jobs |-> [d \in Drivers |-> "NONE"]]
  /\ activeJob = [d \in Drivers |-> NoJob]
  /\ online = {}
  /\ proof = [j \in Jobs |-> NoDriver]
  /\ dispatchQueue = {}
  /\ expiryQueue = {}
  /\ usedKeys = {}

-----------------------------------------------------------------------------
(* Updates that several handlers issue. *)

\* update job_offers set status = 'EXPIRED' where status in closing, of one job's rows.
ExpireOffers(rows, closing) ==
  [d \in Drivers |-> IF rows[d] \in closing THEN "EXPIRED" ELSE rows[d]]

\* Taking a job back closes the open offer and the accepted one.
TakeBackOffers_AcceptedOnly(rows) == ExpireOffers(rows, {"ACCEPTED"})
TakeBackOffers_OtherStatus(rows) == [d \in Drivers |-> IF rows[d] = "NONE" THEN "NONE" ELSE "WITHDRAWN"]
TakeBackOffers(rows) == ExpireOffers(rows, Open \cup {"ACCEPTED"})

\* update drivers set active_job_id = null where id = assigned and active_job_id = job.
Holders(j) == {d \in Drivers : d = assigned[j] /\ activeJob[d] = j}
WithoutJob_Kept(j) == activeJob
WithoutJob(j) == [d \in Drivers |-> IF d \in Holders(j) THEN NoJob ELSE activeJob[d]]

-----------------------------------------------------------------------------
(* Consumers and operators. *)

createJobRequest(j) ==
  /\ status[j] = "NONE"
  /\ status' = [status EXCEPT ![j] = "REQUESTED"]
  /\ dispatchQueue' = dispatchQueue \cup {<<j, "created">>}
  /\ UNCHANGED <<assigned, offer, activeJob, online, proof, expiryQueue, usedKeys>>

\* A key that was used replays the stored response and changes nothing.
retryDispatch(j, key) ==
  /\ <<j, key>> \notin usedKeys
  /\ status[j] \in RETRYABLE_JOB_STATUSES
  /\ assigned[j] = NoDriver
  /\ \A d \in Drivers : offer[j][d] # "OFFERED"
  /\ status' = [status EXCEPT ![j] = "REQUESTED"]
  /\ dispatchQueue' = dispatchQueue \cup {<<j, key>>}
  /\ usedKeys' = usedKeys \cup {<<j, key>>}
  /\ UNCHANGED <<assigned, offer, activeJob, online, proof, expiryQueue>>

loadEligibleDriverForReassign(j, d) ==
  /\ d \in Suitable[j]
  /\ d \in online
  /\ activeJob[d] = NoJob
  /\ offer[j][d] \notin Open \cup {"ACCEPTED"}

\* The override routes ASSIGN_DRIVER and REASSIGN_DRIVER run the same statements.
\* A driver who has answered an offer of this job before passes the eligibility
\* check, and the insert then fails on the key (job_id, driver_id).
reassignDriver(j, d) ==
  /\ status[j] \in REASSIGNABLE_JOB_STATUSES
  /\ loadEligibleDriverForReassign(j, d)
  /\ offer[j][d] = "NONE"
  /\ status' = [status EXCEPT ![j] = "REQUESTED"]
  /\ assigned' = [assigned EXCEPT ![j] = NoDriver]
  /\ offer' = [offer EXCEPT ![j] = [TakeBackOffers(offer[j]) EXCEPT ![d] = "OFFERED"]]
  /\ activeJob' = WithoutJob(j)
  /\ online' = online \cup Holders(j)
  /\ expiryQueue' = expiryQueue \cup {<<j, d>>}
  /\ UNCHANGED <<proof, dispatchQueue, usedKeys>>

\* The UNASSIGN_DRIVER override: whatever the job's status, and no new dispatch.
applyManualUnassign(j) ==
  /\ "UNASSIGN_DRIVER" \in Overrides
  /\ assigned[j] # NoDriver
  /\ status' = [status EXCEPT ![j] = "REQUESTED"]
  /\ assigned' = [assigned EXCEPT ![j] = NoDriver]
  /\ offer' = [offer EXCEPT ![j] = TakeBackOffers(offer[j])]
  /\ activeJob' = WithoutJob(j)
  /\ online' = online \cup Holders(j)
  /\ UNCHANGED <<proof, dispatchQueue, expiryQueue, usedKeys>>

\* The assigned driver stays on the cancelled row, and so does the accepted offer.
cancelJob(j) ==
  /\ status[j] \in CANCELLABLE_JOB_STATUSES
  /\ status' = [status EXCEPT ![j] = "CANCELLED"]
  /\ activeJob' = WithoutJob(j)
  /\ offer' = [offer EXCEPT ![j] = ExpireOffers(offer[j], Open)]
  /\ UNCHANGED <<assigned, online, proof, dispatchQueue, expiryQueue, usedKeys>>

-----------------------------------------------------------------------------
(* Drivers. *)

updateAvailability(d) ==
  /\ online' \in {online \cup {d}, online \ {d}}
  /\ UNCHANGED <<status, assigned, offer, activeJob, proof, dispatchQueue, expiryQueue, usedKeys>>

\* An offer is taken before it expires; the API asks its own clock.
InTime(j, d) == offer[j][d] = "OFFERED" \/ (offer[j][d] = "LAPSED" /\ ~ClocksAgree)

Assignable_AlsoFailed(j) == status[j] \in RETRYABLE_JOB_STATUSES
Assignable(j) == status[j] = "REQUESTED"

\* The expired branch marks the row and then throws, so its update is rolled back.
\* Nothing asks whether the driver has an active job already.
acceptOffer(j, d) ==
  /\ InTime(j, d)
  /\ Assignable(j)
  /\ status' = [status EXCEPT ![j] = "ASSIGNED"]
  /\ assigned' = [assigned EXCEPT ![j] = d]
  /\ offer' = [offer EXCEPT ![j] = [ExpireOffers(offer[j], Open) EXCEPT ![d] = "ACCEPTED"]]
  /\ activeJob' = [activeJob EXCEPT ![d] = j]
  /\ online' = online \ {d}
  /\ UNCHANGED <<proof, dispatchQueue, expiryQueue, usedKeys>>

Redispatch_Forgotten(j, d) == {}
Redispatch(j, d) == IF status[j] = "REQUESTED" /\ assigned[j] = NoDriver THEN {<<j, d>>} ELSE {}

\* No clock is asked: an offer can be declined after it expired.
rejectOffer(j, d) ==
  /\ offer[j][d] \in Open
  /\ offer' = [offer EXCEPT ![j][d] = "REJECTED"]
  /\ dispatchQueue' = dispatchQueue \cup Redispatch(j, d)
  /\ UNCHANGED <<status, assigned, activeJob, online, proof, expiryQueue, usedKeys>>

createProofOfDelivery(j, d) ==
  /\ assigned[j] = d
  /\ status[j] = "EN_ROUTE_DROP"
  /\ proof[j] = NoDriver
  /\ proof' = [proof EXCEPT ![j] = d]
  /\ UNCHANGED <<status, assigned, offer, activeJob, online, dispatchQueue, expiryQueue, usedKeys>>

NextStatus == [ASSIGNED        |-> "EN_ROUTE_PICKUP",
               EN_ROUTE_PICKUP |-> "PICKED_UP",
               PICKED_UP       |-> "EN_ROUTE_DROP",
               EN_ROUTE_DROP   |-> "DELIVERED"]

\* The driver's record is overwritten with this job, whatever it held.
transitionJobStatus(j, d) ==
  /\ assigned[j] = d
  /\ status[j] \in ACTIVE_DRIVER_JOB_STATUSES
  /\ status[j] = "EN_ROUTE_DROP" => proof[j] = d
  /\ status' = [status EXCEPT ![j] = NextStatus[status[j]]]
  /\ activeJob' = [activeJob EXCEPT ![d] = IF status[j] = "EN_ROUTE_DROP" THEN NoJob ELSE j]
  /\ online' = online \ {d}
  /\ UNCHANGED <<assigned, offer, proof, dispatchQueue, expiryQueue, usedKeys>>

-----------------------------------------------------------------------------
(* The outbox worker.  A handler and the update that marks its message     *)
(* processed are in one transaction; Outbox.tla has the batches.           *)

selectDispatchCandidates(j) ==
  {d \in Suitable[j] \cap online : activeJob[d] = NoJob /\ offer[j][d] = "NONE"}

NoCandidateStatus_Unchanged(j) == status[j]
NoCandidateStatus(j) == "DISPATCH_FAILED"

\* job_offers_one_active_offer_idx refuses a second open row of a job.  The index asks no
\* clock, hasActiveOffer does: a lapsed row is in the way of an insert that it let through.
IndexAccepts(rows, j) == \A e \in Drivers : rows[j][e] \notin Open

ExpiryCheck_Forgotten(checks, j, d) == checks
ExpiryCheck(checks, j, d) == checks \cup {<<j, d>>}

\* rows: job_offers as the handler has left it so far.  Distances and scores order
\* the candidates and change with every position report, so any may come first.
\* A refused insert aborts the transaction, and with it the whole batch: no step.
createSequentialOffer(j, rows, expiryChecks) ==
  \/ /\ selectDispatchCandidates(j) = {}
     /\ status' = [status EXCEPT ![j] = NoCandidateStatus(j)]
     /\ offer' = rows
     /\ expiryQueue' = expiryChecks
  \/ \E d \in selectDispatchCandidates(j) :
     /\ IndexAccepts(rows, j)
     /\ status' = [status EXCEPT ![j] = "REQUESTED"]
     /\ offer' = [rows EXCEPT ![j][d] = "OFFERED"]
     /\ expiryQueue' = ExpiryCheck(expiryChecks, j, d)

hasActiveOffer(j) == \E d \in Drivers : offer[j][d] = "OFFERED"

Requestable_Unchecked(j) == status[j] # "NONE"
Requestable(j) == status[j] \in RETRYABLE_JOB_STATUSES /\ assigned[j] = NoDriver

handleDispatchRequested(j, cause) ==
  /\ <<j, cause>> \in dispatchQueue
  /\ dispatchQueue' = dispatchQueue \ {<<j, cause>>}
  /\ IF Requestable(j) /\ ~hasActiveOffer(j)
       THEN createSequentialOffer(j, offer, expiryQueue)
       ELSE UNCHANGED <<status, offer, expiryQueue>>
  /\ UNCHANGED <<assigned, activeJob, online, proof, usedKeys>>

\* A dispatch message whose insert the index refuses, and its batch is rolled back.
Refused(j) ==
  /\ \E cause \in Causes : <<j, cause>> \in dispatchQueue
  /\ Requestable(j) /\ ~hasActiveOffer(j)
  /\ ~IndexAccepts(offer, j) /\ selectDispatchCandidates(j) # {}

\* The message falls due when the offer lapses.  A worker whose clock is behind finds
\* the offer not expired yet, returns, and the message counts as processed.
handleOfferExpiryCheck(j, d) ==
  /\ <<j, d>> \in expiryQueue
  /\ offer[j][d] # "OFFERED"
  /\ LET remaining == expiryQueue \ {<<j, d>>}
         expired == [offer EXCEPT ![j][d] = "EXPIRED"]
     IN \/ /\ offer[j][d] = "LAPSED" => ~ClocksAgree
           /\ expiryQueue' = remaining
           /\ UNCHANGED <<status, offer>>
        \/ /\ offer[j][d] = "LAPSED"
           /\ IF status[j] = "REQUESTED" /\ assigned[j] = NoDriver
                THEN createSequentialOffer(j, expired, remaining)
                ELSE offer' = expired /\ expiryQueue' = remaining /\ UNCHANGED status
  /\ UNCHANGED <<assigned, activeJob, online, proof, dispatchQueue, usedKeys>>

-----------------------------------------------------------------------------
\* expires_at passes.
Lapse(j, d) ==
  /\ offer[j][d] = "OFFERED"
  /\ offer' = [offer EXCEPT ![j][d] = "LAPSED"]
  /\ UNCHANGED <<status, assigned, activeJob, online, proof, dispatchQueue, expiryQueue, usedKeys>>

Worker(j) == \/ \E cause \in Causes : handleDispatchRequested(j, cause)
             \/ \E d \in Drivers : handleOfferExpiryCheck(j, d)

Operator(j) == \/ createJobRequest(j)
               \/ \E key \in RetryKeys : retryDispatch(j, key)
               \/ \E d \in Drivers : reassignDriver(j, d)
               \/ applyManualUnassign(j)
               \/ cancelJob(j)

Driver(j, d) == \/ acceptOffer(j, d)
                \/ rejectOffer(j, d)
                \/ createProofOfDelivery(j, d)
                \/ transitionJobStatus(j, d)

Next == \/ \E j \in Jobs : Worker(j) \/ Operator(j)
        \/ \E j \in Jobs, d \in Drivers : Driver(j, d) \/ Lapse(j, d)
        \/ \E d \in Drivers : updateAvailability(d)

Spec == Init /\ [][Next]_vars

\* The worker polls for ever and takes the messages that are due, oldest first, in one
\* transaction.  A refused message stays the oldest with its retry count as it was, and
\* every batch that has it is rolled back with all that is in it: while one is refused,
\* no message is sure to be handled.  Time passes.
Refusing == \E j \in Jobs : Refused(j)
Fairness ==
  \A j \in Jobs :
    /\ \A cause \in Causes : WF_vars(~Refusing /\ handleDispatchRequested(j, cause))
    /\ \A d \in Drivers : WF_vars(~Refusing /\ handleOfferExpiryCheck(j, d)) /\ WF_vars(Lapse(j, d))

FairSpec == Spec /\ Fairness

-----------------------------------------------------------------------------
(* Safety *)

\* A job is never open to two drivers at once: reassignDriver closes what is open before
\* it inserts, the expiry check closes the one there is, and for a dispatch message the
\* index says so.
OneOpenOffer ==
  \A j \in Jobs : \A d, e \in Drivers :
    offer[j][d] \in Open /\ offer[j][e] \in Open => d = e

\* jobs.assigned_driver_id and the accepted row of job_offers name the same driver,
\* through acceptance, reassignment, unassignment, cancellation and delivery.
AcceptedIffAssigned ==
  \A j \in Jobs, d \in Drivers : offer[j][d] = "ACCEPTED" <=> assigned[j] = d

\* A job being carried or delivered has a driver; one being offered has none, so a
\* late dispatch or expiry message cannot put a carried job back on offer.
StatusMatchesAssignment ==
  \A j \in Jobs :
    /\ status[j] \in ACTIVE_DRIVER_JOB_STATUSES \cup {"DELIVERED"} => assigned[j] # NoDriver
    /\ status[j] \in RETRYABLE_JOB_STATUSES \cup {"NONE"} => assigned[j] = NoDriver

\* The driver's record never points at a job that was taken away, cancelled or
\* delivered: drivers.active_job_id is a job that driver is carrying.
ActiveJobIsCarried ==
  \A d \in Drivers : activeJob[d] # NoJob =>
    assigned[activeJob[d]] = d /\ status[activeJob[d]] \in ACTIVE_DRIVER_JOB_STATUSES

\* The three records of who carries what agree: the job's driver and status, the accepted
\* offer and the driver's active job, which four handlers write.
CarrierIsConsistent == AcceptedIffAssigned /\ StatusMatchesAssignment /\ ActiveJobIsCarried

\* Someone will come back to the job: an open offer with its expiry check still to
\* come, or a dispatch message.
Pending(j) == \/ \E d \in Drivers : offer[j][d] \in Open /\ <<j, d>> \in expiryQueue
              \/ \E cause \in Causes : <<j, cause>> \in dispatchQueue

\* A job waiting for a driver is being worked on ("no silent failures", README.md).
\* Holds without the unassign override, and when the clocks agree.
RequestedJobIsPending == \A j \in Jobs : status[j] = "REQUESTED" => Pending(j)

\* A refused dispatch message is not refused for good: the lapsed offer in its way has its
\* expiry check still to come, and no other open offer stands in the way of that check.
\* Holds when the clocks agree: a worker whose clock is behind uses the check up.
RefusalsPass ==
  \A j \in Jobs : Refused(j) =>
    \E d \in Drivers : /\ offer[j][d] = "LAPSED" /\ <<j, d>> \in expiryQueue
                       /\ \A e \in Drivers \ {d} : offer[j][e] \notin Open

\* proof_of_delivery is unique per job and only its author may report DELIVERED, so
\* a proof by anyone but the driver carrying the job would make it undeliverable.
\* Holds without the unassign override; reassignment must stay clear of such jobs.
ProofIsByCarrier ==
  \A j \in Jobs : proof[j] # NoDriver =>
    assigned[j] = proof[j] /\ status[j] \in {"EN_ROUTE_DROP", "DELIVERED"}

\* docs/runbooks/phase1-api.md: for a job "PICKED_UP or later" the "cancellation
\* endpoint remains blocked".  A job with a proof of delivery was picked up.  False
\* with the unassign override, which makes the job REQUESTED again.
CancellationBlockedAfterPickup ==
  \A j \in Jobs : proof[j] # NoDriver => status[j] # "CANCELLED"

(* Action properties *)

\* Everything above implements the lifecycle its watchers rely on.
Lifecycle == INSTANCE JobLifecycle
ImplementsLifecycle == Lifecycle!Spec

(* Liveness *)

\* Under FairSpec, the search for a driver ends: the job is taken, given up or cancelled,
\* whatever drivers answer, decline or ignore; or else a dispatch message meets a lapsed
\* offer, and the refusal may hold the whole batch back.
SearchEnds == \A j \in Jobs : status[j] = "REQUESTED" ~> status[j] # "REQUESTED" \/ Refusing
=============================================================================
