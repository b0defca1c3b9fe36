--------------------------- MODULE DispatchProofs ---------------------------
(***************************************************************************)
(* Theorems about Dispatch, for any jobs, drivers, keys and overrides:     *)
(* type correctness; the records of assignment always agree; proofs of     *)
(* delivery stay with the carrier and requested jobs stay pending without  *)
(* the unassign override; and Dispatch implements JobLifecycle.            *)
(***************************************************************************)
EXTENDS Dispatch, TLAPS

\* What createSequentialOffer writes has the right types.
LEMMA OfferTypes ==
  ASSUME NEW j \in Jobs, NEW rows \in [Jobs -> [Drivers -> OfferStatuses]],
         NEW checks \in SUBSET (Jobs \X Drivers), status \in [Jobs -> JobStatuses],
         createSequentialOffer(j, rows, checks)
  PROVE  /\ status' \in [Jobs -> JobStatuses]
         /\ offer' \in [Jobs -> [Drivers -> OfferStatuses]]
         /\ expiryQueue' \subseteq Jobs \X Drivers
<1> USE DEF JobStatuses, OfferStatuses
<1>1. CASE /\ status' = [status EXCEPT ![j] = "DISPATCH_FAILED"]
           /\ offer' = rows
           /\ expiryQueue' = checks
  BY <1>1
<1>2. ASSUME NEW d \in Drivers,
             status' = [status EXCEPT ![j] = "REQUESTED"],
             offer' = [rows EXCEPT ![j][d] = "OFFERED"],
             expiryQueue' = checks \cup {<<j, d>>}
      PROVE  /\ status' \in [Jobs -> JobStatuses]
             /\ offer' \in [Jobs -> [Drivers -> OfferStatuses]]
             /\ expiryQueue' \subseteq Jobs \X Drivers
  BY <1>2
<1>3. QED
  BY <1>1, <1>2, SuitableAssumption
  DEF createSequentialOffer, IndexAccepts, ExpiryCheck, selectDispatchCandidates, NoCandidateStatus

\* Every column keeps to its declared values whatever the handlers write.
THEOREM TypeCorrect == Spec => []TypeOK
<1>1. Init => TypeOK
  BY NullsAssumption DEF Init, TypeOK, JobStatuses, OfferStatuses
<1>2. TypeOK /\ [Next]_vars => TypeOK'
  <2> SUFFICES ASSUME TypeOK, [Next]_vars PROVE TypeOK'
    OBVIOUS
  <2> USE DEF TypeOK, JobStatuses, OfferStatuses, Open, Causes
  <2>1. ASSUME NEW j \in Jobs, createJobRequest(j) PROVE TypeOK'
    BY <2>1 DEF createJobRequest
  <2>2. ASSUME NEW j \in Jobs, NEW key \in RetryKeys, retryDispatch(j, key) PROVE TypeOK'
    BY <2>2 DEF retryDispatch
  <2>3. ASSUME NEW j \in Jobs, NEW d \in Drivers, reassignDriver(j, d) PROVE TypeOK'
    BY <2>3 DEF reassignDriver, TakeBackOffers, ExpireOffers, WithoutJob, Holders
  <2>4. ASSUME NEW j \in Jobs, applyManualUnassign(j) PROVE TypeOK'
    BY <2>4 DEF applyManualUnassign, TakeBackOffers, ExpireOffers, WithoutJob, Holders
  <2>5. ASSUME NEW j \in Jobs, cancelJob(j) PROVE TypeOK'
    BY <2>5 DEF cancelJob, ExpireOffers, WithoutJob, Holders
  <2>6. ASSUME NEW d \in Drivers, updateAvailability(d) PROVE TypeOK'
    BY <2>6 DEF updateAvailability
  <2>7. ASSUME NEW j \in Jobs, NEW d \in Drivers, acceptOffer(j, d) PROVE TypeOK'
    BY <2>7 DEF acceptOffer, ExpireOffers
  <2>8. ASSUME NEW j \in Jobs, NEW d \in Drivers, rejectOffer(j, d) PROVE TypeOK'
    BY <2>8 DEF rejectOffer, Redispatch
  <2>9. ASSUME NEW j \in Jobs, NEW d \in Drivers, createProofOfDelivery(j, d) PROVE TypeOK'
    BY <2>9 DEF createProofOfDelivery
  <2>10. ASSUME NEW j \in Jobs, NEW d \in Drivers, transitionJobStatus(j, d) PROVE TypeOK'
    BY <2>10 DEF transitionJobStatus, NextStatus, ACTIVE_DRIVER_JOB_STATUSES
  <2>11. ASSUME NEW j \in Jobs, NEW c \in Causes, handleDispatchRequested(j, c) PROVE TypeOK'
    <3>1. CASE createSequentialOffer(j, offer, expiryQueue)
      BY <2>11, <3>1, OfferTypes DEF handleDispatchRequested, hasActiveOffer
    <3>2. CASE UNCHANGED <<status, offer, expiryQueue>>
      BY <2>11, <3>2 DEF handleDispatchRequested, hasActiveOffer
    <3>3. QED
      BY <2>11, <3>1, <3>2 DEF handleDispatchRequested, hasActiveOffer
  <2>12. ASSUME NEW j \in Jobs, NEW d \in Drivers, handleOfferExpiryCheck(j, d) PROVE TypeOK'
    <3> DEFINE expired == [offer EXCEPT ![j][d] = "EXPIRED"]
               remaining == expiryQueue \ {<<j, d>>}
    <3>1. expired \in [Jobs -> [Drivers -> OfferStatuses]] /\ remaining \subseteq Jobs \X Drivers
      OBVIOUS
    <3>2. CASE createSequentialOffer(j, expired, remaining)
      BY <2>12, <3>1, <3>2, OfferTypes DEF handleOfferExpiryCheck
    <3>3. CASE /\ offer' \in {offer, expired}
               /\ expiryQueue' = remaining
               /\ UNCHANGED status
      BY <2>12, <3>1, <3>3 DEF handleOfferExpiryCheck
    <3>4. QED
      BY <2>12, <3>2, <3>3 DEF handleOfferExpiryCheck
  <2>13. ASSUME NEW j \in Jobs, NEW d \in Drivers, Lapse(j, d) PROVE TypeOK'
    BY <2>13 DEF Lapse
  <2>14. CASE UNCHANGED vars
    BY <2>14 DEF vars
  <2>15. QED
    BY <2>1, <2>2, <2>3, <2>4, <2>5, <2>6, <2>7, <2>8, <2>9, <2>10, <2>11, <2>12, <2>13, <2>14
    DEF Next, Worker, Operator, Driver
<1>3. QED
  BY <1>1, <1>2, PTL DEF Spec

-----------------------------------------------------------------------------
(* Assignment.  The four invariants are inductive only together: acceptOffer *)
(* needs StatusMatchesAssignment to know that a REQUESTED job has no         *)
(* accepted offer left, the handlers that take a job back need               *)
(* AcceptedIffAssigned to know whose it was.                                 *)

\* The inductive invariant: the four records of who has the job agree.
AssignmentInv ==
  OneOpenOffer /\ AcceptedIffAssigned /\ StatusMatchesAssignment /\ ActiveJobIsCarried

\* The worker's next offer, for a job without a driver, whose rows the handler may
\* have expired before, leaves all records in agreement.
LEMMA NextOfferAgrees ==
  ASSUME TypeOK, AssignmentInv,
         NEW j \in Jobs, status[j] \in RETRYABLE_JOB_STATUSES, assigned[j] = NoDriver,
         NEW rows \in [Jobs -> [Drivers -> OfferStatuses]],
         \A k \in Jobs, d \in Drivers :
           rows[k][d] = offer[k][d] \/ (offer[k][d] \in Open /\ rows[k][d] = "EXPIRED"),
         NEW checks, createSequentialOffer(j, rows, checks),
         UNCHANGED <<assigned, activeJob>>
  PROVE  AssignmentInv'
<1> USE NullsAssumption, SuitableAssumption
    DEF TypeOK, OfferStatuses, JobStatuses, Open, RETRYABLE_JOB_STATUSES,
        ACTIVE_DRIVER_JOB_STATUSES
<1>1. \/ /\ status' = [status EXCEPT ![j] = "DISPATCH_FAILED"]
         /\ offer' = rows
      \/ \E d \in Drivers :
           /\ \A e \in Drivers : rows[j][e] \notin Open
           /\ offer[j][d] = "NONE"
           /\ status' = [status EXCEPT ![j] = "REQUESTED"]
           /\ offer' = [rows EXCEPT ![j][d] = "OFFERED"]
  BY DEF createSequentialOffer, IndexAccepts, ExpiryCheck, selectDispatchCandidates, NoCandidateStatus
<1>2. OneOpenOffer'
  <2>1. CASE offer' = rows
    BY <2>1 DEF AssignmentInv, OneOpenOffer
  <2>2. ASSUME NEW d \in Drivers, \A e \in Drivers : rows[j][e] \notin Open,
               offer' = [rows EXCEPT ![j][d] = "OFFERED"]
        PROVE  OneOpenOffer'
    BY <2>2 DEF AssignmentInv, OneOpenOffer
  <2>3. QED
    BY <1>1, <2>1, <2>2
<1>3. AcceptedIffAssigned'
  <2>1. \A k \in Jobs, e \in Drivers : rows[k][e] = "ACCEPTED" <=> offer[k][e] = "ACCEPTED"
    OBVIOUS
  <2>2. \A k \in Jobs, e \in Drivers : offer'[k][e] = "ACCEPTED" <=> rows[k][e] = "ACCEPTED"
    <3>1. CASE offer' = rows
      BY <3>1
    <3>2. ASSUME NEW d \in Drivers, offer[j][d] = "NONE",
                 offer' = [rows EXCEPT ![j][d] = "OFFERED"]
          PROVE  \A k \in Jobs, e \in Drivers :
                   offer'[k][e] = "ACCEPTED" <=> rows[k][e] = "ACCEPTED"
      <4>1. rows[j][d] = "NONE"
        BY <3>2
      <4>2. QED
        BY <3>2, <4>1
    <3>3. QED
      BY <1>1, <3>1, <3>2
  <2>3. QED
    BY <2>1, <2>2 DEF AssignmentInv, AcceptedIffAssigned
<1>4. StatusMatchesAssignment'
  BY <1>1 DEF AssignmentInv, StatusMatchesAssignment
<1>5. ActiveJobIsCarried'
  BY <1>1 DEF AssignmentInv, ActiveJobIsCarried, StatusMatchesAssignment
<1>6. QED
  BY <1>2, <1>3, <1>4, <1>5 DEF AssignmentInv

\* job_offers, jobs and drivers agree on who carries what: for any jobs, drivers,
\* overrides and clocks, every reachable state satisfies the four invariants.
THEOREM AssignmentsAgree == Spec => []AssignmentInv
<1>1. Init => AssignmentInv
  BY NullsAssumption
  DEF Init, AssignmentInv, OneOpenOffer, AcceptedIffAssigned, StatusMatchesAssignment,
      ActiveJobIsCarried, Open, RETRYABLE_JOB_STATUSES, ACTIVE_DRIVER_JOB_STATUSES
<1>2. TypeOK /\ AssignmentInv /\ [Next]_vars => AssignmentInv'
  <2> SUFFICES ASSUME TypeOK, AssignmentInv, [Next]_vars PROVE AssignmentInv'
    OBVIOUS
  <2> USE NullsAssumption
      DEF TypeOK, AssignmentInv, OneOpenOffer, AcceptedIffAssigned, StatusMatchesAssignment,
          ActiveJobIsCarried, Open, RETRYABLE_JOB_STATUSES, ACTIVE_DRIVER_JOB_STATUSES,
          OfferStatuses, JobStatuses
  <2>1. ASSUME NEW j \in Jobs, createJobRequest(j) PROVE AssignmentInv'
    <3>1. StatusMatchesAssignment'
      BY <2>1 DEF createJobRequest
    <3>2. QED
      BY <2>1, <3>1 DEF createJobRequest
  <2>2. ASSUME NEW j \in Jobs, NEW key \in RetryKeys, retryDispatch(j, key) PROVE AssignmentInv'
    <3>1. StatusMatchesAssignment'
      BY <2>2 DEF retryDispatch
    <3>2. QED
      BY <2>2, <3>1 DEF retryDispatch
  <2>3. ASSUME NEW j \in Jobs, NEW d \in Drivers, reassignDriver(j, d) PROVE AssignmentInv'
    <3>1. OneOpenOffer'
      BY <2>3 DEF reassignDriver, loadEligibleDriverForReassign, TakeBackOffers,
             ExpireOffers, WithoutJob, Holders, REASSIGNABLE_JOB_STATUSES
    <3>2. AcceptedIffAssigned'
      BY <2>3 DEF reassignDriver, loadEligibleDriverForReassign, TakeBackOffers,
             ExpireOffers, WithoutJob, Holders, REASSIGNABLE_JOB_STATUSES
    <3>3. StatusMatchesAssignment'
      BY <2>3 DEF reassignDriver, loadEligibleDriverForReassign, TakeBackOffers,
             ExpireOffers, WithoutJob, Holders, REASSIGNABLE_JOB_STATUSES
    <3>4. ActiveJobIsCarried'
      BY <2>3 DEF reassignDriver, loadEligibleDriverForReassign, TakeBackOffers,
             ExpireOffers, WithoutJob, Holders, REASSIGNABLE_JOB_STATUSES
    <3>5. QED
      BY <3>1, <3>2, <3>3, <3>4
  <2>4. ASSUME NEW j \in Jobs, applyManualUnassign(j) PROVE AssignmentInv'
    <3>1. OneOpenOffer'
      BY <2>4 DEF applyManualUnassign, TakeBackOffers, ExpireOffers,
             WithoutJob, Holders
    <3>2. AcceptedIffAssigned'
      BY <2>4 DEF applyManualUnassign, TakeBackOffers, ExpireOffers,
             WithoutJob, Holders
    <3>3. StatusMatchesAssignment'
      BY <2>4 DEF applyManualUnassign, TakeBackOffers, ExpireOffers,
             WithoutJob, Holders
    <3>4. ActiveJobIsCarried'
      BY <2>4 DEF applyManualUnassign, TakeBackOffers, ExpireOffers,
             WithoutJob, Holders
    <3>5. QED
      BY <3>1, <3>2, <3>3, <3>4
  <2>5. ASSUME NEW j \in Jobs, cancelJob(j) PROVE AssignmentInv'
    <3>1. OneOpenOffer'
      BY <2>5 DEF cancelJob, ExpireOffers, WithoutJob, Holders
    <3>2. AcceptedIffAssigned'
      BY <2>5 DEF cancelJob, ExpireOffers, WithoutJob, Holders
    <3>3. StatusMatchesAssignment'
      BY <2>5 DEF cancelJob, ExpireOffers, WithoutJob, Holders
    <3>4. ActiveJobIsCarried'
      BY <2>5 DEF cancelJob, ExpireOffers, WithoutJob, Holders
    <3>5. QED
      BY <3>1, <3>2, <3>3, <3>4
  <2>6. ASSUME NEW d \in Drivers, updateAvailability(d) PROVE AssignmentInv'
    BY <2>6 DEF updateAvailability
  <2>7. ASSUME NEW j \in Jobs, NEW d \in Drivers, acceptOffer(j, d) PROVE AssignmentInv'
    <3>1. OneOpenOffer'
      BY <2>7 DEF acceptOffer, ExpireOffers, InTime, Assignable
    <3>2. AcceptedIffAssigned'
      BY <2>7 DEF acceptOffer, ExpireOffers, InTime, Assignable
    <3>3. StatusMatchesAssignment'
      BY <2>7 DEF acceptOffer, ExpireOffers, InTime, Assignable
    <3>4. ActiveJobIsCarried'
      BY <2>7 DEF acceptOffer, ExpireOffers, InTime, Assignable
    <3>5. QED
      BY <3>1, <3>2, <3>3, <3>4
  <2>8. ASSUME NEW j \in Jobs, NEW d \in Drivers, rejectOffer(j, d) PROVE AssignmentInv'
    <3>1. OneOpenOffer'
      BY <2>8 DEF rejectOffer, Redispatch
    <3>2. AcceptedIffAssigned'
      BY <2>8 DEF rejectOffer, Redispatch
    <3>3. QED
      BY <2>8, <3>1, <3>2 DEF rejectOffer, Redispatch
  <2>9. ASSUME NEW j \in Jobs, NEW d \in Drivers, createProofOfDelivery(j, d) PROVE AssignmentInv'
    BY <2>9 DEF createProofOfDelivery
  <2>10. ASSUME NEW j \in Jobs, NEW d \in Drivers, transitionJobStatus(j, d) PROVE AssignmentInv'
    <3>1. StatusMatchesAssignment'
      BY <2>10 DEF transitionJobStatus, NextStatus
    <3>2. ActiveJobIsCarried'
      BY <2>10 DEF transitionJobStatus, NextStatus
    <3>3. QED
      BY <2>10, <3>1, <3>2 DEF transitionJobStatus, NextStatus
  <2>11. ASSUME NEW j \in Jobs, NEW c \in Causes, handleDispatchRequested(j, c) PROVE AssignmentInv'
    <3>1. CASE createSequentialOffer(j, offer, expiryQueue) /\ Requestable(j)
      BY <2>11, <3>1, NextOfferAgrees DEF handleDispatchRequested, hasActiveOffer, Requestable
    <3>2. CASE UNCHANGED <<status, offer, expiryQueue>>
      BY <2>11, <3>2 DEF handleDispatchRequested, hasActiveOffer
    <3>3. QED
      BY <2>11, <3>1, <3>2 DEF handleDispatchRequested, hasActiveOffer
  <2>12. ASSUME NEW j \in Jobs, NEW d \in Drivers, handleOfferExpiryCheck(j, d) PROVE AssignmentInv'
    <3> DEFINE expired == [offer EXCEPT ![j][d] = "EXPIRED"]
               remaining == expiryQueue \ {<<j, d>>}
    <3>1. CASE UNCHANGED <<status, offer>>
      BY <2>12, <3>1 DEF handleOfferExpiryCheck
    <3>2. CASE offer[j][d] = "LAPSED" /\ offer' = expired /\ UNCHANGED status
      BY <2>12, <3>2 DEF handleOfferExpiryCheck
    <3>3. CASE /\ offer[j][d] = "LAPSED"
               /\ status[j] = "REQUESTED" /\ assigned[j] = NoDriver
               /\ createSequentialOffer(j, expired, remaining)
      <4>1. /\ expired \in [Jobs -> [Drivers -> OfferStatuses]]
            /\ \A k \in Jobs, e \in Drivers :
                 \/ expired[k][e] = offer[k][e]
                 \/ offer[k][e] \in Open /\ expired[k][e] = "EXPIRED"
        BY <3>3
      <4>2. UNCHANGED <<assigned, activeJob>>
        BY <2>12 DEF handleOfferExpiryCheck
      <4> HIDE DEF expired, remaining
      <4>3. QED
        BY <3>3, <4>1, <4>2, NextOfferAgrees
    <3>4. QED
      BY <2>12, <3>1, <3>2, <3>3 DEF handleOfferExpiryCheck
  <2>13. ASSUME NEW j \in Jobs, NEW d \in Drivers, Lapse(j, d) PROVE AssignmentInv'
    <3>1. OneOpenOffer'
      BY <2>13 DEF Lapse
    <3>2. AcceptedIffAssigned'
      BY <2>13 DEF Lapse
    <3>3. QED
      BY <2>13, <3>1, <3>2 DEF Lapse
  <2>14. CASE UNCHANGED vars
    BY <2>14 DEF vars
  <2>15. QED
    BY <2>1, <2>2, <2>3, <2>4, <2>5, <2>6, <2>7, <2>8, <2>9, <2>10, <2>11, <2>12, <2>13, <2>14
    DEF Next, Worker, Operator, Driver
<1>3. QED
  BY <1>1, <1>2, TypeCorrect, PTL DEF Spec

\* The four parts one by one, for every number of jobs, drivers and keys.
COROLLARY OffersAreExclusive == Spec => []OneOpenOffer
BY AssignmentsAgree, PTL DEF AssignmentInv

\* The accepted offer and the assigned driver always name the same driver.
COROLLARY AcceptanceIsAssignment == Spec => []AcceptedIffAssigned
BY AssignmentsAgree, PTL DEF AssignmentInv

\* A job has a driver exactly in the stages that need one.
COROLLARY StatusIsAssignment == Spec => []StatusMatchesAssignment
BY AssignmentsAgree, PTL DEF AssignmentInv

\* A driver's active job is one that driver carries.
COROLLARY ActiveJobsAreCarried == Spec => []ActiveJobIsCarried
BY AssignmentsAgree, PTL DEF AssignmentInv

\* The three records of who carries a job agree, whichever of the four handlers that write
\* them come in whichever order.
THEOREM CarriersAreConsistent == Spec => []CarrierIsConsistent
<1>1. AssignmentInv => CarrierIsConsistent
  BY DEF AssignmentInv, CarrierIsConsistent
<1>2. QED
  BY <1>1, AssignmentsAgree, PTL

-----------------------------------------------------------------------------
(* No job is forgotten.  While the clocks agree, the expiry check of an open *)
(* offer stays in the queue until the offer is closed.                       *)

OpenOffersAreWatched ==
  \A j \in Jobs, d \in Drivers : offer[j][d] \in Open => <<j, d>> \in expiryQueue

\* While the clocks agree, no step lets an open offer go unwatched.
LEMMA OffersStayWatched ==
  ASSUME ClocksAgree, TypeOK, OpenOffersAreWatched, [Next]_vars
  PROVE  OpenOffersAreWatched'
<1> USE DEF TypeOK, OpenOffersAreWatched, Open, OfferStatuses
<1>1. ASSUME NEW j \in Jobs, createJobRequest(j) PROVE OpenOffersAreWatched'
  BY <1>1 DEF createJobRequest
<1>2. ASSUME NEW j \in Jobs, NEW key \in RetryKeys, retryDispatch(j, key) PROVE OpenOffersAreWatched'
  BY <1>2 DEF retryDispatch
<1>3. ASSUME NEW j \in Jobs, NEW d \in Drivers, reassignDriver(j, d) PROVE OpenOffersAreWatched'
  BY <1>3 DEF reassignDriver, loadEligibleDriverForReassign, TakeBackOffers, ExpireOffers, WithoutJob, Holders
<1>4. ASSUME NEW j \in Jobs, applyManualUnassign(j) PROVE OpenOffersAreWatched'
  BY <1>4 DEF applyManualUnassign, TakeBackOffers, ExpireOffers, WithoutJob, Holders
<1>5. ASSUME NEW j \in Jobs, cancelJob(j) PROVE OpenOffersAreWatched'
  BY <1>5 DEF cancelJob, ExpireOffers, WithoutJob, Holders
<1>6. ASSUME NEW d \in Drivers, updateAvailability(d) PROVE OpenOffersAreWatched'
  BY <1>6 DEF updateAvailability
<1>7. ASSUME NEW j \in Jobs, NEW d \in Drivers, acceptOffer(j, d) PROVE OpenOffersAreWatched'
  BY <1>7 DEF acceptOffer, ExpireOffers, InTime, Assignable
<1>8. ASSUME NEW j \in Jobs, NEW d \in Drivers, rejectOffer(j, d) PROVE OpenOffersAreWatched'
  BY <1>8 DEF rejectOffer, Redispatch
<1>9. ASSUME NEW j \in Jobs, NEW d \in Drivers, createProofOfDelivery(j, d) PROVE OpenOffersAreWatched'
  BY <1>9 DEF createProofOfDelivery
<1>10. ASSUME NEW j \in Jobs, NEW d \in Drivers, transitionJobStatus(j, d) PROVE OpenOffersAreWatched'
  BY <1>10 DEF transitionJobStatus, NextStatus, ACTIVE_DRIVER_JOB_STATUSES
<1>11. ASSUME NEW j \in Jobs, NEW c, handleDispatchRequested(j, c) PROVE OpenOffersAreWatched'
  BY <1>11 DEF handleDispatchRequested, hasActiveOffer, createSequentialOffer, IndexAccepts, ExpiryCheck, selectDispatchCandidates, NoCandidateStatus, Requestable, AssignmentInv, StatusMatchesAssignment
<1>12. ASSUME NEW j \in Jobs, NEW d \in Drivers, handleOfferExpiryCheck(j, d) PROVE OpenOffersAreWatched'
  BY <1>12 DEF handleOfferExpiryCheck, createSequentialOffer, IndexAccepts, ExpiryCheck, selectDispatchCandidates, NoCandidateStatus
<1>13. ASSUME NEW j \in Jobs, NEW d \in Drivers, Lapse(j, d) PROVE OpenOffersAreWatched'
  BY <1>13 DEF Lapse
<1>14. CASE UNCHANGED vars
  BY <1>14 DEF vars
<1>15. QED
  BY <1>1, <1>2, <1>3, <1>4, <1>5, <1>6, <1>7, <1>8, <1>9, <1>10, <1>11, <1>12, <1>13, <1>14
  DEF Next, Worker, Operator, Driver

\* With agreeing clocks, a dispatch message that the index refuses waits for one lapsed offer,
\* whose expiry check is still to come and is not refused itself.
THEOREM RefusalsStayPassing ==
  ASSUME ClocksAgree
  PROVE  Spec => []RefusalsPass
<1>1. Init => OpenOffersAreWatched
  BY DEF Init, OpenOffersAreWatched, Open
<1>2. TypeOK /\ OpenOffersAreWatched /\ [Next]_vars => OpenOffersAreWatched'
  BY OffersStayWatched
<1>3. AssignmentInv /\ OpenOffersAreWatched => RefusalsPass
  <2> SUFFICES ASSUME AssignmentInv, OpenOffersAreWatched, NEW j \in Jobs, Refused(j)
               PROVE  \E d \in Drivers : /\ offer[j][d] = "LAPSED" /\ <<j, d>> \in expiryQueue
                                         /\ \A e \in Drivers \ {d} : offer[j][e] \notin Open
    BY DEF RefusalsPass
  <2>1. PICK d \in Drivers : offer[j][d] \in Open
    BY DEF Refused, IndexAccepts
  <2>2. offer[j][d] = "LAPSED"
    BY <2>1 DEF Refused, hasActiveOffer, Open
  <2>3. QED
    BY <2>1, <2>2 DEF AssignmentInv, OneOpenOffer, OpenOffersAreWatched
<1>4. QED
  BY <1>1, <1>2, <1>3, TypeCorrect, AssignmentsAgree, PTL DEF Spec

PendingInv == OpenOffersAreWatched /\ RequestedJobIsPending

\* Without the unassign override and with agreeing clocks, a REQUESTED job always
\* has an open offer that will be checked or a dispatch message to come.
THEOREM RequestedJobsStayPending ==
  ASSUME ClocksAgree, "UNASSIGN_DRIVER" \notin Overrides
  PROVE  Spec => []RequestedJobIsPending
<1>1. Init => PendingInv
  BY DEF Init, PendingInv, Pending, OpenOffersAreWatched, RequestedJobIsPending, Open
<1>2. TypeOK /\ AssignmentInv /\ PendingInv /\ [Next]_vars => PendingInv'
  <2> SUFFICES ASSUME TypeOK, AssignmentInv, PendingInv, [Next]_vars PROVE PendingInv'
    OBVIOUS
  <2> USE DEF TypeOK, PendingInv, OpenOffersAreWatched, RequestedJobIsPending, Open,
              OfferStatuses, JobStatuses, RETRYABLE_JOB_STATUSES
  <2>1. ASSUME NEW j \in Jobs, createJobRequest(j) PROVE PendingInv'
    <3>1. OpenOffersAreWatched'
      BY OffersStayWatched
    <3>2. ASSUME NEW k \in Jobs, status'[k] = "REQUESTED" PROVE Pending(k)'
      <4>1. CASE k = j
        <5>1. <<j, "created">> \in dispatchQueue' /\ "created" \in Causes
          BY <2>1 DEF createJobRequest, Causes
        <5>2. QED
          BY <4>1, <5>1 DEF Pending
      <4>2. CASE k # j
        BY <2>1, <3>2, <4>2 DEF createJobRequest, Pending
      <4>3. QED
        BY <4>1, <4>2
    <3>3. QED
      BY <3>1, <3>2
  <2>2. ASSUME NEW j \in Jobs, NEW key \in RetryKeys, retryDispatch(j, key) PROVE PendingInv'
    <3>1. OpenOffersAreWatched'
      BY OffersStayWatched
    <3>2. ASSUME NEW k \in Jobs, status'[k] = "REQUESTED" PROVE Pending(k)'
      <4>1. CASE k = j
        <5>1. <<j, key>> \in dispatchQueue' /\ key \in Causes
          BY <2>2 DEF retryDispatch, Causes
        <5>2. QED
          BY <4>1, <5>1 DEF Pending
      <4>2. CASE k # j
        BY <2>2, <3>2, <4>2 DEF retryDispatch, Pending
      <4>3. QED
        BY <4>1, <4>2
    <3>3. QED
      BY <3>1, <3>2
  <2>3. ASSUME NEW j \in Jobs, NEW d \in Drivers, reassignDriver(j, d) PROVE PendingInv'
    <3>1. OpenOffersAreWatched'
      BY OffersStayWatched
    <3>2. RequestedJobIsPending'
      BY <2>3 DEF reassignDriver, loadEligibleDriverForReassign, TakeBackOffers, ExpireOffers, WithoutJob, Holders, Pending
    <3>3. QED
      BY <3>1, <3>2
  <2>4. ASSUME NEW j \in Jobs, applyManualUnassign(j) PROVE PendingInv'
    <3>1. OpenOffersAreWatched'
      BY OffersStayWatched
    <3>2. RequestedJobIsPending'
      BY <2>4 DEF applyManualUnassign, TakeBackOffers, ExpireOffers, WithoutJob, Holders, Pending
    <3>3. QED
      BY <3>1, <3>2
  <2>5. ASSUME NEW j \in Jobs, cancelJob(j) PROVE PendingInv'
    <3>1. OpenOffersAreWatched'
      BY OffersStayWatched
    <3>2. RequestedJobIsPending'
      BY <2>5 DEF cancelJob, ExpireOffers, WithoutJob, Holders, Pending
    <3>3. QED
      BY <3>1, <3>2
  <2>6. ASSUME NEW d \in Drivers, updateAvailability(d) PROVE PendingInv'
    <3>1. OpenOffersAreWatched'
      BY OffersStayWatched
    <3>2. RequestedJobIsPending'
      BY <2>6 DEF updateAvailability, Pending
    <3>3. QED
      BY <3>1, <3>2
  <2>7. ASSUME NEW j \in Jobs, NEW d \in Drivers, acceptOffer(j, d) PROVE PendingInv'
    <3>1. OpenOffersAreWatched'
      BY OffersStayWatched
    <3>2. RequestedJobIsPending'
      BY <2>7 DEF acceptOffer, ExpireOffers, InTime, Assignable, Pending
    <3>3. QED
      BY <3>1, <3>2
  <2>8. ASSUME NEW j \in Jobs, NEW d \in Drivers, rejectOffer(j, d) PROVE PendingInv'
    <3>1. OpenOffersAreWatched'
      BY OffersStayWatched
    <3>2. ASSUME NEW k \in Jobs, status'[k] = "REQUESTED" PROVE Pending(k)'
      <4>1. CASE k = j
        <5>1. status[j] = "REQUESTED" /\ assigned[j] = NoDriver
          BY <2>8, <3>2, <4>1 DEF rejectOffer, AssignmentInv, StatusMatchesAssignment
        <5>2. <<j, d>> \in dispatchQueue' /\ d \in Causes
          BY <2>8, <5>1 DEF rejectOffer, Redispatch, Causes
        <5>3. QED
          BY <4>1, <5>2 DEF Pending
      <4>2. CASE k # j
        BY <2>8, <3>2, <4>2 DEF rejectOffer, Redispatch, Pending
      <4>3. QED
        BY <4>1, <4>2
    <3>3. QED
      BY <3>1, <3>2
  <2>9. ASSUME NEW j \in Jobs, NEW d \in Drivers, createProofOfDelivery(j, d) PROVE PendingInv'
    <3>1. OpenOffersAreWatched'
      BY OffersStayWatched
    <3>2. RequestedJobIsPending'
      BY <2>9 DEF createProofOfDelivery, Pending
    <3>3. QED
      BY <3>1, <3>2
  <2>10. ASSUME NEW j \in Jobs, NEW d \in Drivers, transitionJobStatus(j, d) PROVE PendingInv'
    <3>1. OpenOffersAreWatched'
      BY OffersStayWatched
    <3>2. ASSUME NEW k \in Jobs, status'[k] = "REQUESTED" PROVE Pending(k)'
      <4>1. CASE k = j
        BY <2>10, <3>2, <4>1 DEF transitionJobStatus, NextStatus, ACTIVE_DRIVER_JOB_STATUSES, Pending
      <4>2. CASE k # j
        BY <2>10, <3>2, <4>2 DEF transitionJobStatus, NextStatus, ACTIVE_DRIVER_JOB_STATUSES, Pending
      <4>3. QED
        BY <4>1, <4>2
    <3>3. QED
      BY <3>1, <3>2
  <2>11. ASSUME NEW j \in Jobs, NEW c, handleDispatchRequested(j, c) PROVE PendingInv'
    <3>1. OpenOffersAreWatched'
      BY OffersStayWatched
    <3>2. ASSUME NEW k \in Jobs, status'[k] = "REQUESTED" PROVE Pending(k)'
      <4>1. CASE k = j
        BY <2>11, <3>2, <4>1 DEF handleDispatchRequested, hasActiveOffer, createSequentialOffer, IndexAccepts, ExpiryCheck, selectDispatchCandidates, NoCandidateStatus, Requestable, AssignmentInv, StatusMatchesAssignment, Pending
      <4>2. CASE k # j
        BY <2>11, <3>2, <4>2 DEF handleDispatchRequested, hasActiveOffer, createSequentialOffer, IndexAccepts, ExpiryCheck, selectDispatchCandidates, NoCandidateStatus, Requestable, AssignmentInv, StatusMatchesAssignment, Pending
      <4>3. QED
        BY <4>1, <4>2
    <3>3. QED
      BY <3>1, <3>2
  <2>12. ASSUME NEW j \in Jobs, NEW d \in Drivers, handleOfferExpiryCheck(j, d) PROVE PendingInv'
    <3>1. OpenOffersAreWatched'
      BY OffersStayWatched
    <3>2. ASSUME NEW k \in Jobs, status'[k] = "REQUESTED" PROVE Pending(k)'
      <4>1. CASE k = j
        <5>1. CASE UNCHANGED <<status, offer>> /\ offer[j][d] \notin Open
          BY <2>12, <3>2, <4>1, <5>1 DEF handleOfferExpiryCheck, Pending
        <5>2. ASSUME NEW e \in Drivers, offer'[j][e] \in Open PROVE Pending(k)'
          BY <3>1, <4>1, <5>2 DEF Pending
        <5>3. CASE offer[j][d] = "LAPSED" /\ UNCHANGED status
          BY <2>12, <3>2, <4>1, <5>3
          DEF handleOfferExpiryCheck, AssignmentInv, StatusMatchesAssignment,
              createSequentialOffer, IndexAccepts, ExpiryCheck, NoCandidateStatus, selectDispatchCandidates, Pending
        <5>4. QED
          BY <2>12, <3>2, <4>1, <5>1, <5>2, <5>3
          DEF handleOfferExpiryCheck, createSequentialOffer, IndexAccepts, ExpiryCheck, NoCandidateStatus
      <4>2. CASE k # j
        BY <2>12, <3>2, <4>2 DEF handleOfferExpiryCheck, createSequentialOffer, IndexAccepts, ExpiryCheck, selectDispatchCandidates, NoCandidateStatus, Pending
      <4>3. QED
        BY <4>1, <4>2
    <3>3. QED
      BY <3>1, <3>2
  <2>13. ASSUME NEW j \in Jobs, NEW d \in Drivers, Lapse(j, d) PROVE PendingInv'
    <3>1. OpenOffersAreWatched'
      BY OffersStayWatched
    <3>2. RequestedJobIsPending'
      BY <2>13 DEF Lapse, Pending
    <3>3. QED
      BY <3>1, <3>2
  <2>14. CASE UNCHANGED vars
    BY <2>14 DEF vars, Pending
  <2>15. QED
    BY <2>1, <2>2, <2>3, <2>4, <2>5, <2>6, <2>7, <2>8, <2>9, <2>10, <2>11, <2>12, <2>13, <2>14
    DEF Next, Worker, Operator, Driver
<1>3. PendingInv => RequestedJobIsPending
  BY DEF PendingInv
<1>4. QED
  BY <1>1, <1>2, <1>3, TypeCorrect, AssignmentsAgree, PTL DEF Spec

-----------------------------------------------------------------------------
(* Proof of delivery.                                                        *)

\* Without the unassign override, a proof of delivery names the driver who carries
\* the job to its end.  The invariant is inductive by itself: a job with a proof is
\* EN_ROUTE_DROP or DELIVERED, where no operator or worker can take it away.
THEOREM ProofStaysWithCarrier ==
  ASSUME "UNASSIGN_DRIVER" \notin Overrides
  PROVE  Spec => []ProofIsByCarrier
<1>1. Init => ProofIsByCarrier
  BY DEF Init, ProofIsByCarrier
<1>2. TypeOK /\ ProofIsByCarrier /\ [Next]_vars => ProofIsByCarrier'
  <2> SUFFICES ASSUME TypeOK, ProofIsByCarrier, [Next]_vars PROVE ProofIsByCarrier'
    OBVIOUS
  <2> USE NullsAssumption DEF TypeOK, ProofIsByCarrier, JobStatuses
  <2>1. ASSUME NEW j \in Jobs, createJobRequest(j) PROVE ProofIsByCarrier'
    BY <2>1 DEF createJobRequest
  <2>2. ASSUME NEW j \in Jobs, NEW key \in RetryKeys, retryDispatch(j, key)
        PROVE  ProofIsByCarrier'
    BY <2>2 DEF retryDispatch, RETRYABLE_JOB_STATUSES
  <2>3. ASSUME NEW j \in Jobs, NEW d \in Drivers, reassignDriver(j, d) PROVE ProofIsByCarrier'
    BY <2>3 DEF reassignDriver, REASSIGNABLE_JOB_STATUSES
  <2>4. ASSUME NEW j \in Jobs, applyManualUnassign(j) PROVE ProofIsByCarrier'
    BY <2>4 DEF applyManualUnassign
  <2>5. ASSUME NEW j \in Jobs, cancelJob(j) PROVE ProofIsByCarrier'
    BY <2>5 DEF cancelJob, CANCELLABLE_JOB_STATUSES
  <2>6. ASSUME NEW d \in Drivers, updateAvailability(d) PROVE ProofIsByCarrier'
    BY <2>6 DEF updateAvailability
  <2>7. ASSUME NEW j \in Jobs, NEW d \in Drivers, acceptOffer(j, d) PROVE ProofIsByCarrier'
    BY <2>7 DEF acceptOffer, Assignable
  <2>8. ASSUME NEW j \in Jobs, NEW d \in Drivers, rejectOffer(j, d) PROVE ProofIsByCarrier'
    BY <2>8 DEF rejectOffer
  <2>9. ASSUME NEW j \in Jobs, NEW d \in Drivers, createProofOfDelivery(j, d)
        PROVE  ProofIsByCarrier'
    BY <2>9 DEF createProofOfDelivery
  <2>10. ASSUME NEW j \in Jobs, NEW d \in Drivers, transitionJobStatus(j, d)
         PROVE  ProofIsByCarrier'
    <3>1. status[j] = "EN_ROUTE_DROP" => status'[j] = "DELIVERED"
      BY <2>10 DEF transitionJobStatus, NextStatus
    <3>2. /\ \A k \in Jobs : k # j => status'[k] = status[k]
          /\ UNCHANGED <<assigned, proof>>
          /\ status[j] # "DELIVERED"
      BY <2>10 DEF transitionJobStatus, ACTIVE_DRIVER_JOB_STATUSES
    <3>3. QED
      BY <3>1, <3>2
  <2>11. ASSUME NEW j \in Jobs, NEW c \in Causes, handleDispatchRequested(j, c)
         PROVE  ProofIsByCarrier'
    BY <2>11 DEF handleDispatchRequested, hasActiveOffer, createSequentialOffer, IndexAccepts, ExpiryCheck, NoCandidateStatus,
                 Requestable, RETRYABLE_JOB_STATUSES
  <2>12. ASSUME NEW j \in Jobs, NEW d \in Drivers, handleOfferExpiryCheck(j, d)
         PROVE  ProofIsByCarrier'
    BY <2>12 DEF handleOfferExpiryCheck, createSequentialOffer, IndexAccepts, ExpiryCheck, NoCandidateStatus
  <2>13. ASSUME NEW j \in Jobs, NEW d \in Drivers, Lapse(j, d) PROVE ProofIsByCarrier'
    BY <2>13 DEF Lapse
  <2>14. CASE UNCHANGED vars
    BY <2>14 DEF vars
  <2>15. QED
    BY <2>1, <2>2, <2>3, <2>4, <2>5, <2>6, <2>7, <2>8, <2>9, <2>10, <2>11, <2>12, <2>13, <2>14
    DEF Next, Worker, Operator, Driver
<1>3. QED
  BY <1>1, <1>2, TypeCorrect, PTL DEF Spec

-----------------------------------------------------------------------------
(* Refinement.  Offers, queues, clocks and driver records are hidden: what   *)
(* remains moves one job at a time along its lifecycle.                      *)

\* Every behaviour of the operators, drivers and workers together is a behaviour of
\* JobLifecycle, whatever messages and clocks do.
THEOREM DispatchImplementsLifecycle == Spec => ImplementsLifecycle
<1>1. Init => Lifecycle!Init
  BY DEF Init, Lifecycle!Init
<1>2. TypeOK /\ AssignmentInv /\ [Next]_vars => [Lifecycle!Next]_(Lifecycle!lifecycleVars)
  <2> SUFFICES ASSUME TypeOK, AssignmentInv, [Next]_vars
               PROVE  Lifecycle!Next \/ UNCHANGED <<status, assigned>>
    BY DEF Lifecycle!lifecycleVars
  <2> USE DEF Lifecycle!Becomes, Lifecycle!Unassigned, RETRYABLE_JOB_STATUSES
  <2> DEFINE Goal == Lifecycle!Next \/ UNCHANGED <<status, assigned>>
  <2>1. ASSUME NEW j \in Jobs, createJobRequest(j) PROVE Goal
    <3>1. Lifecycle!Request(j)
      BY <2>1 DEF createJobRequest, Lifecycle!Request, TypeOK, AssignmentInv, StatusMatchesAssignment
    <3>2. QED
      BY <3>1 DEF Lifecycle!Next
  <2>2. ASSUME NEW j \in Jobs, NEW key \in RetryKeys, retryDispatch(j, key) PROVE Goal
    <3>1. Lifecycle!Search(j)
      BY <2>2 DEF retryDispatch, Lifecycle!Search, TypeOK
    <3>2. QED
      BY <3>1 DEF Lifecycle!Next
  <2>3. ASSUME NEW j \in Jobs, NEW d \in Drivers, reassignDriver(j, d) PROVE Goal
    <3>1. CASE status[j] = "ASSIGNED"
      <4>1. Lifecycle!Recall(j)
        BY <2>3, <3>1 DEF reassignDriver, Lifecycle!Recall
      <4>2. QED
        BY <4>1 DEF Lifecycle!Next
    <3>2. CASE status[j] # "ASSIGNED"
      <4>1. Lifecycle!Search(j)
        BY <2>3, <3>2 DEF reassignDriver, Lifecycle!Search, REASSIGNABLE_JOB_STATUSES
      <4>2. QED
        BY <4>1 DEF Lifecycle!Next
    <3>3. QED
      BY <3>1, <3>2
  <2>4. ASSUME NEW j \in Jobs, applyManualUnassign(j) PROVE Goal
    <3>1. Lifecycle!Unassign(j)
      BY <2>4 DEF applyManualUnassign, Lifecycle!Unassign
    <3>2. QED
      BY <3>1 DEF Lifecycle!Next
  <2>5. ASSUME NEW j \in Jobs, cancelJob(j) PROVE Goal
    <3>1. Lifecycle!Cancel(j)
      BY <2>5 DEF cancelJob, Lifecycle!Cancel, TypeOK, CANCELLABLE_JOB_STATUSES
    <3>2. QED
      BY <3>1 DEF Lifecycle!Next
  <2>6. ASSUME NEW d \in Drivers, updateAvailability(d) PROVE Goal
    BY <2>6 DEF updateAvailability
  <2>7. ASSUME NEW j \in Jobs, NEW d \in Drivers, acceptOffer(j, d) PROVE Goal
    <3>1. Lifecycle!Take(j, d)
      BY <2>7 DEF acceptOffer, Lifecycle!Take, Assignable
    <3>2. QED
      BY <3>1 DEF Lifecycle!Next
  <2>8. ASSUME NEW j \in Jobs, NEW d \in Drivers, rejectOffer(j, d) PROVE Goal
    BY <2>8 DEF rejectOffer
  <2>9. ASSUME NEW j \in Jobs, NEW d \in Drivers, createProofOfDelivery(j, d) PROVE Goal
    BY <2>9 DEF createProofOfDelivery
  <2>10. ASSUME NEW j \in Jobs, NEW d \in Drivers, transitionJobStatus(j, d) PROVE Goal
    <3>1. Lifecycle!Progress(j)
      BY <2>10 DEF transitionJobStatus, Lifecycle!Progress, TypeOK, NextStatus, Lifecycle!NextStage, Lifecycle!Carried, ACTIVE_DRIVER_JOB_STATUSES
    <3>2. QED
      BY <3>1 DEF Lifecycle!Next
  <2>11. ASSUME NEW j \in Jobs, NEW c, handleDispatchRequested(j, c) PROVE Goal
    <3>1. CASE UNCHANGED status
      BY <2>11, <3>1 DEF handleDispatchRequested, hasActiveOffer
    <3>2. CASE /\ status[j] \in RETRYABLE_JOB_STATUSES /\ assigned[j] = NoDriver
               /\ createSequentialOffer(j, offer, expiryQueue)
      <4>1. \E s \in RETRYABLE_JOB_STATUSES : status' = [status EXCEPT ![j] = s]
        BY <3>2 DEF createSequentialOffer, IndexAccepts, ExpiryCheck, NoCandidateStatus
      <4>2. assigned' = [assigned EXCEPT ![j] = NoDriver]
        BY <2>11, <3>2 DEF handleDispatchRequested, hasActiveOffer, TypeOK
      <4>3. Lifecycle!Search(j)
        BY <3>2, <4>1, <4>2 DEF Lifecycle!Search
      <4>4. QED
        BY <4>3 DEF Lifecycle!Next
    <3>3. QED
      BY <2>11, <3>1, <3>2 DEF handleDispatchRequested, hasActiveOffer, Requestable
  <2>12. ASSUME NEW j \in Jobs, NEW d \in Drivers, handleOfferExpiryCheck(j, d) PROVE Goal
    <3>1. CASE UNCHANGED status
      BY <2>12, <3>1 DEF handleOfferExpiryCheck
    <3>2. CASE /\ status[j] \in RETRYABLE_JOB_STATUSES /\ assigned[j] = NoDriver
               /\ createSequentialOffer(j, [offer EXCEPT ![j][d] = "EXPIRED"], expiryQueue \ {<<j, d>>})
      <4>1. \E s \in RETRYABLE_JOB_STATUSES : status' = [status EXCEPT ![j] = s]
        BY <3>2 DEF createSequentialOffer, IndexAccepts, ExpiryCheck, NoCandidateStatus
      <4>2. assigned' = [assigned EXCEPT ![j] = NoDriver]
        BY <2>12, <3>2 DEF handleOfferExpiryCheck, TypeOK
      <4>3. Lifecycle!Search(j)
        BY <3>2, <4>1, <4>2 DEF Lifecycle!Search
      <4>4. QED
        BY <4>3 DEF Lifecycle!Next
    <3>3. QED
      BY <2>12, <3>1, <3>2 DEF handleOfferExpiryCheck
  <2>13. ASSUME NEW j \in Jobs, NEW d \in Drivers, Lapse(j, d) PROVE Goal
    BY <2>13 DEF Lapse
  <2>14. CASE UNCHANGED vars
    BY <2>14 DEF vars
  <2>15. QED
    BY <2>1, <2>2, <2>3, <2>4, <2>5, <2>6, <2>7, <2>8, <2>9, <2>10, <2>11, <2>12, <2>13, <2>14
    DEF Next, Worker, Operator, Driver
<1>3. QED
  BY <1>1, <1>2, TypeCorrect, AssignmentsAgree, PTL
  DEF Spec, ImplementsLifecycle, Lifecycle!Spec
=============================================================================
