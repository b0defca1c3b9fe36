------------------------------ MODULE Finance -------------------------------
(***************************************************************************)
(* Finance reviews (apps/api, payments.service.ts): people record that the *)
(* money of an order needs a look, and close the record with a resolution. *)
(* Creating one asks first whether one is open, an update locks the row it *)
(* reads; each writes the row and its audit event in one transaction.      *)
(***************************************************************************)
EXTENDS Naturals, Sequences, FiniteSets

CONSTANTS ReviewSubjects,   \* the jobs to which payments, orders and escalations lead
          Reviewers,        \* people with a role that may review
          ReviewRequests,   \* requests that can be under way at once
          MaxReviews,       \* bound: reviews
          MaxReviewEvents   \* bound: audit events

ASSUME FinanceAssumption == IsFiniteSet(ReviewRequests) /\ MaxReviews \in Nat

ReviewStatuses == {"OPEN", "IN_REVIEW", "WAITING_SUPPORT", "RESOLVED", "CANCELLED"}
ActiveReviewStatuses == {"OPEN", "IN_REVIEW", "WAITING_SUPPORT"}
Keep == "keep"   \* a field that an update does not give

VARIABLES reviews,    \* the records, oldest first
          reviewTold, \* their audit events, in the same order
          reviewing,  \* reviewing[p]: what the transaction of request p holds
          rivals,     \* subjects of which two creations were under way at once
          reopened    \* subjects of which a closed review became active again

financeVars == <<reviews, reviewTold, reviewing, rivals, reopened>>

NoReview == [step |-> "idle"]
NewReview(s) == [subject |-> s, status |-> "OPEN", resolution |-> FALSE, resolvedBy |-> "nobody"]

FinanceInit == /\ reviews = <<>> /\ reviewTold = <<>>
               /\ reviewing = [p \in ReviewRequests |-> NoReview]
               /\ rivals = {} /\ reopened = {}

ReviewEvents == LET count[i \in 0..Len(reviewTold)] ==
                      IF i = 0 THEN 0 ELSE Len(reviewTold[i]) + count[i - 1]
                IN count[Len(reviewTold)]
RoomForEvent ==
  ReviewEvents + Cardinality({p \in ReviewRequests : reviewing[p] # NoReview}) < MaxReviewEvents

ReviewEvent(action, from, to, by) == [action |-> action, from |-> from, to |-> to, by |-> by]

-----------------------------------------------------------------------------
\* createBusinessFinanceReview, the select: an active review of the subject is returned
\* as it is, and nothing is locked.
Tracked_OpenOnly(s) == \E i \in DOMAIN reviews : reviews[i].subject = s /\ reviews[i].status = "OPEN"
Tracked(s) ==
  \E i \in DOMAIN reviews : reviews[i].subject = s /\ reviews[i].status \in ActiveReviewStatuses

CheckForReview(p, s, by) ==
  /\ RoomForEvent /\ reviewing[p] = NoReview
  /\ Len(reviews) + Cardinality({q \in ReviewRequests : reviewing[q].step = "insert"}) < MaxReviews
  /\ ~Tracked(s)
  /\ reviewing' = [reviewing EXCEPT ![p] = [step |-> "insert", subject |-> s, by |-> by]]
  /\ rivals' = IF \E q \in ReviewRequests : reviewing[q].step = "insert" /\ reviewing[q].subject = s
                 THEN rivals \cup {s} ELSE rivals
  /\ UNCHANGED <<reviews, reviewTold, reopened>>

InsertReview(p) ==
  /\ reviewing[p].step = "insert"
  /\ reviews' = Append(reviews, NewReview(reviewing[p].subject))
  /\ reviewTold' = Append(reviewTold,
       <<ReviewEvent("finance_review_created", "none", "OPEN", reviewing[p].by)>>)
  /\ reviewing' = [reviewing EXCEPT ![p] = NoReview]
  /\ UNCHANGED <<rivals, reopened>>

-----------------------------------------------------------------------------
\* updateBusinessFinanceReview, the select for update.  Closing takes a confirmation and
\* a resolution; any other change is free, of closed reviews too.
ReviewUpdates ==
  {g \in [status : ReviewStatuses \cup {Keep}, resolution : {Keep, "given", "cleared"}] :
     g.status \in {"RESOLVED", "CANCELLED"} => g.resolution = "given"}

ReviewFree(i) == ~\E q \in ReviewRequests : reviewing[q].step = "update" /\ reviewing[q].review = i

LockReview(p, i, given, by) ==
  /\ RoomForEvent /\ reviewing[p] = NoReview /\ ReviewFree(i)
  /\ reviewing' = [reviewing EXCEPT ![p] = [step |-> "update", review |-> i, given |-> given, by |-> by,
                                            before |-> reviews[i]]]
  /\ UNCHANGED <<reviews, reviewTold, rivals, reopened>>

NextReviewStatus(r) == IF r.given.status = Keep THEN r.before.status ELSE r.given.status
IsCloseout(r) == NextReviewStatus(r) \in {"RESOLVED", "CANCELLED"}

\* A review that stays closed is closed again by whoever edits it; one that is reopened
\* keeps who closed it.
UpdatedReview(r) ==
  [r.before EXCEPT !.status = NextReviewStatus(r),
                   !.resolution = IF r.given.resolution = Keep THEN @ ELSE r.given.resolution = "given",
                   !.resolvedBy = IF IsCloseout(r) THEN r.by ELSE @]

\* finance_review_records_resolution_check
RowAllowed(row) == row.status \in ActiveReviewStatuses \/ row.resolution

UpdateAction(status) ==
  CASE status = "RESOLVED" -> "finance_review_resolved"
    [] status = "CANCELLED" -> "finance_review_cancelled"
    [] OTHER -> "finance_review_updated"

WriteReview(p) ==
  LET r == reviewing[p]
  IN /\ r.step = "update" /\ RowAllowed(UpdatedReview(r))
     /\ reviews' = [reviews EXCEPT ![r.review] = UpdatedReview(r)]
     /\ reviewTold' = [reviewTold EXCEPT ![r.review] =
          Append(@, ReviewEvent(UpdateAction(NextReviewStatus(r)), r.before.status,
                                NextReviewStatus(r), r.by))]
     /\ reviewing' = [reviewing EXCEPT ![p] = NoReview]
     /\ reopened' = IF r.before.status \notin ActiveReviewStatuses /\ ~IsCloseout(r)
                      THEN reopened \cup {r.before.subject} ELSE reopened
     /\ UNCHANGED rivals

\* A statement fails, or the process stops: the transaction leaves nothing.
AbandonReview(p) ==
  /\ reviewing[p] # NoReview
  /\ reviewing' = [reviewing EXCEPT ![p] = NoReview]
  /\ UNCHANGED <<reviews, reviewTold, rivals, reopened>>

FinanceNext ==
  \E p \in ReviewRequests :
    \/ \E s \in ReviewSubjects, by \in Reviewers : CheckForReview(p, s, by)
    \/ \E i \in DOMAIN reviews, given \in ReviewUpdates, by \in Reviewers : LockReview(p, i, given, by)
    \/ InsertReview(p) \/ WriteReview(p) \/ AbandonReview(p)

-----------------------------------------------------------------------------
FinanceTypeOK ==
  /\ \A i \in DOMAIN reviews : reviews[i] \in [subject : ReviewSubjects, status : ReviewStatuses,
                                 resolution : BOOLEAN, resolvedBy : Reviewers \cup {"nobody"}]
  /\ Len(reviewTold) = Len(reviews) /\ Len(reviews) <= MaxReviews
  /\ \A p \in ReviewRequests : reviewing[p].step \in {"idle", "insert", "update"}

LastTold(i) == reviewTold[i][Len(reviewTold[i])]

\* The audit log tells a review's story without a gap, though its writers run at the same
\* time: each event starts where the one before ended, the last one is what the row holds,
\* and a closed row names the person of that event and has a resolution.
ReviewsTellTheirStory ==
  \A i \in DOMAIN reviews :
    /\ \A k \in 2..Len(reviewTold[i]) : reviewTold[i][k].from = reviewTold[i][k - 1].to
    /\ LastTold(i).to = reviews[i].status
    /\ reviews[i].status \notin ActiveReviewStatuses =>
         reviews[i].resolvedBy = LastTold(i).by /\ reviews[i].resolution

\* Two active reviews of one subject exist only if their creations ran at the same time or
\* a closed one was reopened.
TwinsAreExplained ==
  \A i, j \in DOMAIN reviews :
    /\ i # j /\ reviews[i].subject = reviews[j].subject
    /\ reviews[i].status \in ActiveReviewStatuses /\ reviews[j].status \in ActiveReviewStatuses
    => reviews[i].subject \in rivals \cup reopened
=============================================================================
