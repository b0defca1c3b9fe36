------------------------------- MODULE Closeout ------------------------------
(***************************************************************************)
(* What the daily briefing and the end-of-day report (apps/api) make of    *)
(* all orders and support records together: which of them they read, which *)
(* they list, cut off at a number, and whether they call the day quiet;    *)
(* and what the platform's intervention queue reads of the same orders.    *)
(***************************************************************************)
EXTENDS Attention, FiniteSets, Sequences

CONSTANTS MaxCritical,   \* items of a briefing
          MaxActions,    \* actions of a report
          BriefedRows,   \* orders that the briefing's query returns, the latest changed
          BriefedSupport,  \* support records that the briefing's query returns, the oldest
          ReportedSupport, \* support records that the report's query returns, the oldest
          QueueRows,     \* rows that a query of the intervention queue returns
          MaxRows        \* bound: orders there are

ASSUME ListsAssumption ==
  /\ MaxCritical \in Nat \ {0} /\ MaxActions \in Nat \ {0} /\ MaxRows \in Nat /\ BriefedRows \in Nat
  /\ BriefedSupport \in Nat \ {0} /\ ReportedSupport \in Nat \ {0} /\ QueueRows \in Nat

\* One order for each thing that can be the matter with it, or nothing.  age is of the
\* job's last change; since, of its failed dispatch or else of its payment's last change.
Telling(job, payment, order, payout, age, since) ==
  [job |-> job, payment |-> payment, order |-> order, payout |-> payout, held |-> FALSE,
   age |-> age, since |-> since]
TellingOrders ==
  {Telling("DISPATCH_FAILED", "AUTHORIZED", "PAYMENT_AUTHORIZED", NoLedger, 10, 25),
   Telling("CANCELLED", "FAILED", "PAYMENT_FAILED", NoLedger, 30, 5),
   Telling("DELIVERED", "AUTHORIZED", "PAYMENT_AUTHORIZED", NoLedger, 20, 50),
   Telling("REQUESTED", "AUTHORIZED", "PAYMENT_AUTHORIZED", NoLedger, 15, 15),
   Telling("ASSIGNED", "AUTHORIZED", "PAYMENT_AUTHORIZED", NoLedger, 31, 40),
   Telling("PICKED_UP", "AUTHORIZED", "PAYMENT_AUTHORIZED", NoLedger, 31, 50),
   Telling("DELIVERED", "CAPTURED", "FULFILLED", "FAILED", 40, 40),
   Telling("DELIVERED", "CAPTURED", "FULFILLED", "READY", 50, 50)}
TellingRecords == [severity : {"LOW", "HIGH"}, age : {5, 25}, open : BOOLEAN]

\* The orders of one scope, the latest changed first; today: which of them were created on the day of
\* the report.  The support records that are open or were closed today, the oldest first.
Days ==
  {day \in [area : {"closeout"}, orders : UNION {[1..n -> TellingOrders] : n \in 0..MaxRows},
            today : SUBSET (1..MaxRows), records : UNION {[1..n -> TellingRecords] : n \in 0..2}] :
     \A i, k \in DOMAIN day.records : i < k => day.records[i].age >= day.records[k].age}

OfTheDay(day) == DOMAIN day.orders \cap day.today
OpenRecords(day) == {i \in DOMAIN day.records : day.records[i].open}
BriefedRecords(day) ==
  {i \in OpenRecords(day) : Cardinality({k \in OpenRecords(day) : k < i}) < BriefedSupport}
HighRecords(day) == {i \in BriefedRecords(day) : day.records[i].severity # "LOW"}
ReportedRecords(day) == {i \in OpenRecords(day) : i <= ReportedSupport}

-----------------------------------------------------------------------------
\* CATEGORY_CONFIG, and the oldest open support record, which stands for all of them.
SeverityOf(category) == IF category \in {"dispatch_failed", "payment_failed", "delivered_uncaptured"}
                        THEN "danger" ELSE "warning"
BriefedOrders(day) ==
  {i \in DOMAIN day.orders : i <= BriefedRows /\ getBriefingCategory(day.orders[i]) # "none"}
DetectedAge(r) ==
  IF getBriefingCategory(r) \in {"dispatch_failed", "payment_failed"} THEN r.since ELSE r.age
SupportFollowUp(day) ==
  [at |-> MaxRows + 1, severity |-> IF HighRecords(day) # {} THEN "danger" ELSE "warning",
   age |-> IF \E i \in BriefedRecords(day) : day.records[i].age = 25 THEN 25 ELSE 5]
BriefingItems(day) ==
  {[at |-> i, severity |-> SeverityOf(getBriefingCategory(day.orders[i])),
    age |-> DetectedAge(day.orders[i])] : i \in BriefedOrders(day)}
  \cup (IF BriefedRecords(day) = {} THEN {} ELSE {SupportFollowUp(day)})

\* Dangers first, then the older, then as the rows came; what is beyond the limit is cut.
Worse(x, y) == \/ x.severity = "danger" /\ y.severity # "danger"
               \/ x.severity = y.severity /\ x.age > y.age
Before(x, y) == Worse(x, y) \/ (~Worse(y, x) /\ x.at < y.at)
CriticalItems(day) ==
  {x \in BriefingItems(day) : Cardinality({y \in BriefingItems(day) : Before(y, x)}) < MaxCritical}
OperationsLookClear(day) == CriticalItems(day) = {}

-----------------------------------------------------------------------------
\* buildAction gives one action or two to an order, buildSupportAction one to a record;
\* they are cut in the order in which the rows came.  Only orders created on the day of
\* the report are rows of it.
ActionsOf(category) ==
  CASE category = "none" -> {}
    [] category = "stale_job" -> {"CHECK_DELAYED_ORDER", "REVIEW_CUSTOMER_COMMUNICATION_DRAFT"}
    [] category = "dispatch_failed" -> {"RETRY_DISPATCH"}
    [] category = "active_without_driver" -> {"ASSIGN_DRIVER"}
    [] OTHER -> {"REVIEW_PAYMENT_RISK"}
ReportedOrders(day) == {i \in OfTheDay(day) : getReportCategory(day.orders[i]) # "none"}
OrderActions(day) == UNION {{<<i, a>> : a \in ActionsOf(getReportCategory(day.orders[i]))} : i \in ReportedOrders(day)}
UnresolvedCount(day) == Least(MaxActions, Cardinality(OrderActions(day)) + Cardinality(ReportedRecords(day)))
EvidenceCount(day) == Least(MaxActions, Cardinality(ReportedOrders(day)) + Cardinality(ReportedRecords(day)))
NoUnresolvedItems(day) == UnresolvedCount(day) = 0

DriverFollowUps(day) ==
  {i \in ReportedOrders(day) : /\ getReportCategory(day.orders[i]) = "stale_job"
                               /\ day.orders[i].job \in {"ASSIGNED", "EN_ROUTE_PICKUP"}}
DelayIncidents(day) == {i \in OfTheDay(day) : isDelayedJob(day.orders[i])}
PaymentRisks(day) == {i \in OfTheDay(day) : isPaymentRisk(day.orders[i])}

-----------------------------------------------------------------------------
\* The platform's queue: the rows that match a query, and what the query may return of
\* them; the columns it sorts by are others than those of the briefing.  The overview cuts
\* the four results together once more, which the properties below do not rely on.
Queueable(day, queue) == {i \in DOMAIN day.orders : queue \in Interventions(day.orders[i])}
QueueResults(day, queue) ==
  {rows \in SUBSET Queueable(day, queue) :
     Cardinality(rows) = Least(QueueRows, Cardinality(Queueable(day, queue)))}
QueueOf(category) == IF category = "dispatch_failed" THEN "dispatch_failed" ELSE "payment_failure"

-----------------------------------------------------------------------------
\* Of the rows its query returned, a briefing never drops one that is in a worse state than
\* one it lists, or has been as bad for longer.
WorstComesFirst ==
  About("closeout") =>
    \A x \in CriticalItems(case), y \in BriefingItems(case) \ CriticalItems(case) : ~Worse(y, x)

\* The three lists differ in nothing but what they read and payouts: what is briefed and
\* not reported was created on another day; what is reported and not briefed is a payout
\* or changed earlier than the orders the briefing reads, and so did whatever the queue
\* shows and the briefing does not; and a failure that is briefed is missing from what
\* its query returns only if that is full.
WindowsExplain ==
  About("closeout") =>
    /\ \A i \in BriefedOrders(case) \ ReportedOrders(case) : i \notin case.today
    /\ \A i \in ReportedOrders(case) \ BriefedOrders(case) :
         i > BriefedRows \/ getReportCategory(case.orders[i]) = "payout_review"
    /\ \A queue \in Queues : \A rows \in QueueResults(case, queue) :
         \A i \in rows \ BriefedOrders(case) : i > BriefedRows
    /\ \A failure \in {"dispatch_failed", "payment_failed"} : \A rows \in QueueResults(case, QueueOf(failure)) :
         \A i \in BriefedOrders(case) \ rows :
           getBriefingCategory(case.orders[i]) = failure => Cardinality(rows) = QueueRows

\* A briefing is clear only without open support records, and then a delay of today is one
\* of an order that changed earlier than those it reads.  A report has nothing unresolved
\* only if no order of its day has a payment risk, a delay or a follow-up, whatever is
\* briefed is of another day, and a record is open only behind as many older ones as it
\* reads.  If only the briefing is clear, the report tells of payouts and such orders.
QuietDaysAreQuiet ==
  About("closeout") =>
    /\ OperationsLookClear(case) => OpenRecords(case) = {} /\ \A i \in DelayIncidents(case) : i > BriefedRows
    /\ NoUnresolvedItems(case) =>
         /\ DelayIncidents(case) = {} /\ PaymentRisks(case) = {}
         /\ EvidenceCount(case) = 0 /\ DriverFollowUps(case) = {}
         /\ BriefedOrders(case) \cap case.today = {} /\ \A i \in OpenRecords(case) : i > ReportedSupport
    /\ OperationsLookClear(case) /\ ~NoUnresolvedItems(case) =>
         \A i \in ReportedOrders(case) : i > BriefedRows \/ getReportCategory(case.orders[i]) = "payout_review"

\* The lists that people work through see the same risk in the same row (the briefing, the
\* report, the queues, the finance pages and the jobs console), and differ as lists only
\* by the rows that their queries read.
RiskIsSeenAlike ==
  /\ BriefedIsReported /\ QueuesAgree /\ RiskSeenAlike /\ FinanceSeesRisk /\ OrderPageAgrees
  /\ FlaggedJobsAreReviewed /\ WorstComesFirst /\ WindowsExplain /\ QuietDaysAreQuiet
=============================================================================
