------------------------------ MODULE Payments ------------------------------
(***************************************************************************)
(* The payment of one job, from authorization to capture, cancellation and *)
(* refund (payments.service.ts and the payment handlers of the worker).    *)
(*                                                                         *)
(* The job itself moves as JobLifecycle says, which Dispatch implements;   *)
(* the steps that touch the payment are joined with it here.  Stripe is    *)
(* external: its payment intents, the answers it keeps under idempotency   *)
(* keys and the events it sends are modelled from how this code uses them. *)
(*                                                                         *)
(* A handler locks the payment row, calls Stripe inside its database       *)
(* transaction and commits, so it is one action; but Stripe's side of it   *)
(* does not roll back.  Each action that calls Stripe can therefore also   *)
(* end with Stripe moved and the database unchanged (the process died, the *)
(* commit failed, the answer never came).                                  *)
(***************************************************************************)
EXTENDS CancellationSettlement, Sequences, FiniteSets

CONSTANTS Job, Driver, NoDriver,
          Keys,           \* idempotency keys of authorization requests
          NoIntent,       \* SQL null
          Total, Payout,  \* what the customer pays, and the driver's share of it
          RefundAmounts,  \* refunds that staff may make in Stripe's dashboard
          MaxUnassigns,   \* bound: how often operators unassign the driver
          MaxUpdates,     \* bound: refund.updated events sent
          EventsInOrder,  \* Stripe's events arrive in the order they were sent
          HoldsExpire,    \* Stripe cancels authorizations that are not captured in time
          RetriesSuffice  \* no outage of Stripe outlasts the worker's retries

ASSUME AmountsAssumption == Total \in Nat \ {0} /\ Payout \in 0..Total
                            /\ RefundAmounts \subseteq 1..Total
ASSUME BoundsAssumption == MaxUnassigns \in Nat /\ MaxUpdates \in Nat
ASSUME IntentsAssumption == NoIntent \notin Keys \cup {"created"} /\ "created" \notin Keys
ASSUME ScheduleAssumption == {EventsInOrder, HoldsExpire, RetriesSuffice} \subseteq BOOLEAN

VARIABLES
  status, assigned,  \* the job, as in JobLifecycle
  unassigns,         \* how often the job was taken back by the override
  cancelledFrom,     \* fromStatus of the JOB_CANCELLED event
  settlement,        \* jobs.cancellation_settlement_code, _fee_cents and _refund_cents
  payment,           \* the row of payments
  order,             \* customer_orders.status
  payoutReady,       \* payout_ledger has a READY row for the job
  usedKeys,          \* idempotency_keys of authorization requests
  outbox,            \* unprocessed payment messages: <<kind, unassigns when sent>>
  recorded,          \* payment_events.provider_event_id: the events handled
  intents,           \* Stripe: payment intents
  answers,           \* Stripe: what it answered to calls, by their idempotency key
  refunds,           \* Stripe: amounts of the refunds made, in order
  refunded,          \* Stripe: their sum
  events             \* Stripe: the events sent, in order

jobVars == <<status, assigned, unassigns, cancelledFrom>>
rowVars == <<settlement, payment, order, payoutReady, usedKeys, outbox, recorded>>
stripeVars == <<intents, answers, refunds, refunded, events>>
vars == <<jobVars, rowVars, stripeVars>>

Lifecycle == INSTANCE JobLifecycle
  WITH Jobs <- {Job}, Drivers <- {Driver}, Overrides <- {"UNASSIGN_DRIVER"}

IntentIds == {"created"} \cup Keys
IntentStatuses == {"none", "requires_payment_method", "requires_action", "requires_capture",
                   "succeeded", "canceled"}

\* An intent, an event about it, the answer to a call: what Stripe says of an intent.
IntentRecords == [intent : IntentIds \cup {NoIntent}, received : 0..Total,
                  status : IntentStatuses \cup {"refund", "error"}]
Error == [intent |-> NoIntent, status |-> "error", received |-> 0]
Calls == [name : {"create", "confirm", "capture", "cancel", "refund"}, intent : IntentIds \cup {NoIntent},
          amount : 0..Total]

INTENT_CREATE == "PAYMENT_INTENT_CREATE_REQUESTED"
CAPTURE == "PAYMENT_CAPTURE_REQUESTED"
SETTLEMENT == "PAYMENT_CANCELLATION_SETTLEMENT_REQUESTED"
Messages == {INTENT_CREATE, CAPTURE, SETTLEMENT} \X (0..MaxUnassigns)

NewPayment == [status |-> "REQUIRES_PAYMENT_METHOD", intent |-> NoIntent,
               authorized |-> 0, captured |-> 0, refunded |-> 0]

TypeOK ==
  /\ status \in [{Job} -> {"NONE", "DELIVERED", "CANCELLED"} \cup Lifecycle!Unassigned \cup Lifecycle!Carried]
  /\ assigned \in [{Job} -> {Driver, NoDriver}]
  /\ unassigns \in 0..MaxUnassigns
  /\ settlement \in [code : SettlementCodes \cup {"NONE"}, fee : 0..Total, refund : 0..Total]
  /\ payment \in [status : PaymentStatuses \cup {"NONE"}, intent : IntentIds \cup {NoIntent},
                  authorized : 0..Total, captured : 0..Total, refunded : 0..Total]
  /\ order \in {"NONE", "PAYMENT_AUTHORIZED", "PAYMENT_FAILED", "FULFILLED"}
  /\ payoutReady \in BOOLEAN
  /\ usedKeys \subseteq Keys
  /\ outbox \subseteq Messages
  /\ events \in Seq(IntentRecords)
  /\ recorded \subseteq 1..Len(events)
  /\ intents \in [IntentIds -> IntentRecords]
  /\ answers \subseteq [key : Keys \cup Messages, call : Calls, answer : IntentRecords]
  /\ refunds \in Seq(1..Total)
  /\ refunded \in 0..Total

Init ==
  /\ Lifecycle!Init
  /\ unassigns = 0
  /\ cancelledFrom = "NONE"
  /\ settlement = [code |-> "NONE", fee |-> 0, refund |-> 0]
  /\ payment = [NewPayment EXCEPT !.status = "NONE"]
  /\ order = "NONE"
  /\ payoutReady = FALSE
  /\ usedKeys = {}
  /\ outbox = {}
  /\ recorded = {}
  /\ intents = [i \in IntentIds |-> [intent |-> i, status |-> "none", received |-> 0]]
  /\ answers = {}
  /\ refunds = <<>>
  /\ refunded = 0
  /\ events = <<>>

-----------------------------------------------------------------------------
(* Stripe's side of a call. *)

\* A key that Stripe has seen gets the same answer again, if the call is the same.
Repeats(key, call, answer) ==
  /\ \E kept \in answers : kept.key = key /\ answer = IF kept.call = call THEN kept.answer ELSE Error
  /\ UNCHANGED stripeVars

\* The answer may also fail to arrive.
Keeps(key, call, reply, answer) ==
  /\ \A kept \in answers : kept.key # key
  /\ answers' = answers \cup {[key |-> key, call |-> call, answer |-> reply]}
  /\ answer \in {reply, Error}

\* Stripe refuses, or cannot be reached.
Refuses(answer) == answer = Error /\ UNCHANGED stripeVars

\* Of the events that move an intent the platform listens to four; asking the
\* customer for another step (requires_action) is none of them.
MovesTo(o) ==
  /\ intents' = [intents EXCEPT ![o.intent] = o]
  /\ events' = IF o.status = "requires_action" THEN events ELSE Append(events, o)
  /\ UNCHANGED <<refunds, refunded>>

PossibleAnswers(outcomes) == {Error} \cup outcomes \cup {kept.answer : kept \in answers}

createPaymentIntent(key, answer) ==
  LET call == [name |-> "create", intent |-> NoIntent, amount |-> Total]
      o == [intent |-> "created", status |-> "requires_payment_method", received |-> 0]
  IN \/ Repeats(key, call, answer)
     \/ /\ intents["created"].status = "none"
        /\ intents' = [intents EXCEPT !["created"] = o]
        /\ Keeps(key, call, o, answer)
        /\ UNCHANGED <<refunds, refunded, events>>
     \/ Refuses(answer)

\* With no intent given it creates one, named here after the key, and confirms it.
\* A declined card is an error, and leaves the intent waiting for another card.
authorizePaymentIntent(key, target, answer) ==
  LET i == IF target = NoIntent THEN key ELSE target
      call == [name |-> "confirm", intent |-> target, amount |-> Total]
  IN \/ Repeats(key, call, answer)
     \/ /\ intents[i].status \in {"none", "requires_payment_method", "requires_action"}
        /\ \E s \in {"requires_capture", "requires_payment_method", "requires_action"} :
             LET o == [intent |-> i, status |-> s, received |-> 0]
             IN /\ target = NoIntent => s # "requires_action"
                /\ MovesTo(o)
                /\ Keeps(key, call, IF s = "requires_payment_method" THEN Error ELSE o, answer)
     \/ Refuses(answer)

capturePaymentIntent(key, i, amount, answer) ==
  LET call == [name |-> "capture", intent |-> i, amount |-> amount]
      o == [intent |-> i, status |-> "succeeded", received |-> amount]
  IN \/ Repeats(key, call, answer)
     \/ intents[i].status = "requires_capture" /\ MovesTo(o) /\ Keeps(key, call, o, answer)
     \/ Refuses(answer)

cancelPaymentIntent(key, i, answer) ==
  LET call == [name |-> "cancel", intent |-> i, amount |-> 0]
      o == [intent |-> i, status |-> "canceled", received |-> 0]
  IN \/ Repeats(key, call, answer)
     \/ /\ intents[i].status \in {"requires_payment_method", "requires_action", "requires_capture"}
        /\ MovesTo(o) /\ Keeps(key, call, o, answer)
     \/ Refuses(answer)

Refund(i, amount) ==
  /\ intents[i].status = "succeeded"
  /\ refunded + amount <= intents[i].received
  /\ refunds' = Append(refunds, amount)
  /\ refunded' = refunded + amount

refundPaymentIntent(key, i, amount, answer) ==
  LET call == [name |-> "refund", intent |-> i, amount |-> amount]
      o == [intent |-> i, status |-> "refund", received |-> amount]
  IN \/ Repeats(key, call, answer)
     \/ Refund(i, amount) /\ Keeps(key, call, o, answer) /\ UNCHANGED <<intents, events>>
     \/ Refuses(answer)

-----------------------------------------------------------------------------
(* The payment row. *)

mapStripePaymentIntentStatus_PassesOn(o) ==
  CASE o.status = "requires_capture" -> "AUTHORIZED"
    [] o.status = "succeeded" -> "CAPTURED"
    [] o.status = "canceled" -> "CANCELLED"
    [] OTHER -> o.status
mapStripePaymentIntentStatus(o) ==
  CASE o.status = "requires_capture" -> "AUTHORIZED"
    [] o.status = "succeeded" -> IF o.received = Total THEN "CAPTURED" ELSE "PARTIALLY_REFUNDED"
    [] o.status = "canceled" -> "CANCELLED"
    [] o.status = "requires_payment_method" -> "REQUIRES_PAYMENT_METHOD"
    [] OTHER -> "REQUIRES_CONFIRMATION"

Snapshot_CapturesAll(o) ==
  [status |-> mapStripePaymentIntentStatus(o), intent |-> o.intent, authorized |-> Total,
   captured |-> IF o.status = "succeeded" THEN Total ELSE 0, refunded |-> 0]
\* updatePaymentFromSnapshot.  The charge is never expanded, so nothing seems refunded,
\* and the amount of an intent counts as authorized whatever its status.
Snapshot(o) == [status |-> mapStripePaymentIntentStatus(o), intent |-> o.intent,
                authorized |-> Total, captured |-> o.received, refunded |-> 0]

\* Triggers on payments and jobs, and the worker, complete the order.
OrderFollows_PaymentOnly ==
  order' = IF order = "PAYMENT_AUTHORIZED" /\ payment'.status = "CAPTURED" THEN "FULFILLED" ELSE order
OrderFollows ==
  order' = IF order = "PAYMENT_AUTHORIZED" /\ payment'.status = "CAPTURED" /\ status'[Job] = "DELIVERED"
             THEN "FULFILLED" ELSE order

AfterAuthorization(row, answer) ==
  IF answer = Error THEN [row EXCEPT !.status = "FAILED"] ELSE Snapshot(answer)

\* While a new intent's row is not committed, Stripe's event about it finds no payment;
\* it is recorded as ignored.  Events about a known intent wait for the row's lock.
EventMayBeIgnored ==
  recorded' \in {recorded} \cup (IF events' = events THEN {} ELSE {recorded \cup {Len(events')}})

SettlementInput(jobStatus) ==
  [jobStatus |-> jobStatus, total |-> Total, payout |-> Payout, status |-> payment.status,
   captured |-> payment.captured, authorized |-> payment.authorized]

Settled(outcome) == [code |-> outcome.settlementCode, fee |-> outcome.retained, refund |-> outcome.refund]

-----------------------------------------------------------------------------
(* Customers and businesses. *)

\* createJobRequest, with createPaymentForJob.
createJobRequest ==
  /\ Lifecycle!Request(Job)
  /\ payment' = NewPayment
  /\ outbox' = {<<INTENT_CREATE, 0>>}
  /\ UNCHANGED <<unassigns, cancelledFrom, settlement, order, payoutReady, usedKeys, recorded, stripeVars>>

\* Stripe's key holds the new payment's id, so a lost attempt's key is not used again.
submitPublicCustomerOrder(key) ==
  /\ status[Job] = "NONE"
  /\ key \notin usedKeys
  /\ usedKeys' = usedKeys \cup {key}
  /\ \E answer \in PossibleAnswers({[intent |-> key, status |-> "requires_capture", received |-> 0]}) :
       /\ authorizePaymentIntent(key, NoIntent, answer)
       /\ \/ /\ Lifecycle!Request(Job)
             /\ payment' = AfterAuthorization(NewPayment, answer)
             /\ order' = IF payment'.status = "AUTHORIZED" THEN "PAYMENT_AUTHORIZED" ELSE "PAYMENT_FAILED"
             /\ outbox' = {<<INTENT_CREATE, 0>>}
             /\ EventMayBeIgnored
          \/ UNCHANGED <<status, assigned, payment, order, outbox, recorded>>
  /\ UNCHANGED <<unassigns, cancelledFrom, settlement, payoutReady>>

authorizeJobPayment(key) ==
  /\ payment.status \notin {"NONE", "CAPTURED", "PARTIALLY_REFUNDED", "REFUNDED", "CANCELLED"}
  /\ key \notin usedKeys
  /\ UNCHANGED <<jobVars, settlement, payoutReady, outbox>>
  /\ LET target == payment.intent
         i == IF target = NoIntent THEN key ELSE target
     IN \E answer \in PossibleAnswers({[intent |-> i, status |-> s, received |-> 0] :
                                         s \in {"requires_capture", "requires_action"}}) :
          /\ authorizePaymentIntent(key, target, answer)
          /\ \/ /\ payment' = AfterAuthorization(payment, answer)
                /\ usedKeys' = usedKeys \cup {key}
                /\ OrderFollows
                /\ IF target = NoIntent THEN EventMayBeIgnored ELSE UNCHANGED recorded
             \/ UNCHANGED <<payment, usedKeys, order, recorded>>

cancelJob ==
  /\ Lifecycle!Cancel(Job)
  /\ LET preview == determineCancellationSettlement(SettlementInput(status[Job]))
     IN settlement' = Settled(preview)
  /\ cancelledFrom' = status[Job]
  /\ outbox' = outbox \cup {<<SETTLEMENT, unassigns>>}
  /\ UNCHANGED <<unassigns, payment, order, payoutReady, usedKeys, recorded, stripeVars>>

-----------------------------------------------------------------------------
(* Drivers and operators. *)

\* Dispatch and driving, as far as the payment does not notice.
jobMoves ==
  /\ \/ Lifecycle!Search(Job)
     \/ Lifecycle!Take(Job, Driver)
     \/ Lifecycle!Recall(Job)
     \/ status[Job] # "EN_ROUTE_DROP" /\ Lifecycle!Progress(Job)
  /\ UNCHANGED <<unassigns, cancelledFrom, rowVars, stripeVars>>

\* The delivery asks for the capture, of what is authorized at that moment.
enqueueCaptureForDeliveredJob ==
  /\ status[Job] = "EN_ROUTE_DROP"
  /\ Lifecycle!Progress(Job)
  /\ outbox' = outbox \cup IF payment.status = "AUTHORIZED" THEN {<<CAPTURE, unassigns>>} ELSE {}
  /\ payment' = payment
  /\ OrderFollows
  /\ UNCHANGED <<unassigns, cancelledFrom, settlement, payoutReady, usedKeys, recorded, stripeVars>>

applyManualUnassign ==
  /\ unassigns < MaxUnassigns
  /\ Lifecycle!Unassign(Job)
  /\ unassigns' = unassigns + 1
  /\ UNCHANGED <<cancelledFrom, rowVars, stripeVars>>

-----------------------------------------------------------------------------
(* The worker.  A message is the idempotency key of the call it makes. *)

NotHandled_GivesUp(m, answer) ==
  /\ UNCHANGED <<settlement, payment, order, payoutReady>>
  /\ \/ UNCHANGED outbox
     \/ answer = Error /\ outbox' = outbox \ {m}

\* The handler did not commit, or Stripe's error is noted for a later attempt; after
\* the last attempt the message is given up.
NotHandled(m, answer) ==
  /\ UNCHANGED <<settlement, payment, order, payoutReady>>
  /\ \/ UNCHANGED outbox
     \/ answer = Error /\ ~RetriesSuffice /\ outbox' = outbox \ {m}

NothingToDo(m) ==
  /\ outbox' = outbox \ {m}
  /\ payment' = payment
  /\ OrderFollows
  /\ UNCHANGED <<settlement, payoutReady, stripeVars>>

HasIntent_Captured == payment.status = "CAPTURED"
HasIntent == payment.intent # NoIntent

handlePaymentIntentCreateRequested(m) ==
  /\ m \in outbox /\ m[1] = INTENT_CREATE
  /\ UNCHANGED <<jobVars, usedKeys, recorded>>
  /\ \/ HasIntent /\ NothingToDo(m)
     \/ /\ ~HasIntent
        /\ \E answer \in PossibleAnswers({[intent |-> "created", received |-> 0,
                                           status |-> "requires_payment_method"]}) :
             /\ createPaymentIntent(m, answer)
             /\ \/ /\ answer # Error
                   /\ payment' = Snapshot(answer)
                   /\ outbox' = outbox \ {m}
                   /\ OrderFollows
                   /\ UNCHANGED <<settlement, payoutReady>>
                \/ NotHandled(m, answer)

Capturable_AnyJob == payment.status = "AUTHORIZED" /\ payment.intent # NoIntent
Capturable == status[Job] = "DELIVERED" /\ payment.status = "AUTHORIZED" /\ payment.intent # NoIntent

handlePaymentCaptureRequested(m) ==
  /\ m \in outbox /\ m[1] = CAPTURE
  /\ UNCHANGED <<jobVars, usedKeys, recorded>>
  /\ \/ ~Capturable /\ NothingToDo(m)
     \/ /\ Capturable
        /\ \E answer \in PossibleAnswers({[intent |-> payment.intent, status |-> "succeeded",
                                           received |-> Total]}) :
             /\ capturePaymentIntent(m, payment.intent, Total, answer)
             /\ \/ /\ answer # Error
                   /\ payment' = Snapshot(answer)
                   /\ outbox' = outbox \ {m}
                   /\ OrderFollows
                   /\ payoutReady' = (payoutReady \/ (payment'.status = "CAPTURED" /\ assigned[Job] # NoDriver))
                   /\ UNCHANGED settlement
                \/ NotHandled(m, answer)

-----------------------------------------------------------------------------
(* The settlement of a cancelled job. *)

\* The settlement is recomputed, from the job's status of now.
Due == determineCancellationSettlement(SettlementInput(status[Job]))

CancelAuthorization(m, answer) ==
  /\ Due.providerAction = "CANCEL_AUTHORIZATION"
  /\ cancelPaymentIntent(m, payment.intent, answer)

CaptureFee(m, answer) ==
  /\ Due.providerAction = "CAPTURE_CANCELLATION_FEE"
  /\ capturePaymentIntent(m, payment.intent, Due.retained, answer)

RefundCaptured(m, answer) ==
  /\ Due.providerAction = "REFUND_CAPTURED_PAYMENT"
  /\ refundPaymentIntent(m, payment.intent, Due.refund, answer)

AfterRefund(row, amount) ==
  [row EXCEPT !.refunded = Greatest(row.refunded, amount),
              !.status = IF row.captured = amount THEN "REFUNDED" ELSE "PARTIALLY_REFUNDED"]

WithoutProvider(row) ==
  [row EXCEPT !.status = IF row.status \in {"CAPTURED", "PARTIALLY_REFUNDED", "REFUNDED"}
                           THEN row.status ELSE "CANCELLED"]

SettlementAnswers ==
  PossibleAnswers({[intent |-> payment.intent, status |-> "canceled", received |-> 0],
                   [intent |-> payment.intent, status |-> "succeeded", received |-> Due.retained],
                   [intent |-> payment.intent, status |-> "refund", received |-> Due.refund]})

handlePaymentCancellationSettlementRequested(m) ==
  /\ m \in outbox /\ m[1] = SETTLEMENT
  /\ UNCHANGED <<jobVars, usedKeys, recorded>>
  /\ \/ /\ Due.providerAction = "NONE" \/ payment.intent = NoIntent
        /\ payment' = WithoutProvider(payment)
        /\ settlement' = Settled(Due)
        /\ outbox' = outbox \ {m}
        /\ OrderFollows
        /\ UNCHANGED <<payoutReady, stripeVars>>
     \/ /\ payment.intent # NoIntent
        /\ \E answer \in SettlementAnswers :
             /\ \/ CancelAuthorization(m, answer)
                \/ CaptureFee(m, answer)
                \/ RefundCaptured(m, answer)
             /\ \/ /\ answer # Error
                   /\ payment' = IF answer.status = "refund" THEN AfterRefund(payment, answer.received)
                                                            ELSE Snapshot(answer)
                   /\ settlement' = Settled(Due)
                   /\ outbox' = outbox \ {m}
                   /\ OrderFollows
                   /\ UNCHANGED payoutReady
                \/ NotHandled(m, answer)

-----------------------------------------------------------------------------
(* Stripe's events. *)

AfterRefundEvent_Unbounded(row, amount) ==
  [row EXCEPT !.refunded = row.refunded + amount,
              !.status = IF row.refunded + amount >= row.captured THEN "REFUNDED" ELSE "PARTIALLY_REFUNDED"]
\* upsertRefundFromProvider.  The row's refunds are added to, whichever refund it is.
AfterRefundEvent(row, amount) ==
  LET total == row.refunded + amount
  IN [row EXCEPT !.refunded = Greatest(row.refunded, Least(total, row.captured)),
                 !.status = IF total >= row.captured THEN "REFUNDED" ELSE "PARTIALLY_REFUNDED"]

AfterEvent_NotCharged(row, e) ==
  CASE e.status = "refund" -> AfterRefundEvent(row, e.received)
    [] e.status = "succeeded" -> row
    [] OTHER -> Snapshot(e)
AfterEvent(row, e) == IF e.status = "refund" THEN AfterRefundEvent(row, e.received) ELSE Snapshot(e)

\* An event handled once is not handled again, so Stripe's repetitions change nothing.
handleStripeWebhook(n) ==
  /\ n \in DOMAIN events \ recorded
  /\ EventsInOrder => 1..n-1 \subseteq recorded
  /\ UNCHANGED <<jobVars, settlement, payoutReady, usedKeys, outbox, stripeVars>>
  /\ recorded' = recorded \cup {n}
  /\ payment' = IF events[n].intent = payment.intent THEN AfterEvent(payment, events[n]) ELSE payment
  /\ OrderFollows

dashboardRefund(amount) ==
  /\ payment.intent # NoIntent
  /\ Refund(payment.intent, amount)
  /\ UNCHANGED <<jobVars, rowVars, intents, answers, events>>

\* Stripe reports on a refund, as often as the refund changes.
refundUpdated(n) ==
  /\ n \in DOMAIN refunds
  /\ Cardinality({e \in DOMAIN events : events[e].status = "refund"}) < MaxUpdates
  /\ events' = Append(events, [intent |-> payment.intent, status |-> "refund", received |-> refunds[n]])
  /\ UNCHANGED <<jobVars, rowVars, intents, answers, refunds, refunded>>

\* An authorization is held for some days; then Stripe cancels the intent.
holdExpires(i) ==
  /\ HoldsExpire
  /\ intents[i].status = "requires_capture"
  /\ MovesTo([intent |-> i, status |-> "canceled", received |-> 0])
  /\ UNCHANGED <<jobVars, rowVars, answers>>

-----------------------------------------------------------------------------
WorkerHandles(m) == \/ handlePaymentIntentCreateRequested(m)
                    \/ handlePaymentCaptureRequested(m)
                    \/ handlePaymentCancellationSettlementRequested(m)

Next ==
  \/ createJobRequest
  \/ \E key \in Keys : submitPublicCustomerOrder(key) \/ authorizeJobPayment(key)
  \/ jobMoves \/ enqueueCaptureForDeliveredJob \/ cancelJob \/ applyManualUnassign
  \/ \E m \in outbox : WorkerHandles(m)
  \/ \E n \in DOMAIN events : handleStripeWebhook(n)
  \/ \E amount \in RefundAmounts : dashboardRefund(amount)
  \/ \E n \in DOMAIN refunds : refundUpdated(n)
  \/ \E i \in IntentIds : holdExpires(i)

\* The worker keeps trying what is in the outbox and Stripe repeats an event until it
\* is accepted; nobody is obliged to order, drive, cancel or refund.
Fairness ==
  /\ \A m \in Messages : WF_vars(WorkerHandles(m) /\ m \notin outbox')
  /\ WF_vars(\E n \in DOMAIN events : handleStripeWebhook(n))

Spec == Init /\ [][Next]_vars
FairSpec == Spec /\ Fairness

-----------------------------------------------------------------------------
(* Properties. *)

\* The CHECKs of the payments table, which would otherwise fail the handler: a webhook
\* or a settlement never books more refunded than captured, or captured than authorized.
AmountsConsistent ==
  /\ payment.refunded <= payment.captured
  /\ payment.captured <= payment.authorized \/ payment.authorized = 0

\* A customer's card is charged through one intent at most, however many intents lost
\* authorizations and late INTENT_CREATE messages have left behind.
ChargedOnce == Cardinality({i \in IntentIds : intents[i].received > 0}) <= 1

\* The cents that a row calls captured are those that Stripe received for its intent,
\* so that settlements and refunds are computed from real money.
CapturedIsReceived == payment.captured > 0 => payment.captured = intents[payment.intent].received

\* The whole price is taken only for a job that is delivered at that moment, although
\* the message that asks for it may arrive after an operator took the job back.
ChargedInFullOnDelivery ==
  [][\A i \in IntentIds : intents'[i].received = Total /\ intents[i].received # Total
                            => status[Job] = "DELIVERED"]_vars

\* An order is fulfilled and a driver's payout released only when, in that step, the job
\* is delivered and Stripe has the customer's money.
NothingIsPaidOutUncharged ==
  [][(order' = "FULFILLED" /\ order # "FULFILLED") \/ (payoutReady' /\ ~payoutReady)
       => status'[Job] = "DELIVERED" /\ intents'[payment'.intent].received = Total]_vars

\* When Stripe's events come in order and all are handled, the row says what Stripe
\* received, whatever calls and commits were lost on the way.
RecordConverges ==
  EventsInOrder /\ recorded = DOMAIN events /\ payment.intent # NoIntent
    => payment.captured = intents[payment.intent].received

\* A capture that a delivery asked for happens, if the worker survives Stripe's outages, unless
\* the row stops being AUTHORIZED first: a repeated authorization that fails or asks for
\* another step, and a late event about a declined card, overwrite it.  The worker then finds
\* nothing to capture, the request counts as handled, and nobody asks again, even when the
\* next event makes the row AUTHORIZED once more.
DeliveredIsCaptured ==
  outbox \cap ({CAPTURE} \X (0..MaxUnassigns)) # {}
    ~> payment.captured = Total \/ payment.status # "AUTHORIZED"

-----------------------------------------------------------------------------
(* What the documents say, and the code does not do. *)

\* docs/runbooks/phase1-api.md gives each status in which a job is cancelled its settlement: the job
\* keeps the code of the status that it was cancelled from.
SettlementFollowsMatrix ==
  status[Job] = "CANCELLED" =>
    settlement.code = determineCancellationSettlement(SettlementInput(cancelledFrom)).settlementCode
=============================================================================
