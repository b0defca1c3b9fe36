--------------------------- MODULE PaymentsProofs ---------------------------
(***************************************************************************)
(* The payment of a job for every price, set of keys, refund and order of   *)
(* events: a card is charged through one intent, the row calls captured     *)
(* what Stripe received, the whole price is taken for a delivery only, and   *)
(* nothing is paid out that was not charged.                                 *)
(*                                                                           *)
(* Each action is taken apart once: what Stripe did (StripeStep), what       *)
(* became of the payment row (RowStep) and which events were noted           *)
(* (RecordedStep).  That the invariant survives is proved from these three.  *)
(***************************************************************************)
EXTENDS Payments, FiniteSetTheorems, TLAPS

ChargedStatuses == {"CAPTURED", "PARTIALLY_REFUNDED", "REFUNDED"}

PaymentRecords == [status : PaymentStatuses \cup {"NONE"}, intent : IntentIds \cup {NoIntent},
                   authorized : 0..Total, captured : 0..Total, refunded : 0..Total]
AnswerRecords == [key : Keys \cup Messages, call : Calls, answer : IntentRecords]

-----------------------------------------------------------------------------
\* The invariant

\* Stripe has received money for exactly the intents that succeeded.
IntentsAreSane ==
  \A i \in IntentIds :
    /\ intents[i].intent = i
    /\ intents[i].status \in IntentStatuses
    /\ intents[i].received > 0 <=> intents[i].status = "succeeded"

\* What Stripe keeps under a key answers the call it was kept for, and an answer that
\* settles an intent is still true of it.
TrueAnswer(k) ==
  /\ k.call.name = "create" =>
       k.answer.intent = "created" /\ k.answer.status = "requires_payment_method" /\ k.answer.received = 0
  /\ k.call.name = "confirm" /\ k.answer # Error =>
       /\ k.answer.intent = (IF k.call.intent = NoIntent THEN k.key ELSE k.call.intent)
       /\ k.answer.status \in {"requires_capture", "requires_action"} /\ k.answer.received = 0
  /\ k.call.name = "capture" =>
       k.call.intent \in IntentIds /\ k.answer.status = "succeeded" /\ intents[k.call.intent] = k.answer
  /\ k.call.name = "cancel" =>
       k.call.intent \in IntentIds /\ k.answer.status = "canceled" /\ intents[k.call.intent] = k.answer
  /\ k.call.name = "refund" => k.answer.status = "refund" /\ k.answer.received = k.call.amount
AnswersAreTrue == \A k \in answers : TrueAnswer(k)

\* Events are about intents; one about a charge is still true of its intent.
EventsAreTrue ==
  \A n \in DOMAIN events :
    /\ events[n].intent \in IntentIds
    /\ events[n].status = "succeeded" => intents[events[n].intent] = events[n]
    /\ events[n].status \notin {"succeeded", "refund"} => events[n].received = 0

\* Each charge is told of, and nothing but refunds is told of its intent afterwards.
ChargesAreTold ==
  \A i \in IntentIds : intents[i].status = "succeeded" => \E n \in DOMAIN events : events[n] = intents[i]
ChargesAreLast ==
  \A m, n \in DOMAIN events :
    m < n /\ events[m].status = "succeeded" /\ events[m].intent = events[n].intent => events[n].status = "refund"

\* Only the intent of the row is charged, and only its charge refunded.
ChargedIsOurs == \A i \in IntentIds : intents[i].status = "succeeded" => i = payment.intent
RefundsAreOurs == refunds # <<>> => payment.intent # NoIntent

StripeInv == /\ IntentsAreSane /\ AnswersAreTrue /\ EventsAreTrue
             /\ ChargesAreTold /\ ChargesAreLast /\ ChargedIsOurs /\ RefundsAreOurs

\* A row with captured cents has a status that no authorization overwrites; CAPTURED is the whole price.
StatusFits == /\ payment.captured > 0 => payment.status \in ChargedStatuses /\ payment.intent # NoIntent
              /\ payment.status = "CAPTURED" => payment.captured = Total

\* If events come in order, a charge that was heard of is in the row, with all events before it.
HeardInOrder ==
  EventsInOrder => \A n \in recorded : events[n].status = "succeeded" =>
    /\ 1..(n - 1) \subseteq recorded
    /\ events[n].intent = payment.intent => payment.captured = events[n].received

\* Before the job there is no payment.
NothingBeforeTheJob ==
  status[Job] = "NONE" => payment = [NewPayment EXCEPT !.status = "NONE"] /\ outbox = {}

RowInv == AmountsConsistent /\ CapturedIsReceived /\ StatusFits /\ HeardInOrder

Inv == TypeOK /\ StripeInv /\ RowInv /\ NothingBeforeTheJob

-----------------------------------------------------------------------------
\* The operators

\* The minimum fee never exceeds the price.
LEMMA FeeBounds == /\ afterAssignmentPolicyFee(Total) \in 1..Total
                   /\ Total > 250 => afterAssignmentPolicyFee(Total) < Total
<1>1. Percent(Total, 15) \in Nat /\ (Total > 250 => Percent(Total, 15) < Total)
  BY AmountsAssumption DEF Percent
<1>2. QED BY <1>1, AmountsAssumption DEF afterAssignmentPolicyFee, Least, Greatest

\* What a settlement asks for, whatever the state: fees within the price, refunds of what
\* was captured, no call that the row's amounts do not fit.
LEMMA DueBounds ==
  ASSUME TypeOK
  PROVE  /\ Due.retained \in 0..Total /\ Due.refund \in 0..payment.captured
         /\ Due.settlementCode \in SettlementCodes
         /\ Due.providerAction = "REFUND_CAPTURED_PAYMENT" => Due.refund > 0 /\ payment.captured > 0
         /\ Due.providerAction = "CAPTURE_CANCELLATION_FEE" =>
              /\ Due.retained > 0 /\ payment.captured = 0
              /\ Due.retained = afterAssignmentPolicyFee(Total)
         /\ Due.providerAction = "CANCEL_AUTHORIZATION" => payment.captured = 0
<1> DEFINE in == SettlementInput(status[Job])
<1>1. /\ in.captured = payment.captured /\ in.total = Total /\ in.captured \in 0..Total
      /\ Total \in Nat
  BY AmountsAssumption DEF TypeOK, SettlementInput
<1>2. afterAssignmentPolicyFee(Total) \in 1..Total
  BY FeeBounds
<1>3. Due = determineCancellationSettlement(in)
  BY DEF Due
<1> HIDE DEF in
<1>4. CASE Due = ReleaseInFull(in)
  BY <1>1, <1>4 DEF ReleaseInFull, Outcome, SettlementCodes
<1>5. CASE Due = RetainFee(in)
  <2>1. /\ Retained(in) \in 0..Total /\ RefundBeyondFee(in) \in 0..in.captured
        /\ in.captured <= 0 /\ Held(in) => Retained(in) = afterAssignmentPolicyFee(Total)
    BY <1>1, <1>2 DEF Retained, RefundBeyondFee, Least, Greatest
  <2>2. /\ Due.retained = Retained(in) /\ Due.refund = RefundBeyondFee(in)
        /\ Due.settlementCode = "AFTER_ASSIGNMENT_CANCELLATION_FEE" /\ Due.providerAction = FeeAction(in)
    BY <1>5 DEF RetainFee, Outcome
  <2>3. QED BY <1>1, <2>1, <2>2 DEF FeeAction, SettlementCodes
<1>6. CASE Due = ManualReview(in)
  BY <1>1, <1>6 DEF ManualReview, Outcome, SettlementCodes
<1>7. QED BY <1>3, <1>4, <1>5, <1>6 DEF determineCancellationSettlement

LEMMA ErrorType == Error \in IntentRecords /\ Error.status = "error"
BY AmountsAssumption DEF Error, IntentRecords

\* The row an intent's state is copied to.
LEMMA SnapshotType ==
  ASSUME NEW o \in IntentRecords
  PROVE  /\ Snapshot(o) \in PaymentRecords
         /\ Snapshot(o).intent = o.intent /\ Snapshot(o).authorized = Total
         /\ Snapshot(o).captured = o.received /\ Snapshot(o).refunded = 0
         /\ o.status = "succeeded" => /\ Snapshot(o).status \in {"CAPTURED", "PARTIALLY_REFUNDED"}
                                      /\ Snapshot(o).status = "CAPTURED" => o.received = Total
         /\ o.status # "succeeded" => Snapshot(o).status # "CAPTURED"
         /\ Snapshot(o).status # "NONE"
<1>1. mapStripePaymentIntentStatus(o) \in PaymentStatuses
  BY DEF mapStripePaymentIntentStatus, PaymentStatuses
<1>2. Total \in 0..Total /\ 0 \in 0..Total /\ o.received \in 0..Total /\ o.intent \in IntentIds \cup {NoIntent}
  BY AmountsAssumption DEF IntentRecords
<1>3. Snapshot(o) \in PaymentRecords
  BY <1>1, <1>2 DEF Snapshot, PaymentRecords
<1>4. QED BY <1>3 DEF Snapshot, mapStripePaymentIntentStatus

-----------------------------------------------------------------------------
\* The parts of a step

\* An intent that was not settled moves to o, and Stripe tells of it unless it only asks for another step.
Moves(o) ==
  /\ o \in IntentRecords /\ o.intent \in IntentIds /\ o.status \in IntentStatuses
  /\ o.received > 0 <=> o.status = "succeeded"
  /\ o.status = "succeeded" => o.intent = payment.intent
  /\ intents[o.intent].status \notin {"succeeded", "canceled"}
  /\ intents' = [intents EXCEPT ![o.intent] = o]
  /\ events' = Append(events, o) \/ (events' = events /\ o.status # "succeeded")
  /\ UNCHANGED <<refunds, refunded>>

\* Money is given back.
Returns == /\ payment.intent # NoIntent
           /\ refunds' \in Seq(1..Total) /\ refunded' \in 0..Total
           /\ UNCHANGED <<intents, events>>

\* A refund is told of.
Tells == /\ \E e \in IntentRecords : e.intent \in IntentIds /\ e.status = "refund" /\ events' = Append(events, e)
         /\ UNCHANGED <<intents, refunds, refunded>>

\* Stripe keeps what it answered.
Learns == \A k \in answers' : k \in answers \/ (k \in AnswerRecords /\ TrueAnswer(k)')

StripeStep == /\ Learns
              /\ \/ UNCHANGED <<intents, events, refunds, refunded>>
                 \/ \E o \in IntentRecords : Moves(o)
                 \/ Returns
                 \/ Tells

\* The row stays, but for a status that says nothing of money.
KeepsRow ==
  /\ payment'.intent = payment.intent /\ payment'.authorized = payment.authorized
  /\ payment'.captured = payment.captured /\ payment'.refunded = payment.refunded
  /\ payment'.status = payment.status \/ (payment.captured = 0 /\ payment'.status # "CAPTURED")

\* The row copies what is true of its intent, and never an old answer over a charge heard of.
CopiesIntent(o) ==
  /\ payment' = Snapshot(o) /\ o.intent \in IntentIds
  /\ payment.intent # NoIntent => o.intent = payment.intent
  /\ o.received > 0 => o.status = "succeeded" /\ intents'[o.intent] = o
  /\ EventsInOrder => \A n \in recorded : events[n].status = "succeeded" /\ events[n].intent = o.intent
                                            => o.received = events[n].received

\* The row books a refund.
BooksRefund ==
  /\ payment'.intent = payment.intent /\ payment'.authorized = payment.authorized
  /\ payment'.captured = payment.captured /\ payment'.refunded \in 0..payment.captured
  /\ payment'.status \in {"REFUNDED", "PARTIALLY_REFUNDED"}

RowStep == /\ payment' \in PaymentRecords
           /\ KeepsRow \/ (\E o \in IntentRecords : CopiesIntent(o)) \/ BooksRefund

\* The events noted are known; one about a charge is noted in its turn and is in the row.
RecordedStep ==
  /\ recorded \subseteq recorded' /\ recorded' \subseteq DOMAIN events'
  /\ EventsInOrder => \A n \in recorded' \ recorded : events'[n].status = "succeeded" =>
       /\ 1..(n - 1) \subseteq recorded'
       /\ events'[n].intent = payment'.intent => payment'.captured = events'[n].received

\* Everything else has its type.
RestTyped ==
  /\ status' \in [{Job} -> {"NONE", "DELIVERED", "CANCELLED"} \cup Lifecycle!Unassigned \cup Lifecycle!Carried]
  /\ assigned' \in [{Job} -> {Driver, NoDriver}]
  /\ unassigns' \in 0..MaxUnassigns
  /\ settlement' \in [code : SettlementCodes \cup {"NONE"}, fee : 0..Total, refund : 0..Total]
  /\ order' \in {"NONE", "PAYMENT_AUTHORIZED", "PAYMENT_FAILED", "FULFILLED"}
  /\ payoutReady' \in BOOLEAN
  /\ usedKeys' \subseteq Keys
  /\ outbox' \subseteq Messages

\* What is settled stays as it was, and what was told stays told.
LEMMA StripeKeepsCharges ==
  ASSUME TypeOK, StripeInv, StripeStep
  PROVE  /\ \A i \in IntentIds : intents[i].status \in {"succeeded", "canceled"} => intents'[i] = intents[i]
         /\ DOMAIN events = 1..Len(events) /\ Len(events) \in Nat
         /\ DOMAIN events \subseteq DOMAIN events'
         /\ \A n \in DOMAIN events : events'[n] = events[n]
<1>1. events \in Seq(IntentRecords) /\ intents \in [IntentIds -> IntentRecords]
  BY DEF TypeOK
<1>2. Len(events) \in Nat /\ DOMAIN events = 1..Len(events)
  BY <1>1
<1>3. ASSUME NEW e \in IntentRecords, events' = Append(events, e)
      PROVE  DOMAIN events \subseteq DOMAIN events' /\ \A n \in DOMAIN events : events'[n] = events[n]
  BY <1>1, <1>3
<1>4. CASE UNCHANGED <<intents, events, refunds, refunded>>
  BY <1>2, <1>4
<1>5. ASSUME NEW o \in IntentRecords, Moves(o)
      PROVE  /\ \A i \in IntentIds : intents[i].status \in {"succeeded", "canceled"} => intents'[i] = intents[i]
             /\ DOMAIN events \subseteq DOMAIN events' /\ \A n \in DOMAIN events : events'[n] = events[n]
  <2>1. intents' = [intents EXCEPT ![o.intent] = o] /\ intents[o.intent].status \notin {"succeeded", "canceled"}
        /\ (events' = Append(events, o) \/ events' = events)
    BY <1>5 DEF Moves
  <2>2. \A i \in IntentIds : i # o.intent => intents'[i] = intents[i]
    BY <1>1, <2>1
  <2>3. QED BY <1>3, <2>1, <2>2
<1>6. CASE Returns
  BY <1>2, <1>6 DEF Returns
<1>7. CASE Tells
  BY <1>2, <1>3, <1>7 DEF Tells
<1>8. QED BY <1>2, <1>4, <1>5, <1>6, <1>7 DEF StripeStep

\* Stripe's side keeps its part of the invariant.
LEMMA StripeInvStep ==
  ASSUME TypeOK, StripeInv, StripeStep, payment.intent # NoIntent => payment'.intent = payment.intent
  PROVE  /\ StripeInv'
         /\ intents' \in [IntentIds -> IntentRecords] /\ events' \in Seq(IntentRecords)
         /\ answers' \subseteq AnswerRecords
         /\ refunds' \in Seq(1..Total) /\ refunded' \in 0..Total
<1> USE DEF StripeInv
<1>1. /\ \A i \in IntentIds : intents[i].status \in {"succeeded", "canceled"} => intents'[i] = intents[i]
      /\ DOMAIN events = 1..Len(events) /\ Len(events) \in Nat
      /\ DOMAIN events \subseteq DOMAIN events'
      /\ \A n \in DOMAIN events : events'[n] = events[n]
  BY StripeKeepsCharges
<1>2. /\ intents \in [IntentIds -> IntentRecords] /\ events \in Seq(IntentRecords)
      /\ answers \subseteq AnswerRecords /\ refunds \in Seq(1..Total) /\ refunded \in 0..Total
  BY DEF TypeOK, AnswerRecords
<1>3. answers' \subseteq AnswerRecords
  BY <1>2 DEF StripeStep, Learns
<1>4. AnswersAreTrue'
  <2> SUFFICES ASSUME NEW k \in answers' PROVE TrueAnswer(k)'
    BY DEF AnswersAreTrue
  <2>1. CASE k \in answers
    BY <1>1, <2>1 DEF AnswersAreTrue, TrueAnswer
  <2>2. CASE k \notin answers
    BY <2>2 DEF StripeStep, Learns
  <2>3. QED BY <2>1, <2>2
<1>5. NoIntent \notin IntentIds
  BY IntentsAssumption DEF IntentIds
<1>6. CASE UNCHANGED <<intents, events, refunds, refunded>>
  BY <1>2, <1>3, <1>4, <1>5, <1>6
  DEF IntentsAreSane, EventsAreTrue, ChargesAreTold, ChargesAreLast, ChargedIsOurs, RefundsAreOurs
<1>7. ASSUME NEW o \in IntentRecords, Moves(o)
      PROVE  /\ intents' \in [IntentIds -> IntentRecords] /\ events' \in Seq(IntentRecords)
             /\ refunds' = refunds /\ refunded' = refunded
             /\ IntentsAreSane' /\ EventsAreTrue' /\ ChargesAreTold' /\ ChargesAreLast' /\ ChargedIsOurs'
             /\ RefundsAreOurs'
  <2>1. /\ o.intent \in IntentIds /\ o.status \in IntentStatuses
        /\ o.received > 0 <=> o.status = "succeeded"
        /\ o.status = "succeeded" => o.intent = payment.intent
        /\ intents[o.intent].status \notin {"succeeded", "canceled"}
        /\ events' = Append(events, o) \/ (events' = events /\ o.status # "succeeded")
        /\ refunds' = refunds /\ refunded' = refunded
    BY <1>7 DEF Moves
  <2>2. /\ intents' \in [IntentIds -> IntentRecords] /\ intents'[o.intent] = o
        /\ \A i \in IntentIds \ {o.intent} : intents'[i] = intents[i]
    BY <1>2, <1>7 DEF Moves
  <2>3. /\ events' \in Seq(IntentRecords) /\ DOMAIN events' = 1..Len(events') /\ Len(events') \in Nat
        /\ \A n \in DOMAIN events' : n \notin DOMAIN events => n = Len(events) + 1 /\ events'[n] = o
        /\ events' = Append(events, o) => Len(events) + 1 \in DOMAIN events' /\ events'[Len(events) + 1] = o
    <3>1. CASE events' = Append(events, o)
      <4>1. /\ events' \in Seq(IntentRecords) /\ Len(events') = Len(events) + 1
            /\ events'[Len(events) + 1] = o /\ DOMAIN events' = 1..Len(events')
        BY <1>2, <3>1
      <4>2. QED BY <1>1, <4>1
    <3>2. CASE events' = events
      <4>1. Len(Append(events, o)) = Len(events) + 1
        BY <1>2
      <4>2. Append(events, o) # events
        <5>1. \A n \in Nat : n + 1 # n
          OBVIOUS
        <5>2. QED BY <1>1, <4>1, <5>1, Zenon
      <4>3. QED BY <1>1, <1>2, <3>2, <4>2
    <3>3. QED BY <2>1, <3>1, <3>2
  <2>4. IntentsAreSane'
    BY <2>1, <2>2 DEF IntentsAreSane
  <2>5. o.status \notin {"succeeded", "refund"} => o.received = 0
    BY <2>1 DEF IntentRecords
  <2>6. EventsAreTrue'
    <3> SUFFICES ASSUME NEW n \in DOMAIN events'
                 PROVE  /\ events'[n].intent \in IntentIds
                        /\ events'[n].status = "succeeded" => intents'[events'[n].intent] = events'[n]
                        /\ events'[n].status \notin {"succeeded", "refund"} => events'[n].received = 0
      BY DEF EventsAreTrue
    <3>1. CASE n \in DOMAIN events
      BY <1>1, <3>1 DEF EventsAreTrue
    <3>2. CASE n \notin DOMAIN events
      BY <2>1, <2>2, <2>3, <2>5, <3>2
    <3>3. QED BY <3>1, <3>2
  <2>7. ChargesAreTold'
    <3> SUFFICES ASSUME NEW i \in IntentIds, intents'[i].status = "succeeded"
                 PROVE  \E n \in DOMAIN events' : events'[n] = intents'[i]
      BY DEF ChargesAreTold
    <3>1. CASE i = o.intent
      BY <2>1, <2>2, <2>3, <3>1
    <3>2. CASE i # o.intent
      <4>1. intents'[i] = intents[i]
        BY <2>2, <3>2
      <4>2. PICK n \in DOMAIN events : events[n] = intents[i]
        BY <4>1 DEF ChargesAreTold
      <4>3. QED BY <1>1, <4>1, <4>2
    <3>3. QED BY <3>1, <3>2
  <2>8. ChargesAreLast'
    <3> SUFFICES ASSUME NEW m \in DOMAIN events', NEW n \in DOMAIN events', m < n,
                        events'[m].status = "succeeded", events'[m].intent = events'[n].intent
                 PROVE  events'[n].status = "refund"
      BY DEF ChargesAreLast
    <3>1. m \in DOMAIN events
      <4>1. n \in DOMAIN events \/ n = Len(events) + 1
        BY <2>3
      <4>2. m \in DOMAIN events \/ m = Len(events) + 1
        BY <2>3
      <4>3. QED BY <1>1, <4>1, <4>2
    <3>2. CASE n \in DOMAIN events
      BY <1>1, <3>1, <3>2 DEF ChargesAreLast
    <3>3. CASE n \notin DOMAIN events
      <4>1. events'[n] = o /\ events[m].status = "succeeded" /\ events[m].intent = o.intent
        BY <1>1, <2>3, <3>1, <3>3
      <4>2. intents[o.intent].status = "succeeded"
        BY <3>1, <4>1 DEF EventsAreTrue
      <4>3. QED BY <2>1, <4>2
    <3>4. QED BY <3>2, <3>3
  <2>9. ChargedIsOurs'
    BY <1>5, <2>1, <2>2 DEF ChargedIsOurs
  <2>10. RefundsAreOurs'
    BY <1>5, <2>1 DEF RefundsAreOurs
  <2>11. QED BY <2>1, <2>2, <2>3, <2>4, <2>6, <2>7, <2>8, <2>9, <2>10
<1>8. CASE Returns
  <2>1. /\ payment.intent # NoIntent /\ refunds' \in Seq(1..Total) /\ refunded' \in 0..Total
        /\ intents' = intents /\ events' = events
    BY <1>8 DEF Returns
  <2>2. QED
    BY <1>2, <1>3, <1>4, <1>5, <2>1
    DEF IntentsAreSane, EventsAreTrue, ChargesAreTold, ChargesAreLast, ChargedIsOurs, RefundsAreOurs
<1>9. CASE Tells
  <2>1. PICK e \in IntentRecords : e.intent \in IntentIds /\ e.status = "refund" /\ events' = Append(events, e)
    BY <1>9 DEF Tells
  <2>2. intents' = intents /\ refunds' = refunds /\ refunded' = refunded
    BY <1>9 DEF Tells
  <2>3. /\ events' \in Seq(IntentRecords) /\ DOMAIN events' = 1..(Len(events) + 1)
        /\ events'[Len(events) + 1] = e
        /\ \A n \in DOMAIN events' : n \notin DOMAIN events => n = Len(events) + 1 /\ events'[n] = e
    BY <1>2, <2>1
  <2>4. IntentsAreSane' /\ ChargedIsOurs' /\ RefundsAreOurs'
    BY <1>5, <2>2 DEF IntentsAreSane, ChargedIsOurs, RefundsAreOurs
  <2>5. EventsAreTrue'
    BY <1>1, <2>1, <2>2, <2>3 DEF EventsAreTrue
  <2>6. ChargesAreTold'
    BY <1>1, <2>2 DEF ChargesAreTold
  <2>7. ChargesAreLast'
    <3> SUFFICES ASSUME NEW m \in DOMAIN events', NEW n \in DOMAIN events', m < n,
                        events'[m].status = "succeeded", events'[m].intent = events'[n].intent
                 PROVE  events'[n].status = "refund"
      BY DEF ChargesAreLast
    <3>1. CASE n = Len(events) + 1
      BY <2>1, <2>3, <3>1
    <3>2. CASE n # Len(events) + 1
      <4>1. n \in DOMAIN events
        BY <2>3, <3>2
      <4>2. m \in DOMAIN events
        BY <1>1, <2>3, <4>1
      <4>3. QED BY <1>1, <4>1, <4>2 DEF ChargesAreLast
    <3>3. QED BY <3>1, <3>2
  <2>8. QED BY <1>2, <1>3, <1>4, <2>2, <2>3, <2>4, <2>5, <2>6, <2>7
<1>10. QED
  <2>1. \/ UNCHANGED <<intents, events, refunds, refunded>> \/ (\E o \in IntentRecords : Moves(o))
        \/ Returns \/ Tells
    BY DEF StripeStep
  <2>2. CASE \E o \in IntentRecords : Moves(o)
    BY <1>2, <1>3, <1>4, <1>7, <2>2
  <2>3. CASE UNCHANGED <<intents, events, refunds, refunded>>
    BY <1>2, <1>3, <1>4, <1>6, <2>3 
  <2>4. QED BY <1>8, <1>9, <2>1, <2>2, <2>3

\* The row keeps its part.
LEMMA RowInvStep ==
  ASSUME Inv, StripeStep, RowStep, RecordedStep, payment.intent # NoIntent => payment'.intent = payment.intent
  PROVE  RowInv'
<1>1. /\ \A i \in IntentIds : intents[i].status \in {"succeeded", "canceled"} => intents'[i] = intents[i]
      /\ DOMAIN events = 1..Len(events)
      /\ DOMAIN events \subseteq DOMAIN events'
      /\ \A n \in DOMAIN events : events'[n] = events[n]
  BY StripeKeepsCharges DEF Inv
<1>2. /\ payment \in PaymentRecords /\ payment' \in PaymentRecords /\ recorded \subseteq DOMAIN events
      /\ intents \in [IntentIds -> IntentRecords]
  BY <1>1 DEF Inv, TypeOK, RowStep, PaymentRecords
<1>3. /\ payment.captured \in 0..Total /\ payment.refunded \in 0..Total /\ payment.authorized \in 0..Total
      /\ payment.intent \in IntentIds \cup {NoIntent} /\ Total \in Nat \ {0}
  BY <1>2, AmountsAssumption DEF PaymentRecords
<1>4. /\ payment.refunded <= payment.captured
      /\ payment.captured <= payment.authorized \/ payment.authorized = 0
      /\ payment.captured > 0 => /\ payment.captured = intents[payment.intent].received
                                 /\ payment.status \in ChargedStatuses /\ payment.intent # NoIntent
      /\ payment.status = "CAPTURED" => payment.captured = Total
  BY DEF Inv, RowInv, AmountsConsistent, CapturedIsReceived, StatusFits
<1>5. payment.captured > 0 => intents'[payment.intent] = intents[payment.intent]
  <2> SUFFICES ASSUME payment.captured > 0 PROVE intents'[payment.intent] = intents[payment.intent]
    OBVIOUS
  <2>1. intents[payment.intent].received > 0 /\ payment.intent \in IntentIds
    BY <1>3, <1>4
  <2>2. QED BY <1>1, <2>1 DEF Inv, StripeInv, IntentsAreSane
<1>6. NoIntent \notin IntentIds
  BY IntentsAssumption DEF IntentIds
<1>7. CASE KeepsRow
  <2>1. /\ payment'.intent = payment.intent /\ payment'.authorized = payment.authorized
        /\ payment'.captured = payment.captured /\ payment'.refunded = payment.refunded
        /\ payment'.status = payment.status \/ (payment.captured = 0 /\ payment'.status # "CAPTURED")
    BY <1>7 DEF KeepsRow
  <2>2. AmountsConsistent' /\ CapturedIsReceived' /\ StatusFits'
    BY <1>3, <1>4, <1>5, <2>1 DEF AmountsConsistent, CapturedIsReceived, StatusFits
  <2>3. HeardInOrder'
    BY <1>1, <1>2, <2>1 DEF HeardInOrder, RecordedStep, Inv, RowInv
  <2>4. QED BY <2>2, <2>3 DEF RowInv
<1>8. ASSUME NEW o \in IntentRecords, CopiesIntent(o) PROVE RowInv'
  <2>1. /\ payment'.intent = o.intent /\ payment'.authorized = Total
        /\ payment'.captured = o.received /\ payment'.refunded = 0
        /\ o.status = "succeeded" => /\ payment'.status \in {"CAPTURED", "PARTIALLY_REFUNDED"}
                                     /\ payment'.status = "CAPTURED" => o.received = Total
        /\ o.status # "succeeded" => payment'.status # "CAPTURED"
    BY <1>8, SnapshotType DEF CopiesIntent
  <2>2. /\ o.intent \in IntentIds /\ o.received \in 0..Total
        /\ o.received > 0 => o.status = "succeeded" /\ intents'[o.intent] = o
        /\ EventsInOrder => \A n \in recorded : events[n].status = "succeeded" /\ events[n].intent = o.intent
                                              => o.received = events[n].received
    BY <1>8 DEF CopiesIntent, IntentRecords
  <2>3. AmountsConsistent' /\ CapturedIsReceived' /\ StatusFits'
    BY <1>3, <1>6, <2>1, <2>2 DEF AmountsConsistent, CapturedIsReceived, StatusFits, ChargedStatuses
  <2>4. HeardInOrder'
    BY <1>1, <1>2, <2>1, <2>2 DEF HeardInOrder, RecordedStep, Inv, RowInv
  <2>5. QED BY <2>3, <2>4 DEF RowInv
<1>9. CASE BooksRefund
  <2>1. /\ payment'.intent = payment.intent /\ payment'.authorized = payment.authorized
        /\ payment'.captured = payment.captured /\ payment'.refunded \in 0..payment.captured
        /\ payment'.status \in {"REFUNDED", "PARTIALLY_REFUNDED"}
    BY <1>9 DEF BooksRefund
  <2>2. AmountsConsistent' /\ CapturedIsReceived' /\ StatusFits'
    BY <1>3, <1>4, <1>5, <2>1 DEF AmountsConsistent, CapturedIsReceived, StatusFits, ChargedStatuses
  <2>3. HeardInOrder'
    BY <1>1, <1>2, <2>1 DEF HeardInOrder, RecordedStep, Inv, RowInv
  <2>4. QED BY <2>2, <2>3 DEF RowInv
<1>10. QED BY <1>7, <1>8, <1>9 DEF RowStep

\* The parts of a step make up the invariant.
LEMMA StepKeepsInv ==
  ASSUME Inv, StripeStep, RowStep, RecordedStep, RestTyped, NothingBeforeTheJob',
         payment.intent # NoIntent => payment'.intent = payment.intent
  PROVE  Inv'
<1>1. /\ StripeInv'
      /\ intents' \in [IntentIds -> IntentRecords] /\ events' \in Seq(IntentRecords)
      /\ answers' \subseteq AnswerRecords
      /\ refunds' \in Seq(1..Total) /\ refunded' \in 0..Total
  BY StripeInvStep DEF Inv
<1>2. RowInv'
  BY RowInvStep
<1>3. payment' \in PaymentRecords
  BY DEF RowStep
<1>4. recorded' \subseteq 1..Len(events')
  BY <1>1 DEF RecordedStep
<1>5. TypeOK'
  BY <1>1, <1>3, <1>4 DEF TypeOK, RestTyped, PaymentRecords, AnswerRecords
<1>6. QED BY <1>1, <1>2, <1>5 DEF Inv

LEMMA InitInv == Init => Inv
<1> SUFFICES ASSUME Init PROVE Inv
  OBVIOUS
<1>1. 0 \in 0..Total /\ Total \in Nat \ {0} /\ 0 \in 0..MaxUnassigns
  BY AmountsAssumption, BoundsAssumption
<1>2. /\ payment = [NewPayment EXCEPT !.status = "NONE"] /\ events = <<>> /\ answers = {} /\ refunds = <<>>
      /\ recorded = {} /\ refunded = 0 /\ unassigns = 0 /\ outbox = {} /\ usedKeys = {} /\ payoutReady = FALSE
      /\ order = "NONE" /\ settlement = [code |-> "NONE", fee |-> 0, refund |-> 0]
      /\ intents = [i \in IntentIds |-> [intent |-> i, status |-> "none", received |-> 0]]
      /\ status = [j \in {Job} |-> "NONE"] /\ assigned = [j \in {Job} |-> NoDriver]
  BY DEF Init, Lifecycle!Init
<1>3. payment = [status |-> "NONE", intent |-> NoIntent, authorized |-> 0, captured |-> 0, refunded |-> 0]
  BY <1>2 DEF NewPayment
<1>4. intents \in [IntentIds -> IntentRecords]
  BY <1>1, <1>2 DEF IntentRecords, IntentStatuses
<1>5. payment \in PaymentRecords
  BY <1>1, <1>3 DEF PaymentRecords
<1>6. /\ events \in Seq(IntentRecords) /\ refunds \in Seq(1..Total)
      /\ DOMAIN events = {} /\ recorded \subseteq 1..Len(events)
  BY <1>2
<1>7. TypeOK
  BY <1>1, <1>2, <1>4, <1>5, <1>6 DEF TypeOK, PaymentRecords
<1>8. StripeInv
  BY <1>2, <1>6 DEF StripeInv, IntentsAreSane, AnswersAreTrue, EventsAreTrue, ChargesAreTold, ChargesAreLast,
                    ChargedIsOurs, RefundsAreOurs, IntentStatuses
<1>9. RowInv
  BY <1>1, <1>2, <1>3 DEF RowInv, AmountsConsistent, CapturedIsReceived, StatusFits, HeardInOrder
<1>10. NothingBeforeTheJob
  BY <1>2 DEF NothingBeforeTheJob
<1>11. QED BY <1>7, <1>8, <1>9, <1>10 DEF Inv

-----------------------------------------------------------------------------
\* Stripe's answers

\* An answer kept earlier is given again, or the call does not fit the key.
LEMMA RepeatsStep ==
  ASSUME Inv, NEW key, NEW call, NEW answer, Repeats(key, call, answer)
  PROVE  /\ StripeStep /\ UNCHANGED <<intents, events>>
         /\ \/ answer = Error
            \/ \E k \in answers : k.key = key /\ k.call = call /\ answer = k.answer /\ k \in AnswerRecords /\ TrueAnswer(k)
<1>1. UNCHANGED stripeVars
  BY DEF Repeats
<1>2. StripeStep /\ UNCHANGED <<intents, events>>
  BY <1>1 DEF stripeVars, StripeStep, Learns
<1>3. PICK k \in answers : k.key = key /\ answer = IF k.call = call THEN k.answer ELSE Error
  BY DEF Repeats
<1>4. k \in AnswerRecords /\ TrueAnswer(k)
  BY DEF Inv, TypeOK, AnswerRecords, StripeInv, AnswersAreTrue
<1>5. QED BY <1>2, <1>3, <1>4

LEMMA RefusesStep ==
  ASSUME NEW answer, Refuses(answer)
  PROVE  StripeStep /\ answer = Error /\ UNCHANGED <<intents, events>>
BY DEF Refuses, stripeVars, StripeStep, Learns

\* A new answer that is true is one more to keep.
LEMMA KeepsStep ==
  ASSUME NEW key \in Keys \cup Messages, NEW call \in Calls, NEW reply \in IntentRecords, NEW answer,
         Keeps(key, call, reply, answer), TrueAnswer([key |-> key, call |-> call, answer |-> reply])'
  PROVE  Learns /\ answer \in {reply, Error}
<1>1. answers' = answers \cup {[key |-> key, call |-> call, answer |-> reply]} /\ answer \in {reply, Error}
  BY DEF Keeps
<1>2. [key |-> key, call |-> call, answer |-> reply] \in AnswerRecords
  BY DEF AnswerRecords
<1>3. QED BY <1>1, <1>2 DEF Learns

LEMMA CreateStep ==
  ASSUME Inv, NEW m \in Messages, NEW answer, createPaymentIntent(m, answer)
  PROVE  /\ StripeStep
         /\ answer # Error => /\ answer \in IntentRecords /\ answer.intent = "created"
                              /\ answer.status = "requires_payment_method" /\ answer.received = 0
         /\ \A j \in IntentIds : intents'[j] = intents[j] \/ intents'[j].received = 0
<1> DEFINE call == [name |-> "create", intent |-> NoIntent, amount |-> Total]
           o == [intent |-> "created", status |-> "requires_payment_method", received |-> 0]
<1>1. call \in Calls /\ o \in IntentRecords /\ o.intent \in IntentIds
  BY AmountsAssumption DEF Calls, IntentRecords, IntentIds, IntentStatuses
<1>2. CASE Repeats(m, call, answer)
  <2>1. /\ StripeStep /\ intents' = intents
        /\ \/ answer = Error
           \/ \E k \in answers : k.key = m /\ k.call = call /\ answer = k.answer /\ k \in AnswerRecords /\ TrueAnswer(k)
    BY <1>2, RepeatsStep
  <2>2. ASSUME NEW k \in AnswerRecords, k.call = call, TrueAnswer(k)
        PROVE  /\ k.answer \in IntentRecords /\ k.answer.intent = "created"
               /\ k.answer.status = "requires_payment_method" /\ k.answer.received = 0
    BY <2>2 DEF TrueAnswer, AnswerRecords
  <2> HIDE DEF call
  <2>3. QED BY <2>1, <2>2
<1>3. CASE /\ intents["created"].status = "none"
           /\ intents' = [intents EXCEPT !["created"] = o]
           /\ Keeps(m, call, o, answer)
           /\ UNCHANGED <<refunds, refunded, events>>
  <2>1. TrueAnswer([key |-> m, call |-> call, answer |-> o])'
    BY DEF TrueAnswer
  <2>2. Learns /\ answer \in {o, Error}
    BY <1>1, <1>3, <2>1, KeepsStep
  <2>3. Moves(o)
    BY <1>1, <1>3 DEF Moves, IntentStatuses
  <2>4. StripeStep
    BY <1>1, <2>2, <2>3 DEF StripeStep
  <2>5. \A j \in IntentIds : intents'[j] = intents[j] \/ intents'[j].received = 0
    BY <1>3 DEF Inv, TypeOK
  <2>6. QED BY <1>1, <2>2, <2>4, <2>5
<1>4. CASE Refuses(answer)
  BY <1>4, RefusesStep
<1>5. QED BY <1>2, <1>3, <1>4 DEF createPaymentIntent

\* A confirmation never settles an intent, and Stripe tells of it at most once.
LEMMA ConfirmStep ==
  ASSUME Inv, NEW key \in Keys, NEW target \in IntentIds \cup {NoIntent}, NEW answer,
         authorizePaymentIntent(key, target, answer)
  PROVE  /\ StripeStep
         /\ answer # Error => /\ answer \in IntentRecords /\ answer.received = 0
                              /\ answer.intent = (IF target = NoIntent THEN key ELSE target)
                              /\ answer.intent \in IntentIds
                              /\ answer.status \in {"requires_capture", "requires_action"}
         /\ events' # events => /\ Len(events') = Len(events) + 1 /\ Len(events') \in DOMAIN events'
                                /\ events'[Len(events')].status # "succeeded"
         /\ \A j \in IntentIds : intents'[j] = intents[j] \/ intents'[j].received = 0
<1> DEFINE i == IF target = NoIntent THEN key ELSE target
           call == [name |-> "confirm", intent |-> target, amount |-> Total]
<1>1. call \in Calls /\ i \in IntentIds /\ events \in Seq(IntentRecords)
  BY AmountsAssumption DEF Calls, IntentIds, Inv, TypeOK
<1>2. CASE Repeats(key, call, answer)
  <2>1. /\ StripeStep /\ events' = events /\ intents' = intents
        /\ \/ answer = Error
           \/ \E k \in answers : k.key = key /\ k.call = call /\ answer = k.answer /\ k \in AnswerRecords /\ TrueAnswer(k)
    BY <1>2, RepeatsStep
  <2>2. ASSUME NEW k \in AnswerRecords, k.key = key, k.call = call, TrueAnswer(k), k.answer # Error
        PROVE  /\ k.answer \in IntentRecords /\ k.answer.intent = i
               /\ k.answer.status \in {"requires_capture", "requires_action"} /\ k.answer.received = 0
    BY <2>2 DEF TrueAnswer, AnswerRecords
  <2> HIDE DEF call
  <2>3. QED BY <1>1, <2>1, <2>2
<1>3. ASSUME NEW s \in {"requires_capture", "requires_payment_method", "requires_action"},
             intents[i].status \in {"none", "requires_payment_method", "requires_action"},
             MovesTo([intent |-> i, status |-> s, received |-> 0]),
             Keeps(key, call, IF s = "requires_payment_method" THEN Error
                                ELSE [intent |-> i, status |-> s, received |-> 0], answer)
      PROVE  /\ StripeStep
             /\ answer # Error => answer = [intent |-> i, status |-> s, received |-> 0] /\ s # "requires_payment_method"
             /\ events' # events => /\ Len(events') = Len(events) + 1 /\ Len(events') \in DOMAIN events'
                                    /\ events'[Len(events')].status # "succeeded"
             /\ \A j \in IntentIds : intents'[j] = intents[j] \/ intents'[j].received = 0
  <2> DEFINE o == [intent |-> i, status |-> s, received |-> 0]
             reply == IF s = "requires_payment_method" THEN Error ELSE o
  <2>1. o \in IntentRecords /\ o.status = s /\ o.received = 0 /\ o.intent = i /\ s \in IntentStatuses
    BY <1>1, AmountsAssumption DEF IntentRecords, IntentStatuses
  <2>2. reply \in IntentRecords
    BY <2>1, ErrorType
  <2>3. TrueAnswer([key |-> key, call |-> call, answer |-> reply])'
    BY <1>3 DEF TrueAnswer
  <2>4. Learns /\ answer \in {reply, Error}
    BY <1>1, <1>3, <2>2, <2>3, KeepsStep
  <2>5. /\ intents' = [intents EXCEPT ![i] = o] /\ UNCHANGED <<refunds, refunded>>
        /\ events' = Append(events, o) \/ events' = events
    BY <1>3 DEF MovesTo
  <2>6. Moves(o)
    <3> HIDE DEF i, o
    <3>1. s # "succeeded" /\ intents[i].status \notin {"succeeded", "canceled"}
      BY <1>3
    <3>2. QED BY <1>1, <2>1, <2>5, <3>1 DEF Moves
  <2>7. StripeStep
    BY <2>1, <2>4, <2>6 DEF StripeStep
  <2> HIDE DEF o
  <2>8. events' # events => /\ Len(events') = Len(events) + 1 /\ Len(events') \in DOMAIN events'
                            /\ events'[Len(events')].status # "succeeded"
    BY <1>1, <2>1, <2>5
  <2>9. \A j \in IntentIds : intents'[j] = intents[j] \/ intents'[j].received = 0
    BY <2>1, <2>5 DEF Inv, TypeOK
  <2>10. QED BY <2>4, <2>7, <2>8, <2>9 DEF o
<1>4. CASE Refuses(answer)
  BY <1>4, RefusesStep
<1>5. CASE /\ intents[i].status \in {"none", "requires_payment_method", "requires_action"}
           /\ \E s \in {"requires_capture", "requires_payment_method", "requires_action"} :
                LET o == [intent |-> i, status |-> s, received |-> 0]
                IN /\ target = NoIntent => s # "requires_action"
                   /\ MovesTo(o)
                   /\ Keeps(key, call, IF s = "requires_payment_method" THEN Error ELSE o, answer)
  <2>1. PICK s \in {"requires_capture", "requires_payment_method", "requires_action"} :
               /\ MovesTo([intent |-> i, status |-> s, received |-> 0])
               /\ Keeps(key, call, IF s = "requires_payment_method" THEN Error
                                     ELSE [intent |-> i, status |-> s, received |-> 0], answer)
    BY <1>5
  <2>2. [intent |-> i, status |-> s, received |-> 0] \in IntentRecords
    BY <1>1, AmountsAssumption DEF IntentRecords, IntentStatuses
  <2>3. /\ StripeStep
        /\ answer # Error => answer = [intent |-> i, status |-> s, received |-> 0] /\ s # "requires_payment_method"
        /\ events' # events => /\ Len(events') = Len(events) + 1 /\ Len(events') \in DOMAIN events'
                               /\ events'[Len(events')].status # "succeeded"
        /\ \A j \in IntentIds : intents'[j] = intents[j] \/ intents'[j].received = 0
    BY <1>3, <1>5, <2>1
  <2>4. QED BY <1>1, <2>2, <2>3
<1>6. QED BY <1>2, <1>4, <1>5 DEF authorizePaymentIntent

\* A capture settles the row's intent, and so does an answer that repeats one.
LEMMA CaptureStep ==
  ASSUME Inv, NEW m \in Messages, NEW i \in IntentIds, i = payment.intent, NEW amount \in 1..Total, NEW answer,
         capturePaymentIntent(m, i, amount, answer)
  PROVE  /\ StripeStep
         /\ answer # Error => /\ answer \in IntentRecords /\ answer.intent = i
                              /\ answer.status = "succeeded" /\ intents'[i] = answer
         /\ \A j \in IntentIds : intents'[j] = intents[j] \/ intents'[j].received = amount
<1> DEFINE call == [name |-> "capture", intent |-> i, amount |-> amount]
           o == [intent |-> i, status |-> "succeeded", received |-> amount]
<1>1. /\ i \in IntentIds /\ events \in Seq(IntentRecords) /\ intents \in [IntentIds -> IntentRecords]
      /\ intents[i].intent = i
  BY DEF Inv, TypeOK, StripeInv, IntentsAreSane
<1>2. call \in Calls /\ o \in IntentRecords
  BY <1>1, AmountsAssumption DEF Calls, IntentRecords, IntentStatuses
<1>3. CASE Repeats(m, call, answer)
  <2>1. /\ StripeStep /\ intents' = intents
        /\ \/ answer = Error
           \/ \E k \in answers : k.key = m /\ k.call = call /\ answer = k.answer /\ k \in AnswerRecords /\ TrueAnswer(k)
    BY <1>3, RepeatsStep
  <2>2. ASSUME NEW k \in AnswerRecords, k.call = call, TrueAnswer(k)
        PROVE  k.answer \in IntentRecords /\ k.answer.status = "succeeded" /\ intents[i] = k.answer
    BY <2>2 DEF TrueAnswer, AnswerRecords
  <2> HIDE DEF call
  <2>3. answer # Error => answer \in IntentRecords /\ answer.status = "succeeded" /\ intents[i] = answer
    BY <2>1, <2>2
  <2>4. QED BY <1>1, <2>1, <2>3
<1>4. CASE intents[i].status = "requires_capture" /\ MovesTo(o) /\ Keeps(m, call, o, answer)
  <2>1. /\ intents' = [intents EXCEPT ![i] = o] /\ UNCHANGED <<refunds, refunded>> /\ events' = Append(events, o)
    BY <1>4 DEF MovesTo
  <2>2. intents'[i] = o /\ \A j \in IntentIds \ {i} : intents'[j] = intents[j]
    BY <1>1, <2>1
  <2>3. TrueAnswer([key |-> m, call |-> call, answer |-> o])'
    BY <1>1, <2>2 DEF TrueAnswer
  <2>4. Learns /\ answer \in {o, Error}
    BY <1>2, <1>4, <2>3, KeepsStep
  <2>5. amount > 0
    OBVIOUS
  <2>6. Moves(o)
    BY <1>1, <1>2, <1>4, <2>1, <2>5 DEF Moves, IntentStatuses
  <2>7. StripeStep
    BY <1>2, <2>4, <2>6 DEF StripeStep
  <2>8. QED BY <1>2, <2>2, <2>4, <2>7
<1>5. CASE Refuses(answer)
  BY <1>5, RefusesStep
<1>6. QED BY <1>3, <1>4, <1>5 DEF capturePaymentIntent

\* A cancellation settles the row's intent, without money.
LEMMA CancelStep ==
  ASSUME Inv, NEW m \in Messages, NEW i \in IntentIds, i = payment.intent, NEW answer,
         cancelPaymentIntent(m, i, answer)
  PROVE  /\ StripeStep
         /\ answer # Error => /\ answer \in IntentRecords /\ answer.intent = i
                              /\ answer.status = "canceled" /\ intents'[i] = answer
         /\ \A j \in IntentIds : intents'[j] = intents[j] \/ intents'[j].received = 0
<1> DEFINE call == [name |-> "cancel", intent |-> i, amount |-> 0]
           o == [intent |-> i, status |-> "canceled", received |-> 0]
<1>1. /\ i \in IntentIds /\ events \in Seq(IntentRecords) /\ intents \in [IntentIds -> IntentRecords]
      /\ intents[i].intent = i
  BY DEF Inv, TypeOK, StripeInv, IntentsAreSane
<1>2. call \in Calls /\ o \in IntentRecords
  BY <1>1, AmountsAssumption DEF Calls, IntentRecords, IntentStatuses
<1>3. CASE Repeats(m, call, answer)
  <2>1. /\ StripeStep /\ intents' = intents
        /\ \/ answer = Error
           \/ \E k \in answers : k.key = m /\ k.call = call /\ answer = k.answer /\ k \in AnswerRecords /\ TrueAnswer(k)
    BY <1>3, RepeatsStep
  <2>2. ASSUME NEW k \in AnswerRecords, k.call = call, TrueAnswer(k)
        PROVE  k.answer \in IntentRecords /\ k.answer.status = "canceled" /\ intents[i] = k.answer
    BY <2>2 DEF TrueAnswer, AnswerRecords
  <2> HIDE DEF call
  <2>3. answer # Error => answer \in IntentRecords /\ answer.status = "canceled" /\ intents[i] = answer
    BY <2>1, <2>2
  <2>4. QED BY <1>1, <2>1, <2>3
<1>4. CASE /\ intents[i].status \in {"requires_payment_method", "requires_action", "requires_capture"}
           /\ MovesTo(o) /\ Keeps(m, call, o, answer)
  <2>1. /\ intents' = [intents EXCEPT ![i] = o] /\ UNCHANGED <<refunds, refunded>> /\ events' = Append(events, o)
    BY <1>4 DEF MovesTo
  <2>2. intents'[i] = o /\ \A j \in IntentIds \ {i} : intents'[j] = intents[j]
    BY <1>1, <2>1
  <2>3. TrueAnswer([key |-> m, call |-> call, answer |-> o])'
    BY <1>1, <2>2 DEF TrueAnswer
  <2>4. Learns /\ answer \in {o, Error}
    BY <1>2, <1>4, <2>3, KeepsStep
  <2>5. Moves(o)
    BY <1>1, <1>2, <1>4, <2>1 DEF Moves, IntentStatuses
  <2>6. StripeStep
    BY <1>2, <2>4, <2>5 DEF StripeStep
  <2>7. QED BY <1>2, <2>2, <2>4, <2>6
<1>5. CASE Refuses(answer)
  BY <1>5, RefusesStep
<1>6. QED BY <1>3, <1>4, <1>5 DEF cancelPaymentIntent

\* A refund gives back no more than was received.
LEMMA RefundReturns ==
  ASSUME Inv, payment.intent # NoIntent, NEW amount \in 1..Total, Refund(payment.intent, amount),
         UNCHANGED <<intents, events>>
  PROVE  Returns
<1>1. /\ payment.intent \in IntentIds /\ intents \in [IntentIds -> IntentRecords] /\ refunded \in 0..Total
      /\ refunds \in Seq(1..Total) /\ Total \in Nat
  BY AmountsAssumption DEF Inv, TypeOK
<1>2. intents[payment.intent].received \in 0..Total
  BY <1>1 DEF IntentRecords
<1>3. /\ refunded + amount <= intents[payment.intent].received
      /\ refunds' = Append(refunds, amount) /\ refunded' = refunded + amount
  BY DEF Refund
<1>4. refunded' \in 0..Total
  BY <1>1, <1>2, <1>3
<1>5. refunds' \in Seq(1..Total)
  BY <1>1, <1>3
<1>6. QED BY <1>4, <1>5 DEF Returns

LEMMA RefundStep ==
  ASSUME Inv, NEW m \in Messages, NEW i \in IntentIds, i = payment.intent, NEW amount \in 1..Total, NEW answer,
         refundPaymentIntent(m, i, amount, answer)
  PROVE  /\ StripeStep /\ UNCHANGED intents
         /\ answer # Error => answer \in IntentRecords /\ answer.status = "refund" /\ answer.received = amount
<1> DEFINE call == [name |-> "refund", intent |-> i, amount |-> amount]
           o == [intent |-> i, status |-> "refund", received |-> amount]
<1>1. i \in IntentIds /\ i # NoIntent
  BY IntentsAssumption DEF IntentIds
<1>2. call \in Calls /\ o \in IntentRecords
  BY <1>1, AmountsAssumption DEF Calls, IntentRecords, IntentStatuses
<1>3. CASE Repeats(m, call, answer)
  <2>1. /\ StripeStep /\ intents' = intents
        /\ \/ answer = Error
           \/ \E k \in answers : k.key = m /\ k.call = call /\ answer = k.answer /\ k \in AnswerRecords /\ TrueAnswer(k)
    BY <1>3, RepeatsStep
  <2>2. ASSUME NEW k \in AnswerRecords, k.call = call, TrueAnswer(k)
        PROVE  k.answer \in IntentRecords /\ k.answer.status = "refund" /\ k.answer.received = amount
    BY <2>2 DEF TrueAnswer, AnswerRecords
  <2> HIDE DEF call
  <2>3. QED BY <2>1, <2>2
<1>4. CASE Refund(i, amount) /\ Keeps(m, call, o, answer) /\ UNCHANGED <<intents, events>>
  <2>1. TrueAnswer([key |-> m, call |-> call, answer |-> o])'
    BY DEF TrueAnswer
  <2>2. Learns /\ answer \in {o, Error}
    BY <1>2, <1>4, <2>1, KeepsStep
  <2>3. Returns
    BY <1>1, <1>4, RefundReturns
  <2>4. QED BY <1>2, <1>4, <2>2, <2>3 DEF StripeStep
<1>5. CASE Refuses(answer)
  BY <1>5, RefusesStep
<1>6. QED BY <1>3, <1>4, <1>5 DEF refundPaymentIntent

-----------------------------------------------------------------------------
\* The actions

\* What does not change is a step that keeps the invariant.
LEMMA NothingMoves ==
  ASSUME Inv
  PROVE  /\ UNCHANGED stripeVars => StripeStep
         /\ payment' = payment => RowStep
         /\ StripeStep /\ recorded' = recorded => RecordedStep
<1>1. UNCHANGED stripeVars => StripeStep
  BY DEF stripeVars, StripeStep, Learns
<1>2. payment' = payment => RowStep
  BY DEF Inv, TypeOK, PaymentRecords, RowStep, KeepsRow
<1>3. ASSUME StripeStep, recorded' = recorded PROVE RecordedStep
  <2>1. recorded \subseteq DOMAIN events /\ DOMAIN events \subseteq DOMAIN events'
    BY <1>3, StripeKeepsCharges DEF Inv, TypeOK
  <2>2. QED BY <1>3, <2>1 DEF RecordedStep
<1>4. QED BY <1>1, <1>2, <1>3

\* A charge that was heard of in order is in the row.
LEMMA HeardCharge ==
  ASSUME Inv, EventsInOrder, NEW n \in recorded, events[n].status = "succeeded"
  PROVE  /\ events[n].intent = payment.intent /\ payment.intent \in IntentIds
         /\ events[n] = intents[payment.intent]
         /\ payment.captured = events[n].received /\ payment.captured > 0
         /\ payment.status \in ChargedStatuses
<1>1. n \in DOMAIN events /\ events \in Seq(IntentRecords)
  BY DEF Inv, TypeOK
<1>2. events[n].intent \in IntentIds /\ intents[events[n].intent] = events[n]
  BY <1>1 DEF Inv, StripeInv, EventsAreTrue
<1>3. events[n].intent = payment.intent /\ events[n].received > 0
  BY <1>2 DEF Inv, StripeInv, ChargedIsOurs, IntentsAreSane
<1>4. payment.captured = events[n].received
  BY <1>3 DEF Inv, RowInv, HeardInOrder
<1>5. QED BY <1>2, <1>3, <1>4 DEF Inv, RowInv, StatusFits

\* The steps of the lifecycle keep the job's type and never lose the job.
LEMMA JobTypes ==
  ASSUME Inv,
         \/ Lifecycle!Request(Job) \/ Lifecycle!Search(Job) \/ Lifecycle!Take(Job, Driver) \/ Lifecycle!Progress(Job)
         \/ Lifecycle!Recall(Job) \/ Lifecycle!Cancel(Job) \/ Lifecycle!Unassign(Job)
  PROVE  /\ status' \in [{Job} -> {"NONE", "DELIVERED", "CANCELLED"} \cup Lifecycle!Unassigned \cup Lifecycle!Carried]
         /\ assigned' \in [{Job} -> {Driver, NoDriver}]
         /\ status'[Job] # "NONE"
<1> DEFINE Other == {"DELIVERED", "CANCELLED"} \cup Lifecycle!Unassigned \cup Lifecycle!Carried
<1>1. /\ status \in [{Job} -> {"NONE", "DELIVERED", "CANCELLED"} \cup Lifecycle!Unassigned \cup Lifecycle!Carried]
      /\ assigned \in [{Job} -> {Driver, NoDriver}]
  BY DEF Inv, TypeOK
<1>2. \E s \in Other : \E d \in {Driver, NoDriver} :
        status' = [status EXCEPT ![Job] = s] /\ assigned' = [assigned EXCEPT ![Job] = d]
  <2>1. /\ assigned[Job] \in {Driver, NoDriver}
        /\ status[Job] \in Lifecycle!Carried => Lifecycle!NextStage[status[Job]] \in Other
        /\ {"REQUESTED", "ASSIGNED", "CANCELLED"} \subseteq Other /\ Lifecycle!Unassigned \subseteq Other
    BY <1>1 DEF Lifecycle!Carried, Lifecycle!Unassigned, Lifecycle!NextStage
  <2> HIDE DEF Other
  <2>2. \A s \in Other, d \in {Driver, NoDriver} : Lifecycle!Becomes(Job, s, d) =>
          status' = [status EXCEPT ![Job] = s] /\ assigned' = [assigned EXCEPT ![Job] = d]
    BY DEF Lifecycle!Becomes
  <2>3. CASE Lifecycle!Request(Job) \/ Lifecycle!Recall(Job) \/ Lifecycle!Unassign(Job)
    BY <2>1, <2>2, <2>3 DEF Lifecycle!Request, Lifecycle!Recall, Lifecycle!Unassign
  <2>4. CASE Lifecycle!Search(Job)
    BY <2>1, <2>2, <2>4 DEF Lifecycle!Search
  <2>5. CASE Lifecycle!Take(Job, Driver)
    BY <2>1, <2>2, <2>5 DEF Lifecycle!Take
  <2>6. CASE Lifecycle!Progress(Job)
    BY <2>1, <2>2, <2>6 DEF Lifecycle!Progress
  <2>7. CASE Lifecycle!Cancel(Job)
    BY <2>1, <2>2, <2>7 DEF Lifecycle!Cancel
  <2>8. QED BY <2>3, <2>4, <2>5, <2>6, <2>7
<1> PICK s \in Other : \E d \in {Driver, NoDriver} :
        status' = [status EXCEPT ![Job] = s] /\ assigned' = [assigned EXCEPT ![Job] = d]
  BY <1>2
<1>3. status'[Job] = s /\ s # "NONE"
  BY <1>1 DEF Lifecycle!Unassigned, Lifecycle!Carried
<1>4. QED BY <1>1, <1>3

\* The row of a payment just made.
LEMMA NewPaymentType ==
  /\ NewPayment \in PaymentRecords
  /\ NewPayment.status = "REQUIRES_PAYMENT_METHOD" /\ NewPayment.intent = NoIntent
  /\ NewPayment.authorized = 0 /\ NewPayment.captured = 0 /\ NewPayment.refunded = 0
BY AmountsAssumption DEF NewPayment, PaymentRecords, PaymentStatuses

LEMMA createJobRequestInv == ASSUME Inv, createJobRequest PROVE Inv'
<1>1. /\ Lifecycle!Request(Job) /\ payment' = NewPayment /\ outbox' = {<<INTENT_CREATE, 0>>}
      /\ UNCHANGED <<unassigns, cancelledFrom, settlement, order, payoutReady, usedKeys, recorded, stripeVars>>
  BY DEF createJobRequest
<1>2. payment = [NewPayment EXCEPT !.status = "NONE"]
  BY <1>1 DEF Lifecycle!Request, Inv, NothingBeforeTheJob
<1>3. /\ payment.intent = NoIntent /\ payment.authorized = 0 /\ payment.captured = 0 /\ payment.refunded = 0
  BY <1>2 DEF NewPayment
<1>4. StripeStep /\ RecordedStep
  BY <1>1, NothingMoves
<1>5. RowStep
  BY <1>1, <1>3, NewPaymentType DEF RowStep, KeepsRow
<1>6. RestTyped /\ status'[Job] # "NONE"
  <2>1. <<INTENT_CREATE, 0>> \in Messages
    BY BoundsAssumption DEF Messages
  <2>2. QED BY <1>1, <2>1, JobTypes DEF RestTyped, Inv, TypeOK
<1>7. QED BY <1>1, <1>3, <1>4, <1>5, <1>6, NewPaymentType, StepKeepsInv DEF NothingBeforeTheJob

\* The row after an authorization that was answered, or not.
LEMMA AuthorizationRow ==
  ASSUME Inv, NEW row \in PaymentRecords, row.intent = payment.intent, row.authorized = payment.authorized,
         row.captured = payment.captured, row.refunded = payment.refunded,
         payment.status \notin ChargedStatuses,
         NEW answer, answer # Error => /\ answer \in IntentRecords /\ answer.received = 0
                                       /\ answer.intent \in IntentIds /\ answer.status # "succeeded"
                                       /\ payment.intent # NoIntent => answer.intent = payment.intent,
         payment' = AfterAuthorization(row, answer)
  PROVE  /\ RowStep /\ payment'.status # "CAPTURED" /\ payment'.status # "NONE"
         /\ payment.intent # NoIntent => payment'.intent = payment.intent
<1>1. payment.captured = 0
  BY DEF Inv, TypeOK, RowInv, StatusFits
<1>2. CASE answer = Error
  <2>1. payment' = [row EXCEPT !.status = "FAILED"]
    BY <1>2 DEF AfterAuthorization
  <2>2. /\ payment' \in PaymentRecords /\ payment'.status = "FAILED" /\ payment'.intent = row.intent
        /\ payment'.authorized = row.authorized /\ payment'.captured = row.captured /\ payment'.refunded = row.refunded
    BY <2>1 DEF PaymentRecords, PaymentStatuses
  <2>3. KeepsRow
    BY <1>1, <2>2 DEF KeepsRow
  <2>4. QED BY <2>2, <2>3 DEF RowStep
<1>3. CASE answer # Error
  <2>1. payment' = Snapshot(answer)
    BY <1>3 DEF AfterAuthorization
  <2>2. /\ payment' \in PaymentRecords /\ payment'.intent = answer.intent
        /\ payment'.status # "CAPTURED" /\ payment'.status # "NONE"
    BY <1>3, <2>1, SnapshotType
  <2>3. CopiesIntent(answer)
    BY <1>3, <2>1, HeardCharge DEF CopiesIntent
  <2>4. QED BY <1>3, <2>2, <2>3 DEF RowStep
<1>4. QED BY <1>2, <1>3

\* An event about an intent not yet committed may be noted as ignored.
LEMMA IgnoredStep ==
  ASSUME Inv, StripeStep, EventMayBeIgnored \/ recorded' = recorded,
         events' # events => /\ Len(events') = Len(events) + 1 /\ Len(events') \in DOMAIN events'
                             /\ events'[Len(events')].status # "succeeded"
  PROVE  RecordedStep
<1>1. CASE recorded' = recorded
  BY <1>1, NothingMoves
<1>2. CASE recorded' = recorded \cup {Len(events')} /\ events' # events
  <2>1. recorded \subseteq DOMAIN events /\ DOMAIN events \subseteq DOMAIN events'
    BY StripeKeepsCharges DEF Inv, TypeOK
  <2>2. QED BY <1>2, <2>1 DEF RecordedStep
<1>3. QED BY <1>1, <1>2 DEF EventMayBeIgnored

LEMMA submitPublicCustomerOrderInv == ASSUME Inv, NEW key \in Keys, submitPublicCustomerOrder(key) PROVE Inv'
<1>1. /\ status[Job] = "NONE" /\ usedKeys' = usedKeys \cup {key}
      /\ UNCHANGED <<unassigns, cancelledFrom, settlement, payoutReady>>
  BY DEF submitPublicCustomerOrder
<1>2. PICK answer :
       /\ authorizePaymentIntent(key, NoIntent, answer)
       /\ \/ /\ Lifecycle!Request(Job)
             /\ payment' = AfterAuthorization(NewPayment, answer)
             /\ order' = IF payment'.status = "AUTHORIZED" THEN "PAYMENT_AUTHORIZED" ELSE "PAYMENT_FAILED"
             /\ outbox' = {<<INTENT_CREATE, 0>>}
             /\ EventMayBeIgnored
          \/ UNCHANGED <<status, assigned, payment, order, outbox, recorded>>
  BY DEF submitPublicCustomerOrder
<1>3. payment = [NewPayment EXCEPT !.status = "NONE"]
  BY <1>1 DEF Inv, NothingBeforeTheJob
<1>4. /\ payment.intent = NoIntent /\ payment.authorized = 0 /\ payment.captured = 0 /\ payment.refunded = 0
      /\ payment.status = "NONE"
  BY <1>3 DEF NewPayment
<1>5. /\ StripeStep
      /\ answer # Error => /\ answer \in IntentRecords /\ answer.received = 0 /\ answer.intent \in IntentIds
                           /\ answer.status # "succeeded"
      /\ events' # events => /\ Len(events') = Len(events) + 1 /\ Len(events') \in DOMAIN events'
                             /\ events'[Len(events')].status # "succeeded"
  BY <1>2, ConfirmStep
<1>6. usedKeys' \subseteq Keys
  BY <1>1 DEF Inv, TypeOK
<1>7. CASE UNCHANGED <<status, assigned, payment, order, outbox, recorded>>
  <2>1. RowStep /\ RecordedStep
    BY <1>5, <1>7, NothingMoves
  <2>2. RestTyped /\ NothingBeforeTheJob'
    BY <1>1, <1>6, <1>7 DEF RestTyped, NothingBeforeTheJob, Inv, TypeOK
  <2>3. QED BY <1>5, <1>7, <2>1, <2>2, StepKeepsInv
<1>8. CASE /\ Lifecycle!Request(Job)
           /\ payment' = AfterAuthorization(NewPayment, answer)
           /\ order' = IF payment'.status = "AUTHORIZED" THEN "PAYMENT_AUTHORIZED" ELSE "PAYMENT_FAILED"
           /\ outbox' = {<<INTENT_CREATE, 0>>}
           /\ EventMayBeIgnored
  <2>1. RowStep
    BY <1>4, <1>5, <1>8, NewPaymentType, AuthorizationRow DEF ChargedStatuses
  <2>2. RecordedStep
    BY <1>5, <1>8, IgnoredStep
  <2>3. RestTyped /\ status'[Job] # "NONE"
    <3>1. <<INTENT_CREATE, 0>> \in Messages
      BY BoundsAssumption DEF Messages
    <3>2. QED BY <1>1, <1>6, <1>8, <3>1, JobTypes DEF RestTyped, Inv, TypeOK
  <2>4. QED BY <1>4, <1>5, <2>1, <2>2, <2>3, StepKeepsInv DEF NothingBeforeTheJob
<1>9. QED BY <1>2, <1>7, <1>8

\* The order goes on or stays.
LEMMA OrderTypes ==
  ASSUME Inv, OrderFollows
  PROVE  order' \in {"NONE", "PAYMENT_AUTHORIZED", "PAYMENT_FAILED", "FULFILLED"}
BY DEF Inv, TypeOK, OrderFollows

LEMMA authorizeJobPaymentInv == ASSUME Inv, NEW key \in Keys, authorizeJobPayment(key) PROVE Inv'
<1>1. /\ payment.status \notin {"NONE", "CAPTURED", "PARTIALLY_REFUNDED", "REFUNDED", "CANCELLED"}
      /\ UNCHANGED <<status, assigned, unassigns, cancelledFrom, settlement, payoutReady, outbox>>
  BY DEF authorizeJobPayment, jobVars
<1>2. PICK answer :
          /\ authorizePaymentIntent(key, payment.intent, answer)
          /\ \/ /\ payment' = AfterAuthorization(payment, answer)
                /\ usedKeys' = usedKeys \cup {key}
                /\ OrderFollows
                /\ IF payment.intent = NoIntent THEN EventMayBeIgnored ELSE UNCHANGED recorded
             \/ UNCHANGED <<payment, usedKeys, order, recorded>>
  BY DEF authorizeJobPayment
<1>3. payment \in PaymentRecords /\ payment.intent \in IntentIds \cup {NoIntent} /\ usedKeys \subseteq Keys
  BY DEF Inv, TypeOK, PaymentRecords
<1>4. /\ StripeStep
      /\ answer # Error => /\ answer \in IntentRecords /\ answer.received = 0 /\ answer.intent \in IntentIds
                           /\ answer.status # "succeeded"
                           /\ payment.intent # NoIntent => answer.intent = payment.intent
      /\ events' # events => /\ Len(events') = Len(events) + 1 /\ Len(events') \in DOMAIN events'
                             /\ events'[Len(events')].status # "succeeded"
  BY <1>2, <1>3, ConfirmStep
<1>5. status'[Job] # "NONE"
  BY <1>1 DEF Inv, NothingBeforeTheJob, NewPayment
<1>6. CASE UNCHANGED <<payment, usedKeys, order, recorded>>
  <2>1. RowStep /\ RecordedStep
    BY <1>4, <1>6, NothingMoves
  <2>2. RestTyped
    BY <1>1, <1>6 DEF RestTyped, Inv, TypeOK
  <2>3. QED BY <1>4, <1>5, <1>6, <2>1, <2>2, StepKeepsInv DEF NothingBeforeTheJob
<1>7. CASE /\ payment' = AfterAuthorization(payment, answer)
           /\ usedKeys' = usedKeys \cup {key}
           /\ OrderFollows
           /\ IF payment.intent = NoIntent THEN EventMayBeIgnored ELSE UNCHANGED recorded
  <2>1. RowStep /\ (payment.intent # NoIntent => payment'.intent = payment.intent)
    BY <1>1, <1>3, <1>4, <1>7, AuthorizationRow DEF ChargedStatuses
  <2>2. RecordedStep
    BY <1>4, <1>7, IgnoredStep
  <2>3. RestTyped
    BY <1>1, <1>3, <1>7, OrderTypes DEF RestTyped, Inv, TypeOK
  <2>4. QED BY <1>4, <1>5, <2>1, <2>2, <2>3, StepKeepsInv DEF NothingBeforeTheJob
<1>8. QED BY <1>2, <1>6, <1>7

LEMMA SettledType ==
  ASSUME TypeOK
  PROVE  Settled(Due) \in [code : SettlementCodes \cup {"NONE"}, fee : 0..Total, refund : 0..Total]
<1>1. Due.retained \in 0..Total /\ Due.refund \in 0..payment.captured /\ Due.settlementCode \in SettlementCodes
  BY DueBounds
<1>2. payment.captured \in 0..Total /\ Total \in Nat
  BY AmountsAssumption DEF TypeOK
<1>3. Due.refund \in 0..Total
  BY <1>1, <1>2
<1>4. QED BY <1>1, <1>3 DEF Settled

LEMMA cancelJobInv == ASSUME Inv, cancelJob PROVE Inv'
<1>1. /\ Lifecycle!Cancel(Job) /\ settlement' = Settled(Due)
      /\ outbox' = outbox \cup {<<SETTLEMENT, unassigns>>}
      /\ UNCHANGED <<unassigns, payment, order, payoutReady, usedKeys, recorded, stripeVars>>
  BY DEF cancelJob, Due
<1>2. StripeStep /\ RowStep /\ RecordedStep
  BY <1>1, NothingMoves
<1>3. settlement' \in [code : SettlementCodes \cup {"NONE"}, fee : 0..Total, refund : 0..Total]
  BY <1>1, SettledType DEF Inv
<1>4. RestTyped /\ status'[Job] # "NONE"
  <2>1. <<SETTLEMENT, unassigns>> \in Messages
    BY DEF Inv, TypeOK, Messages
  <2>2. QED BY <1>1, <1>3, <2>1, JobTypes DEF RestTyped, Inv, TypeOK
<1>5. QED BY <1>1, <1>2, <1>4, StepKeepsInv DEF NothingBeforeTheJob

LEMMA jobMovesInv == ASSUME Inv, jobMoves PROVE Inv'
<1>1. /\ \/ Lifecycle!Search(Job) \/ Lifecycle!Take(Job, Driver) \/ Lifecycle!Recall(Job) \/ Lifecycle!Progress(Job)
      /\ UNCHANGED <<unassigns, cancelledFrom, settlement, payment, order, payoutReady, usedKeys, outbox, recorded, stripeVars>>
  BY DEF jobMoves, rowVars
<1>2. StripeStep /\ RowStep /\ RecordedStep
  BY <1>1, NothingMoves
<1>3. RestTyped /\ status'[Job] # "NONE"
  BY <1>1, JobTypes DEF RestTyped, Inv, TypeOK
<1>4. QED BY <1>1, <1>2, <1>3, StepKeepsInv DEF NothingBeforeTheJob

LEMMA enqueueCaptureInv == ASSUME Inv, enqueueCaptureForDeliveredJob PROVE Inv'
<1>1. /\ Lifecycle!Progress(Job) /\ payment' = payment /\ OrderFollows
      /\ outbox' \subseteq outbox \cup {<<CAPTURE, unassigns>>}
      /\ UNCHANGED <<unassigns, cancelledFrom, settlement, payoutReady, usedKeys, recorded, stripeVars>>
  BY DEF enqueueCaptureForDeliveredJob
<1>2. StripeStep /\ RowStep /\ RecordedStep
  BY <1>1, NothingMoves
<1>3. RestTyped /\ status'[Job] # "NONE"
  <2>1. <<CAPTURE, unassigns>> \in Messages
    BY DEF Inv, TypeOK, Messages
  <2>2. QED BY <1>1, <2>1, JobTypes, OrderTypes DEF RestTyped, Inv, TypeOK
<1>4. QED BY <1>1, <1>2, <1>3, StepKeepsInv DEF NothingBeforeTheJob

LEMMA applyManualUnassignInv == ASSUME Inv, applyManualUnassign PROVE Inv'
<1>1. /\ Lifecycle!Unassign(Job) /\ unassigns < MaxUnassigns /\ unassigns' = unassigns + 1
      /\ UNCHANGED <<settlement, payment, order, payoutReady, usedKeys, outbox, recorded, stripeVars>>
  BY DEF applyManualUnassign, rowVars
<1>2. StripeStep /\ RowStep /\ RecordedStep
  BY <1>1, NothingMoves
<1>3. RestTyped /\ status'[Job] # "NONE"
  <2>1. unassigns' \in 0..MaxUnassigns
    BY <1>1, BoundsAssumption DEF Inv, TypeOK
  <2>2. QED BY <1>1, <2>1, JobTypes DEF RestTyped, Inv, TypeOK
<1>4. QED BY <1>1, <1>2, <1>3, StepKeepsInv DEF NothingBeforeTheJob

-----------------------------------------------------------------------------
\* The worker

\* What a handler leaves, whether it commits or not.
LEMMA WorkerStep ==
  ASSUME Inv, UNCHANGED <<jobVars, usedKeys, recorded>>, NEW m \in outbox,
         outbox' = outbox \/ outbox' = outbox \ {m},
         StripeStep, RowStep, payment.intent # NoIntent => payment'.intent = payment.intent,
         order' = order \/ OrderFollows, payoutReady' \in BOOLEAN,
         settlement' = settlement \/ settlement' = Settled(Due)
  PROVE  Inv'
<1>1. UNCHANGED <<status, assigned, unassigns, usedKeys, recorded>>
  BY DEF jobVars
<1>2. order' \in {"NONE", "PAYMENT_AUTHORIZED", "PAYMENT_FAILED", "FULFILLED"}
  BY OrderTypes DEF Inv, TypeOK
<1>3. settlement' \in [code : SettlementCodes \cup {"NONE"}, fee : 0..Total, refund : 0..Total]
  BY SettledType DEF Inv, TypeOK
<1>4. RestTyped
  BY <1>1, <1>2, <1>3 DEF RestTyped, Inv, TypeOK
<1>5. RecordedStep
  BY <1>1, NothingMoves
<1>6. NothingBeforeTheJob'
  BY <1>1 DEF Inv, NothingBeforeTheJob
<1>7. QED BY <1>4, <1>5, <1>6, StepKeepsInv

LEMMA NotHandledInv ==
  ASSUME Inv, UNCHANGED <<jobVars, usedKeys, recorded>>, NEW m \in outbox, NEW answer, StripeStep, NotHandled(m, answer)
  PROVE  Inv'
<1>1. UNCHANGED <<settlement, payment, order, payoutReady>> /\ (outbox' = outbox \/ outbox' = outbox \ {m})
  BY DEF NotHandled
<1>2. RowStep
  BY <1>1, NothingMoves
<1>3. payoutReady' \in BOOLEAN
  BY <1>1 DEF Inv, TypeOK
<1>4. QED BY <1>1, <1>2, <1>3, WorkerStep

LEMMA NothingToDoInv ==
  ASSUME Inv, UNCHANGED <<jobVars, usedKeys, recorded>>, NEW m \in outbox, NothingToDo(m)
  PROVE  Inv'
<1>1. /\ payment' = payment /\ OrderFollows /\ outbox' = outbox \ {m}
      /\ UNCHANGED <<settlement, payoutReady>> /\ UNCHANGED stripeVars
  BY DEF NothingToDo
<1>2. StripeStep /\ RowStep
  BY <1>1, NothingMoves
<1>3. payoutReady' \in BOOLEAN
  BY <1>1 DEF Inv, TypeOK
<1>4. QED BY <1>1, <1>2, <1>3, WorkerStep

\* The answer to a settling call is the state of the intent: the row copies it.
LEMMA SettledRow ==
  ASSUME Inv, StripeStep, NEW o \in IntentRecords, o.intent = payment.intent, payment.intent \in IntentIds,
         intents'[o.intent] = o, payment' = Snapshot(o)
  PROVE  RowStep /\ payment'.intent = payment.intent
<1>1. payment' \in PaymentRecords /\ payment'.intent = payment.intent
  BY SnapshotType
<1>2. o.received > 0 => o.status = "succeeded"
  <2>1. StripeInv'
    BY <1>1, StripeInvStep DEF Inv
  <2>2. intents'[o.intent].received > 0 <=> intents'[o.intent].status = "succeeded"
    BY <2>1 DEF StripeInv, IntentsAreSane
  <2>3. QED BY <2>2
<1>3. ASSUME EventsInOrder, NEW n \in recorded, events[n].status = "succeeded"
      PROVE  o.received = events[n].received
  <2>1. events[n] = intents[payment.intent]
    BY <1>3, HeardCharge
  <2>2. intents'[payment.intent] = intents[payment.intent]
    BY <1>3, <2>1, StripeKeepsCharges DEF Inv
  <2>3. QED BY <2>1, <2>2
<1>4. CopiesIntent(o)
  BY <1>2, <1>3 DEF CopiesIntent
<1>5. QED BY <1>1, <1>4 DEF RowStep

LEMMA handlePaymentIntentCreateRequestedInv ==
  ASSUME Inv, NEW m \in outbox, handlePaymentIntentCreateRequested(m) PROVE Inv'
<1>1. UNCHANGED <<jobVars, usedKeys, recorded>> /\ m \in Messages
  BY DEF handlePaymentIntentCreateRequested, Inv, TypeOK
<1>2. CASE NothingToDo(m)
  BY <1>1, <1>2, NothingToDoInv
<1>3. CASE ~HasIntent
  <2>1. payment.intent = NoIntent
    BY <1>3 DEF HasIntent
  <2>2. PICK answer :
             /\ createPaymentIntent(m, answer)
             /\ \/ /\ answer # Error
                   /\ payment' = Snapshot(answer)
                   /\ outbox' = outbox \ {m}
                   /\ OrderFollows
                   /\ UNCHANGED <<settlement, payoutReady>>
                \/ NotHandled(m, answer)
    BY <1>3 DEF handlePaymentIntentCreateRequested
  <2>3. /\ StripeStep
        /\ answer # Error => /\ answer \in IntentRecords /\ answer.intent = "created"
                             /\ answer.status = "requires_payment_method" /\ answer.received = 0
    BY <1>1, <2>2, CreateStep
  <2>4. CASE NotHandled(m, answer)
    BY <1>1, <2>3, <2>4, NotHandledInv
  <2>5. CASE /\ answer # Error /\ payment' = Snapshot(answer) /\ outbox' = outbox \ {m} /\ OrderFollows
             /\ UNCHANGED <<settlement, payoutReady>>
    <3>1. CopiesIntent(answer)
      <4>1. NoIntent \notin IntentIds /\ "created" \in IntentIds
        BY IntentsAssumption DEF IntentIds
      <4>2. QED BY <2>1, <2>3, <2>5, <4>1, HeardCharge DEF CopiesIntent
    <3>2. RowStep
      BY <2>3, <2>5, <3>1, SnapshotType DEF RowStep
    <3>3. payoutReady' \in BOOLEAN
      BY <2>5 DEF Inv, TypeOK
    <3>4. QED BY <1>1, <2>1, <2>3, <2>5, <3>2, <3>3, WorkerStep
  <2>6. QED BY <2>2, <2>4, <2>5
<1>4. QED BY <1>2, <1>3 DEF handlePaymentIntentCreateRequested

LEMMA handlePaymentCaptureRequestedInv ==
  ASSUME Inv, NEW m \in outbox, handlePaymentCaptureRequested(m) PROVE Inv'
<1>1. UNCHANGED <<jobVars, usedKeys, recorded>> /\ m \in Messages
  BY DEF handlePaymentCaptureRequested, Inv, TypeOK
<1>2. CASE NothingToDo(m)
  BY <1>1, <1>2, NothingToDoInv
<1>3. CASE Capturable
  <2>1. payment.intent \in IntentIds /\ payoutReady \in BOOLEAN /\ Total \in 1..Total
    BY <1>3, AmountsAssumption DEF Capturable, Inv, TypeOK
  <2>2. PICK answer :
             /\ capturePaymentIntent(m, payment.intent, Total, answer)
             /\ \/ /\ answer # Error
                   /\ payment' = Snapshot(answer)
                   /\ outbox' = outbox \ {m}
                   /\ OrderFollows
                   /\ payoutReady' = (payoutReady \/ (payment'.status = "CAPTURED" /\ assigned[Job] # NoDriver))
                   /\ UNCHANGED settlement
                \/ NotHandled(m, answer)
    BY <1>3 DEF handlePaymentCaptureRequested
  <2>3. /\ StripeStep
        /\ answer # Error => /\ answer \in IntentRecords /\ answer.intent = payment.intent
                             /\ intents'[payment.intent] = answer
    <3>1. PICK i \in IntentIds : i = payment.intent
      BY <2>1
    <3>2. capturePaymentIntent(m, i, Total, answer)
      BY <2>2, <3>1
    <3>3. QED BY <1>1, <2>1, <3>1, <3>2, CaptureStep
  <2>4. CASE NotHandled(m, answer)
    BY <1>1, <2>3, <2>4, NotHandledInv
  <2>5. CASE ~NotHandled(m, answer)
    <3>1. RowStep /\ payment'.intent = payment.intent
      BY <2>1, <2>2, <2>3, <2>5, SettledRow
    <3>2. payoutReady' \in BOOLEAN
      BY <2>1, <2>2, <2>5
    <3>3. QED BY <1>1, <2>2, <2>3, <2>5, <3>1, <3>2, WorkerStep
  <2>6. QED BY <2>4, <2>5
<1>4. QED BY <1>2, <1>3 DEF handlePaymentCaptureRequested

LEMMA handlePaymentCancellationSettlementRequestedInv ==
  ASSUME Inv, NEW m \in outbox, handlePaymentCancellationSettlementRequested(m) PROVE Inv'
<1>1. UNCHANGED <<jobVars, usedKeys, recorded>> /\ m \in Messages
  BY DEF handlePaymentCancellationSettlementRequested, Inv, TypeOK
<1>2. /\ payoutReady \in BOOLEAN /\ payment \in PaymentRecords /\ payment.intent \in IntentIds \cup {NoIntent}
      /\ payment.captured \in 0..Total /\ payment.refunded \in 0..payment.captured /\ Total \in Nat
  BY AmountsAssumption DEF Inv, TypeOK, PaymentRecords, RowInv, AmountsConsistent
<1>3. CASE /\ payment' = WithoutProvider(payment) /\ settlement' = Settled(Due) /\ outbox' = outbox \ {m}
           /\ OrderFollows /\ UNCHANGED <<payoutReady, stripeVars>>
  <2>1. /\ payment' \in PaymentRecords /\ payment'.intent = payment.intent
        /\ payment'.authorized = payment.authorized
        /\ payment'.captured = payment.captured /\ payment'.refunded = payment.refunded
        /\ \/ payment'.status = payment.status
           \/ payment.status \notin ChargedStatuses /\ payment'.status = "CANCELLED"
    BY <1>2, <1>3 DEF WithoutProvider, PaymentRecords, PaymentStatuses, ChargedStatuses
  <2>2. payment.status \notin ChargedStatuses => payment.captured = 0
    BY <1>2 DEF Inv, RowInv, StatusFits
  <2>3. RowStep
    BY <2>1, <2>2 DEF RowStep, KeepsRow
  <2>4. StripeStep
    BY <1>3, NothingMoves
  <2>5. QED BY <1>1, <1>2, <1>3, <2>1, <2>3, <2>4, WorkerStep
<1>4. CASE /\ payment.intent # NoIntent
           /\ \E answer \in SettlementAnswers :
             /\ \/ CancelAuthorization(m, answer)
                \/ CaptureFee(m, answer)
                \/ RefundCaptured(m, answer)
             /\ \/ /\ answer # Error
                   /\ payment' = IF answer.status = "refund" THEN AfterRefund(payment, answer.received)
                                                            ELSE Snapshot(answer)
                   /\ settlement' = Settled(Due)
                   /\ outbox' = outbox \ {m}
                   /\ OrderFollows
                   /\ UNCHANGED payoutReady
                \/ NotHandled(m, answer)
  <2>1. PICK i \in IntentIds : i = payment.intent
    BY <1>2, <1>4
  <2>2. PICK answer :
             /\ \/ CancelAuthorization(m, answer)
                \/ CaptureFee(m, answer)
                \/ RefundCaptured(m, answer)
             /\ \/ /\ answer # Error
                   /\ payment' = IF answer.status = "refund" THEN AfterRefund(payment, answer.received)
                                                            ELSE Snapshot(answer)
                   /\ settlement' = Settled(Due)
                   /\ outbox' = outbox \ {m}
                   /\ OrderFollows
                   /\ UNCHANGED payoutReady
                \/ NotHandled(m, answer)
    BY <1>4
  <2>3. /\ StripeStep
        /\ answer # Error =>
             /\ answer \in IntentRecords
             /\ \/ answer.status = "refund" /\ answer.received \in 0..payment.captured
                \/ answer.status # "refund" /\ answer.intent = payment.intent /\ intents'[payment.intent] = answer
    <3>1. CASE CancelAuthorization(m, answer)
      <4>1. cancelPaymentIntent(m, i, answer)
        BY <2>1, <3>1 DEF CancelAuthorization
      <4>2. QED BY <1>1, <2>1, <4>1, CancelStep
    <3>2. CASE CaptureFee(m, answer)
      <4>1. capturePaymentIntent(m, i, Due.retained, answer) /\ Due.providerAction = "CAPTURE_CANCELLATION_FEE"
        BY <2>1, <3>2 DEF CaptureFee
      <4>2. Due.retained \in 1..Total
        BY <1>2, <4>1, DueBounds DEF Inv
      <4>3. QED BY <1>1, <2>1, <4>1, <4>2, CaptureStep
    <3>3. CASE RefundCaptured(m, answer)
      <4>1. refundPaymentIntent(m, i, Due.refund, answer) /\ Due.providerAction = "REFUND_CAPTURED_PAYMENT"
        BY <2>1, <3>3 DEF RefundCaptured
      <4>2. Due.refund \in 0..payment.captured /\ Due.refund > 0
        BY <4>1, DueBounds DEF Inv
      <4>3. Due.refund \in 1..Total
        BY <1>2, <4>2
      <4>4. QED BY <1>1, <2>1, <4>1, <4>2, <4>3, RefundStep
    <3>4. QED BY <2>2, <3>1, <3>2, <3>3
  <2>4. CASE NotHandled(m, answer)
    BY <1>1, <2>3, <2>4, NotHandledInv
  <2>5. CASE ~NotHandled(m, answer) /\ answer.status = "refund"
    <3>1. payment' = AfterRefund(payment, answer.received) /\ answer.received \in 0..payment.captured
      BY <2>2, <2>3, <2>5
    <3>2. Greatest(payment.refunded, answer.received) \in 0..payment.captured
      BY <1>2, <3>1 DEF Greatest
    <3>3. /\ payment'.refunded = Greatest(payment.refunded, answer.received) /\ payment' \in PaymentRecords
          /\ payment'.intent = payment.intent /\ payment'.authorized = payment.authorized
          /\ payment'.captured = payment.captured /\ payment'.status \in {"REFUNDED", "PARTIALLY_REFUNDED"}
      <4> HIDE DEF Greatest
      <4>1. Greatest(payment.refunded, answer.received) \in 0..Total
        BY <1>2, <3>2
      <4>2. QED BY <1>2, <3>1, <4>1 DEF AfterRefund, PaymentRecords, PaymentStatuses
    <3>4. RowStep
      BY <3>2, <3>3 DEF RowStep, BooksRefund
    <3>5. payoutReady' \in BOOLEAN
      BY <1>2, <2>2, <2>5
    <3>6. QED BY <1>1, <2>2, <2>3, <2>5, <3>3, <3>4, <3>5, WorkerStep
  <2>6. CASE ~NotHandled(m, answer) /\ answer.status # "refund"
    <3>1. /\ payment' = Snapshot(answer) /\ answer \in IntentRecords /\ answer.intent = payment.intent
          /\ intents'[payment.intent] = answer /\ payoutReady' \in BOOLEAN
      BY <1>2, <2>2, <2>3, <2>6
    <3>2. RowStep /\ payment'.intent = payment.intent
      BY <2>1, <2>3, <3>1, SettledRow
    <3>3. QED BY <1>1, <2>2, <2>3, <2>6, <3>1, <3>2, WorkerStep
  <2>7. QED BY <2>4, <2>5, <2>6
<1>5. QED BY <1>1, <1>3, <1>4 DEF handlePaymentCancellationSettlementRequested

-----------------------------------------------------------------------------
\* Stripe's events, refunds and expiries

\* What moves Stripe alone.
LEMMA StripeAloneInv ==
  ASSUME Inv, StripeStep, UNCHANGED <<jobVars, rowVars>> PROVE Inv'
<1>1. UNCHANGED <<status, assigned, unassigns, settlement, payment, order, payoutReady, usedKeys, outbox, recorded>>
  BY DEF jobVars, rowVars
<1>2. RowStep /\ RecordedStep
  BY <1>1, NothingMoves
<1>3. RestTyped /\ NothingBeforeTheJob'
  BY <1>1 DEF RestTyped, Inv, TypeOK, NothingBeforeTheJob
<1>4. QED BY <1>1, <1>2, <1>3, StepKeepsInv

LEMMA handleStripeWebhookInv == ASSUME Inv, NEW n \in DOMAIN events, handleStripeWebhook(n) PROVE Inv'
<1> DEFINE e == events[n]
<1>1. /\ n \notin recorded /\ recorded' = recorded \cup {n} /\ (EventsInOrder => 1..(n - 1) \subseteq recorded)
      /\ UNCHANGED <<status, assigned, unassigns, settlement, payoutReady, usedKeys, outbox>> /\ UNCHANGED stripeVars
      /\ payment' = (IF e.intent = payment.intent THEN AfterEvent(payment, e) ELSE payment)
      /\ OrderFollows
  BY DEF handleStripeWebhook, jobVars
<1>2. /\ events' = events /\ events \in Seq(IntentRecords) /\ recorded \subseteq DOMAIN events
      /\ DOMAIN events = 1..Len(events) /\ e \in IntentRecords
  BY <1>1 DEF stripeVars, Inv, TypeOK
<1>3. /\ e.intent \in IntentIds /\ (e.status = "succeeded" => intents[e.intent] = e)
      /\ (e.status \notin {"succeeded", "refund"} => e.received = 0)
  BY DEF Inv, StripeInv, EventsAreTrue
<1>4. StripeStep
  BY <1>1, NothingMoves
<1>5. /\ payment \in PaymentRecords /\ payment.captured \in 0..Total /\ payment.refunded \in 0..payment.captured
      /\ Total \in Nat
  BY AmountsAssumption DEF Inv, TypeOK, PaymentRecords, RowInv, AmountsConsistent
<1>6. NoIntent \notin IntentIds
  BY IntentsAssumption DEF IntentIds
<1>7. RestTyped
  BY <1>1, OrderTypes DEF RestTyped, Inv, TypeOK
<1>8. CASE e.intent # payment.intent
  <2>1. RowStep /\ payment' = payment
    BY <1>1, <1>8, NothingMoves
  <2>2. RecordedStep
    BY <1>1, <1>2, <1>8, <2>1 DEF RecordedStep
  <2>3. NothingBeforeTheJob'
    BY <1>1, <2>1 DEF Inv, NothingBeforeTheJob
  <2>4. QED BY <1>4, <1>7, <2>1, <2>2, <2>3, StepKeepsInv
<1>9. CASE e.intent = payment.intent
  <2>1. payment' = AfterEvent(payment, e)
    BY <1>1, <1>9
  <2>2. NothingBeforeTheJob'
    BY <1>1, <1>3, <1>6, <1>9 DEF Inv, NothingBeforeTheJob, NewPayment
  <2>3. CASE e.status = "refund"
    <3> DEFINE total == payment.refunded + e.received
    <3>1. e.received \in Nat
      BY <1>2, <1>5 DEF IntentRecords
    <3>2. Greatest(payment.refunded, Least(total, payment.captured)) \in 0..payment.captured
      BY <1>5, <3>1 DEF Greatest, Least
    <3>3. Greatest(payment.refunded, Least(total, payment.captured)) \in 0..Total
      BY <1>5, <3>2
    <3>4. payment' = [payment EXCEPT !.refunded = Greatest(payment.refunded, Least(total, payment.captured)),
                                     !.status = IF total >= payment.captured THEN "REFUNDED" ELSE "PARTIALLY_REFUNDED"]
      BY <2>1, <2>3 DEF AfterEvent, AfterRefundEvent
    <3> HIDE DEF total
    <3>5. /\ payment'.refunded = Greatest(payment.refunded, Least(total, payment.captured))
          /\ payment' \in PaymentRecords
          /\ payment'.intent = payment.intent /\ payment'.authorized = payment.authorized
          /\ payment'.captured = payment.captured /\ payment'.status \in {"REFUNDED", "PARTIALLY_REFUNDED"}
      BY <1>5, <3>3, <3>4 DEF PaymentRecords, PaymentStatuses
    <3>6. RowStep
      BY <3>2, <3>5 DEF RowStep, BooksRefund
    <3>7. RecordedStep
      BY <1>1, <1>2, <2>3 DEF RecordedStep
    <3>8. QED BY <1>4, <1>7, <2>2, <3>5, <3>6, <3>7, StepKeepsInv
  <2>4. CASE e.status # "refund"
    <3>1. payment' = Snapshot(e)
      BY <2>1, <2>4 DEF AfterEvent
    <3>2. payment' \in PaymentRecords /\ payment'.intent = e.intent /\ payment'.captured = e.received
      BY <1>2, <3>1, SnapshotType
    <3>3. e.received > 0 => e.status = "succeeded" /\ intents'[e.intent] = e
      BY <1>1, <1>3, <2>4 DEF stripeVars
    <3>4. ~(EventsInOrder /\ \E k \in recorded : events[k].status = "succeeded" /\ events[k].intent = e.intent)
      <4> SUFFICES ASSUME EventsInOrder, NEW k \in recorded, events[k].status = "succeeded", events[k].intent = e.intent
                   PROVE  FALSE
        OBVIOUS
      <4>1. k \in DOMAIN events /\ k \in Nat /\ n \in Nat /\ k # n
        BY <1>1, <1>2
      <4>2. CASE k < n
        BY <2>4, <4>1, <4>2 DEF Inv, StripeInv, ChargesAreLast
      <4>3. CASE n < k
        <5>1. 1..(k - 1) \subseteq recorded
          BY DEF Inv, RowInv, HeardInOrder
        <5>2. n \in 1..(k - 1)
          BY <1>2, <4>1, <4>3
        <5>3. QED BY <1>1, <5>1, <5>2
      <4>4. QED BY <4>1, <4>2, <4>3
    <3>5. CopiesIntent(e)
      BY <1>3, <1>9, <3>1, <3>3, <3>4 DEF CopiesIntent
    <3>6. RowStep
      BY <1>2, <3>2, <3>5 DEF RowStep
    <3>7. RecordedStep
      BY <1>1, <1>2, <3>2 DEF RecordedStep
    <3>8. QED BY <1>4, <1>7, <1>9, <2>2, <3>2, <3>6, <3>7, StepKeepsInv
  <2>5. QED BY <2>3, <2>4
<1>10. QED BY <1>8, <1>9

LEMMA dashboardRefundInv == ASSUME Inv, NEW amount \in RefundAmounts, dashboardRefund(amount) PROVE Inv'
<1>1. /\ payment.intent # NoIntent /\ Refund(payment.intent, amount)
      /\ UNCHANGED <<jobVars, rowVars>> /\ UNCHANGED <<intents, answers, events>>
  BY DEF dashboardRefund
<1>2. amount \in 1..Total
  BY AmountsAssumption
<1>3. Returns
  BY <1>1, <1>2, RefundReturns
<1>4. StripeStep
  BY <1>1, <1>3 DEF StripeStep, Learns
<1>5. QED BY <1>1, <1>4, StripeAloneInv

LEMMA refundUpdatedInv == ASSUME Inv, NEW n \in DOMAIN refunds, refundUpdated(n) PROVE Inv'
<1> DEFINE e == [intent |-> payment.intent, status |-> "refund", received |-> refunds[n]]
<1>1. events' = Append(events, e) /\ UNCHANGED <<jobVars, rowVars>> /\ UNCHANGED <<intents, answers, refunds, refunded>>
  BY DEF refundUpdated
<1>2. refunds \in Seq(1..Total) /\ payment.intent \in IntentIds \cup {NoIntent} /\ Total \in Nat
  BY AmountsAssumption DEF Inv, TypeOK
<1>3. payment.intent \in IntentIds
  <2>1. refunds # <<>>
    OBVIOUS
  <2>2. QED BY <1>2, <2>1 DEF Inv, StripeInv, RefundsAreOurs
<1>4. refunds[n] \in 0..Total
  BY <1>2
<1>5. e \in IntentRecords
  BY <1>3, <1>4 DEF IntentRecords
<1>6. Tells
  BY <1>1, <1>3, <1>5 DEF Tells
<1>7. StripeStep
  BY <1>1, <1>6 DEF StripeStep, Learns
<1>8. QED BY <1>1, <1>7, StripeAloneInv

LEMMA holdExpiresInv == ASSUME Inv, NEW i \in IntentIds, holdExpires(i) PROVE Inv'
<1> DEFINE o == [intent |-> i, status |-> "canceled", received |-> 0]
<1>1. /\ intents[i].status = "requires_capture" /\ MovesTo(o)
      /\ UNCHANGED <<jobVars, rowVars>> /\ answers' = answers
  BY DEF holdExpires
<1>2. o \in IntentRecords
  BY AmountsAssumption DEF IntentRecords, IntentStatuses
<1>3. Moves(o)
  BY <1>1, <1>2 DEF Moves, MovesTo, IntentStatuses
<1>4. StripeStep
  BY <1>1, <1>2, <1>3 DEF StripeStep, Learns
<1>5. QED BY <1>1, <1>4, StripeAloneInv

-----------------------------------------------------------------------------
\* The theorems

LEMMA StepInv == Inv /\ [Next]_vars => Inv'
<1> SUFFICES ASSUME Inv, [Next]_vars PROVE Inv'
  OBVIOUS
<1>1. CASE UNCHANGED vars
  BY <1>1, NothingMoves, StripeAloneInv DEF vars
<1>2. ASSUME NEW m \in outbox, WorkerHandles(m) PROVE Inv'
  BY <1>2, handlePaymentIntentCreateRequestedInv, handlePaymentCaptureRequestedInv,
     handlePaymentCancellationSettlementRequestedInv DEF WorkerHandles
<1>3. QED
  BY <1>1, <1>2, createJobRequestInv, submitPublicCustomerOrderInv, authorizeJobPaymentInv, jobMovesInv,
     enqueueCaptureInv, cancelJobInv, applyManualUnassignInv, handleStripeWebhookInv, dashboardRefundInv,
     refundUpdatedInv, holdExpiresInv DEF Next

\* The inductive invariant holds in every behaviour: what Stripe says of a charge in an
\* answer, an event or the row is true of the intent, and stays true.
THEOREM PaymentsInvariant == Spec => []Inv
BY InitInv, StepInv, PTL DEF Spec

\* Every variable keeps its type.
THEOREM TypeCorrect == Spec => []TypeOK
<1>1. Inv => TypeOK
  BY DEF Inv
<1>2. QED BY <1>1, PaymentsInvariant, PTL

\* No handler, webhook or settlement breaks the CHECKs of the payments table.
THEOREM AmountsStayConsistent == Spec => []AmountsConsistent
<1>1. Inv => AmountsConsistent
  BY DEF Inv, RowInv
<1>2. QED BY <1>1, PaymentsInvariant, PTL

\* The cents a row calls captured are those Stripe received for its intent, whatever
\* answers were lost, repeated or late.
THEOREM CapturedWasReceived == Spec => []CapturedIsReceived
<1>1. Inv => CapturedIsReceived
  BY DEF Inv, RowInv
<1>2. QED BY <1>1, PaymentsInvariant, PTL

\* A customer is charged through one intent at most, whatever the keys of the attempts.
THEOREM ChargedAtMostOnce == Spec => []ChargedOnce
<1>1. Inv => ChargedOnce
  <2> SUFFICES ASSUME Inv PROVE ChargedOnce
    OBVIOUS
  <2> DEFINE charged == {i \in IntentIds : intents[i].received > 0}
  <2>1. charged \subseteq {payment.intent}
    BY DEF Inv, StripeInv, IntentsAreSane, ChargedIsOurs
  <2>2. IsFiniteSet({payment.intent}) /\ Cardinality({payment.intent}) = 1
    BY FS_Singleton
  <2>3. Cardinality(charged) <= 1
    BY <2>1, <2>2, FS_Subset
  <2>4. QED BY <2>3 DEF ChargedOnce
<1>2. QED BY <1>1, PaymentsInvariant, PTL

\* When Stripe's events come in order and all were handled, the row says what Stripe received.
THEOREM RecordsConverge == Spec => []RecordConverges
<1>1. Inv => RecordConverges
  <2> SUFFICES ASSUME Inv, EventsInOrder, recorded = DOMAIN events, payment.intent # NoIntent
               PROVE  payment.captured = intents[payment.intent].received
    BY DEF RecordConverges
  <2>1. /\ payment.intent \in IntentIds /\ payment.captured \in 0..Total
        /\ intents[payment.intent].received \in 0..Total /\ Total \in Nat
    BY AmountsAssumption DEF Inv, TypeOK, IntentRecords
  <2>2. CASE intents[payment.intent].status = "succeeded"
    <3>1. PICK n \in DOMAIN events : events[n] = intents[payment.intent]
      BY <2>1, <2>2 DEF Inv, StripeInv, ChargesAreTold
    <3>2. QED BY <2>2, <3>1, HeardCharge
  <2>3. CASE intents[payment.intent].status # "succeeded"
    <3>1. intents[payment.intent].received = 0
      BY <2>1, <2>3 DEF Inv, StripeInv, IntentsAreSane
    <3>2. QED BY <2>1, <3>1 DEF Inv, RowInv, CapturedIsReceived
  <2>4. QED BY <2>2, <2>3
<1>2. QED BY <1>1, PaymentsInvariant, PTL

\* An order is fulfilled and a payout released only in a step after which the job is
\* delivered and Stripe has the whole price.
THEOREM NothingPaidOutUncharged == Spec => NothingIsPaidOutUncharged
<1> DEFINE Released == \/ order' = "FULFILLED" /\ order # "FULFILLED"
                       \/ payoutReady' /\ ~payoutReady
           Paid == status'[Job] = "DELIVERED" /\ intents'[payment'.intent].received = Total
<1>1. ASSUME Inv, Inv', [Next]_vars, Released PROVE Paid
  <2>1. payment'.status = "CAPTURED" => intents'[payment'.intent].received = Total
    BY <1>1, AmountsAssumption DEF Inv, RowInv, StatusFits, CapturedIsReceived
  <2>2. OrderFollows /\ order' = "FULFILLED" /\ order # "FULFILLED"
          => status'[Job] = "DELIVERED" /\ payment'.status = "CAPTURED"
    BY DEF OrderFollows
  <2>3. CASE UNCHANGED <<order, payoutReady>>
    BY <1>1, <2>3
  <2>4. CASE OrderFollows /\ UNCHANGED payoutReady
    BY <1>1, <2>1, <2>2, <2>4
  <2>5. ASSUME NEW key \in Keys, submitPublicCustomerOrder(key) PROVE Paid
    BY <1>1, <2>5 DEF submitPublicCustomerOrder
  <2>6. ASSUME NEW key \in Keys, authorizeJobPayment(key) PROVE Paid
    BY <2>3, <2>4, <2>6 DEF authorizeJobPayment
  <2>7. ASSUME NEW m \in outbox, handlePaymentIntentCreateRequested(m) PROVE Paid
    BY <2>3, <2>4, <2>7 DEF handlePaymentIntentCreateRequested, NothingToDo, NotHandled
  <2>8. ASSUME NEW m \in outbox, handlePaymentCaptureRequested(m) PROVE Paid
    <3>1. CASE NothingToDo(m)
      BY <2>4, <3>1 DEF NothingToDo
    <3>2. CASE \E answer : NotHandled(m, answer)
      BY <2>3, <3>2 DEF NotHandled
    <3>3. CASE /\ Capturable /\ UNCHANGED jobVars /\ OrderFollows
               /\ payoutReady' = (payoutReady \/ (payment'.status = "CAPTURED" /\ assigned[Job] # NoDriver))
      <4>1. status'[Job] = "DELIVERED"
        BY <3>3 DEF Capturable, jobVars
      <4>2. payment'.status = "CAPTURED"
        BY <1>1, <2>2, <3>3
      <4>3. QED BY <2>1, <4>1, <4>2
    <3>4. QED BY <2>8, <3>1, <3>2, <3>3 DEF handlePaymentCaptureRequested
  <2>9. ASSUME NEW m \in outbox, handlePaymentCancellationSettlementRequested(m) PROVE Paid
    BY <2>3, <2>4, <2>9 DEF handlePaymentCancellationSettlementRequested, NotHandled
  <2>10. CASE createJobRequest \/ jobMoves \/ enqueueCaptureForDeliveredJob \/ cancelJob \/ applyManualUnassign
    BY <2>3, <2>4, <2>10 DEF createJobRequest, jobMoves, enqueueCaptureForDeliveredJob, cancelJob,
                             applyManualUnassign, rowVars
  <2>11. ASSUME NEW n \in DOMAIN events, handleStripeWebhook(n) PROVE Paid
    BY <2>4, <2>11 DEF handleStripeWebhook
  <2>12. CASE \/ \E amount \in RefundAmounts : dashboardRefund(amount)
              \/ \E n \in DOMAIN refunds : refundUpdated(n)
              \/ \E i \in IntentIds : holdExpires(i)
    BY <2>3, <2>12 DEF dashboardRefund, refundUpdated, holdExpires, rowVars
  <2>13. CASE UNCHANGED vars
    BY <2>3, <2>13 DEF vars, rowVars
  <2>14. QED
    BY <1>1, <2>5, <2>6, <2>7, <2>8, <2>9, <2>10, <2>11, <2>12, <2>13 DEF Next, WorkerHandles
<1>2. Inv /\ Inv' /\ [Next]_vars => [Released => Paid]_vars
  BY <1>1
<1>3. QED
  BY <1>2, PaymentsInvariant, PTL DEF Spec, NothingIsPaidOutUncharged

\* The whole price is taken only for a job delivered at that moment, if the price is more
\* than the least cancellation fee of 250 cents: below, that fee is the whole price.
THEOREM FullChargeOnDelivery ==
  ASSUME Total > 250
  PROVE  Spec => ChargedInFullOnDelivery
<1> DEFINE InFull == \A i \in IntentIds : intents'[i].received = Total /\ intents[i].received # Total
                                            => status[Job] = "DELIVERED"
<1>1. ASSUME Inv, [Next]_vars PROVE InFull
  <2>1. ASSUME NEW amount \in 0..Total, amount # Total,
               \A i \in IntentIds : intents'[i] = intents[i] \/ intents'[i].received = amount
        PROVE  InFull
    BY <2>1
  <2>2. 0 \in 0..Total /\ 0 # Total /\ Total \in 1..Total
    BY AmountsAssumption
  <2>3. CASE intents' = intents
    BY <2>3
  <2>4. ASSUME NEW key \in Keys, submitPublicCustomerOrder(key) PROVE InFull
    <3>1. PICK answer : authorizePaymentIntent(key, NoIntent, answer)
      BY <2>4 DEF submitPublicCustomerOrder
    <3>2. QED BY <1>1, <2>1, <2>2, <3>1, ConfirmStep
  <2>5. ASSUME NEW key \in Keys, authorizeJobPayment(key) PROVE InFull
    <3>1. PICK answer : authorizePaymentIntent(key, payment.intent, answer)
      BY <2>5 DEF authorizeJobPayment
    <3>2. PICK target \in IntentIds \cup {NoIntent} : target = payment.intent
      BY <1>1 DEF Inv, TypeOK
    <3>3. authorizePaymentIntent(key, target, answer)
      BY <3>1, <3>2
    <3>4. QED BY <1>1, <2>1, <2>2, <3>3, ConfirmStep
  <2>6. ASSUME NEW m \in outbox, handlePaymentIntentCreateRequested(m) PROVE InFull
    <3>1. m \in Messages
      BY <1>1 DEF Inv, TypeOK
    <3>2. CASE NothingToDo(m)
      BY <2>3, <3>2 DEF NothingToDo, stripeVars
    <3>3. CASE \E answer : createPaymentIntent(m, answer)
      BY <1>1, <2>1, <2>2, <3>1, <3>3, CreateStep
    <3>4. QED BY <2>6, <3>2, <3>3 DEF handlePaymentIntentCreateRequested
  <2>7. ASSUME NEW m \in outbox, handlePaymentCaptureRequested(m) PROVE InFull
    <3>1. CASE NothingToDo(m)
      BY <2>3, <3>1 DEF NothingToDo, stripeVars
    <3>2. CASE Capturable
      BY <3>2 DEF Capturable
    <3>3. QED BY <2>7, <3>1, <3>2 DEF handlePaymentCaptureRequested
  <2>8. ASSUME NEW m \in outbox, handlePaymentCancellationSettlementRequested(m) PROVE InFull
    <3>1. m \in Messages
      BY <1>1 DEF Inv, TypeOK
    <3>2. CASE UNCHANGED stripeVars
      BY <2>3, <3>2 DEF stripeVars
    <3>3. CASE /\ payment.intent # NoIntent
               /\ \E answer : CancelAuthorization(m, answer) \/ CaptureFee(m, answer) \/ RefundCaptured(m, answer)
      <4>1. PICK i \in IntentIds : i = payment.intent
        BY <1>1, <3>3 DEF Inv, TypeOK
      <4>2. PICK answer : CancelAuthorization(m, answer) \/ CaptureFee(m, answer) \/ RefundCaptured(m, answer)
        BY <3>3
      <4>3. CASE CancelAuthorization(m, answer)
        <5>1. cancelPaymentIntent(m, i, answer)
          BY <4>1, <4>3 DEF CancelAuthorization
        <5>2. QED BY <1>1, <2>1, <2>2, <3>1, <4>1, <5>1, CancelStep
      <4>4. CASE CaptureFee(m, answer)
        <5>1. capturePaymentIntent(m, i, Due.retained, answer) /\ Due.providerAction = "CAPTURE_CANCELLATION_FEE"
          BY <4>1, <4>4 DEF CaptureFee
        <5>2. Due.retained = afterAssignmentPolicyFee(Total)
          BY <1>1, <5>1, DueBounds DEF Inv
        <5>3. Due.retained \in 1..Total /\ Due.retained # Total
          BY <5>2, FeeBounds, AmountsAssumption
        <5>4. \A j \in IntentIds : intents'[j] = intents[j] \/ intents'[j].received = Due.retained
          BY <1>1, <3>1, <4>1, <5>1, <5>3, CaptureStep
        <5>5. QED BY <2>1, <5>3, <5>4
      <4>5. CASE RefundCaptured(m, answer)
        <5>1. refundPaymentIntent(m, i, Due.refund, answer)
          BY <4>1, <4>5 DEF RefundCaptured
        <5>2. intents' = intents
          BY <5>1 DEF refundPaymentIntent, Repeats, Refuses, stripeVars
        <5>3. QED BY <2>3, <5>2
      <4>6. QED BY <4>2, <4>3, <4>4, <4>5
    <3>4. QED BY <2>8, <3>2, <3>3 DEF handlePaymentCancellationSettlementRequested
  <2>9. CASE \/ createJobRequest \/ jobMoves \/ enqueueCaptureForDeliveredJob \/ cancelJob \/ applyManualUnassign
             \/ \E n \in DOMAIN events : handleStripeWebhook(n)
             \/ \E amount \in RefundAmounts : dashboardRefund(amount)
             \/ \E n \in DOMAIN refunds : refundUpdated(n)
    BY <2>3, <2>9 DEF createJobRequest, jobMoves, enqueueCaptureForDeliveredJob, cancelJob, applyManualUnassign,
                      handleStripeWebhook, dashboardRefund, refundUpdated, stripeVars
  <2>10. ASSUME NEW i \in IntentIds, holdExpires(i) PROVE InFull
    <3>1. intents' = [intents EXCEPT ![i] = [intent |-> i, status |-> "canceled", received |-> 0]]
      BY <2>10 DEF holdExpires, MovesTo
    <3>2. \A j \in IntentIds : intents'[j] = intents[j] \/ intents'[j].received = 0
      BY <1>1, <3>1 DEF Inv, TypeOK
    <3>3. QED BY <2>1, <2>2, <3>2
  <2>11. CASE UNCHANGED vars
    BY <2>3, <2>11 DEF vars, stripeVars
  <2>12. QED
    BY <1>1, <2>4, <2>5, <2>6, <2>7, <2>8, <2>9, <2>10, <2>11 DEF Next, WorkerHandles
<1>2. Inv /\ [Next]_vars => [InFull]_vars
  BY <1>1
<1>3. QED
  BY <1>2, PaymentsInvariant, PTL DEF Spec, ChargedInFullOnDelivery

\* The steps joined with the payment are steps of the job's lifecycle, which Dispatch
\* implements: the payment never moves a job that the lifecycle would not.
THEOREM PaymentsFollowLifecycle == Spec => Lifecycle!Spec
<1>1. Init => Lifecycle!Init
  BY DEF Init
<1>2. ASSUME [Next]_vars PROVE [Lifecycle!Next]_(Lifecycle!lifecycleVars)
  <2>1. CASE UNCHANGED <<status, assigned>>
    BY <2>1 DEF Lifecycle!lifecycleVars
  <2>2. CASE \/ Lifecycle!Request(Job) \/ Lifecycle!Search(Job) \/ Lifecycle!Take(Job, Driver)
             \/ Lifecycle!Progress(Job) \/ Lifecycle!Recall(Job) \/ Lifecycle!Cancel(Job) \/ Lifecycle!Unassign(Job)
    BY <2>2 DEF Lifecycle!Next
  <2>3. CASE createJobRequest \/ jobMoves \/ enqueueCaptureForDeliveredJob \/ cancelJob \/ applyManualUnassign
    BY <2>2, <2>3 DEF createJobRequest, jobMoves, enqueueCaptureForDeliveredJob, cancelJob, applyManualUnassign
  <2>4. ASSUME NEW key \in Keys, submitPublicCustomerOrder(key) \/ authorizeJobPayment(key)
        PROVE  Lifecycle!Request(Job) \/ UNCHANGED <<status, assigned>>
    BY <2>4 DEF submitPublicCustomerOrder, authorizeJobPayment, jobVars
  <2>5. ASSUME NEW m \in outbox, WorkerHandles(m) PROVE UNCHANGED <<status, assigned>>
    BY <2>5 DEF WorkerHandles, handlePaymentIntentCreateRequested, handlePaymentCaptureRequested,
                handlePaymentCancellationSettlementRequested, jobVars
  <2>6. CASE \/ \E n \in DOMAIN events : handleStripeWebhook(n)
             \/ \E amount \in RefundAmounts : dashboardRefund(amount)
             \/ \E n \in DOMAIN refunds : refundUpdated(n)
             \/ \E i \in IntentIds : holdExpires(i)
    BY <2>1, <2>6 DEF handleStripeWebhook, dashboardRefund, refundUpdated, holdExpires, jobVars
  <2>7. CASE UNCHANGED vars
    BY <2>1, <2>7 DEF vars, jobVars
  <2>8. QED BY <1>2, <2>1, <2>2, <2>3, <2>4, <2>5, <2>6, <2>7 DEF Next
<1>3. QED BY <1>1, <1>2, PTL DEF Spec, Lifecycle!Spec
=============================================================================
