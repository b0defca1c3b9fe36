----------------------------- MODULE CasesProofs -----------------------------
(***************************************************************************)
(* The pure functions, for every total, distance, age and length of a      *)
(* list: the settlement policy, the prices, the readiness of pilots and    *)
(* fleets, and the lists of what needs attention; then which courier may   *)
(* get a job, how far an order is, and who may read and do what.           *)
(***************************************************************************)
EXTENDS MCCases, FiniteSetTheorems, WellFoundedInduction, TLAPS

-----------------------------------------------------------------------------
\* Settlements.

\* The numbers of a case are natural numbers, captured cents within the total.
LEMMA CaseAmounts ==
  ASSUME case \in SettlementInputs
  PROVE  /\ case.total \in Nat /\ case.payout \in Nat
         /\ case.captured \in Nat /\ case.authorized \in Nat
         /\ case.captured <= case.total
<1>1. /\ case.total \in Totals /\ case.payout \in Amounts
      /\ case.captured \in Amounts /\ case.authorized \in Totals \cup {0}
      /\ case.authorized \in {0, case.total}
      /\ case.captured <= case.authorized
  BY DEF SettlementInputs
<1>2. case.total \in Nat /\ case.captured \in Nat /\ case.payout \in Nat
  BY <1>1, TotalsAssumption, AmountsAssumption
<1>3. QED
  BY <1>1, <1>2

\* The fee is a natural number within the total.
LEMMA FeeBounds ==
  ASSUME NEW total \in Nat
  PROVE  /\ afterAssignmentPolicyFee(total) \in Nat
         /\ afterAssignmentPolicyFee(total) <= total
<1>1. Percent(total, 15) \in Int
  BY DEF Percent
<1>2. QED
  BY <1>1 DEF afterAssignmentPolicyFee, Least, Greatest

\* No captured cent is lost and no cent is refunded that was not captured.
LEMMA SettlementConserves ==
  ASSUME case \in SettlementInputs
  PROVE  CapturedIsAccountedFor
<1>1. case.total \in Nat /\ case.captured \in Nat
  BY CaseAmounts
<1>2. afterAssignmentPolicyFee(case.total) \in Nat
  BY <1>1, FeeBounds
<1>3. QED
  BY <1>1, <1>2
  DEF CapturedIsAccountedFor, settlement, determineCancellationSettlement, phaseForJobStatus,
      ReleaseInFull, RetainFee, ManualReview, Outcome, Retained, RefundBeyondFee, Least, Greatest

\* Whatever the total, the fee taken stays within it.
LEMMA FeeStaysWithinTotal ==
  ASSUME case \in SettlementInputs
  PROVE  FeeWithinTotal
<1>1. /\ case.total \in Nat /\ case.captured \in Nat
      /\ case.captured <= case.total
  BY CaseAmounts
<1>2. /\ afterAssignmentPolicyFee(case.total) \in Nat
      /\ afterAssignmentPolicyFee(case.total) <= case.total
  BY <1>1, FeeBounds
<1>3. QED
  BY <1>1, <1>2
  DEF FeeWithinTotal, settlement, determineCancellationSettlement, phaseForJobStatus,
      ReleaseInFull, RetainFee, ManualReview, Outcome, Retained, Least

\* Stripe is asked to refund exactly if there is something to refund, and to capture a fee
\* only from a hold of which nothing was captured.
LEMMA ActionFitsAmounts ==
  ASSUME case \in SettlementInputs
  PROVE  ActionMatchesAmounts
<1>1. case.total \in Nat /\ case.captured \in Nat
  BY CaseAmounts
<1>2. afterAssignmentPolicyFee(case.total) \in Nat
  BY <1>1, FeeBounds
<1>3. CASE phaseForJobStatus(case.jobStatus) = "BEFORE_ASSIGNMENT"
  BY <1>1, <1>3
  DEF ActionMatchesAmounts, settlement, determineCancellationSettlement, ReleaseInFull, Outcome
<1>4. CASE phaseForJobStatus(case.jobStatus) = "AFTER_ASSIGNMENT_BEFORE_PICKUP"
  <2>1. /\ Retained(case) \in Nat /\ RefundBeyondFee(case) \in Nat
        /\ RefundBeyondFee(case) > 0 => case.captured > 0
    BY <1>1, <1>2 DEF Retained, RefundBeyondFee, Least, Greatest
  <2>2. settlement = RetainFee(case)
    BY <1>4 DEF settlement, determineCancellationSettlement
  <2>3. /\ settlement.refund = RefundBeyondFee(case) /\ settlement.retained = Retained(case)
        /\ settlement.providerAction = FeeAction(case)
    BY <2>2 DEF RetainFee, Outcome
  <2>4. QED
    BY <1>1, <2>1, <2>3 DEF ActionMatchesAmounts, FeeAction
<1>5. CASE phaseForJobStatus(case.jobStatus) = "IN_PROGRESS"
  BY <1>5 DEF ActionMatchesAmounts, settlement, determineCancellationSettlement, ManualReview, Outcome
<1>6. QED
  BY <1>3, <1>4, <1>5 DEF phaseForJobStatus

-----------------------------------------------------------------------------
\* Quotes.

\* Rounding to hundredths: within half a unit, whichever way ties go, and never the wrong way round.
LEMMA RoundIsNear ==
  ASSUME NEW n \in Nat, NEW part, NEW down
  PROVE  /\ Round(n, 100, part \in down) \in Nat /\ Round(n, 10, part \in down) \in Nat
         /\ 200 * Round(n, 100, part \in down) >= 2 * n - 100
         /\ 200 * Round(n, 100, part \in down) <= 2 * n + 100
BY DEF Round

\* A longer way is not rounded to fewer units.
LEMMA RoundGrows ==
  ASSUME NEW n \in Nat, NEW k \in Nat, n <= k, NEW unit \in {10, 100}, NEW part, NEW down
  PROVE  Round(n, unit, part \in down) <= Round(k, unit, part \in down)
<1>1. CASE unit = 10
  BY <1>1 DEF Round
<1>2. CASE unit = 100
  BY <1>2 DEF Round
<1>3. QED BY <1>1, <1>2

\* What an input consists of.
LEMMA QuoteFields ==
  ASSUME NEW in \in QuoteInputs
  PROVE  /\ in.area = "quote" /\ in.distance \in Nat /\ in.minutes \in Nat /\ in.vehicle \in Vehicles
         /\ in.time \in TimesOfDay /\ in.demand \in BOOLEAN /\ in.weather \in BOOLEAN
         /\ RoundedMiles(in) \in Nat
<1>1. /\ in.area = "quote" /\ in.distance \in Nat /\ in.minutes \in Nat /\ in.vehicle \in Vehicles
      /\ in.time \in TimesOfDay /\ in.demand \in BOOLEAN /\ in.weather \in BOOLEAN
  BY DistancesAssumption, MinutesAssumption DEF QuoteInputs
<1>2. QED BY <1>1, RoundIsNear DEF RoundedMiles

\* The rates of both price lists.
LEMMA RatesOf ==
  ASSUME NEW v \in Vehicles
  PROVE  /\ v = "BIKE" => /\ CustomerRates.base[v] = 650 /\ CustomerRates.mile[v] = 185 /\ CustomerRates.minute[v] = 14
                          /\ CustomerRates.demand[v] = 180 /\ CustomerRates.weather[v] = 140 /\ CustomerRates.premium[v] = 325
                          /\ DriverRates.base[v] = 380 /\ DriverRates.mile[v] = 110 /\ DriverRates.minute[v] = 9
                          /\ DriverRates.demand[v] = 120 /\ DriverRates.weather[v] = 110 /\ DriverRates.premium[v] = 220
         /\ v = "CAR" => /\ CustomerRates.base[v] = 925 /\ CustomerRates.mile[v] = 255 /\ CustomerRates.minute[v] = 18
                         /\ CustomerRates.demand[v] = 250 /\ CustomerRates.weather[v] = 180 /\ CustomerRates.premium[v] = 450
                         /\ DriverRates.base[v] = 540 /\ DriverRates.mile[v] = 150 /\ DriverRates.minute[v] = 11
                         /\ DriverRates.demand[v] = 170 /\ DriverRates.weather[v] = 150 /\ DriverRates.premium[v] = 320
BY DEF CustomerRates, DriverRates, Rate, Vehicles

\* No time of day is charged less than nothing.
LEMMA TimesCost == \A t \in TimesOfDay : TimeOfDaySurcharge[t] \in Nat
BY DEF TimeOfDaySurcharge, TimesOfDay

\* A fare is a base, the miles and what does not depend on the distance, but for the premium.
LEMMA FareParts ==
  ASSUME NEW in \in QuoteInputs, NEW rates \in {CustomerRates, DriverRates}, NEW part
  PROVE  LET v == in.vehicle
             miles == Round(RoundedMiles(in) * rates.mile[v], 100, part \in in.down)
         IN /\ miles \in Nat /\ RoundedMiles(in) * rates.mile[v] \in Nat
            /\ rates.base[v] \in Nat /\ rates.mile[v] \in Nat /\ rates.minute[v] \in Nat /\ rates.demand[v] \in Nat
            /\ rates.weather[v] \in Nat /\ rates.premium[v] \in Nat
            /\ in.minutes * rates.minute[v] \in Nat
            /\ Fare(rates, in, part) =
                 rates.base[v] + miles + in.minutes * rates.minute[v] + If(in.demand, rates.demand[v])
                   + If(in.weather, rates.weather[v]) + If(PremiumDistance(in), rates.premium[v])
            /\ Fare(rates, in, part) \in Nat
<1> DEFINE v == in.vehicle
           miles == Round(RoundedMiles(in) * rates.mile[v], 100, part \in in.down)
<1>1. /\ in.minutes \in Nat /\ v \in Vehicles /\ RoundedMiles(in) \in Nat
  BY QuoteFields
<1>2. /\ rates.base[v] \in Nat /\ rates.mile[v] \in Nat /\ rates.minute[v] \in Nat /\ rates.demand[v] \in Nat
      /\ rates.weather[v] \in Nat /\ rates.premium[v] \in Nat
  <2>1. v = "BIKE" \/ v = "CAR"
    BY <1>1 DEF Vehicles
  <2>2. QED BY <1>1, <2>1, RatesOf
<1>3. RoundedMiles(in) * rates.mile[v] \in Nat /\ in.minutes * rates.minute[v] \in Nat
  BY <1>1, <1>2
<1>4. miles \in Nat
  BY <1>3, RoundIsNear
<1>5. Fare(rates, in, part) =
        rates.base[v] + miles + in.minutes * rates.minute[v] + If(in.demand, rates.demand[v])
          + If(in.weather, rates.weather[v]) + If(PremiumDistance(in), rates.premium[v])
  BY DEF Fare
<1> HIDE DEF miles, v
<1>6. If(in.demand, rates.demand[v]) \in Nat /\ If(in.weather, rates.weather[v]) \in Nat /\ If(PremiumDistance(in), rates.premium[v]) \in Nat
  BY <1>2 DEF If
<1>7. Fare(rates, in, part) \in Nat
  BY <1>2, <1>3, <1>4, <1>5, <1>6
<1>8. QED BY <1>2, <1>3, <1>4, <1>5, <1>7 DEF miles, v

\* The customer pays at least what the driver gets.
LEMMA FeeIsThere ==
  ASSUME NEW in \in QuoteInputs
  PROVE  PlatformFee(in) >= 0 /\ CustomerTotal(in) \in Nat /\ DriverPayout(in) \in Nat
<1> DEFINE v == in.vehicle
           n == RoundedMiles(in)
           c == Round(n * CustomerRates.mile[v], 100, "fare" \in in.down)
           d == Round(n * DriverRates.mile[v], 100, "payout" \in in.down)
           rest(rates) == If(in.demand, rates.demand[v]) + If(in.weather, rates.weather[v]) + If(PremiumDistance(in), rates.premium[v])
<1>1. /\ n \in Nat /\ v \in Vehicles /\ in.time \in TimesOfDay /\ in.minutes \in Nat
  BY QuoteFields
<1>2. /\ c \in Nat /\ Fare(CustomerRates, in, "fare") \in Nat
      /\ Fare(CustomerRates, in, "fare") = CustomerRates.base[v] + c + in.minutes * CustomerRates.minute[v] + If(in.demand, CustomerRates.demand[v])
            + If(in.weather, CustomerRates.weather[v]) + If(PremiumDistance(in), CustomerRates.premium[v])
  BY FareParts
<1>3. /\ d \in Nat /\ Fare(DriverRates, in, "payout") \in Nat
      /\ Fare(DriverRates, in, "payout") = DriverRates.base[v] + d + in.minutes * DriverRates.minute[v] + If(in.demand, DriverRates.demand[v])
            + If(in.weather, DriverRates.weather[v]) + If(PremiumDistance(in), DriverRates.premium[v])
  BY FareParts
<1>4. d <= c + 1
  <2>1. CASE v = "BIKE"
    <3>1. CustomerRates.mile[v] = 185 /\ DriverRates.mile[v] = 110
      BY <1>1, <2>1, RatesOf
    <3>2. n * 185 \in Nat /\ n * 110 \in Nat
      BY <1>1
    <3>3. c = Round(n * 185, 100, "fare" \in in.down) /\ d = Round(n * 110, 100, "payout" \in in.down)
      BY <3>1
    <3> HIDE DEF c, d
    <3> DEFINE fare == n * 185
               pay == n * 110
    <3>4. fare \in Nat /\ pay \in Nat /\ c = Round(fare, 100, "fare" \in in.down) /\ d = Round(pay, 100, "payout" \in in.down)
      BY <3>2, <3>3
    <3> HIDE DEF fare, pay
    <3>5. 200 * c >= 2 * fare - 100
      BY <3>4, RoundIsNear
    <3>6. 200 * d <= 2 * pay + 100
      BY <3>4, RoundIsNear
    <3>7. QED BY <1>1, <1>2, <1>3, <3>5, <3>6 DEF fare, pay
  <2>2. CASE v = "CAR"
    <3>1. CustomerRates.mile[v] = 255 /\ DriverRates.mile[v] = 150
      BY <1>1, <2>2, RatesOf
    <3>2. n * 255 \in Nat /\ n * 150 \in Nat
      BY <1>1
    <3>3. c = Round(n * 255, 100, "fare" \in in.down) /\ d = Round(n * 150, 100, "payout" \in in.down)
      BY <3>1
    <3> HIDE DEF c, d
    <3> DEFINE fare == n * 255
               pay == n * 150
    <3>4. fare \in Nat /\ pay \in Nat /\ c = Round(fare, 100, "fare" \in in.down) /\ d = Round(pay, 100, "payout" \in in.down)
      BY <3>2, <3>3
    <3> HIDE DEF fare, pay
    <3>5. 200 * c >= 2 * fare - 100
      BY <3>4, RoundIsNear
    <3>6. 200 * d <= 2 * pay + 100
      BY <3>4, RoundIsNear
    <3>7. QED BY <1>1, <1>2, <1>3, <3>5, <3>6 DEF fare, pay
  <2>3. QED BY <1>1, <2>1, <2>2 DEF Vehicles
<1>5. Fare(DriverRates, in, "payout") <= Fare(CustomerRates, in, "fare")
  <2> HIDE DEF c, d
  <2>1. CASE v = "BIKE"
    <3> HIDE DEF v
    <3>1. QED BY <1>1, <1>2, <1>3, <1>4, <2>1, RatesOf DEF If
  <2>2. CASE v = "CAR"
    <3> HIDE DEF v
    <3>1. QED BY <1>1, <1>2, <1>3, <1>4, <2>2, RatesOf DEF If
  <2>3. QED BY <1>1, <2>1, <2>2 DEF Vehicles
<1>6. TimeOfDaySurcharge[in.time] \in Nat
  BY <1>1, TimesCost
<1> HIDE DEF c, d, v, n
<1>7. QED BY <1>2, <1>3, <1>5, <1>6 DEF PlatformFee, CustomerTotal, DriverPayout

\* The column's rounding keeps to the limits, but for the last half hundredth of a mile.
LEMMA QuotesAreStored ==
  ASSUME NEW in \in QuoteInputs, ValidPayload(in)
  PROVE  createQuote(in) = "created" \/ StoredMiles(in) = 0 \/ (StoredMiles(in) = 800 /\ in.distance > 8000)
<1> DEFINE d == in.distance
           k == StoredMiles(in)
<1>1. d \in Int /\ d >= 1 /\ d <= 12000
  BY QuoteFields DEF ValidPayload
<1>2. k = (d + 5) \div 10 /\ (PremiumDistance(in) <=> d > 8000 /\ d <= 12000)
  BY DEF StoredMiles, PremiumDistance
<1> HIDE DEF d, k
<1>3. k \in Nat /\ k <= 1200 /\ (d > 8000 => k >= 800) /\ (k > 800 => d > 8000)
  <2>1. \A n \in Int : n \div 10 \in Int /\ 10 * (n \div 10) <= n /\ n < 10 * (n \div 10) + 10
    OBVIOUS
  <2>2. k \in Int /\ 10 * k <= d + 5 /\ d + 5 < 10 * k + 10
    BY <1>1, <1>2, <2>1
  <2>3. QED BY <1>1, <2>2
<1>4. k # 0 /\ ~(k = 800 /\ d > 8000) => (PremiumDistance(in) <=> k > 800) /\ k > 0
  BY <1>1, <1>2, <1>3
<1>5. PlatformFee(in) >= 0 /\ CustomerTotal(in) >= 0 /\ DriverPayout(in) >= 0
  BY FeeIsThere
<1>6. k # 0 /\ ~(k = 800 /\ d > 8000) => RowChecks(in)
  BY <1>3, <1>4, <1>5 DEF RowChecks, k
<1>7. PlatformFee(in) \in Int
  BY FeeIsThere DEF PlatformFee
<1>8. QED BY <1>5, <1>6, <1>7 DEF createQuote, k, d

\* A price list charges no less for a longer way.
LEMMA FaresGrow ==
  ASSUME NEW in \in QuoteInputs, NEW d \in Distances, d > in.distance, d <= 12000,
         NEW rates \in {CustomerRates, DriverRates}, NEW part
  PROVE  Fare(rates, in, part) <= Fare(rates, [in EXCEPT !.distance = d], part)
<1> DEFINE other == [in EXCEPT !.distance = d]
<1>1. /\ other \in QuoteInputs /\ other.distance = d /\ other.minutes = in.minutes /\ other.vehicle = in.vehicle
      /\ other.demand = in.demand /\ other.weather = in.weather /\ other.down = in.down
  BY DEF QuoteInputs
<1> HIDE DEF other
<1> PICK v : v = in.vehicle
  OBVIOUS
<1>2. in.distance \in Nat /\ d \in Nat /\ RoundedMiles(in) \in Nat /\ RoundedMiles(other) \in Nat
  BY <1>1, QuoteFields
<1>3. RoundedMiles(in) <= RoundedMiles(other)
  BY <1>1, <1>2, RoundGrows DEF RoundedMiles
<1> DEFINE m == Round(RoundedMiles(in) * rates.mile[v], 100, part \in in.down)
           k == Round(RoundedMiles(other) * rates.mile[v], 100, part \in in.down)
<1>4. /\ m \in Nat /\ RoundedMiles(in) * rates.mile[v] \in Nat /\ rates.mile[v] \in Nat /\ rates.premium[v] \in Nat
      /\ rates.base[v] \in Nat /\ in.minutes * rates.minute[v] \in Nat /\ rates.demand[v] \in Nat /\ rates.weather[v] \in Nat
      /\ Fare(rates, in, part) =
           rates.base[v] + m + in.minutes * rates.minute[v] + If(in.demand, rates.demand[v])
             + If(in.weather, rates.weather[v]) + If(PremiumDistance(in), rates.premium[v])
  BY FareParts
<1>5. /\ k \in Nat /\ RoundedMiles(other) * rates.mile[v] \in Nat
      /\ Fare(rates, other, part) =
           rates.base[v] + k + in.minutes * rates.minute[v] + If(in.demand, rates.demand[v])
             + If(in.weather, rates.weather[v]) + If(PremiumDistance(other), rates.premium[v])
  BY <1>1, FareParts
<1>6. RoundedMiles(in) * rates.mile[v] <= RoundedMiles(other) * rates.mile[v]
  BY <1>2, <1>3, <1>4
<1>7. m <= k
  BY <1>4, <1>5, <1>6, RoundGrows
<1>8. PremiumDistance(in) => PremiumDistance(other)
  BY <1>1, <1>2 DEF PremiumDistance
<1>9. If(in.demand, rates.demand[v]) \in Nat /\ If(in.weather, rates.weather[v]) \in Nat
  BY <1>4 DEF If
<1>10. /\ If(PremiumDistance(in), rates.premium[v]) \in Nat /\ If(PremiumDistance(other), rates.premium[v]) \in Nat
       /\ If(PremiumDistance(in), rates.premium[v]) <= If(PremiumDistance(other), rates.premium[v])
  BY <1>4, <1>8 DEF If
<1> HIDE DEF m, k
<1>11. Fare(rates, in, part) <= Fare(rates, other, part)
  BY <1>4, <1>5, <1>7, <1>9, <1>10
<1>12. QED BY <1>11 DEF other

\* What the rules of prices say of one quote.
LEMMA QuotesHold == ASSUME case \in QuoteInputs PROVE QuotesAreSound
<1>1. FeeNeverNegative
  BY FeeIsThere DEF FeeNeverNegative
<1>2. QuoteIsStoredOffTheLimits
  BY QuotesAreStored DEF QuoteIsStoredOffTheLimits
<1>3. FartherCostsNoLess
  <2>1. ASSUME NEW d \in Distances, d > case.distance, d <= 12000, NEW other, other = [case EXCEPT !.distance = d]
        PROVE  CustomerTotal(case) <= CustomerTotal(other) /\ DriverPayout(case) <= DriverPayout(other)
    <3>1. other \in QuoteInputs /\ other.time = case.time
      BY <2>1 DEF QuoteInputs
    <3>2. /\ Fare(CustomerRates, case, "fare") <= Fare(CustomerRates, other, "fare")
          /\ Fare(DriverRates, case, "payout") <= Fare(DriverRates, other, "payout")
      BY <2>1, FaresGrow
    <3>3. /\ Fare(CustomerRates, case, "fare") \in Nat /\ Fare(CustomerRates, other, "fare") \in Nat
          /\ TimeOfDaySurcharge[case.time] \in Nat
      BY <3>1, FareParts, TimesCost, QuoteFields
    <3>4. QED BY <3>1, <3>2, <3>3 DEF CustomerTotal, DriverPayout
  <2>2. QED BY <2>1 DEF FartherCostsNoLess
<1>4. QED BY <1>1, <1>2, <1>3 DEF QuotesAreSound

-----------------------------------------------------------------------------
\* Readiness.

\* Both guardrails look at the status first, then at the mode.
LEMMA GuardrailsHold == ASSUME case \in RehearsalCases PROVE GuardrailsAgree
<1>1. case.mode \in Modes
  BY DEF RehearsalCases, Workspaces
<1>2. CASE case.status = "PAUSED"
  BY <1>2 DEF GuardrailsAgree, buildGuardrailState, getPilotGuardrailState
<1>3. CASE case.status # "PAUSED"
  BY <1>1, <1>3 DEF GuardrailsAgree, buildGuardrailState, getPilotGuardrailState, ControlledPilot, Modes
<1>4. QED BY <1>2, <1>3

\* Who is recommended a rehearsal is neither paused nor short of the stage.
LEMMA RecommendationHolds == ASSUME case \in RehearsalCases PROVE RecommendationHeedsGuardrail
<1> SUFFICES ASSUME buildRecommendation(case) = "READY_FOR_REHEARSAL"
             PROVE  \/ buildGuardrailState(case).level \in {"INFO", "CAUTION", "READY"}
                    \/ case.mode = "LIVE_READY" /\ case.stage = "REHEARSAL_READY"
  BY DEF RecommendationHeedsGuardrail
<1>1. case.mode \in Modes /\ case.urgent \in {0, 1}
  BY DEF RehearsalCases, Workspaces
<1>2. case.status # "PAUSED" /\ isRehearsalReady(case)
  BY <1>1 DEF buildRecommendation
<1>3. QED BY <1>1, <1>2 DEF buildGuardrailState, Guardrail, Modes, isRehearsalReady, Testing

\* Each reason against a rehearsal adds an action, and no other reason adds one of those.
LEMMA ActionsHold == ASSUME case \in RehearsalCases PROVE ActionsExplainRecommendation
<1>1. case.urgent \in {0, 1}
  BY DEF RehearsalCases, Workspaces
<1>2. buildRecommendation(case) = "READY_FOR_REHEARSAL" <=>
        /\ CheckKeys # {} /\ case.status # "PAUSED" /\ Blocked(case.checks) = {} /\ case.urgent = 0
        /\ isRehearsalReady(case) /\ ~Incomplete(case.checks) /\ validationChecklistClear(case.checks)
        /\ case.posture = "PASSED"
  BY <1>1 DEF buildRecommendation
<1>3. CheckKeys = {} => ~validationChecklistClear(case.checks)
  BY DEF validationChecklistClear, ValidationKeys
<1>4. buildRehearsalNextActions(case) \subseteq {"review escalations", "confirm owners", "review limitations"} <=>
        /\ case.status # "PAUSED" /\ Blocked(case.checks) = {} /\ case.urgent = 0
        /\ isRehearsalReady(case) /\ ~Incomplete(case.checks) /\ validationChecklistClear(case.checks)
        /\ case.posture = "PASSED"
  <2> DEFINE actions == buildRehearsalNextActions(case)
  <2>1. /\ "resume profile" \in actions <=> case.status = "PAUSED"
        /\ "move stage" \in actions <=> ~isRehearsalReady(case)
        /\ "update blocked checks" \in actions <=> Blocked(case.checks) # {}
        /\ "complete checks" \in actions <=> Incomplete(case.checks)
    BY DEF buildRehearsalNextActions, When
  <2>2. /\ "resolve escalations" \in actions <=> case.urgent > 0
        /\ "validate" \in actions <=> ~validationChecklistClear(case.checks) \/ case.posture # "PASSED"
    BY DEF buildRehearsalNextActions, When
  <2>3. actions \subseteq {"resume profile", "move stage", "update blocked checks", "complete checks",
                           "resolve escalations", "validate", "review escalations", "confirm owners",
                           "review limitations"}
    BY DEF buildRehearsalNextActions, When
  <2> HIDE DEF actions
  <2>4. actions \subseteq {"review escalations", "confirm owners", "review limitations"} <=>
          /\ "resume profile" \notin actions /\ "move stage" \notin actions /\ "update blocked checks" \notin actions
          /\ "complete checks" \notin actions /\ "resolve escalations" \notin actions /\ "validate" \notin actions
    BY <2>3
  <2>5. case.urgent > 0 <=> case.urgent # 0
    BY <1>1
  <2>6. actions \subseteq {"review escalations", "confirm owners", "review limitations"} <=>
          /\ case.status # "PAUSED" /\ Blocked(case.checks) = {} /\ case.urgent = 0
          /\ isRehearsalReady(case) /\ ~Incomplete(case.checks) /\ validationChecklistClear(case.checks)
          /\ case.posture = "PASSED"
    BY <2>1, <2>2, <2>4, <2>5, Zenon
  <2>7. QED BY <2>6 DEF actions
<1>5. QED BY <1>2, <1>3, <1>4 DEF ActionsExplainRecommendation

\* A run of an evidence case, by its age.
LEMMA RunIs ==
  ASSUME NEW run \in Runs
  PROVE  /\ run.age \in Nat /\ run.status \in EvidenceStatuses \cup {"NONE"}
         /\ run.status \in EvidenceStatuses => run # NoRun
<1>1. CASE run = NoRun
  BY <1>1 DEF NoRun, EvidenceStatuses
<1>2. CASE run \in [status : EvidenceStatuses, age : Ages]
  <2>1. run.age \in Nat /\ run.status \in EvidenceStatuses
    BY <1>2, AgesAssumption
  <2>2. NoRun.status \notin EvidenceStatuses
    BY DEF NoRun, EvidenceStatuses
  <2>3. QED BY <2>1, <2>2
<1>3. QED BY <1>1, <1>2 DEF Runs

\* What pilots call fresh, the release calls fresh; the converse fails within the last minute.
LEMMA FreshEnough ==
  ASSUME NEW run \in Runs, run.status = "PASSED"
  PROVE  /\ FreshForPilot(run) => FreshForRelease(run)
         /\ FreshForRelease(run) => FreshForPilot(run) \/ run.age \in 24 * 3600 + 1 .. 24 * 3600 + 59
<1>1. run.age \in Nat /\ run # NoRun
  BY RunIs DEF EvidenceStatuses
<1>2. \A n \in Nat : /\ n <= 24 * 60 * 60 => n \div 60 <= 24 * 60
                     /\ n \div 60 <= 24 * 60 /\ ~(n <= 24 * 60 * 60) => n \in 24 * 3600 + 1 .. 24 * 3600 + 59
  OBVIOUS
<1>3. QED BY <1>1, <1>2 DEF FreshForPilot, FreshForRelease

LEMMA EvidenceHolds == ASSUME case \in EvidenceCases PROVE EvidenceJudgedAlike
<1> DEFINE latest == case.latest
<1>1. \A t \in EvidenceTypes : latest[t] \in Runs
  BY DEF EvidenceCases
<1>2. Required \subseteq EvidenceTypes /\ "PLAYWRIGHT_SMOKE" \notin Required
  BY DEF Required
<1>3. \A t \in Required : /\ latest[t].status = "PASSED" /\ FreshForPilot(latest[t]) => FreshForRelease(latest[t])
                          /\ latest[t].status = "PASSED" /\ FreshForRelease(latest[t]) =>
                               FreshForPilot(latest[t]) \/ latest[t].age \in 24 * 3600 + 1 .. 24 * 3600 + 59
  BY <1>1, <1>2, FreshEnough
<1> HIDE DEF latest
<1>4. Posture(latest) = "FAILED" <=> \E t \in Required : latest[t].status = "FAILED"
  BY DEF Posture
<1>5. Posture(latest) = "PASSED" => \A t \in Required : latest[t].status = "PASSED" /\ FreshForPilot(latest[t])
  BY DEF Posture
<1>6. (\A t \in Required : latest[t].status = "PASSED" /\ FreshForPilot(latest[t])) => Posture(latest) = "PASSED"
  BY DEF Posture
<1>7. Verdict(latest) = "BLOCKED" <=> \E t \in Required : latest[t].status = "FAILED"
  BY DEF Verdict
<1>8. Verdict(latest) = "READY" => \A t \in Required : latest[t].status = "PASSED" /\ FreshForRelease(latest[t])
  BY DEF Verdict, NeedsReview
<1>9. Posture(latest) = "PASSED" => ReleaseActions(latest) \subseteq {<<"record", "browser smoke">>}
  <2> SUFFICES ASSUME Posture(latest) = "PASSED" PROVE ReleaseActions(latest) \subseteq {<<"record", "browser smoke">>}
    OBVIOUS
  <2>1. \A t \in Required : latest[t].status = "PASSED" /\ FreshForRelease(latest[t])
    BY <1>3, <1>5
  <2>2. {<<"fix", t>> : t \in {r \in Required : latest[r].status = "FAILED"}} = {}
    BY <2>1
  <2>3. ~\E t \in Required : ~FreshForRelease(latest[t]) \/ latest[t].status # "PASSED"
    BY <2>1
  <2>4. QED BY <2>2, <2>3 DEF ReleaseActions
<1>10. Verdict(latest) = "READY" =>
         \/ Posture(latest) = "PASSED"
         \/ \E t \in Required : latest[t].age \in 24 * 3600 + 1 .. 24 * 3600 + 59
  BY <1>3, <1>6, <1>8
<1>11. QED BY <1>4, <1>7, <1>9, <1>10 DEF EvidenceJudgedAlike, latest

\* The database and the service divide couriers alike; Never is older than no location.
LEMMA FleetHolds == ASSUME case \in Couriers PROVE FleetCountsMatchList
<1>1. /\ case.member \in BOOLEAN /\ case.profile \in BOOLEAN /\ case.vehicle \in BOOLEAN
      /\ case.online \in BOOLEAN /\ case.busy \in BOOLEAN
      /\ case.verification \in {"MISSING", "PENDING", "APPROVED", "REJECTED"}
      /\ ~case.profile => case.verification = "MISSING"
  BY DEF Couriers
<1> SUFFICES ASSUME case.member
             PROVE  /\ readinessCase(case) = computeReadiness(case)
                    /\ computeReadiness(case) = "READY" <=> getRecommendedAction(case) = "ready"
  BY DEF FleetCountsMatchList
<1>2. readinessCase(case) = computeReadiness(case)
  <2>1. CASE ~case.profile
    BY <1>1, <2>1 DEF readinessCase, computeReadiness, Deployable
  <2>2. CASE case.profile /\ case.verification = "PENDING"
    BY <1>1, <2>2 DEF readinessCase, computeReadiness, Deployable
  <2>3. CASE case.profile /\ case.verification # "PENDING" /\ ~Deployable(case)
    BY <1>1, <2>3 DEF readinessCase, computeReadiness
  <2>4. CASE case.profile /\ case.verification # "PENDING" /\ Deployable(case)
    <3>1. Seen(case) => case.seen \in Nat
      BY AgesAssumption DEF Couriers, Seen
    <3>2. Seen(case) => (case.seen <= 15 <=> ~(case.seen > 15))
      BY <3>1
    <3>3. QED BY <1>1, <2>4, <3>2 DEF readinessCase, computeReadiness, locationRecentlySeen
  <2>5. QED BY <2>1, <2>2, <2>3, <2>4
<1>3. computeReadiness(case) = "READY" <=> getRecommendedAction(case) = "ready"
  BY <1>1 DEF computeReadiness, getRecommendedAction, Deployable
<1>4. QED BY <1>2, <1>3

-----------------------------------------------------------------------------
\* Risk.

\* What a row of an order consists of.
LEMMA OrderFields ==
  ASSUME NEW r \in OrderRows
  PROVE  /\ r.area = "order" /\ r.job \in JobStates /\ r.payment \in PaymentStatuses /\ r.order \in OrderStates
         /\ r.payout \in PayoutStates \cup {NoLedger} /\ r.held \in BOOLEAN
         /\ r.held => r.payout # NoLedger
         /\ r.age \in Nat /\ r.stage \in Nat /\ r.stage >= r.age
BY JobAgesAssumption DEF OrderRows

\* What a briefing lists, the report counts as unresolved.
\* What is briefed and not reported otherwise; what is reported besides are payouts.
LEMMA BriefedHolds == ASSUME case \in OrderRows PROVE BriefedIsReported
<1>1. /\ case.job \in JobStates /\ case.age \in Nat
  BY OrderFields
<1>2. getReportCategory(case) # getBriefingCategory(case) =>
         getBriefingCategory(case) = "none" /\ getReportCategory(case) = "payout_review"
  BY <1>1 DEF getReportCategory, getBriefingCategory, Waits, Stalls, isDelayedJob, Threshold, Uncaptured, Delivered,
              NoDriver, Carried, Moving, JobStates
<1>3. isPaymentRisk(case) => getReportCategory(case) # "none"
  BY <1>1 DEF isPaymentRisk, getReportCategory, PayoutReview
<1>4. QED BY <1>2, <1>3 DEF BriefedIsReported

\* The conditions of the queue's queries, one by one.
LEMMA InterventionsAre ==
  ASSUME NEW r
  PROVE  /\ Interventions(r) \subseteq Queues
         /\ "dispatch_failed" \in Interventions(r) <=> r.job = "DISPATCH_FAILED"
         /\ "stuck_job" \in Interventions(r) <=> r.job \in Carried /\ r.age >= 30
         /\ "payment_failure" \in Interventions(r) <=> PaymentFailed(r)
         /\ "payment_capture_pending" \in Interventions(r) <=> r.payment = "AUTHORIZED" /\ Delivered(r)
         /\ Interventions(r) # {} <=>
              \/ r.job = "DISPATCH_FAILED" \/ (r.job \in Carried /\ r.age >= 30) \/ PaymentFailed(r)
              \/ r.payment = "AUTHORIZED" /\ Delivered(r)
<1>1. Interventions(r) \subseteq Queues
  BY DEF Interventions
<1>2. "dispatch_failed" \in Interventions(r) <=> r.job = "DISPATCH_FAILED"
  BY DEF Interventions, Queues
<1>3. "stuck_job" \in Interventions(r) <=> r.job \in Carried /\ r.age >= 30
  BY DEF Interventions, Queues
<1>4. "payment_failure" \in Interventions(r) <=> PaymentFailed(r)
  BY DEF Interventions, Queues
<1>5. "payment_capture_pending" \in Interventions(r) <=> r.payment = "AUTHORIZED" /\ Delivered(r)
  BY DEF Interventions, Queues
<1>6. QED BY <1>1, <1>2, <1>3, <1>4, <1>5 DEF Queues

\* An intervention is briefed, and a stalled job that is briefed has an incident.
LEMMA QueuesHold == ASSUME case \in OrderRows PROVE QueuesAgree
<1>1. case.job \in JobStates /\ case.age \in Nat /\ case.stage \in Nat /\ case.stage >= case.age
  BY OrderFields
<1>2. Interventions(case) # {} <=>
        case.job = "DISPATCH_FAILED" \/ (case.job \in Carried /\ case.age >= 30) \/ PaymentFailed(case)
          \/ (case.payment = "AUTHORIZED" /\ Delivered(case))
  BY InterventionsAre
<1>3. Interventions(case) # {} => getBriefingCategory(case) # "none"
  BY <1>1, <1>2 DEF getBriefingCategory, Stalls, Threshold, Uncaptured, Carried, Moving
<1>4. getBriefingCategory(case) \in {"dispatch_failed", "active_without_driver", "stale_job"} => buildIncident(case) # "none"
  BY <1>1 DEF getBriefingCategory, buildIncident, Waits, Stalls, Threshold, Carried, Moving, CommerciallyBlocked
<1>5. getBriefingCategory(case) # "none" /\ Interventions(case) = {} =>
         \/ getBriefingCategory(case) = "active_without_driver"
         \/ getBriefingCategory(case) = "stale_job" /\ case.job = "ASSIGNED" /\ case.age < 30
         \/ getBriefingCategory(case) = "delivered_uncaptured" /\ case.payment # "AUTHORIZED"
  BY <1>1, <1>2 DEF getBriefingCategory, Stalls, Waits, Threshold, Uncaptured, Delivered, Carried, Moving
<1>6. QED BY <1>3, <1>4, <1>5 DEF QueuesAgree

\* The reasons of the consoles, each told apart.
LEMMA ReasonsAre ==
  /\ OrderRiskReasons(case) # {} <=>
       \/ case.payment = "FAILED" \/ case.order = "PAYMENT_FAILED" \/ (Delivered(case) /\ case.payment # "CAPTURED")
       \/ case.payout = "FAILED" \/ case.held
       \/ (case.payment = "CAPTURED" /\ Delivered(case) /\ case.payout = NoLedger)
  /\ PaymentRiskReasons(case) # {} <=>
       \/ case.payment = "FAILED" \/ case.order = "PAYMENT_FAILED" \/ (Delivered(case) /\ case.payment = "AUTHORIZED")
       \/ case.payout = "FAILED" \/ case.held
<1>1. OrderRiskReasons(case) # {} <=>
       \/ "payment failed" \in OrderRiskReasons(case) \/ "order payment failed" \in OrderRiskReasons(case)
       \/ "uncaptured" \in OrderRiskReasons(case) \/ "payout failed" \in OrderRiskReasons(case)
       \/ "held" \in OrderRiskReasons(case) \/ "no ledger" \in OrderRiskReasons(case)
  BY DEF OrderRiskReasons
<1>2. PaymentRiskReasons(case) # {} <=>
       \/ "payment failed" \in PaymentRiskReasons(case) \/ "order payment failed" \in PaymentRiskReasons(case)
       \/ "capture pending" \in PaymentRiskReasons(case) \/ "payout failed" \in PaymentRiskReasons(case)
       \/ "held" \in PaymentRiskReasons(case)
  BY DEF PaymentRiskReasons
<1>3. OrderRiskReasons(case) # {} <=>
       \/ case.payment = "FAILED" \/ case.order = "PAYMENT_FAILED" \/ (Delivered(case) /\ case.payment # "CAPTURED")
       \/ case.payout = "FAILED" \/ case.held
       \/ (case.payment = "CAPTURED" /\ Delivered(case) /\ case.payout = NoLedger)
  BY <1>1 DEF OrderRiskReasons
<1>4. PaymentRiskReasons(case) # {} <=>
       \/ case.payment = "FAILED" \/ case.order = "PAYMENT_FAILED" \/ (Delivered(case) /\ case.payment = "AUTHORIZED")
       \/ case.payout = "FAILED" \/ case.held
  BY <1>2 DEF PaymentRiskReasons
<1>5. QED BY <1>3, <1>4

\* The consoles differ in what the payments console misses, and in nothing else.
LEMMA RiskHolds == ASSUME case \in OrderRows PROVE RiskSeenAlike
<1>1. isPaymentRisk(case) <=> OrderRiskReasons(case) # {}
  BY ReasonsAre DEF isPaymentRisk, PaymentFailed, Uncaptured, PayoutReview
<1>2. /\ isPaymentRisk(case) /\ PaymentRiskReasons(case) = {} =>
           Delivered(case) /\ (case.payment # "AUTHORIZED" \/ case.payout = NoLedger)
      /\ PaymentRiskReasons(case) # {} => isPaymentRisk(case)
  BY ReasonsAre DEF isPaymentRisk, PaymentFailed, Uncaptured, PayoutReview
<1>3. QED BY <1>1, <1>2 DEF RiskSeenAlike, hasOrderPaymentRisk

\* Clear means that nothing is asked of the reader; what risks finance leaves out.
LEMMA FinanceHolds == ASSUME case \in OrderRows PROVE FinanceSeesRisk
<1>1. /\ case.job \in JobStates /\ case.payment \in PaymentStatuses /\ case.order \in OrderStates
      /\ case.payout \in PayoutStates \cup {NoLedger} /\ case.held \in BOOLEAN
  BY OrderFields
<1> SUFFICES ASSUME NEW supported, supported \in BOOLEAN
             PROVE  LET clear == FinanceReviewStatus(case, supported) = "CLEAR"
                    IN /\ clear <=> getFinanceRecommendedAction(case, supported) = "none"
                       /\ clear /\ isPaymentRisk(case) =>
                            \/ Delivered(case) /\ case.payment \in {"PARTIALLY_REFUNDED", "REFUNDED"}
                            \/ FinanceColumn(case) = "pending" /\ ~Delivered(case)
                            \/ ~Delivered(case) /\ (case.payout = "FAILED" \/ case.held)
                       /\ FinanceCaptured(case) /\ getBriefingCategory(case) \in {"dispatch_failed", "payment_failed"} =>
                            ~clear
  BY DEF FinanceSeesRisk
<1> DEFINE clear == FinanceReviewStatus(case, supported) = "CLEAR"
<1>2. clear <=> /\ ~supported /\ ~(FinanceCaptured(case) /\ FailedFulfillment(case))
                /\ ~(Delivered(case) /\ ~FinanceCaptured(case)) /\ FinanceColumn(case) # "failed"
                /\ ~FinancePayoutReview(case)
  BY DEF FinanceReviewStatus
<1>3. clear <=> getFinanceRecommendedAction(case, supported) = "none"
  BY DEF FinanceReviewStatus, getFinanceRecommendedAction
<1>4. /\ FinanceColumn(case) = "captured" <=> case.payment \in {"CAPTURED", "PARTIALLY_REFUNDED", "REFUNDED"}
      /\ FinanceColumn(case) = "failed" <=> case.payment \in {"FAILED", "CANCELLED"}
      /\ FinanceColumn(case) \in {"captured", "failed", "pending"}
  BY DEF FinanceColumn
<1> HIDE DEF clear
<1>5. clear /\ isPaymentRisk(case) =>
        \/ Delivered(case) /\ case.payment \in {"PARTIALLY_REFUNDED", "REFUNDED"}
        \/ FinanceColumn(case) = "pending" /\ ~Delivered(case)
        \/ ~Delivered(case) /\ (case.payout = "FAILED" \/ case.held)
  BY <1>2, <1>4 DEF isPaymentRisk, PaymentFailed, Uncaptured, PayoutReview, FinanceCaptured, FailedFulfillment,
                    FinancePayoutReview
<1>6. FinanceCaptured(case) /\ getBriefingCategory(case) \in {"dispatch_failed", "payment_failed"} => ~clear
  BY <1>2, <1>4 DEF FinanceCaptured, getBriefingCategory, PaymentFailed, FailedFulfillment
<1>7. QED BY <1>3, <1>5, <1>6 DEF clear

\* Headline and button point the same way, and the filter lists what needs action.
LEMMA OrderPageHolds == ASSUME case \in OrderRows PROVE OrderPageAgrees
<1>1. case.job \in JobStates
  BY OrderFields
<1>2. PaymentFailed(case) => hasOrderPaymentRisk(case)
  BY ReasonsAre DEF PaymentFailed, hasOrderPaymentRisk
<1>3. /\ getOrderDecisionState(case) = "payment" <=> hasOrderPaymentRisk(case)
      /\ getOrderNextAction(case) = "payment" <=> hasOrderPaymentRisk(case)
  BY <1>2 DEF getOrderDecisionState, getOrderNextAction
<1>4. getOrderDecisionState(case) = "fulfilled" /\ getOrderNextAction(case) # "view" =>
         case.order = "FULFILLED" /\ case.job \in Carried \cup {"DISPATCH_FAILED"}
  BY <1>1 DEF getOrderDecisionState, getOrderNextAction, isOrderFulfilled, Delivered, Carried, Moving
<1>5. getOrderNextAction(case) \in {"payment", "dispatch"} => matchesNeedsAction(case)
  BY DEF getOrderNextAction, matchesNeedsAction
<1>6. getOrderNextAction(case) = "job" /\ ~matchesNeedsAction(case) => case.payment # "AUTHORIZED"
  BY DEF getOrderNextAction, matchesNeedsAction
<1>7. QED BY <1>3, <1>4, <1>5, <1>6 DEF OrderPageAgrees

\* A flagged job is in the queue, and a retry is advised only where one is possible.
LEMMA JobsHold == ASSUME case \in JobRows PROVE FlaggedJobsAreReviewed
<1>1. /\ case.job \in JobStates /\ case.late \in BOOLEAN /\ case.located \in BOOLEAN
  BY DEF JobRows
<1>2. /\ computeAttention(case) \in {"BLOCKER", "RISK", "NORMAL"}
      /\ computeAttention(case) = "BLOCKER" => case.job \in {"DISPATCH_FAILED", "REQUESTED"}
      /\ computeAttention(case) = "RISK" => case.job \in Carried
      /\ case.job = "DISPATCH_FAILED" => computeAttention(case) = "BLOCKER"
  BY <1>1 DEF computeAttention, Carried, Moving
<1>3. computeAttention(case) # "NORMAL" => AttentionAdvice(case).severity \in {"BLOCKER", "RISK"}
  <2>1. CASE computeAttention(case) = "BLOCKER"
    BY <1>2, <2>1 DEF AttentionAdvice, Advice, Carried, Moving
  <2>2. CASE computeAttention(case) = "RISK" /\ ~case.located
    BY <1>2, <2>2 DEF AttentionAdvice, Advice, Carried, Moving
  <2>3. CASE computeAttention(case) = "RISK" /\ case.located
    BY <1>2, <2>3 DEF AttentionAdvice, Advice, Carried, Moving
  <2>4. QED BY <1>1, <1>2, <2>1, <2>2, <2>3
<1>4. AttentionAdvice(case).action = "RETRY_DISPATCH" => computeAttention(case) = "BLOCKER"
  BY DEF AttentionAdvice, Advice
<1>5. computeAttention(case) # "NORMAL" => InReviewQueue(case)
  BY <1>2, <1>3 DEF InReviewQueue, getDispatchIntelligence, Advice
<1>6. getDispatchIntelligence(case).action = "RETRY_DISPATCH" => case.job \in {"REQUESTED", "DISPATCH_FAILED"}
  BY <1>2, <1>4 DEF getDispatchIntelligence, Advice
<1>7. QED BY <1>5, <1>6 DEF FlaggedJobsAreReviewed

-----------------------------------------------------------------------------
\* Lists that are cut off.

\* What a day consists of.
LEMMA DayFields ==
  ASSUME NEW day \in Days
  PROVE  /\ day.area = "closeout"
         /\ DOMAIN day.orders \subseteq Nat /\ IsFiniteSet(DOMAIN day.orders)
         /\ \A i \in DOMAIN day.orders : day.orders[i] \in TellingOrders
         /\ DOMAIN day.records \subseteq 1..2 /\ IsFiniteSet(DOMAIN day.records)
         /\ \A i \in DOMAIN day.records : day.records[i] \in TellingRecords
<1>1. PICK n \in 0..MaxRows : day.orders \in [1..n -> TellingOrders]
  BY DEF Days
<1>2. PICK k \in 0..2 : day.records \in [1..k -> TellingRecords]
  BY DEF Days
<1>3. IsFiniteSet(1..n) /\ IsFiniteSet(1..k)
  BY <1>1, <1>2, ListsAssumption, FS_Interval
<1>4. QED BY <1>1, <1>2, <1>3 DEF Days

\* The rows that an order of a day stands for.
LEMMA TellingFields ==
  ASSUME NEW o \in TellingOrders
  PROVE  /\ o.age \in Nat /\ o.since \in Nat /\ o.job \in JobStates /\ o.held = FALSE
BY DEF TellingOrders, Telling, JobStates

\* An item that stands for order i.
ItemAt(day, i) == [at |-> i, severity |-> SeverityOf(getBriefingCategory(day.orders[i])), age |-> DetectedAge(day.orders[i])]

\* The items of a briefing are finitely many, with numbers to order them by.
LEMMA ItemsAre ==
  ASSUME NEW day \in Days
  PROVE  /\ IsFiniteSet(BriefingItems(day))
         /\ \A x \in BriefingItems(day) : x.at \in Nat /\ x.age \in Nat /\ x.severity \in {"danger", "warning"}
<1> DEFINE B == BriefedOrders(day)
           I == {ItemAt(day, i) : i \in B}
           S == IF BriefedRecords(day) = {} THEN {} ELSE {SupportFollowUp(day)}
<1>1. B \subseteq DOMAIN day.orders /\ IsFiniteSet(B)
  BY DayFields, FS_Subset DEF BriefedOrders
<1>2. IsFiniteSet(I)
  <2>1. [i \in B |-> ItemAt(day, i)] \in Surjection(B, I)
    BY DEF Surjection
  <2>2. QED BY <1>1, <2>1, FS_Surjection
<1>3. IsFiniteSet(S)
  BY FS_EmptySet, FS_Singleton
<1>4. BriefingItems(day) = I \cup S
  BY DEF BriefingItems, ItemAt
<1>5. \A x \in I : x.at \in Nat /\ x.age \in Nat /\ x.severity \in {"danger", "warning"}
  <2> TAKE x \in I
  <2>1. PICK i \in B : x = ItemAt(day, i)
    OBVIOUS
  <2>2. i \in Nat /\ DetectedAge(day.orders[i]) \in Nat
    BY <1>1, DayFields, TellingFields DEF DetectedAge
  <2>3. SeverityOf(getBriefingCategory(day.orders[i])) \in {"danger", "warning"}
    BY DEF SeverityOf
  <2>4. QED BY <2>1, <2>2, <2>3 DEF ItemAt
<1>6. \A x \in S : x.at \in Nat /\ x.age \in Nat /\ x.severity \in {"danger", "warning"}
  BY ListsAssumption DEF SupportFollowUp
<1>7. QED
  <2> HIDE DEF I, S
  <2>1. IsFiniteSet(I \cup S)
    BY <1>2, <1>3, FS_Union
  <2>2. QED BY <1>4, <1>5, <1>6, <2>1

\* Dangers, then age, then place: an order.
LEMMA BeforeIsOrder ==
  ASSUME NEW B, \A x \in B : x.at \in Nat /\ x.age \in Nat /\ x.severity \in {"danger", "warning"},
         NEW x \in B, NEW y \in B
  PROVE  /\ ~Before(x, x)
         /\ \A z \in B : Before(x, y) /\ Before(y, z) => Before(x, z)
         /\ Worse(x, y) => \A z \in B : Before(z, x) => Before(z, y)
BY DEF Before, Worse

\* Those that come before an item.
Ahead(items, x) == {y \in items : Before(y, x)}

\* A finite list has an item with none before it: among the sets of those ahead one is smallest.
LEMMA SomethingIsFirst ==
  ASSUME NEW B, IsFiniteSet(B), B # {},
         \A x \in B : x.at \in Nat /\ x.age \in Nat /\ x.severity \in {"danger", "warning"}
  PROVE  \E x \in B : Ahead(B, x) = {}
<1> DEFINE T == {Ahead(B, x) : x \in B}
<1>1. IsWellFoundedOn(StrictSubsetOrdering(B), FiniteSubsetsOf(B))
  BY FS_StrictSubsetOrderingWellFounded
<1>2. T \subseteq FiniteSubsetsOf(B) /\ T # {}
  <2>1. \A x \in B : Ahead(B, x) \in SUBSET B /\ IsFiniteSet(Ahead(B, x))
    <3> TAKE x \in B
    <3>1. Ahead(B, x) \in SUBSET B
      BY DEF Ahead
    <3>2. QED BY <3>1, FS_Subset
  <2>2. QED BY <2>1 DEF FiniteSubsetsOf
<1>3. PICK P \in T : \A Q \in T : ~(<<Q, P>> \in StrictSubsetOrdering(B))
  <2> HIDE DEF T
  <2>1. QED BY <1>1, <1>2, WFMin
<1>4. PICK x \in B : P = Ahead(B, x)
  OBVIOUS
<1>5. ASSUME NEW y \in Ahead(B, x) PROVE FALSE
  <2>1. y \in B /\ Before(y, x)
    BY DEF Ahead
  <2>2. Ahead(B, y) \subseteq Ahead(B, x)
    BY <2>1, BeforeIsOrder DEF Ahead
  <2>3. y \notin Ahead(B, y)
    BY <2>1, BeforeIsOrder DEF Ahead
  <2>4. Ahead(B, y) \in T /\ Ahead(B, y) \subseteq B
    BY <2>1 DEF Ahead
  <2>5. Ahead(B, y) # Ahead(B, x) /\ Ahead(B, x) \in SUBSET B /\ Ahead(B, y) \in SUBSET B
    BY <1>5, <2>3, <2>4 DEF Ahead
  <2>6. <<Ahead(B, y), P>> \in StrictSubsetOrdering(B)
    BY <1>4, <2>2, <2>5 DEF StrictSubsetOrdering
  <2>7. QED BY <1>3, <2>4, <2>6
<1>6. QED BY <1>5

\* Critical are the items with fewer ahead of them than the list has room for.
LEMMA CriticalAre ==
  ASSUME NEW day
  PROVE  CriticalItems(day) = {x \in BriefingItems(day) : Cardinality(Ahead(BriefingItems(day), x)) < MaxCritical}
BY DEF CriticalItems, Ahead

\* Whatever is worse than a listed item has fewer items ahead of it, and is listed.
LEMMA WorstHolds == ASSUME case \in Days PROVE WorstComesFirst
<1> SUFFICES ASSUME NEW x \in CriticalItems(case), NEW y \in BriefingItems(case) \ CriticalItems(case), Worse(y, x)
             PROVE  FALSE
  BY DEF WorstComesFirst
<1> DEFINE B == BriefingItems(case)
<1>1. /\ IsFiniteSet(B) /\ x \in B /\ y \in B
      /\ \A z \in B : z.at \in Nat /\ z.age \in Nat /\ z.severity \in {"danger", "warning"}
  BY ItemsAre, CriticalAre
<1>2. Cardinality(Ahead(B, x)) < MaxCritical /\ ~(Cardinality(Ahead(B, y)) < MaxCritical)
  BY CriticalAre
<1> HIDE DEF B
<1>3. Ahead(B, y) \subseteq Ahead(B, x)
  BY <1>1, BeforeIsOrder DEF Ahead
<1>4. IsFiniteSet(Ahead(B, x))
  BY <1>1, FS_Subset DEF Ahead
<1>5. /\ Cardinality(Ahead(B, y)) <= Cardinality(Ahead(B, x))
      /\ Cardinality(Ahead(B, y)) \in Nat /\ Cardinality(Ahead(B, x)) \in Nat
  BY <1>3, <1>4, FS_Subset, FS_CardinalityType
<1>6. QED BY <1>2, <1>5, ListsAssumption

\* The oldest open record is briefed.
LEMMA OldestIsBriefed ==
  ASSUME NEW day \in Days
  PROVE  BriefedRecords(day) = {} <=> OpenRecords(day) = {}
<1>1. OpenRecords(day) \subseteq 1..2
  BY DayFields DEF OpenRecords
<1>2. BriefedRecords(day) \subseteq OpenRecords(day)
  BY DEF BriefedRecords
<1>3. ASSUME NEW i \in OpenRecords(day), {k \in OpenRecords(day) : k < i} = {} PROVE i \in BriefedRecords(day)
  BY <1>3, FS_EmptySet, ListsAssumption DEF BriefedRecords
<1>4. CASE 1 \in OpenRecords(day)
  <2>1. {k \in OpenRecords(day) : k < 1} = {}
    BY <1>1
  <2>2. QED BY <1>3, <1>4, <2>1
<1>5. CASE 1 \notin OpenRecords(day) /\ 2 \in OpenRecords(day)
  <2>1. {k \in OpenRecords(day) : k < 2} = {}
    BY <1>1, <1>5
  <2>2. QED BY <1>3, <1>5, <2>1
<1>6. CASE 1 \notin OpenRecords(day) /\ 2 \notin OpenRecords(day)
  BY <1>1, <1>2, <1>6
<1>7. QED BY <1>4, <1>5, <1>6

\* A briefing is clear only if it has no items, cut off or not.
LEMMA ClearIsEmpty ==
  ASSUME NEW day \in Days
  PROVE  OperationsLookClear(day) <=> BriefedOrders(day) = {} /\ OpenRecords(day) = {}
<1> DEFINE B == BriefingItems(day)
<1>1. B = {} <=> BriefedOrders(day) = {} /\ OpenRecords(day) = {}
  BY OldestIsBriefed DEF BriefingItems
<1>2. B = {} => OperationsLookClear(day)
  BY DEF OperationsLookClear, CriticalItems
<1>3. B # {} => ~OperationsLookClear(day)
  <2> SUFFICES ASSUME B # {} PROVE CriticalItems(day) # {}
    BY DEF OperationsLookClear
  <2>1. /\ IsFiniteSet(B)
        /\ \A x \in B : x.at \in Nat /\ x.age \in Nat /\ x.severity \in {"danger", "warning"}
    BY ItemsAre
  <2>2. PICK x \in B : Ahead(B, x) = {}
    <3> HIDE DEF B
    <3>1. QED BY <2>1, SomethingIsFirst
  <2>3. Cardinality(Ahead(B, x)) = 0
    BY <2>2, FS_EmptySet
  <2>4. QED BY <2>3, CriticalAre, ListsAssumption
<1>4. QED BY <1>1, <1>2, <1>3

\* A report has nothing unresolved only if it has no reported order and no record among
\* those it reads.
LEMMA NothingUnresolved ==
  ASSUME NEW day \in Days
  PROVE  /\ NoUnresolvedItems(day) <=> ReportedOrders(day) = {} /\ ReportedRecords(day) = {}
         /\ ReportedOrders(day) = {} /\ ReportedRecords(day) = {} => EvidenceCount(day) = 0
<1> DEFINE Actions == {"CHECK_DELAYED_ORDER", "REVIEW_CUSTOMER_COMMUNICATION_DRAFT", "RETRY_DISPATCH",
                       "ASSIGN_DRIVER", "REVIEW_PAYMENT_RISK"}
<1>1. IsFiniteSet(ReportedRecords(day)) /\ IsFiniteSet(ReportedOrders(day))
  <2>1. ReportedRecords(day) \subseteq DOMAIN day.records /\ ReportedOrders(day) \subseteq DOMAIN day.orders
    BY DEF ReportedRecords, OpenRecords, ReportedOrders, OfTheDay
  <2>2. QED BY <2>1, DayFields, FS_Subset
<1>2. \A i \in ReportedOrders(day) : ActionsOf(getReportCategory(day.orders[i])) # {}
                                     /\ ActionsOf(getReportCategory(day.orders[i])) \subseteq Actions
  BY DEF ActionsOf, ReportedOrders
<1>3. OrderActions(day) \subseteq ReportedOrders(day) \X Actions
  BY <1>2 DEF OrderActions
<1>4. IsFiniteSet(Actions)
  <2>1. Actions = {"CHECK_DELAYED_ORDER"} \cup {"REVIEW_CUSTOMER_COMMUNICATION_DRAFT"} \cup {"RETRY_DISPATCH"}
                    \cup {"ASSIGN_DRIVER"} \cup {"REVIEW_PAYMENT_RISK"}
    OBVIOUS
  <2>2. \A S, e : IsFiniteSet(S) => IsFiniteSet(S \cup {e})
    BY FS_AddElement
  <2> HIDE DEF Actions
  <2>3. IsFiniteSet({"CHECK_DELAYED_ORDER"})
    BY FS_Singleton
  <2>4. QED BY <2>1, <2>2, <2>3
<1> HIDE DEF Actions
<1>5. IsFiniteSet(OrderActions(day))
  <2>1. IsFiniteSet(ReportedOrders(day) \X Actions)
    BY <1>1, <1>4, FS_Product
  <2>2. QED BY <1>3, <2>1, FS_Subset
<1>6. OrderActions(day) = {} <=> ReportedOrders(day) = {}
  <2>1. ReportedOrders(day) = {} => OrderActions(day) = {}
    BY DEF OrderActions
  <2>2. ASSUME NEW i \in ReportedOrders(day) PROVE OrderActions(day) # {}
    <3>1. PICK a : a \in ActionsOf(getReportCategory(day.orders[i]))
      BY <1>2
    <3>2. <<i, a>> \in OrderActions(day)
      BY <3>1 DEF OrderActions
    <3>3. QED BY <3>2
  <2>3. QED BY <2>1, <2>2
<1>7. /\ Cardinality(OrderActions(day)) \in Nat /\ Cardinality(ReportedRecords(day)) \in Nat
      /\ Cardinality(ReportedOrders(day)) \in Nat
      /\ Cardinality(OrderActions(day)) = 0 <=> OrderActions(day) = {}
      /\ Cardinality(ReportedRecords(day)) = 0 <=> ReportedRecords(day) = {}
      /\ Cardinality(ReportedOrders(day)) = 0 <=> ReportedOrders(day) = {}
  BY <1>1, <1>5, FS_CardinalityType, FS_EmptySet
<1>8. QED BY <1>6, <1>7, ListsAssumption DEF NoUnresolvedItems, UnresolvedCount, EvidenceCount, Least

\* The orders of a day, told by the briefing, the report and the lists of delays and risks.
LEMMA OrdersTell ==
  ASSUME NEW o, o.job \in JobStates, o.age \in Nat
  PROVE  /\ isDelayedJob(o) => getBriefingCategory(o) # "none"
         /\ getBriefingCategory(o) # "none" => getReportCategory(o) # "none"
         /\ isDelayedJob(o) \/ isPaymentRisk(o) => getReportCategory(o) # "none"
         /\ getReportCategory(o) \notin {"none", "payout_review"} => getBriefingCategory(o) # "none"
<1>1. isDelayedJob(o) => getBriefingCategory(o) # "none"
  BY DEF isDelayedJob, getBriefingCategory, Waits, Stalls, Threshold, Carried, Moving, NoDriver
<1>2. getBriefingCategory(o) # "none" => getReportCategory(o) # "none"
  BY DEF getReportCategory, getBriefingCategory, Waits, Stalls, isDelayedJob, Threshold, Carried, Moving, NoDriver
<1>3. isDelayedJob(o) \/ isPaymentRisk(o) => getReportCategory(o) # "none"
  BY DEF isPaymentRisk, getReportCategory
<1>4. getReportCategory(o) \notin {"none", "payout_review"} => getBriefingCategory(o) # "none"
  BY DEF getReportCategory, getBriefingCategory, Waits, Stalls, isDelayedJob, Threshold, Carried, Moving, NoDriver
<1>5. QED BY <1>1, <1>2, <1>3, <1>4

\* What a day's rows are told of, row by row.
LEMMA RowsTell ==
  ASSUME NEW day \in Days, NEW i \in DOMAIN day.orders
  PROVE  /\ isDelayedJob(day.orders[i]) => getBriefingCategory(day.orders[i]) # "none"
         /\ getBriefingCategory(day.orders[i]) # "none" => getReportCategory(day.orders[i]) # "none"
         /\ isDelayedJob(day.orders[i]) \/ isPaymentRisk(day.orders[i]) => getReportCategory(day.orders[i]) # "none"
         /\ getReportCategory(day.orders[i]) \notin {"none", "payout_review"} =>
              getBriefingCategory(day.orders[i]) # "none"
<1>1. day.orders[i].job \in JobStates /\ day.orders[i].age \in Nat
  BY DayFields, TellingFields
<1>2. QED BY <1>1, OrdersTell

\* A row that matches a query is briefed if the briefing reads it, and a briefed failure
\* matches its query.
LEMMA QueuesTell ==
  ASSUME NEW r, r.job \in JobStates, r.age \in Nat
  PROVE  /\ Interventions(r) # {} => getBriefingCategory(r) # "none"
         /\ getBriefingCategory(r) = "dispatch_failed" => "dispatch_failed" \in Interventions(r)
         /\ getBriefingCategory(r) = "payment_failed" => "payment_failure" \in Interventions(r)
<1>1. Interventions(r) # {} => getBriefingCategory(r) # "none"
  BY InterventionsAre DEF getBriefingCategory, Stalls, Threshold, Uncaptured, Carried, Moving
<1>2. getBriefingCategory(r) = "dispatch_failed" => "dispatch_failed" \in Interventions(r)
  BY InterventionsAre DEF getBriefingCategory
<1>3. getBriefingCategory(r) = "payment_failed" => "payment_failure" \in Interventions(r)
  BY InterventionsAre DEF getBriefingCategory
<1>4. QED BY <1>1, <1>2, <1>3

\* A query that returns less than matches returns as many rows as it may.
LEMMA FullOrAll ==
  ASSUME NEW day \in Days, NEW queue, NEW rows \in QueueResults(day, queue), rows # Queueable(day, queue)
  PROVE  Cardinality(rows) = QueueRows
<1>1. IsFiniteSet(Queueable(day, queue)) /\ rows \in SUBSET Queueable(day, queue)
  BY DayFields, FS_Subset DEF Queueable, QueueResults
<1>2. /\ Cardinality(rows) \in Nat /\ Cardinality(Queueable(day, queue)) \in Nat
      /\ Cardinality(rows) # Cardinality(Queueable(day, queue))
  BY <1>1, FS_Subset, FS_CardinalityType
<1>3. Cardinality(rows) = Least(QueueRows, Cardinality(Queueable(day, queue)))
  BY DEF QueueResults
<1>4. QED BY <1>2, <1>3, ListsAssumption DEF Least

\* Briefing, report and queue differ by the rows that they read.
LEMMA WindowsHold == ASSUME case \in Days PROVE WindowsExplain
<1>1. \A i \in BriefedOrders(case) \ ReportedOrders(case) : i \notin case.today
  BY RowsTell DEF BriefedOrders, ReportedOrders, OfTheDay
<1>2. \A i \in ReportedOrders(case) \ BriefedOrders(case) :
        i > BriefedRows \/ getReportCategory(case.orders[i]) = "payout_review"
  <2> TAKE i \in ReportedOrders(case) \ BriefedOrders(case)
  <2>1. i \in DOMAIN case.orders /\ i \in Nat /\ getReportCategory(case.orders[i]) # "none"
    BY DayFields DEF ReportedOrders, OfTheDay
  <2>2. i > BriefedRows \/ getBriefingCategory(case.orders[i]) = "none"
    BY <2>1, ListsAssumption DEF BriefedOrders
  <2>3. QED BY <2>1, <2>2, RowsTell
<1>3. ASSUME NEW queue \in Queues, NEW rows \in QueueResults(case, queue), NEW i \in rows \ BriefedOrders(case)
      PROVE  i > BriefedRows
  <2>1. i \in DOMAIN case.orders /\ i \in Nat /\ Interventions(case.orders[i]) # {}
    BY DayFields DEF QueueResults, Queueable
  <2>2. case.orders[i].job \in JobStates /\ case.orders[i].age \in Nat
    BY <2>1, DayFields, TellingFields
  <2>3. getBriefingCategory(case.orders[i]) # "none"
    BY <2>1, <2>2, QueuesTell
  <2>4. QED BY <2>1, <2>3, ListsAssumption DEF BriefedOrders
<1>4. ASSUME NEW failure \in {"dispatch_failed", "payment_failed"}, NEW rows \in QueueResults(case, QueueOf(failure)),
             NEW i \in BriefedOrders(case) \ rows, getBriefingCategory(case.orders[i]) = failure
      PROVE  Cardinality(rows) = QueueRows
  <2>1. i \in DOMAIN case.orders
    BY DEF BriefedOrders
  <2>2. case.orders[i].job \in JobStates /\ case.orders[i].age \in Nat
    BY <2>1, DayFields, TellingFields
  <2>3. QueueOf(failure) \in Interventions(case.orders[i])
    BY <1>4, <2>2, QueuesTell DEF QueueOf
  <2>4. rows # Queueable(case, QueueOf(failure))
    BY <2>1, <2>3 DEF Queueable
  <2>5. QED BY <2>4, FullOrAll
<1>5. QED BY <1>1, <1>2, <1>3, <1>4 DEF WindowsExplain

\* The days that are called quiet.
LEMMA QuietHolds == ASSUME case \in Days PROVE QuietDaysAreQuiet
<1>1. ASSUME OperationsLookClear(case)
      PROVE  OpenRecords(case) = {} /\ \A i \in DelayIncidents(case) : i > BriefedRows
  <2>1. BriefedOrders(case) = {} /\ OpenRecords(case) = {}
    BY <1>1, ClearIsEmpty
  <2>2. ASSUME NEW i \in DelayIncidents(case) PROVE i > BriefedRows
    <3>1. i \in DOMAIN case.orders /\ i \in Nat /\ isDelayedJob(case.orders[i])
      BY DayFields DEF DelayIncidents, OfTheDay
    <3>2. getBriefingCategory(case.orders[i]) # "none"
      BY <3>1, RowsTell
    <3>3. QED BY <2>1, <3>1, <3>2, ListsAssumption DEF BriefedOrders
  <2>3. QED BY <2>1, <2>2
<1>2. ASSUME NoUnresolvedItems(case)
      PROVE  /\ DelayIncidents(case) = {} /\ PaymentRisks(case) = {}
             /\ EvidenceCount(case) = 0 /\ DriverFollowUps(case) = {}
             /\ BriefedOrders(case) \cap case.today = {} /\ \A i \in OpenRecords(case) : i > ReportedSupport
  <2>1. ReportedOrders(case) = {} /\ ReportedRecords(case) = {} /\ EvidenceCount(case) = 0
    BY <1>2, NothingUnresolved
  <2>2. \A i \in OfTheDay(case) : i \in DOMAIN case.orders /\ getReportCategory(case.orders[i]) = "none"
    BY <2>1 DEF ReportedOrders, OfTheDay
  <2>3. DelayIncidents(case) = {} /\ PaymentRisks(case) = {} /\ BriefedOrders(case) \cap case.today = {}
    BY <2>2, RowsTell DEF BriefedOrders, DelayIncidents, PaymentRisks, OfTheDay
  <2>4. \A i \in OpenRecords(case) : i \in Nat /\ ~(i <= ReportedSupport)
    BY <2>1, DayFields DEF ReportedRecords, OpenRecords
  <2>5. \A i \in OpenRecords(case) : i > ReportedSupport
    BY <2>4, ListsAssumption
  <2>6. QED BY <2>1, <2>3, <2>5 DEF DriverFollowUps
<1>3. ASSUME OperationsLookClear(case), NEW i \in ReportedOrders(case)
      PROVE  i > BriefedRows \/ getReportCategory(case.orders[i]) = "payout_review"
  <2>1. BriefedOrders(case) = {}
    BY <1>3, ClearIsEmpty
  <2>2. case.area = "closeout"
    BY DayFields
  <2>3. QED BY <2>1, <2>2, WindowsHold DEF WindowsExplain, About
<1>4. QED BY <1>1, <1>2, <1>3 DEF QuietDaysAreQuiet

-----------------------------------------------------------------------------
\* Which courier may get a job.

\* What there is to know of a courier.
LEMMA CandidateFields ==
  ASSUME NEW c \in Candidates
  PROVE  /\ c.active \in BOOLEAN /\ c.online \in BOOLEAN /\ c.busy \in BOOLEAN /\ c.fits \in BOOLEAN
         /\ c.equipped \in BOOLEAN /\ c.located \in BOOLEAN /\ c.recent \in BOOLEAN
         /\ c.verification \in {"MISSING", "PENDING", "APPROVED", "REJECTED"}
         /\ c.offer \in {"none", "OFFERED", "ACCEPTED", "REJECTED", "EXPIRED"}
BY DEF Candidates, Verifications

\* The flags, one by one.
LEMMA FlagsAre ==
  ASSUME NEW c
  PROVE  /\ Flags(c) \subseteq {"OFFLINE", "ACTIVE_JOB", "VEHICLE_MISMATCH", "VERIFICATION_NOT_APPROVED",
                                "NO_LIVE_LOCATION", "EXISTING_OPEN_OFFER"}
         /\ "OFFLINE" \in Flags(c) <=> ~c.online
         /\ "ACTIVE_JOB" \in Flags(c) <=> c.busy
         /\ "VEHICLE_MISMATCH" \in Flags(c) <=> ~c.fits
         /\ "VERIFICATION_NOT_APPROVED" \in Flags(c) <=> c.verification # "APPROVED"
         /\ "EXISTING_OPEN_OFFER" \in Flags(c) <=> Open(c)
<1>1. Flags(c) \subseteq {"OFFLINE", "ACTIVE_JOB", "VEHICLE_MISMATCH", "VERIFICATION_NOT_APPROVED",
                          "NO_LIVE_LOCATION", "EXISTING_OPEN_OFFER"}
  BY Zenon DEF Flags
<1>2. "OFFLINE" \in Flags(c) <=> ~c.online
  BY Zenon DEF Flags
<1>3. "ACTIVE_JOB" \in Flags(c) <=> c.busy
  BY Zenon DEF Flags
<1>4. "VEHICLE_MISMATCH" \in Flags(c) <=> ~c.fits
  BY Zenon DEF Flags
<1>5. "VERIFICATION_NOT_APPROVED" \in Flags(c) <=> c.verification # "APPROVED"
  BY Zenon DEF Flags
<1>6. "EXISTING_OPEN_OFFER" \in Flags(c) <=> Open(c)
  BY Zenon DEF Flags
<1>7. QED BY <1>1, <1>2, <1>3, <1>4, <1>5, <1>6

\* A courier is eligible without any flag but the one for a missing location.
LEMMA EligibleIs ==
  ASSUME NEW c
  PROVE  eligible(c) <=> c.online /\ ~c.busy /\ c.fits /\ c.verification = "APPROVED" /\ ~Open(c)
<1>1. /\ "OFFLINE" \notin {"NO_LIVE_LOCATION"} /\ "ACTIVE_JOB" \notin {"NO_LIVE_LOCATION"}
      /\ "VEHICLE_MISMATCH" \notin {"NO_LIVE_LOCATION"} /\ "VERIFICATION_NOT_APPROVED" \notin {"NO_LIVE_LOCATION"}
      /\ "EXISTING_OPEN_OFFER" \notin {"NO_LIVE_LOCATION"}
  OBVIOUS
<1>2. QED BY <1>1, FlagsAre, Zenon DEF eligible

\* The readiness an administrator is shown.
LEMMA ReadinessIs ==
  ASSUME NEW c \in Candidates
  PROVE  /\ c.verification = "PENDING" => computeDriverReadinessStatus(c) = "NEEDS_REVIEW"
         /\ c.verification \in {"MISSING", "REJECTED"} => computeDriverReadinessStatus(c) = "NOT_ELIGIBLE"
         /\ c.verification = "APPROVED" /\ (~c.equipped \/ ~c.online \/ c.busy) =>
              computeDriverReadinessStatus(c) = "NOT_ELIGIBLE"
         /\ c.verification = "APPROVED" /\ c.equipped /\ c.online /\ ~c.busy =>
              computeDriverReadinessStatus(c) = IF c.recent THEN "READY" ELSE "NEEDS_REVIEW"
<1>1. ASSUME c.verification = "PENDING" PROVE computeDriverReadinessStatus(c) = "NEEDS_REVIEW"
  BY <1>1, Zenon DEF computeDriverReadinessStatus
<1>2. ASSUME c.verification \in {"MISSING", "REJECTED"} PROVE computeDriverReadinessStatus(c) = "NOT_ELIGIBLE"
  <2>1. c.verification # "PENDING"
    BY <1>2
  <2>2. QED BY <1>2, <2>1, Zenon DEF computeDriverReadinessStatus
<1>3. ASSUME c.verification = "APPROVED", ~c.equipped \/ ~c.online \/ c.busy PROVE computeDriverReadinessStatus(c) = "NOT_ELIGIBLE"
  <2>1. c.verification # "PENDING"
    BY <1>3
  <2>2. QED BY <1>3, <2>1, Zenon DEF computeDriverReadinessStatus
<1>4. ASSUME c.verification = "APPROVED", c.equipped, c.online, ~c.busy
      PROVE  computeDriverReadinessStatus(c) = IF c.recent THEN "READY" ELSE "NEEDS_REVIEW"
  <2>1. c.verification # "PENDING" /\ c.verification \notin {"MISSING", "REJECTED"}
    BY <1>4
  <2>2. QED BY <1>4, <2>1, Zenon DEF computeDriverReadinessStatus
<1>5. QED BY <1>1, <1>2, <1>3, <1>4

\* Worker, assignment, advice and readiness list judge a courier alike.
LEMMA EligibilityHolds == ASSUME case \in Candidates PROVE EligibilityAgrees
<1>1. case.verification # "PENDING" /\ case.equipped /\ case.online /\ ~case.busy /\ case.verification = "APPROVED" =>
         computeDriverReadinessStatus(case) # "NOT_ELIGIBLE"
  BY ReadinessIs
<1>2. computeDriverReadinessStatus(case) = "READY" =>
         case.verification = "APPROVED" /\ case.equipped /\ case.online /\ ~case.busy
  BY ReadinessIs, CandidateFields
<1>3. QED
  BY <1>1, <1>2, CandidateFields, EligibleIs
  DEF EligibilityAgrees, CheckedForReassign, AcceptedForReassign, RecoveryEligible, RecoveryMatching, RecoveryReady,
      selectDispatchCandidates, Listed, ListedFirst, Open

\* The reason shown is one of the flags.
LEMMA ReasonIsFlag ==
  ASSUME NEW flags, flags \cap {"ACTIVE_JOB", "OFFLINE", "VEHICLE_MISMATCH", "VERIFICATION_NOT_APPROVED",
                                "EXISTING_OPEN_OFFER"} # {}
  PROVE  FirstReason(flags) \in flags /\ FirstReason(flags) \notin {"none", "READY"}
<1>1. /\ DOMAIN Reasons = 1..5 /\ Reasons[1] = "ACTIVE_JOB" /\ Reasons[2] = "OFFLINE" /\ Reasons[3] = "VEHICLE_MISMATCH"
      /\ Reasons[4] = "VERIFICATION_NOT_APPROVED" /\ Reasons[5] = "EXISTING_OPEN_OFFER"
  BY DEF Reasons
<1>2. \E i \in 1..5 : Reasons[i] \in flags /\ \A k \in 1..i-1 : Reasons[k] \notin flags
  <2>1. CASE Reasons[1] \in flags
    BY <2>1
  <2>2. CASE Reasons[1] \notin flags /\ Reasons[2] \in flags
    <3>1. \A k \in 1..2-1 : k = 1
      OBVIOUS
    <3>2. QED BY <2>2, <3>1
  <2>3. CASE Reasons[1] \notin flags /\ Reasons[2] \notin flags /\ Reasons[3] \in flags
    <3>1. \A k \in 1..3-1 : k = 1 \/ k = 2
      OBVIOUS
    <3>2. QED BY <2>3, <3>1
  <2>4. CASE Reasons[1] \notin flags /\ Reasons[2] \notin flags /\ Reasons[3] \notin flags /\ Reasons[4] \in flags
    <3>1. \A k \in 1..4-1 : k = 1 \/ k = 2 \/ k = 3
      OBVIOUS
    <3>2. QED BY <2>4, <3>1
  <2>5. CASE /\ Reasons[1] \notin flags /\ Reasons[2] \notin flags /\ Reasons[3] \notin flags /\ Reasons[4] \notin flags
             /\ Reasons[5] \in flags
    <3>1. \A k \in 1..5-1 : k = 1 \/ k = 2 \/ k = 3 \/ k = 4
      OBVIOUS
    <3>2. QED BY <2>5, <3>1
  <2>6. Reasons[1] \in flags \/ Reasons[2] \in flags \/ Reasons[3] \in flags \/ Reasons[4] \in flags \/ Reasons[5] \in flags
    BY <1>1
  <2>7. QED BY <2>1, <2>2, <2>3, <2>4, <2>5, <2>6
<1>3. PICK n : n = CHOOSE i \in 1..5 : Reasons[i] \in flags /\ \A k \in 1..i-1 : Reasons[k] \notin flags
  OBVIOUS
<1>4. n \in 1..5 /\ Reasons[n] \in flags
  BY <1>2, <1>3
<1>5. FirstReason(flags) = Reasons[n]
  BY <1>1, <1>3, <1>4 DEF FirstReason
<1>6. Reasons[n] \notin {"none", "READY"}
  <2>1. n = 1 \/ n = 2 \/ n = 3 \/ n = 4 \/ n = 5
    BY <1>4
  <2>2. QED BY <1>1, <2>1
<1>7. QED BY <1>4, <1>5, <1>6

\* What the readiness list calls failed.
LEMMA ChecklistIs ==
  ASSUME NEW c
  PROVE  ChecklistFails(c) # {} <=> c.verification \notin {"APPROVED", "PENDING"} \/ ~c.equipped \/ ~c.online \/ c.busy
<1>1. "verification" \in ChecklistFails(c) <=> c.verification \notin {"APPROVED", "PENDING"}
  BY Zenon DEF ChecklistFails
<1>2. "vehicle" \in ChecklistFails(c) <=> ~c.equipped
  BY Zenon DEF ChecklistFails
<1>3. "active" \in ChecklistFails(c) <=> ~c.online
  BY Zenon DEF ChecklistFails
<1>4. "job" \in ChecklistFails(c) <=> c.busy
  BY Zenon DEF ChecklistFails
<1>5. "location" \notin ChecklistFails(c)
  BY Zenon DEF ChecklistFails
<1>6. ChecklistFails(c) \subseteq {"verification", "vehicle", "active", "location", "job"}
  BY Zenon DEF ChecklistFails
<1>7. ChecklistFails(c) # {} <=>
         \/ "verification" \in ChecklistFails(c) \/ "vehicle" \in ChecklistFails(c)
         \/ "active" \in ChecklistFails(c) \/ "job" \in ChecklistFails(c)
  BY <1>5, <1>6
<1>8. QED BY <1>1, <1>2, <1>3, <1>4, <1>7

\* The reasons shown for a courier agree.
LEMMA ReasonsHold == ASSUME case \in Candidates PROVE ReasonsAgree
<1>1. getBlockedDriverLabel(case) = buildEligibleDriverReason(case)
  BY DEF getBlockedDriverLabel, buildEligibleDriverReason
<1>2. ASSUME ~eligible(case)
      PROVE  /\ buildEligibleDriverReason(case) \in Flags(case)
             /\ buildEligibleDriverReason(case) \notin {"none", "READY"}
  <2>1. Flags(case) \cap {"ACTIVE_JOB", "OFFLINE", "VEHICLE_MISMATCH", "VERIFICATION_NOT_APPROVED",
                          "EXISTING_OPEN_OFFER"} # {}
    BY <1>2, FlagsAre, EligibleIs
  <2>2. QED BY <1>2, <2>1, ReasonIsFlag DEF buildEligibleDriverReason
<1>3. ~eligible(case) => buildEligibleDriverReason(case) \in NextSteps(Flags(case))
  BY <1>2 DEF NextSteps
<1>4. buildEligibleDriverReason(case) # "none"
  BY <1>2 DEF buildEligibleDriverReason
<1>5. computeDriverReadinessStatus(case) = "READY" <=> getDriverReadinessAction(case) = "ready"
  BY CandidateFields, ReadinessIs DEF getDriverReadinessAction
<1>6. computeDriverReadinessStatus(case) = "NOT_ELIGIBLE" /\ case.verification # "PENDING" <=>
         ChecklistFails(case) # {} /\ case.verification # "PENDING"
  BY CandidateFields, ReadinessIs, ChecklistIs
<1>7. QED BY <1>1, <1>3, <1>4, <1>5, <1>6 DEF ReasonsAgree

\* The advice for a waiting job is taken by the service it names.
LEMMA AdviceHolds == ASSUME case \in Recoveries PROVE AdviceIsAccepted
<1>1. /\ case.job \in Advised \cup {"DELIVERED", "CANCELLED", "PICKED_UP"}
      /\ case.payment \in PaymentBlockers \cup {"AUTHORIZED", "CAPTURED"}
      /\ case.latest \in {"none", "OFFERED", "ACCEPTED", "REJECTED", "EXPIRED"} /\ case.old \in BOOLEAN
      /\ case.pool \in 0..1 /\ case.ready \in 0..1 /\ case.matching \in 0..1 /\ case.eligible \in 0..1
      /\ case.latest = "OFFERED" => case.job = "REQUESTED"
      /\ case.latest = "ACCEPTED" <=> case.job \in {"ASSIGNED", "PICKED_UP", "DELIVERED"}
      /\ case.eligible <= case.matching /\ case.matching <= case.ready /\ case.ready <= case.pool
  BY DEF Recoveries
<1>2. case.latest = "none" /\ case.eligible = 1 => case.fresh
  <2>1. case.latest = "none" => case.fresh = (case.eligible = 1)
    BY DEF Recoveries
  <2>2. QED BY <2>1, Zenon
<1>3. case.eligible > 0 => case.eligible = 1
  BY <1>1
<1>4. PICK advice : advice = buildDispatchRecoverySuggestion(case)
  OBVIOUS
<1>5. ASSUME advice = "RETRY_DISPATCH"
      PROVE  StaleOffer(case) /\ case.eligible > 0
  BY <1>1, <1>4, <1>5 DEF buildDispatchRecoverySuggestion, PaymentBlockers, offerCount
<1>6. ASSUME advice = "MANUAL_ASSIGN_DRIVER" PROVE case.job \in Advised /\ case.eligible > 0
  BY <1>1, <1>4, <1>6 DEF buildDispatchRecoverySuggestion, PaymentBlockers
<1>7. advice = "RETRY_DISPATCH" => RetryAccepted(case)
  BY <1>1, <1>5 DEF RetryAccepted, StaleOffer, Advised
<1>8. advice = "MANUAL_ASSIGN_DRIVER" =>
         case.job \in {"REQUESTED", "ASSIGNED", "DISPATCH_FAILED"} /\ (case.fresh \/ case.latest # "none")
  <2> SUFFICES ASSUME advice = "MANUAL_ASSIGN_DRIVER"
               PROVE  case.job \in {"REQUESTED", "ASSIGNED", "DISPATCH_FAILED"} /\ (case.fresh \/ case.latest # "none")
    OBVIOUS
  <2>1. case.job \in {"REQUESTED", "ASSIGNED", "DISPATCH_FAILED"}
    BY <1>6 DEF Advised
  <2>2. case.eligible = 1
    BY <1>6, <1>3
  <2>3. case.fresh \/ case.latest # "none"
    BY <1>2, <2>2, Zenon
  <2>4. QED BY <2>1, <2>3, Zenon
<1>9. QED BY <1>4, <1>5, <1>7, <1>8 DEF AdviceIsAccepted

-----------------------------------------------------------------------------
\* How far an order is.

\* The statuses that the views tell apart.
LEMMA TrackedFields ==
  ASSUME NEW o \in TrackedOrders
  PROVE  /\ o.job \in TrackedJobs /\ o.payment \in PaymentStatuses /\ o.proven \in BOOLEAN
         /\ o = [area |-> o.area, job |-> o.job, payment |-> o.payment, order |-> o.order, proven |-> o.proven]
         /\ o.job = "DELIVERED" => o.proven
         /\ o.proven => o.job \in {"EN_ROUTE_DROP", "DELIVERED"}
BY DEF TrackedOrders

\* The steps are six.
LEMMA StepsAreSix == DOMAIN Steps = 1..6
BY DEF Steps

\* A stage is one of the six steps; only what ended is at the last.
LEMMA StageIs ==
  ASSUME NEW o
  PROVE  StageIndex(o) \in 1..6 /\ (StageIndex(o) = 6 <=> Ended(o))
BY DEF StageIndex

\* A step of the six, but for the two that can be in trouble.
LEMMA StepIs ==
  ASSUME NEW o, NEW i \in 1..6
  PROVE  /\ getTrackingSteps(o)[i] = "complete" => i < StageIndex(o) \/ Ended(o)
         /\ getTrackingSteps(o)[i] = "upcoming" => ~(i < StageIndex(o)) /\ ~Ended(o) /\ i > StageIndex(o)
         /\ i \notin {2, 3} /\ (i < StageIndex(o) \/ Ended(o)) => getTrackingSteps(o)[i] = "complete"
         /\ i = 3 /\ o.job # "DISPATCH_FAILED" /\ (i < StageIndex(o) \/ Ended(o)) => getTrackingSteps(o)[i] = "complete"
         /\ i = 3 /\ o.job = "DISPATCH_FAILED" => getTrackingSteps(o)[i] # "complete"
<1>1. PICK step :
        step = CASE o.payment = "FAILED" /\ i = 2 -> "problem"
                 [] o.job = "DISPATCH_FAILED" /\ i = 3 -> "problem"
                 [] OTHER -> IF i < StageIndex(o) \/ Ended(o) THEN "complete"
                             ELSE IF i > StageIndex(o) THEN "upcoming"
                             ELSE IF Problem(o) THEN "problem" ELSE "current"
  OBVIOUS
<1>2. getTrackingSteps(o)[i] = step
  BY <1>1, StepsAreSix, Zenon DEF getTrackingSteps
<1>3. i = 2 => i # 3
  OBVIOUS
<1>4. CASE o.payment = "FAILED" /\ i = 2
  <2>1. step = "problem"
    BY <1>1, <1>3, <1>4, Zenon
  <2>2. QED BY <1>2, <1>4, <2>1
<1>5. CASE o.job = "DISPATCH_FAILED" /\ i = 3
  <2>1. i # 2
    BY <1>5
  <2>2. step = "problem"
    BY <1>1, <1>5, <2>1, Zenon
  <2>3. QED BY <1>2, <1>5, <2>2
<1>6. CASE ~(o.payment = "FAILED" /\ i = 2) /\ ~(o.job = "DISPATCH_FAILED" /\ i = 3)
  <2>1. step = IF i < StageIndex(o) \/ Ended(o) THEN "complete"
               ELSE IF i > StageIndex(o) THEN "upcoming"
               ELSE IF Problem(o) THEN "problem" ELSE "current"
    BY <1>1, <1>6, Zenon
  <2>2. QED BY <1>2, <1>6, <2>1, StageIs
<1>7. QED BY <1>4, <1>5, <1>6

\* Headline and next step of the customer's page name the same state.
LEMMA SummaryIsNext ==
  ASSUME NEW o, o.job \in TrackedJobs
  PROVE  getCustomerTrackingSummary(o) = getCustomerTrackingNextStep(o)
<1>1. CASE Ended(o) \/ o.payment = "FAILED" \/ o.job = "DISPATCH_FAILED"
  BY <1>1, Zenon DEF getCustomerTrackingSummary, getCustomerTrackingNextStep
<1>2. CASE /\ ~Ended(o) /\ o.payment # "FAILED" /\ o.job # "DISPATCH_FAILED"
           /\ o.job = "EN_ROUTE_DROP"
  <2>1. o.job # "PICKED_UP" /\ o.job \notin WithDriver \ {"EN_ROUTE_DROP", "PICKED_UP"}
    BY <1>2
  <2>2. QED BY <1>2, <2>1, Zenon DEF getCustomerTrackingSummary, getCustomerTrackingNextStep
<1>3. CASE /\ ~Ended(o) /\ o.payment # "FAILED" /\ o.job # "DISPATCH_FAILED"
           /\ o.job = "PICKED_UP"
  <2>1. o.job # "EN_ROUTE_DROP" /\ o.job \notin WithDriver \ {"EN_ROUTE_DROP", "PICKED_UP"}
    BY <1>3
  <2>2. QED BY <1>3, <2>1, Zenon DEF getCustomerTrackingSummary, getCustomerTrackingNextStep
<1>4. CASE /\ ~Ended(o) /\ o.payment # "FAILED" /\ o.job # "DISPATCH_FAILED"
           /\ o.job # "EN_ROUTE_DROP" /\ o.job # "PICKED_UP"
  <2>1. o.job \in WithDriver \ {"EN_ROUTE_DROP", "PICKED_UP"} <=> Assigned(o)
    BY <1>4 DEF Assigned
  <2>2. QED BY <1>4, <2>1, Zenon DEF getCustomerTrackingSummary, getCustomerTrackingNextStep
<1>5. QED BY <1>1, <1>2, <1>3, <1>4

\* The operator's stage.
LEMMA OperatorIs ==
  ASSUME NEW o
  PROVE  /\ o.job = "DELIVERED" => OperatorIndex(o) = 6
         /\ o.job = "EN_ROUTE_DROP" => OperatorIndex(o) = 5
         /\ o.job = "PICKED_UP" => OperatorIndex(o) = 4
         /\ o.job \in {"ASSIGNED", "EN_ROUTE_PICKUP"} => OperatorIndex(o) = 3
         /\ o.job \in {"REQUESTED", "CANCELLED", "DISPATCH_FAILED"} => OperatorIndex(o) = 2
<1>1. o.job = "DELIVERED" => OperatorIndex(o) = 6
  BY Zenon DEF OperatorIndex
<1>2. o.job = "EN_ROUTE_DROP" => OperatorIndex(o) = 5
  BY Zenon DEF OperatorIndex
<1>3. o.job = "PICKED_UP" => OperatorIndex(o) = 4
  BY Zenon DEF OperatorIndex
<1>4. o.job \in {"ASSIGNED", "EN_ROUTE_PICKUP"} => OperatorIndex(o) = 3
  BY Zenon DEF OperatorIndex
<1>5. o.job \in {"REQUESTED", "CANCELLED", "DISPATCH_FAILED"} => OperatorIndex(o) = 2
  BY Zenon DEF OperatorIndex
<1>6. QED BY <1>1, <1>2, <1>3, <1>4, <1>5

\* The views of one order tell one story.
LEMMA StoryHolds == ASSUME case \in TrackedOrders PROVE ViewsTellOneStory
<1>1. getCustomerTrackingSummary(case) = getCustomerTrackingNextStep(case)
  BY TrackedFields, SummaryIsNext
<1>2. ASSUME StageIndex(case) >= 2, case.order # "FULFILLED" PROVE StageIndex(case) = OperatorIndex(case)
  <2>1. Ended(case) <=> case.job = "DELIVERED"
    BY <1>2 DEF Ended
  <2>2. case.job \in {"DELIVERED", "EN_ROUTE_DROP", "PICKED_UP", "ASSIGNED", "EN_ROUTE_PICKUP", "REQUESTED", "CANCELLED", "DISPATCH_FAILED"}
    BY TrackedFields DEF TrackedJobs
  <2>3. QED BY <1>2, <2>1, <2>2, OperatorIs DEF StageIndex, Assigned, WithDriver
<1>3. DropoffNode(case) = "complete" => getTrackingSteps(case)[6] = "complete"
  <2>1. DropoffNode(case) = "complete" => StageIndex(case) = 6
    BY DEF DropoffNode
  <2>2. QED BY <2>1, StageIs, StepIs
<1>4. CourierNode(case) = "complete" => getTrackingSteps(case)[4] = "complete"
  <2>1. CourierNode(case) = "complete" => StageIndex(case) >= 5
    BY StageIs DEF CourierNode
  <2>2. QED BY <2>1, StageIs, StepIs
<1>5. ASSUME NEW i \in 1..6, NEW j \in 1..6, i < j, getTrackingSteps(case)[i] = "upcoming"
      PROVE  getTrackingSteps(case)[j] # "complete"
  <2>1. ~Ended(case) /\ i > StageIndex(case)
    BY <1>5, StepIs
  <2>2. ~(j < StageIndex(case))
    BY <1>5, <2>1, StageIs
  <2>3. QED BY <2>1, <2>2, StepIs
<1>6. QED BY <1>1, <1>2, <1>3, <1>4, <1>5, StepsAreSix DEF ViewsTellOneStory

\* The status after a status.
LEMMA NextJobIs ==
  ASSUME NEW job \in TrackedJobs
  PROVE  /\ job = "REQUESTED" => NextJob(job) = "ASSIGNED"
         /\ job = "ASSIGNED" => NextJob(job) = "EN_ROUTE_PICKUP"
         /\ job = "EN_ROUTE_PICKUP" => NextJob(job) = "PICKED_UP"
         /\ job = "PICKED_UP" => NextJob(job) = "EN_ROUTE_DROP"
         /\ job = "EN_ROUTE_DROP" => NextJob(job) = "DELIVERED"
         /\ job \in {"DELIVERED", "CANCELLED", "DISPATCH_FAILED"} => NextJob(job) = job
<1>1. job = "REQUESTED" => NextJob(job) = "ASSIGNED"
  BY Zenon DEF NextJob
<1>2. job = "ASSIGNED" => NextJob(job) = "EN_ROUTE_PICKUP"
  BY Zenon DEF NextJob
<1>3. job = "EN_ROUTE_PICKUP" => NextJob(job) = "PICKED_UP"
  BY Zenon DEF NextJob
<1>4. job = "PICKED_UP" => NextJob(job) = "EN_ROUTE_DROP"
  BY Zenon DEF NextJob
<1>5. job = "EN_ROUTE_DROP" => NextJob(job) = "DELIVERED"
  BY Zenon DEF NextJob
<1>6. job \in {"DELIVERED", "CANCELLED", "DISPATCH_FAILED"} => NextJob(job) = job
  BY Zenon DEF NextJob
<1>7. QED BY <1>1, <1>2, <1>3, <1>4, <1>5, <1>6

\* The courier's rank of a status.
LEMMA RanksAre ==
  /\ statusRank("ASSIGNED") = 1 /\ statusRank("EN_ROUTE_PICKUP") = 2 /\ statusRank("PICKED_UP") = 3
  /\ statusRank("EN_ROUTE_DROP") = 4 /\ statusRank("DELIVERED") = 6
  /\ \A job \in {"REQUESTED", "CANCELLED", "DISPATCH_FAILED"} : statusRank(job) = 0
BY Zenon DEF statusRank

\* The parts of the courier's work that are done.
LEMMA DoneIs ==
  ASSUME NEW o
  PROVE  /\ StepsDone(o) \subseteq 1..5
         /\ \A i \in 1..3 : i \in StepsDone(o) <=> statusRank(o.job) > i
         /\ 4 \in StepsDone(o) <=> o.proven \/ statusRank(o.job) = 6
         /\ 5 \in StepsDone(o) <=> statusRank(o.job) = 6
<1>1. StepsDone(o) \subseteq 1..5
  BY Zenon DEF StepsDone
<1>2. ASSUME NEW i \in 1..3 PROVE i \in StepsDone(o) <=> statusRank(o.job) > i
  <2>1. i \in 1..5 /\ i # 4
    OBVIOUS
  <2>2. QED BY <2>1, Zenon DEF StepsDone
<1>3. 4 \in StepsDone(o) <=> o.proven \/ statusRank(o.job) = 6
  <2>1. 4 \in 1..5 /\ 4 \notin 1..3
    OBVIOUS
  <2>2. QED BY <2>1, Zenon DEF StepsDone
<1>4. 5 \in StepsDone(o) <=> statusRank(o.job) = 6
  <2>1. 5 \in 1..5 /\ 5 \notin 1..3 /\ 5 # 4
    OBVIOUS
  <2>2. QED BY <2>1, Zenon DEF StepsDone
<1>5. QED BY <1>1, <1>2, <1>3, <1>4

\* Progress is never taken back.
LEMMA ProgressHolds == ASSUME case \in TrackedOrders PROVE ProgressStays
<1>1. PICK moved : moved = [case EXCEPT !.job = NextJob(case.job), !.proven = case.proven \/ case.job = "EN_ROUTE_DROP"]
  OBVIOUS
<1>2. SUFFICES ASSUME NEW payment \in PaymentStatuses \ {"FAILED"}, NEW next, next = [moved EXCEPT !.payment = payment]
               PROVE  /\ StageIndex(next) >= StageIndex(case) \/ StageIndex(case) = 2
                      /\ \A i \in 3..6 : getTrackingSteps(case)[i] = "complete" => getTrackingSteps(next)[i] = "complete"
                      /\ StepsDone(case) \subseteq StepsDone(next)
  BY <1>1, Zenon DEF ProgressStays
<1>3. case = [area |-> case.area, job |-> case.job, payment |-> case.payment, order |-> case.order, proven |-> case.proven]
  BY TrackedFields
<1>4. PICK proven : proven = (case.proven \/ case.job = "EN_ROUTE_DROP")
  OBVIOUS
<1>5. moved = [area |-> case.area, job |-> NextJob(case.job), payment |-> case.payment, order |-> case.order, proven |-> proven]
  BY <1>1, <1>3, <1>4
<1>6. next = [area |-> case.area, job |-> NextJob(case.job), payment |-> payment, order |-> case.order, proven |-> proven]
  BY <1>2, <1>5
<1>7. next.job = NextJob(case.job) /\ next.order = case.order /\ next.proven = proven
  BY <1>6
<1>8. /\ case.job \in {"DELIVERED", "EN_ROUTE_DROP", "PICKED_UP", "ASSIGNED", "EN_ROUTE_PICKUP", "REQUESTED", "CANCELLED", "DISPATCH_FAILED"}
      /\ case.job \in TrackedJobs
  BY TrackedFields DEF TrackedJobs
<1>9. Ended(case) => Ended(next)
  BY <1>7, <1>8, NextJobIs DEF Ended
<1>10. \/ StageIndex(next) >= StageIndex(case)
       \/ StageIndex(case) = 2
  BY <1>7, <1>8, NextJobIs DEF StageIndex, Ended, Assigned, WithDriver
<1>11. ASSUME NEW i \in 3..6, getTrackingSteps(case)[i] = "complete" PROVE getTrackingSteps(next)[i] = "complete"
  <2>1. i < StageIndex(case) \/ Ended(case)
    BY <1>11, StepIs
  <2>2. i < StageIndex(next) \/ Ended(next)
    BY <1>9, <1>10, <2>1, StageIs
  <2>3. i = 3 => next.job # "DISPATCH_FAILED"
    BY <1>7, <1>8, <1>11, NextJobIs, StepIs
  <2>4. QED BY <2>2, <2>3, StepIs
<1>12. StepsDone(case) \subseteq StepsDone(next)
  <2>1. /\ statusRank(case.job) \in 0..6 /\ statusRank(next.job) \in 0..6
        /\ statusRank(case.job) <= statusRank(next.job)
    BY <1>7, <1>8, NextJobIs, RanksAre
  <2>2. ASSUME NEW i \in StepsDone(case) PROVE i \in StepsDone(next)
    <3>1. i \in 1..3 \/ i = 4 \/ i = 5
      BY DoneIs
    <3>2. CASE i \in 1..3
      <4>1. statusRank(case.job) > i
        BY <2>2, <3>2, DoneIs
      <4>2. statusRank(next.job) > i
        BY <2>1, <3>2, <4>1
      <4>3. QED BY <3>2, <4>2, DoneIs
    <3>3. CASE i = 4
      <4>1. case.proven \/ statusRank(case.job) = 6
        BY <2>2, <3>3, DoneIs
      <4>2. next.proven \/ statusRank(next.job) = 6
        <5>1. case.proven => next.proven
          BY <1>4, <1>7, Zenon
        <5>2. statusRank(case.job) = 6 => statusRank(next.job) = 6
          BY <2>1
        <5>3. QED BY <4>1, <5>1, <5>2
      <4>3. QED BY <3>3, <4>2, DoneIs
    <3>4. CASE i = 5
      <4>1. statusRank(case.job) = 6
        BY <2>2, <3>4, DoneIs
      <4>2. statusRank(next.job) = 6
        BY <2>1, <4>1
      <4>3. QED BY <3>4, <4>2, DoneIs
    <3>5. QED BY <3>1, <3>2, <3>3, <3>4
  <2>3. QED BY <2>2
<1>13. QED BY <1>10, <1>11, <1>12

\* The page offers the transition the service takes.
LEMMA OfferedHolds == ASSUME case \in TrackedOrders PROVE OfferedIsAccepted
<1>1. /\ Transitions[1] = "en-route-pickup" /\ Transitions[2] = "picked-up" /\ Transitions[3] = "en-route-drop"
      /\ 1 \in 1..3 /\ 2 \in 1..3 /\ 3 \in 1..3 /\ 4 \notin 1..3 /\ 6 \notin 1..3 /\ 0 \notin 1..3
      /\ 6 # 4 /\ 0 # 4 /\ 1 # 4 /\ 2 # 4 /\ 3 # 4
  BY DEF Transitions
<1>2. case.job \in {"DELIVERED", "EN_ROUTE_DROP", "PICKED_UP", "ASSIGNED", "EN_ROUTE_PICKUP", "REQUESTED", "CANCELLED", "DISPATCH_FAILED"}
  BY TrackedFields DEF TrackedJobs
<1>3. CASE case.job = "ASSIGNED"
  <2>1. OfferedTransition(case) = "en-route-pickup"
    BY <1>1, <1>3, RanksAre, Zenon DEF OfferedTransition
  <2>2. AcceptedTransition(case) = "en-route-pickup"
    BY <1>3, Zenon DEF AcceptedTransition
  <2>3. QED BY <2>1, <2>2 DEF OfferedIsAccepted
<1>4. CASE case.job = "EN_ROUTE_PICKUP"
  <2>1. OfferedTransition(case) = "picked-up"
    BY <1>1, <1>4, RanksAre, Zenon DEF OfferedTransition
  <2>2. AcceptedTransition(case) = "picked-up"
    BY <1>4, Zenon DEF AcceptedTransition
  <2>3. QED BY <2>1, <2>2 DEF OfferedIsAccepted
<1>5. CASE case.job = "PICKED_UP"
  <2>1. OfferedTransition(case) = "en-route-drop"
    BY <1>1, <1>5, RanksAre, Zenon DEF OfferedTransition
  <2>2. AcceptedTransition(case) = "en-route-drop"
    BY <1>5, Zenon DEF AcceptedTransition
  <2>3. QED BY <2>1, <2>2 DEF OfferedIsAccepted
<1>6. CASE case.job = "EN_ROUTE_DROP" /\ case.proven
  <2>1. OfferedTransition(case) = "delivered"
    BY <1>1, <1>6, RanksAre, Zenon DEF OfferedTransition
  <2>2. AcceptedTransition(case) = "delivered"
    BY <1>6, Zenon DEF AcceptedTransition
  <2>3. QED BY <2>1, <2>2 DEF OfferedIsAccepted
<1>7. CASE case.job = "EN_ROUTE_DROP" /\ ~case.proven
  <2>1. OfferedTransition(case) = "none"
    BY <1>1, <1>7, RanksAre, Zenon DEF OfferedTransition
  <2>2. AcceptedTransition(case) = "none"
    BY <1>7, Zenon DEF AcceptedTransition
  <2>3. QED BY <2>1, <2>2 DEF OfferedIsAccepted
<1>8. CASE case.job = "DELIVERED"
  <2>1. OfferedTransition(case) = "none"
    BY <1>1, <1>8, RanksAre, Zenon DEF OfferedTransition
  <2>2. AcceptedTransition(case) = "none"
    BY <1>8, Zenon DEF AcceptedTransition
  <2>3. QED BY <2>1, <2>2 DEF OfferedIsAccepted
<1>9. CASE case.job \in {"REQUESTED", "CANCELLED", "DISPATCH_FAILED"}
  <2>1. OfferedTransition(case) = "none"
    BY <1>1, <1>9, RanksAre, Zenon DEF OfferedTransition
  <2>2. AcceptedTransition(case) = "none"
    BY <1>9, Zenon DEF AcceptedTransition
  <2>3. QED BY <2>1, <2>2 DEF OfferedIsAccepted
<1>10. QED BY <1>2, <1>3, <1>4, <1>5, <1>6, <1>7, <1>8, <1>9

-----------------------------------------------------------------------------
\* Who may read and do what.

\* A role that is enough for one condition is enough for a wider one.
LEMMA WiderRoles ==
  ASSUME NEW c, NEW narrow, NEW wide, narrow \subseteq wide, MemberOfHome(c, narrow)
  PROVE  MemberOfHome(c, wide)
BY DEF MemberOfHome

\* The sets of roles, from the narrowest.
LEMMA RolesNest ==
  /\ Operators \subseteq FinanceRoles /\ Operators \subseteq PolicyRoles /\ Operators \subseteq BusinessRoles
  /\ Operators \subseteq TeamManagers /\ FinanceRoles \subseteq BusinessRoles
  /\ FinanceRoles \ PolicyRoles \subseteq {"FINANCE_VIEWER"} /\ TeamManagers \subseteq BusinessRoles
BY DEF Operators, FinanceRoles, PolicyRoles, BusinessRoles, TeamManagers

\* What is listed for a person can be opened.
LEMMA ShownHolds == ASSUME NEW c PROVE ShownOpens(c)
<1>1. MemberOfHome(c, Operators) => MemberOfHome(c, FinanceRoles) /\ MemberOfHome(c, BusinessRoles)
  BY WiderRoles, RolesNest
<1>2. QED
  BY <1>1
  DEF ShownOpens, ACCESS_CONDITION, loadAuthorizedJob, getTracking, listBusinessJobs, loadOperatorJob,
      loadOperatorJobForUpdate, cancelJob, getAuthorizedRecoverySuggestion, getBusinessRecoverySuggestion,
      JOB_PAYMENT_ACCESS, loadAuthorizedPaymentContext, loadConsumerPaymentContextForUpdate, listBusinessPayments,
      listFinanceRows, listFinanceReviewRows, getFinanceReviewCounts, updateFinanceReview, listBusinessOrders,
      getBusinessOrder, loadOperatorRestaurant, resolveBusinessEscalationContext, listBusinessEscalations,
      listBusinessEscalationEvents, loadJobEvents, notificationVisibleToUser, buildDailyBriefingQuery,
      buildEndOfDayQuery

\* The policies of the tables draw the line where the services do.
LEMMA PoliciesHold == ASSUME NEW c PROVE PoliciesAgree(c)
<1>1. MemberOfHome(c, Operators) => MemberOfHome(c, PolicyRoles)
  BY WiderRoles, RolesNest
<1>2. ASSUME MemberOfHome(c, FinanceRoles), ~MemberOfHome(c, PolicyRoles) PROVE c.orgs[c.home].role = "FINANCE_VIEWER"
  BY <1>2, RolesNest DEF MemberOfHome
<1>3. QED
  BY <1>1, <1>2
  DEF PoliciesAgree, ACCESS_CONDITION, loadAuthorizedJob, jobs_select_policy, is_org_operator, JOB_PAYMENT_ACCESS,
      loadAuthorizedPaymentContext, payments_select_policy, listBusinessEscalations, support_escalations_org_member,
      listFinanceReviewRows, finance_review_records_org_member, listFinanceRows

\* The memberships that take a person to a workspace: the newest is taken, if there is one.
Serving(c, roles, types) ==
  {i \in DOMAIN c.orgs : c.orgs[i].active /\ c.orgs[i].role \in roles /\ c.orgs[i].type \in types}
LEMMA NewestIs ==
  ASSUME NEW c \in People, NEW roles, NEW types, NEW n, n = NewestWith(c, roles, types),
         NEW found, found = Serving(c, roles, types)
  PROVE  /\ found \subseteq 1..2
         /\ found = {} => n = 0
         /\ found # {} => n \in found /\ n > 0 /\ \A j \in found : n <= j
<1>1. DOMAIN c.orgs \subseteq 1..2
  <2>1. c.orgs \in SeqOf(Memberships, 2)
    BY DEF People
  <2>2. PICK m \in 0..2 : c.orgs \in [1..m -> Memberships]
    BY <2>1 DEF SeqOf
  <2>3. QED BY <2>2
<1>2. found \subseteq 1..2
  BY <1>1 DEF Serving
<1>3. n = IF found = {} THEN 0 ELSE CHOOSE i \in found : \A j \in found : i <= j
  BY DEF NewestWith, Serving
<1>4. ASSUME found # {} PROVE \E i \in found : \A j \in found : i <= j
  <2>1. CASE 1 \in found
    BY <1>2, <2>1
  <2>2. CASE 1 \notin found
    <3>1. \A j \in found : j = 2
      BY <1>2, <2>2
    <3>2. QED BY <1>4, <3>1
  <2>3. QED BY <2>1, <2>2
<1>5. ASSUME found # {} PROVE n \in found /\ \A j \in found : n <= j
  BY <1>3, <1>4, <1>5
<1>6. QED BY <1>2, <1>3, <1>5

\* Every membership is of some type, and a person has at most the memberships listed.
LEMMA OrgsAre ==
  ASSUME NEW c \in People
  PROVE  /\ \A i \in DOMAIN c.orgs : c.orgs[i].type \in AnyType
         /\ c.home > 0 => c.home \in DOMAIN c.orgs
<1>1. c.orgs \in SeqOf(Memberships, 2) /\ c.home \in -1..2 /\ c.home <= Len(c.orgs)
  BY DEF People
<1>2. PICK m \in 0..2 : c.orgs \in [1..m -> Memberships]
  BY <1>1 DEF SeqOf
<1>3. DOMAIN c.orgs = 1..m /\ Len(c.orgs) = m
  BY <1>2
<1>4. \A i \in DOMAIN c.orgs : c.orgs[i] \in Memberships
  BY <1>2
<1>5. QED BY <1>1, <1>3, <1>4 DEF AnyType

\* A workspace opens for whoever has work in it.
LEMMA WorkspacesHold == ASSUME NEW c \in People PROVE WorkspacesOpen(c)
<1>1. /\ Serving(c, Operators, AnyType) \subseteq Serving(c, BusinessRoles, AnyType)
      /\ Serving(c, Operators, AnyType) \subseteq Serving(c, TeamManagers, AnyType)
  BY RolesNest DEF Serving
<1>2. PICK work : work = readBusinessMemberships(c)
  OBVIOUS
<1>3. PICK team : team = getCurrentBusinessOrgId(c)
  OBVIOUS
<1>4. PICK manage : manage = getManageableBusinessOrgId(c)
  OBVIOUS
<1>5. PICK fleet : fleet = getFleetContext(c, FLEET_WORKSPACE_ROLES)
  OBVIOUS
<1>6. /\ Serving(c, Operators, AnyType) = {} => work = 0
      /\ Serving(c, Operators, AnyType) # {} => work \in Serving(c, Operators, AnyType) /\ work > 0 /\ \A j \in Serving(c, Operators, AnyType) : work <= j
  BY <1>2, NewestIs DEF readBusinessMemberships
<1>7. /\ Serving(c, BusinessRoles, AnyType) = {} => team = 0
      /\ Serving(c, BusinessRoles, AnyType) # {} => team \in Serving(c, BusinessRoles, AnyType) /\ team > 0
                                              /\ \A j \in Serving(c, BusinessRoles, AnyType) : team <= j
  BY <1>3, NewestIs DEF getCurrentBusinessOrgId
<1>8. Serving(c, TeamManagers, AnyType) # {} => manage > 0
  BY <1>4, NewestIs DEF getManageableBusinessOrgId
<1>9. /\ Serving(c, FLEET_WORKSPACE_ROLES, {"DRIVER_COMPANY"}) = {} => fleet = 0
      /\ Serving(c, FLEET_WORKSPACE_ROLES, {"DRIVER_COMPANY"}) # {} => fleet > 0
  BY <1>5, NewestIs DEF getFleetContext
<1>10. Serving(c, Operators, AnyType) \cup Serving(c, BusinessRoles, AnyType) \subseteq 1..2
  BY NewestIs
<1>11. mapContext(c) = [currentOrg |-> work, onboarded |-> work > 0 \/ c.admin \/ hasNonBusinessWorkspaceAccess(c)]
  BY <1>2 DEF mapContext
<1>12. mapContext(c).currentOrg = work
  BY <1>11
<1>13. mapContext(c).onboarded = (work > 0 \/ c.admin \/ hasNonBusinessWorkspaceAccess(c))
  BY <1>11
<1>14. handleBusinessAuthSubmit(c) = "setup" => ~(work > 0) /\ ~hasNonBusinessWorkspaceAccess(c)
  BY <1>13 DEF handleBusinessAuthSubmit
<1>15. fleet > 0 => hasNonBusinessWorkspaceAccess(c)
  <2>1. SUFFICES ASSUME fleet > 0 PROVE hasNonBusinessWorkspaceAccess(c)
    OBVIOUS
  <2>2. PICK i \in DOMAIN c.orgs : c.orgs[i].active /\ c.orgs[i].role \in FLEET_WORKSPACE_ROLES /\ c.orgs[i].type = "DRIVER_COMPANY"
    BY <1>9, <2>1 DEF Serving
  <2>3. QED BY <2>2 DEF hasNonBusinessWorkspaceAccess
<1>16. listBusinessJobs(c) \/ listBusinessOrders(c) => Serving(c, Operators, AnyType) # {}
  BY OrgsAre DEF listBusinessJobs, listBusinessOrders, MemberOfHome, Serving
<1>17. BusinessRouteGuard(c) => work > 0 /\ Serving(c, Operators, AnyType) # {}
  BY <1>6, <1>12 DEF BusinessRouteGuard
<1>18. ASSUME BusinessRouteGuard(c), team # work PROVE c.orgs[team].role \in BusinessRoles \ Operators
  <2>1. /\ work \in Serving(c, Operators, AnyType) /\ \A j \in Serving(c, Operators, AnyType) : work <= j
        /\ team \in Serving(c, BusinessRoles, AnyType) /\ team <= work
    BY <1>1, <1>6, <1>7, <1>17, <1>18
  <2>2. team \in 1..2 /\ work \in 1..2
    BY <1>10, <2>1
  <2>3. team \notin Serving(c, Operators, AnyType)
    BY <1>18, <2>1, <2>2
  <2>4. QED BY <2>1, <2>3 DEF Serving
<1>19. \A role \in FLEET_WORKSPACE_ROLES : RoleOptions(role) \subseteq assertFleetInviteRole(role)
  BY DEF FLEET_WORKSPACE_ROLES, RoleOptions, assertFleetInviteRole, FLEET_INVITE_BASE_ROLES, FLEET_INVITE_MANAGEMENT_ROLES
<1>20. getFleetContext(c, FLEET_WORKSPACE_ROLES) > 0 => handleBusinessAuthSubmit(c) # "setup"
  BY <1>5, <1>14, <1>15
<1>21. BusinessRouteGuard(c) => getCurrentBusinessOrgId(c) > 0 /\ getManageableBusinessOrgId(c) > 0
  BY <1>1, <1>3, <1>4, <1>7, <1>8, <1>17
<1>22. BusinessRouteGuard(c) /\ getCurrentBusinessOrgId(c) # mapContext(c).currentOrg =>
         c.orgs[getCurrentBusinessOrgId(c)].role \in BusinessRoles \ Operators
  BY <1>3, <1>12, <1>18
<1>23. handleBusinessAuthSubmit(c) = "setup" =>
         getFleetContext(c, FLEET_WORKSPACE_ROLES) = 0 /\ ~listBusinessJobs(c) /\ ~listBusinessOrders(c)
  <2>1. SUFFICES ASSUME handleBusinessAuthSubmit(c) = "setup"
                 PROVE  fleet = 0 /\ ~listBusinessJobs(c) /\ ~listBusinessOrders(c)
    BY <1>5
  <2>2. ~(fleet > 0) /\ ~(work > 0)
    BY <1>14, <1>15, <2>1
  <2>3. fleet = 0
    BY <1>9, <2>2
  <2>4. QED BY <1>6, <1>16, <2>2, <2>3
<1>24. QED BY <1>19, <1>20, <1>21, <1>22, <1>23 DEF WorkspacesOpen

-----------------------------------------------------------------------------
\* All cases.

\* A case stays the case it started as.
LEMMA CasesStay == Spec => []Init
<1>1. Init /\ [Next]_case => Init'
  BY DEF Next, Init, SettlementInit
<1>2. QED BY <1>1, PTL DEF Spec

\* A case is about the area its set is for.
LEMMA CasesHaveAreas ==
  ASSUME Init
  PROVE  /\ case.area = "settlement" => case \in SettlementInputs
         /\ case.area = "quote" => case \in QuoteInputs
         /\ case.area = "rehearsal" => case \in RehearsalCases
         /\ case.area = "evidence" => case \in EvidenceCases
         /\ case.area = "courier" => case \in Couriers
         /\ case.area = "order" => case \in OrderRows
         /\ case.area = "job" => case \in JobRows
         /\ case.area = "closeout" => case \in Days
         /\ case.area = "candidate" => case \in Candidates
         /\ case.area = "recovery" => case \in Recoveries
         /\ case.area = "tracked" => case \in TrackedOrders
         /\ case.area = "person" => case \in People
<1>1. /\ case \in QuoteInputs => case.area = "quote"
      /\ case \in SettlementInputs => case.area = "settlement"
      /\ case \in RehearsalCases => case.area = "rehearsal"
      /\ case \in EvidenceCases => case.area = "evidence"
      /\ case \in Couriers => case.area = "courier"
  BY DEF QuoteInputs, SettlementInputs, RehearsalCases, Workspaces, EvidenceCases, Couriers
<1>2. /\ case \in OrderRows => case.area = "order"
      /\ case \in JobRows => case.area = "job"
      /\ case \in Days => case.area = "closeout"
  BY DEF OrderRows, JobRows, Days
<1>3. /\ case \in Candidates => case.area = "candidate"
      /\ case \in Recoveries => case.area = "recovery"
      /\ case \in TrackedOrders => case.area = "tracked"
      /\ case \in People => case.area = "person"
  BY DEF Candidates, Recoveries, TrackedOrders, People
<1>4. QED BY <1>1, <1>2, <1>3 DEF Init, SettlementInit

\* Every settlement adds up, fits within the total and matches the provider's call.
THEOREM SettlementsAreSound == Spec => []SettlementIsSound
<1>1. Init => SettlementIsSound
  BY CasesHaveAreas, SettlementConserves, FeeStaysWithinTotal, ActionFitsAmounts DEF SettlementIsSound, About
<1>2. QED BY <1>1, CasesStay, PTL

\* The rounding of the fee is to the nearest cent for every total.
THEOREM FeeIsRounded == Spec => []FeeIsNearestCent
<1>1. Init => FeeIsNearestCent
  <2> SUFFICES ASSUME Init, case.area = "settlement" PROVE FeeIsNearestCent
    BY DEF FeeIsNearestCent, About
  <2>1. case.total \in Nat
    BY CasesHaveAreas, CaseAmounts
  <2> DEFINE p == Percent(case.total, 15)
  <2>2. p \in Int /\ 100 * p - 15 * case.total \in -49..50
    BY <2>1 DEF Percent
  <2>3. afterAssignmentPolicyFee(case.total) \in {250, p, case.total}
    BY DEF afterAssignmentPolicyFee, Least, Greatest
  <2>4. QED
    BY <2>1, <2>2, <2>3 DEF FeeIsNearestCent
<1>2. QED BY <1>1, CasesStay, PTL

\* Whatever the distance, the minutes and the way ties are rounded: no fee below zero, no
\* refused row away from the limits, and no discount for a longer way.
THEOREM QuotesStaySound == Spec => []QuotesAreSound
<1>1. Init => QuotesAreSound
  <2> SUFFICES ASSUME Init PROVE QuotesAreSound
    OBVIOUS
  <2>1. CASE case.area = "quote"
    BY <2>1, CasesHaveAreas, QuotesHold
  <2>2. CASE case.area # "quote"
    BY <2>2 DEF QuotesAreSound, FeeNeverNegative, QuoteIsStoredOffTheLimits, FartherCostsNoLess, About
  <2>3. QED BY <2>1, <2>2
<1>2. QED BY <1>1, CasesStay, PTL

\* API and page agree on a workspace's readiness, pilots and release on the evidence, SQL
\* and TypeScript on the couriers, for every set of checks and every age.
THEOREM ReadinessIsAgreed == Spec => []ReadinessAgrees
<1>1. Init => ReadinessAgrees
  <2> SUFFICES ASSUME Init PROVE ReadinessAgrees
    OBVIOUS
  <2>1. GuardrailsAgree /\ RecommendationHeedsGuardrail /\ ActionsExplainRecommendation
    <3>1. CASE case.area = "rehearsal"
      BY <3>1, CasesHaveAreas, GuardrailsHold, RecommendationHolds, ActionsHold
    <3>2. CASE case.area # "rehearsal"
      BY <3>2 DEF GuardrailsAgree, RecommendationHeedsGuardrail, ActionsExplainRecommendation, About
    <3>3. QED BY <3>1, <3>2
  <2>2. EvidenceJudgedAlike
    <3>1. CASE case.area = "evidence"
      BY <3>1, CasesHaveAreas, EvidenceHolds
    <3>2. CASE case.area # "evidence"
      BY <3>2 DEF EvidenceJudgedAlike, About
    <3>3. QED BY <3>1, <3>2
  <2>3. FleetCountsMatchList
    <3>1. CASE case.area = "courier"
      BY <3>1, CasesHaveAreas, FleetHolds
    <3>2. CASE case.area # "courier"
      BY <3>2 DEF FleetCountsMatchList, About
    <3>3. QED BY <3>1, <3>2
  <2>4. QED BY <2>1, <2>2, <2>3 DEF ReadinessAgrees
<1>2. QED BY <1>1, CasesStay, PTL

\* Briefing, report, queues, finance pages and consoles see the same risk in the same row;
\* their lists drop nothing worse than what they show and differ only by the rows they
\* read, for any number of rows and any limit (Closeout.RiskIsSeenAlike).
THEOREM RiskIsAgreed == Spec => []RiskIsSeenAlike
<1>1. Init => RiskIsSeenAlike
  <2> SUFFICES ASSUME Init PROVE RiskIsSeenAlike
    OBVIOUS
  <2>1. BriefedIsReported /\ QueuesAgree /\ RiskSeenAlike /\ FinanceSeesRisk /\ OrderPageAgrees
    <3>1. CASE case.area = "order"
      BY <3>1, CasesHaveAreas, BriefedHolds, QueuesHold, RiskHolds, FinanceHolds, OrderPageHolds
    <3>2. CASE case.area # "order"
      BY <3>2 DEF BriefedIsReported, QueuesAgree, RiskSeenAlike, FinanceSeesRisk, OrderPageAgrees, About
    <3>3. QED BY <3>1, <3>2
  <2>2. FlaggedJobsAreReviewed
    <3>1. CASE case.area = "job"
      BY <3>1, CasesHaveAreas, JobsHold
    <3>2. CASE case.area # "job"
      BY <3>2 DEF FlaggedJobsAreReviewed, About
    <3>3. QED BY <3>1, <3>2
  <2>3. WorstComesFirst /\ WindowsExplain /\ QuietDaysAreQuiet
    <3>1. CASE case.area = "closeout"
      BY <3>1, CasesHaveAreas, WorstHolds, WindowsHold, QuietHolds
    <3>2. CASE case.area # "closeout"
      BY <3>2 DEF WorstComesFirst, WindowsExplain, QuietDaysAreQuiet, About
    <3>3. QED BY <3>1, <3>2
  <2>4. QED BY <2>1, <2>2, <2>3 DEF RiskIsSeenAlike
<1>2. QED BY <1>1, CasesStay, PTL

\* What one view offers the other accepts: couriers, recoveries and stages of an order
\* (MCCases.ViewsAgree).
THEOREM ViewsAreAgreed == Spec => []ViewsAgree
<1>1. Init => ViewsAgree
  <2> SUFFICES ASSUME Init PROVE ViewsAgree
    OBVIOUS
  <2>1. EligibilityAgrees /\ ReasonsAgree
    <3>1. CASE case.area = "candidate"
      BY <3>1, CasesHaveAreas, EligibilityHolds, ReasonsHold
    <3>2. CASE case.area # "candidate"
      BY <3>2 DEF EligibilityAgrees, ReasonsAgree, About
    <3>3. QED BY <3>1, <3>2
  <2>2. AdviceIsAccepted
    <3>1. CASE case.area = "recovery"
      BY <3>1, CasesHaveAreas, AdviceHolds
    <3>2. CASE case.area # "recovery"
      BY <3>2, Zenon DEF AdviceIsAccepted, About
    <3>3. QED BY <3>1, <3>2
  <2>3. ViewsTellOneStory /\ OfferedIsAccepted
    <3>1. CASE case.area = "tracked"
      BY <3>1, CasesHaveAreas, StoryHolds, OfferedHolds
    <3>2. CASE case.area # "tracked"
      BY <3>2, Zenon DEF ViewsTellOneStory, OfferedIsAccepted, About
    <3>3. QED BY <3>1, <3>2
  <2>4. ProgressStays
    <3>1. CASE case.area = "tracked"
      BY <3>1, CasesHaveAreas, ProgressHolds
    <3>2. CASE case.area # "tracked"
      BY <3>2, Zenon DEF ProgressStays, About
    <3>3. QED BY <3>1, <3>2
  <2>5. QED BY <2>1, <2>2, <2>3, <2>4 DEF ViewsAgree
<1>2. QED BY <1>1, CasesStay, PTL

\* Services, policies and pages draw the same line for every person and job
\* (Access.AccessAgrees).
THEOREM AccessIsAgreed == Spec => []AccessAgrees
<1>1. Init => AccessAgrees
  BY CasesHaveAreas, ShownHolds, PoliciesHold, WorkspacesHold DEF AccessAgrees, About
<1>2. QED BY <1>1, CasesStay, PTL
=============================================================================
