------------------------------ MODULE Pricing -------------------------------
(***************************************************************************)
(* What a delivery costs (apps/api, quotes.service.ts): computeQuote, the  *)
(* schema its input passes, and the checks of the quotes table its result  *)
(* meets.  Distances are thousandths of a mile; amounts are whole cents.   *)
(* The program computes in binary fractions, so a tie is rounded either    *)
(* way: in.down holds the roundings whose ties fall.                       *)
(***************************************************************************)
EXTENDS Integers, Cases

CONSTANTS Distances,    \* thousandths of a mile a caller sends
          Minutes       \* estimated minutes a caller sends

ASSUME DistancesAssumption == Distances \subseteq Nat
ASSUME MinutesAssumption == Minutes \subseteq Nat

Vehicles == {"BIKE", "CAR"}
TimesOfDay == {"BREAKFAST", "LUNCH", "AFTERNOON", "DINNER", "OVERNIGHT"}

Rate(bike, car) == [v \in Vehicles |-> IF v = "BIKE" THEN bike ELSE car]

CustomerRates == [base |-> Rate(650, 925), mile |-> Rate(185, 255), minute |-> Rate(14, 18),
                  demand |-> Rate(180, 250), weather |-> Rate(140, 180), premium |-> Rate(325, 450)]
DriverRates == [base |-> Rate(380, 540), mile |-> Rate(110, 150), minute |-> Rate(9, 11),
                demand |-> Rate(120, 170), weather |-> Rate(110, 150), premium |-> Rate(220, 320)]

TimeOfDaySurcharge == [t \in TimesOfDay |->
  CASE t = "BREAKFAST" -> 0 [] t = "LUNCH" -> 75 [] t = "AFTERNOON" -> 40
    [] t = "DINNER" -> 180 [] OTHER -> 260]

-----------------------------------------------------------------------------
\* n / unit to the nearest integer; a tie falls or rises as the representation has it.
Round(n, unit, tieFalls) ==
  IF tieFalls /\ (2 * n) % (2 * unit) = unit THEN n \div unit ELSE (2 * n + unit) \div (2 * unit)

RoundedMiles(in) == Round(in.distance, 10, "miles" \in in.down)

PremiumDistance_UpToTen(in) == in.distance > 8000 /\ in.distance <= 10000
PremiumDistance(in) == in.distance > 8000 /\ in.distance <= 12000

If(flag, cents) == IF flag THEN cents ELSE 0

\* A price: base fare, distance, minutes and the surcharges that apply.
Fare(rates, in, rounding) ==
  rates.base[in.vehicle]
  + Round(RoundedMiles(in) * rates.mile[in.vehicle], 100, rounding \in in.down)
  + in.minutes * rates.minute[in.vehicle]
  + If(in.demand, rates.demand[in.vehicle])
  + If(in.weather, rates.weather[in.vehicle])
  + If(PremiumDistance(in), rates.premium[in.vehicle])

CustomerTotal(in) == Fare(CustomerRates, in, "fare") + TimeOfDaySurcharge[in.time]
DriverPayout(in) == Fare(DriverRates, in, "payout")
PlatformFee(in) == CustomerTotal(in) - DriverPayout(in)

-----------------------------------------------------------------------------
QuoteInputs ==
  [area : {"quote"}, distance : Distances, minutes : Minutes, vehicle : Vehicles,
   time : TimesOfDay, demand : BOOLEAN, weather : BOOLEAN,
   down : SUBSET {"miles", "fare", "payout"}]

ValidPayload(in) ==
  /\ in.distance > 0 /\ in.distance <= 12000
  /\ in.minutes > 0 /\ in.minutes <= 240

\* The column keeps two decimals, halves away from zero.
StoredMiles(in) == (in.distance + 5) \div 10

\* The checks of public.quotes that a computed row can fail.
RowChecks(in) ==
  /\ StoredMiles(in) > 0 /\ StoredMiles(in) <= 1200
  /\ CustomerTotal(in) >= 0 /\ DriverPayout(in) >= 0
  /\ PremiumDistance(in) <=> StoredMiles(in) > 800 /\ StoredMiles(in) <= 1200

createQuote(in) ==
  CASE ~ValidPayload(in) -> "invalid_quote_payload"
    [] ValidPayload(in) /\ PlatformFee(in) < 0 -> "invalid_pricing_configuration"
    [] ValidPayload(in) /\ PlatformFee(in) >= 0 /\ ~RowChecks(in) -> "check_violation"
    [] OTHER -> "created"

-----------------------------------------------------------------------------
\* The rates never leave the platform a negative fee: invalid_pricing_configuration is
\* unreachable, whatever the distance, the time, the flags and the roundings.
FeeNeverNegative ==
  About("quote") /\ ValidPayload(case) => PlatformFee(case) >= 0

\* A valid quote is stored, except where the column's rounding crosses a limit that
\* computeQuote tested on the unrounded distance.
QuoteIsStoredOffTheLimits ==
  About("quote") /\ ValidPayload(case) =>
    \/ createQuote(case) = "created"
    \/ StoredMiles(case) = 0
    \/ StoredMiles(case) = 800 /\ case.distance > 8000

\* A longer way never costs the customer less, nor pays the driver less.
FartherCostsNoLess ==
  About("quote") =>
    \A farther \in {d \in Distances : d > case.distance /\ d <= 12000} :
      LET other == [case EXCEPT !.distance = farther]
      IN CustomerTotal(case) <= CustomerTotal(other) /\ DriverPayout(case) <= DriverPayout(other)

\* Prices are sane at every limit and rounding: no fee below zero, no row that the table
\* refuses away from the limits, and no discount for a longer way.
QuotesAreSound == FeeNeverNegative /\ QuoteIsStoredOffTheLimits /\ FartherCostsNoLess
=============================================================================
