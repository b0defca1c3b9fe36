------------------------------ MODULE MCCases -------------------------------
(***************************************************************************)
(* The pure functions on chosen inputs, one run for all of them: a         *)
(* behaviour starts with a case of one area and stays there.               *)
(***************************************************************************)
EXTENDS SettlementCases, Pricing, Readiness, Closeout, Eligibility, Tracking, Access

\* Both sides of every limit (0, 8 and 12 miles) and distances whose roundings are ties.
DistancesChosen == {1, 4, 5, 10, 145, 2300, 4100, 7995, 8000, 8001, 8004, 8005, 8010,
                    9250, 11995, 12000, 12001}
MinutesChosen == {0, 1, 24, 240, 241}

\* The two checks that validation reads, and one other.
CheckKeysChosen == {"paid_delivery_proof_current", "browser_smoke_current", "menu_ready"}

\* Fresh, the last second of the window, the minute that only one side counts, stale.
AgesChosen == {0, 86400, 86430, 86460}
LocationAgesChosen == {0, 15, 16}

\* Minutes since a job last moved: both sides of every limit of a report, a briefing, a queue.
JobAgesChosen == {0, 9, 10, 14, 15, 20, 30, 31}

\* Totals below, at and above the minimum fee and on both sides of a rounding boundary.
TotalsChosen == {0, 1, 249, 250, 251, 1663, 1670, 1690, 1693}
AmountsChosen == {0, 1, 100, 249, 250, 251, 300, 1670, 1693}

Init == \/ case \in QuoteInputs
        \/ case \in RehearsalCases
        \/ case \in EvidenceCases
        \/ case \in Couriers
        \/ SettlementInit
        \/ case \in OrderRows
        \/ case \in JobRows
        \/ case \in Days
        \/ case \in Candidates
        \/ case \in Recoveries
        \/ case \in TrackedOrders
        \/ case \in People

Spec == Init /\ [][Next]_case

\* What one view offers the other accepts: the drivers listed and accepted, the recovery
\* advised and taken, the stages that customer, operator and courier are shown.
ViewsAgree ==
  /\ EligibilityAgrees /\ ReasonsAgree /\ AdviceIsAccepted
  /\ ViewsTellOneStory /\ ProgressStays /\ OfferedIsAccepted
=============================================================================
