----------------------------- MODULE MCOffices -----------------------------
(***************************************************************************)
(* The services that share no state with one another, side by side: a      *)
(* behaviour picks one area and stays in it.                               *)
(***************************************************************************)
EXTENDS OperationalResets, Governance, Team, IdempotentRequests, Menus, Finance, TLC

VARIABLE area

Areas == {"requests", "escalations", "governance", "team", "requestsByKey", "menus", "finance"}

officesVars == <<deskVars, governanceVars, teamVars, idemVars, menuVars, financeVars, area>>

Init == /\ area \in Areas
        /\ DeskInit /\ GovernanceInit /\ TeamInit /\ IdempotencyInit
        /\ MenusInit /\ FinanceInit

InArea(a) == area = a /\ UNCHANGED area

Next ==
  \/ InArea("requests") /\ DeskNext /\ UNCHANGED <<escalationVars, governanceVars, teamVars, idemVars, menuVars, financeVars>>
  \/ InArea("escalations") /\ DeskNext /\ UNCHANGED <<requestVars, governanceVars, teamVars, idemVars, menuVars, financeVars>>
  \/ InArea("governance") /\ GovernanceNext /\ UNCHANGED <<deskVars, teamVars, idemVars, menuVars, financeVars>>
  \/ InArea("team") /\ TeamNext /\ UNCHANGED <<deskVars, governanceVars, idemVars, menuVars, financeVars>>
  \/ InArea("requestsByKey") /\ IdempotencyNext /\ UNCHANGED <<deskVars, governanceVars, teamVars, menuVars, financeVars>>
  \/ InArea("menus") /\ MenusNext /\ UNCHANGED <<deskVars, governanceVars, teamVars, idemVars, financeVars>>
  \/ InArea("finance") /\ FinanceNext /\ UNCHANGED <<deskVars, governanceVars, teamVars, idemVars, menuVars>>

Spec == Init /\ [][Next]_officesVars

\* Every office keeps its variables in their types.
OfficesTypeOK == DeskTypeOK /\ GovernanceTypeOK /\ TeamTypeOK /\ IdempotencyTypeOK
                 /\ MenusTypeOK /\ FinanceTypeOK

\* What the audit trails tell is what the rows hold, and leads there without a gap, though
\* several people write them at the same time and a transaction may end early; a menu's
\* rollback is read as the return to the whole row that its original found.
HistoriesTell ==
  /\ RequestHistoryTells /\ EscalationHistoryTells /\ ResolverMatchesStatus /\ ReviewsTellTheirStory
  /\ RecordsNameState /\ AuditNamesStanding /\ TrailTellsTheRow

\* What a person decided stays so: a reset spares what was qualified or closed by hand, a
\* cancelled invitation is not revived, a deactivated member stays out.
HandWorkStays == ResetSparesQualified /\ HandClosedStays /\ CancelledStays /\ DeactivatedStays

FoundersChosen == [p \in People |-> IF p = "ann" THEN "MANAGER" ELSE "FLEET_OWNER"]

\* No definition names a label or a request of the menu area, or a reviewer or a request of
\* the finance area, which share them; the run is safety only.
Interchangeable == Permutations(MenuRequests) \cup Permutations(Labels)
=============================================================================
