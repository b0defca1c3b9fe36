-------------------------- MODULE OperationalResets -------------------------
(***************************************************************************)
(* Operational resets (apps/api/src/operational-resets) on top of demo     *)
(* requests and support escalations.  A reset is a transaction that         *)
(* previews the rows it may touch, without locking them, and then closes    *)
(* the selected ones; administrators and operators go on working between    *)
(* the two.  Pilot workspaces are only recommended for review, never        *)
(* written, so they are left out.                                           *)
(***************************************************************************)
EXTENDS DemoRequests, SupportEscalations

VARIABLES
  resetPreview,  \* the rows the running reset has read, or NoReset
  resetClosed    \* history: the requests a reset has closed, for which no event is written

deskVars == <<requestVars, escalationVars, resetPreview, resetClosed>>

NoReset == [running |-> FALSE]

DeskTypeOK ==
  /\ RequestsTypeOK
  /\ EscalationsTypeOK
  /\ resetPreview = NoReset \/ (resetPreview.requests \subseteq Requests /\ resetPreview.escalations \subseteq Escalations)
  /\ resetClosed \subseteq Requests

DeskInit == RequestsInit /\ EscalationsInit /\ resetPreview = NoReset /\ resetClosed = {}

\* previewDemoRequests: whatever is closed, and what is older than the chosen date and
\* not qualified.
RequestCandidates(old) ==
  {r \in Requests : \/ Closed(requests[r].status)
                    \/ r \in old /\ requests[r].status \notin {"absent", "QUALIFIED"}}

\* previewSupportEscalations: open ones that are clearly test data.
EscalationCandidates == {e \in TestEscalations : escalations[e].status \in OpenStatuses}

\* execute, up to the selection of items; the selection of the administrator is
\* matched against this preview, not the one shown before.
PreviewReset(old, modes) ==
  LET reqs == IF "ARCHIVE_DEMO_REQUESTS" \in modes THEN RequestCandidates(old) ELSE {}
      escs == IF "CLOSE_TEST_ESCALATIONS" \in modes THEN EscalationCandidates ELSE {}
  IN /\ resetPreview = NoReset
     /\ \E R \in SUBSET reqs, E \in SUBSET escs :
          /\ R \cup E # {}
          /\ resetPreview' = [running |-> TRUE, requests |-> R, escalations |-> E,
                              seenRequests |-> requests, seenEscalations |-> escalations]
     /\ UNCHANGED <<requestVars, escalationVars, resetClosed>>

\* applyResetActions, requests: spam stays spam, the rest is closed and the note gets a
\* line about the reset, with no event.
ResetRequest(row) ==
  [row EXCEPT !.status  = IF @ = "SPAM" THEN "SPAM" ELSE "CLOSED",
              !.columns = [c \in Columns |-> IF c = "adminNote" THEN "reset" ELSE @[c]],
              !.writes  = @ + 1]

\* Escalations: only rows that are still open are resolved ...
ResetEscalation(row) ==
  IF row.status \in FinalStatuses THEN row
  ELSE [row EXCEPT !.status = "RESOLVED", !.resolver = "reset", !.note = TRUE, !.writes = @ + 1]

\* ... but the event is written for every selected one.
ApplyReset ==
  LET R == resetPreview.requests
      E == resetPreview.escalations
  IN /\ resetPreview # NoReset
     /\ \A r \in R : requests[r].writes < MaxRequestWrites
     /\ \A e \in E : escalations[e].writes < MaxEscalationWrites
     /\ requests' = [r \in Requests |-> IF r \in R THEN ResetRequest(requests[r]) ELSE requests[r]]
     /\ escalations' = [e \in Escalations |-> IF e \in E THEN ResetEscalation(escalations[e]) ELSE escalations[e]]
     /\ escalationTold' = [e \in Escalations |-> IF e \in E THEN "RESOLVED" ELSE escalationTold[e]]
     /\ resetClosed' = resetClosed \cup R
     /\ escalationRaced' = escalationRaced \cup
          {e \in E : resetPreview.seenEscalations[e].writes # escalations[e].writes}
     /\ resetPreview' = NoReset
     /\ UNCHANGED <<requestTold, requestMail, requestRead, requestRaced, escalationRead>>

AbandonReset ==
  /\ resetPreview # NoReset
  /\ resetPreview' = NoReset
  /\ UNCHANGED <<requestVars, escalationVars, resetClosed>>

DeskNext ==
  \/ RequestsNext /\ UNCHANGED <<escalationVars, resetPreview, resetClosed>>
  \/ EscalationsNext /\ UNCHANGED <<requestVars, resetPreview, resetClosed>>
  \/ \E old \in SUBSET Requests, modes \in SUBSET {"ARCHIVE_DEMO_REQUESTS", "CLOSE_TEST_ESCALATIONS"} :
       PreviewReset(old, modes)
  \/ ApplyReset
  \/ AbandonReset

DeskSpec == DeskInit /\ [][DeskNext]_deskVars

-----------------------------------------------------------------------------
\* The history of a request tells its status and its columns: as long as its updates
\* did not overlap and no reset closed it, the last event about a thing gives the
\* value the row has, and closed rows are those whose last status event is a closing.
RequestHistoryTells ==
  \A r \in Requests \ (requestRaced \cup resetClosed) :
    /\ requestTold[r].status = requests[r].status
    /\ requestTold[r].columns = requests[r].columns
    /\ requestTold[r].type = "CLOSED" <=> Closed(requests[r].status)

\* The history of an escalation tells its status unless updates overlapped, whoever
\* changed it, operators or a reset.
EscalationHistoryTells ==
  \A e \in Escalations \ escalationRaced : escalationTold[e] = escalations[e].status

\* However updates and resets interleave, nobody is recorded as the resolver of an
\* escalation that is open ("unresolved records do not appear resolved").
ResolverMatchesStatus ==
  \A e \in Escalations : escalations[e].resolver # "none" => escalations[e].status \in FinalStatuses

\* A reset closes a qualified request only if it was not qualified yet when the reset
\* looked at it, or was closed before that.
ResetSparesQualified ==
  [][\A r \in resetClosed' : (r \notin resetClosed /\ requests[r].status = "QUALIFIED") =>
       resetPreview.seenRequests[r].status # "QUALIFIED"]_deskVars

\* What an operator closed by hand while a reset was under way keeps its closeout.
HandClosedStays ==
  [][\A e \in Escalations : escalations[e].status \in FinalStatuses =>
       (escalations'[e].resolver = "reset" => escalations[e].resolver = "reset")]_deskVars
=============================================================================
