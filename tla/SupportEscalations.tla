------------------------- MODULE SupportEscalations -------------------------
(***************************************************************************)
(* Support escalations (apps/api/src/support).  As with demo requests, an  *)
(* operator's update reads the row without a lock, updates it and tells     *)
(* the difference in append-only events, in one transaction.  Closing an   *)
(* escalation asks for a resolution note and stamps who resolved it;        *)
(* setting any open status clears the closeout again.                      *)
(***************************************************************************)
EXTENDS Naturals, FiniteSets

CONSTANTS Escalations,        \* rows of support_escalations
          Operators,          \* business operators at work
          TestEscalations,    \* those whose title or note names test, demo, smoke or staging
          MaxEscalationWrites \* bound: updates of one row

OpenStatuses == {"OPEN", "IN_REVIEW", "WAITING_ON_CUSTOMER", "WAITING_ON_MERCHANT", "WAITING_ON_COURIER"}
FinalStatuses == {"RESOLVED", "CANCELLED"}

ASSUME EscalationsAssumption == /\ TestEscalations \subseteq Escalations /\ "reset" \notin Operators
                                /\ MaxEscalationWrites \in Nat

VARIABLES
  escalations,     \* id -> its row; resolver is resolved_by together with resolved_at
  escalationTold,  \* id -> the new_status of its last status event
  escalationRead,  \* operator -> the row an open update has read
  escalationRaced  \* history: the escalations an update wrote that had changed since it read them

escalationVars == <<escalations, escalationTold, escalationRead, escalationRaced>>

EscalationRow == [status : OpenStatuses \cup FinalStatuses \cup {"absent"},
                  resolver : Operators \cup {"none", "reset"}, note : BOOLEAN,
                  writes : 0..MaxEscalationWrites]
NoUpdate == [id |-> "none"]

EscalationsTypeOK ==
  /\ escalations \in [Escalations -> EscalationRow]
  /\ escalationTold \in [Escalations -> OpenStatuses \cup FinalStatuses \cup {"absent"}]
  /\ escalationRead \in [Operators -> {NoUpdate} \cup [id : Escalations, row : EscalationRow]]
  /\ escalationRaced \subseteq Escalations

EscalationsInit ==
  /\ escalations = [e \in Escalations |-> [status |-> "absent", resolver |-> "none", note |-> FALSE, writes |-> 0]]
  /\ escalationTold = [e \in Escalations |-> "absent"]
  /\ escalationRead = [o \in Operators |-> NoUpdate]
  /\ escalationRaced = {}

\* createBusinessEscalation: the payload may carry any status, a final one too.
CreateEscalation(e, status) ==
  /\ escalations[e].status = "absent"
  /\ escalations' = [escalations EXCEPT ![e].status = status]
  /\ escalationTold' = [escalationTold EXCEPT ![e] = status]
  /\ UNCHANGED <<escalationRead, escalationRaced>>

\* updateBusinessEscalation up to its first select.
ReadEscalation(o, e) ==
  /\ escalationRead[o] = NoUpdate
  /\ escalations[e].status # "absent"
  /\ escalationRead' = [escalationRead EXCEPT ![o] = [id |-> e, row |-> escalations[e]]]
  /\ UNCHANGED <<escalations, escalationTold, escalationRaced>>

\* The assignments of the update: a final status comes with its closeout, an open one
\* clears it, and without a status the note may be set or cleared on its own.
Assigned(o, row, status, note) ==
  [row EXCEPT !.status   = IF status = "keep" THEN @ ELSE status,
              !.resolver = IF status \in FinalStatuses THEN o ELSE IF status # "keep" THEN "none" ELSE @,
              !.note     = IF status \in FinalStatuses THEN TRUE
                           ELSE IF status # "keep" THEN FALSE
                           ELSE IF note = "keep" THEN @ ELSE note = "given",
              !.writes   = @ + 1]

\* buildPatchEvents: one event whose new_status is the row's, if the status differs.
StatusTold(told, previous, next) == IF previous = next THEN told ELSE next

WriteEscalation(o, status, note) ==
  LET e == escalationRead[o].id
      next == Assigned(o, escalations[e], status, note)
  IN /\ escalationRead[o] # NoUpdate
     /\ status \in FinalStatuses => note = "given"
     /\ escalations[e].writes < MaxEscalationWrites
     /\ escalations' = [escalations EXCEPT ![e] = next]
     /\ escalationTold' = [escalationTold EXCEPT ![e] = StatusTold(@, escalationRead[o].row.status, next.status)]
     /\ escalationRaced' = IF escalationRead[o].row.writes = escalations[e].writes
                           THEN escalationRaced ELSE escalationRaced \cup {e}
     /\ escalationRead' = [escalationRead EXCEPT ![o] = NoUpdate]

AbandonEscalation(o) ==
  /\ escalationRead[o] # NoUpdate
  /\ escalationRead' = [escalationRead EXCEPT ![o] = NoUpdate]
  /\ UNCHANGED <<escalations, escalationTold, escalationRaced>>

EscalationsNext ==
  \/ \E e \in Escalations, s \in OpenStatuses \cup FinalStatuses : CreateEscalation(e, s)
  \/ \E o \in Operators :
       \/ \E e \in Escalations : ReadEscalation(o, e)
       \/ \E s \in OpenStatuses \cup FinalStatuses \cup {"keep"}, n \in {"keep", "given", "cleared"} :
            WriteEscalation(o, s, n)
       \/ AbandonEscalation(o)
=============================================================================
