---------------------------- MODULE DemoRequests ----------------------------
(***************************************************************************)
(* Demo requests (apps/api/src/demo-requests).  An administrator's update  *)
(* is a transaction that reads the row WITHOUT locking it, updates it, and *)
(* derives history events and outbox messages from the difference between  *)
(* the row it read and the row the update returned.  Between the two        *)
(* statements another transaction may commit.  Text columns are values of  *)
(* a small set; the columns that get no event (close_reason) are left out. *)
(***************************************************************************)
EXTENDS Naturals, FiniteSets

CONSTANTS Requests,        \* rows of demo_requests
          Admins,          \* administrators at work
          Columns,         \* the follow-up columns in play
          Entries,         \* what an administrator may write into a column
          MaxRequestWrites \* bound: updates of one row

RequestStatuses == {"NEW", "REVIEWED", "CONTACTED", "QUALIFIED", "CLOSED", "SPAM"}
FollowUpColumns == {"adminNote", "assignedOwner", "nextFollowUpAt", "followUpPriority", "lastContactedAt"}
Announced == {"nextFollowUpAt", "lastContactedAt"}

ASSUME ColumnsAssumption == /\ Columns \subseteq FollowUpColumns /\ "none" \notin Entries
                            /\ MaxRequestWrites \in Nat

VARIABLES
  requests,     \* id -> its row, with status "absent" before it exists
  requestTold,  \* id -> what its events say: the type and status of the last status event,
                \* and the last value told of each column
  requestMail,  \* id -> the messages written for its updates
  requestRead,  \* administrator -> the row an open update has read
  requestRaced  \* history: the requests an update wrote that had changed since it read them

requestVars == <<requests, requestTold, requestMail, requestRead, requestRaced>>

Row == [status : RequestStatuses \cup {"absent"}, columns : [Columns -> Entries \cup {"none", "reset"}],
        writes : 0..MaxRequestWrites]
NotReading == [id |-> "none"]

RequestsTypeOK ==
  /\ requests \in [Requests -> Row]
  /\ requestTold \in [Requests -> [type : {"none", "CREATED", "STATUS_CHANGED", "CLOSED", "REOPENED"},
                                   status : RequestStatuses \cup {"absent"},
                                   columns : [Columns -> Entries \cup {"none", "reset"}]]]
  /\ requestMail \in [Requests -> Nat]
  /\ requestRead \in [Admins -> {NotReading} \cup [id : Requests, row : Row]]
  /\ requestRaced \subseteq Requests

RequestsInit ==
  /\ requests = [r \in Requests |-> [status |-> "absent", columns |-> [c \in Columns |-> "none"], writes |-> 0]]
  /\ requestTold = [r \in Requests |-> [type |-> "none", status |-> "absent", columns |-> [c \in Columns |-> "none"]]]
  /\ requestMail = [r \in Requests |-> 0]
  /\ requestRead = [a \in Admins |-> NotReading]
  /\ requestRaced = {}

\* The public form: row, notification of the administrators and first event together.
CreateRequest(r) ==
  /\ requests[r].status = "absent"
  /\ requests' = [requests EXCEPT ![r].status = "NEW"]
  /\ requestTold' = [requestTold EXCEPT ![r].type = "CREATED", ![r].status = "NEW"]
  /\ UNCHANGED <<requestMail, requestRead, requestRaced>>

\* updateAdminDemoRequest, the first half.
ReadRequest(a, r) ==
  /\ requestRead[a] = NotReading
  /\ requests[r].status # "absent"
  /\ requestRead' = [requestRead EXCEPT ![a] = [id |-> r, row |-> requests[r]]]
  /\ UNCHANGED <<requests, requestTold, requestMail, requestRaced>>

Closed(status) == status \in {"CLOSED", "SPAM"}

StatusEvent(previous, next) ==
  IF Closed(previous) /\ ~Closed(next) THEN "REOPENED"
  ELSE IF Closed(next) THEN "CLOSED" ELSE "STATUS_CHANGED"

EventsTell_StatusOnly(told, previous, next) ==
  IF previous.status = next.status THEN told
  ELSE [told EXCEPT !.type = StatusEvent(previous.status, next.status), !.status = next.status]

\* buildUpdateEvents: an event for every column in which the two rows differ.
EventsTell(told, previous, next) ==
  [type    |-> IF previous.status = next.status THEN told.type ELSE StatusEvent(previous.status, next.status),
   status  |-> IF previous.status = next.status THEN told.status ELSE next.status,
   columns |-> [c \in Columns |-> IF previous.columns[c] = next.columns[c] THEN told.columns[c] ELSE next.columns[c]]]

\* enqueueUpdateOutboxEvents: some of the differences are announced as well.
Messages(previous, next) ==
  (IF previous.status = next.status THEN 0 ELSE 1)
  + Cardinality({c \in Columns \cap Announced : previous.columns[c] # next.columns[c]})

\* The second half: the update works on the row as it is by now, status stays when
\* none is given, and the events are told from the row that was read.
WriteRequest(a, status, entry) ==
  LET r == requestRead[a].id
      next == [status  |-> IF status = "keep" THEN requests[r].status ELSE status,
               columns |-> [c \in Columns |-> IF c \in DOMAIN entry THEN entry[c] ELSE requests[r].columns[c]],
               writes  |-> requests[r].writes + 1]
  IN /\ requestRead[a] # NotReading
     /\ requests[r].writes < MaxRequestWrites
     /\ requests' = [requests EXCEPT ![r] = next]
     /\ requestTold' = [requestTold EXCEPT ![r] = EventsTell(@, requestRead[a].row, next)]
     /\ requestMail' = [requestMail EXCEPT ![r] = @ + Messages(requestRead[a].row, next)]
     /\ requestRaced' = IF requestRead[a].row.writes = requests[r].writes THEN requestRaced ELSE requestRaced \cup {r}
     /\ requestRead' = [requestRead EXCEPT ![a] = NotReading]

\* The connection is lost, or the payload was refused: nothing is written.
AbandonRequest(a) ==
  /\ requestRead[a] # NotReading
  /\ requestRead' = [requestRead EXCEPT ![a] = NotReading]
  /\ UNCHANGED <<requests, requestTold, requestMail, requestRaced>>

\* UpdateDemoRequestSchema wants at least one field; one column at a time.
UpdateInputs ==
  {input \in (RequestStatuses \cup {"keep"})
             \X UNION {[C -> Entries \cup {"none"}] : C \in {D \in SUBSET Columns : Cardinality(D) < 2}} :
     input[1] # "keep" \/ DOMAIN input[2] # {}}

RequestsNext ==
  \/ \E r \in Requests : CreateRequest(r)
  \/ \E a \in Admins :
       \/ \E r \in Requests : ReadRequest(a, r)
       \/ \E input \in UpdateInputs : WriteRequest(a, input[1], input[2])
       \/ AbandonRequest(a)
=============================================================================
