----------------------------- MODULE RecordPages -----------------------------
(***************************************************************************)
(* The page of one delivery and the page of one customer order (apps/web,  *)
(* product-shell and orders-shell) for as long as they are mounted.  What  *)
(* they show carries the moment at which the server read or wrote it; a    *)
(* moment is the number of changes that the server had made by then.       *)
(***************************************************************************)
EXTENDS Naturals, FiniteSets

CONSTANTS MaxChanges,   \* bound: changes that the server makes
          MaxAsked,     \* bound: requests of the page
          MaxAtOnce     \* bound: requests under way at once

ASSUME AtOnceAssumption == MaxAtOnce \in Nat

VARIABLES record,      \* "job" or "order"
          now,         \* changes made by the server
          escalation,  \* the record's escalation: bound: one
          seen,        \* the moments of the record and of its payment on the page
          row,         \* the moments of its row in the list behind the page
          audit,       \* the moment of the dispatch audit on the page
          listed,      \* how often the page lists the escalation, and as what
          asked,       \* requests so far
          underway,    \* underway[n]: a request
          own,         \* the writes whose success the page knows
          unread,      \* the last load did not succeed
          missing,     \* the lists that it went without: "log", "audit"
          tangled,     \* answers that nothing orders were under way at once
          rowTangled,  \* any two answers were
          masked       \* an error stands in the place of the order

shownVars == <<seen, row, audit, listed>>
recordVars == <<record, now, escalation, shownVars, asked, underway, own, unread, missing, tangled, rowTangled, masked>>

Unloaded == [main |-> 0, pay |-> 0]
Quiet == [kind |-> "none", step |-> "none"]
Unlisted == [times |-> 0, as |-> "none"]
Places == 1..MaxAtOnce
UnderWay(kinds) == \E n \in Places : underway[n].kind \in kinds
Request(kind) == [kind |-> kind, step |-> "asked", main |-> seen.main, pay |-> seen.pay, audit |-> 0, as |-> "none"]
Started(requests, kind) == [requests EXCEPT ![CHOOSE n \in Places : requests[n] = Quiet] = Request(kind)]
Room(count) == Cardinality({n \in Places : underway[n] = Quiet}) >= count /\ asked + count <= MaxAsked

\* Which answers set the same part of the page, so that the later one wins.
Loading == {"detail", "assign"}
Rivals(kind) ==
  CASE kind = "list" -> IF record = "order" THEN Loading \cup {"list"} ELSE {}
    [] kind = "detail" -> {"detail", "act", "assign", "authorize", "override", "note", "close"}
                            \cup (IF record = "order" THEN {"list"} ELSE {})
    [] kind = "assign" -> {"detail", "authorize", "override", "note", "close"}
    [] kind = "act" -> {"detail", "authorize"}
    [] kind = "authorize" -> Loading \cup {"act"}
    [] OTHER -> Loading

AskRecord(kind) ==
  /\ Room(1) /\ asked' = asked + 1
  /\ underway' = Started(underway, kind)
  /\ tangled' = (UnderWay(Rivals(kind)) \/ (tangled /\ kind # "detail"))
  /\ rowTangled' = ((\E n \in Places : underway[n] # Quiet) \/ (rowTangled /\ kind \notin {"list", "detail"}))
  /\ UNCHANGED <<record, now, escalation, seen, row, audit, own, unread, missing>>

-----------------------------------------------------------------------------
\* The button loads the list of jobs on a job's page, and the order on an order's page,
\* which first drops its escalations.
RefreshRecord ==
  /\ AskRecord(IF record = "job" THEN "list" ELSE "detail")
  /\ listed' = IF record = "order" THEN Unlisted ELSE listed
  /\ masked' = FALSE

\* A renewed session runs both effects.
RenewRecord ==
  /\ Room(2) /\ asked' = asked + 2
  /\ underway' = Started(Started(underway, "list"), "detail")
  /\ tangled' = (record = "order" \/ UnderWay(Rivals("detail"))) /\ rowTangled' = TRUE
  /\ listed' = IF record = "order" THEN Unlisted ELSE listed
  /\ masked' = FALSE
  /\ UNCHANGED <<record, now, escalation, seen, row, audit, own, unread, missing>>

\* The flags that disable the buttons.
Excluded(kind) == CASE kind \in {"act", "assign"} -> {"act", "assign"}
                    [] kind \in {"note", "close"} -> {"note", "close"}
                    [] OTHER -> {kind}

Works == {"act", "assign", "authorize", "override", "note", "close"}
Order(kind) ==
  /\ seen # Unloaded /\ ~UnderWay(Excluded(kind))
  /\ kind \notin {"note", "close"} => record = "job"
  /\ record = "order" => ~masked /\ ~UnderWay({"detail"})
  /\ kind = "close" => listed.times > 0
  /\ AskRecord(kind) /\ UNCHANGED <<listed, masked>>

\* Drivers, customers, the worker and other operators.
ServerChanges ==
  /\ now < MaxChanges /\ now' = now + 1
  /\ UNCHANGED <<record, escalation, shownVars, asked, underway, own, unread, missing, tangled, rowTangled, masked>>

-----------------------------------------------------------------------------
\* What a load reads first and what it reads after that: an order before its payment, a
\* job before its audit.
ReadsFirst(c) == IF record = "order" /\ c.kind = "detail" THEN [c EXCEPT !.main = now]
                 ELSE [c EXCEPT !.main = now, !.pay = now, !.as = escalation]
ReadsThen(c) == IF record = "order" THEN [c EXCEPT !.pay = now, !.as = escalation] ELSE [c EXCEPT !.audit = now]

Read(n) ==
  LET c == underway[n]
  IN /\ \/ /\ c.step = "load" \/ (c.step = "asked" /\ c.kind \in {"list", "detail"})
           /\ underway' = [underway EXCEPT ![n] = [ReadsFirst(c) EXCEPT !.step = IF c.kind = "list" THEN "read" ELSE "half"]]
        \/ c.step = "half" /\ underway' = [underway EXCEPT ![n] = [ReadsThen(c) EXCEPT !.step = "read"]]
     /\ UNCHANGED <<record, now, escalation, shownVars, asked, own, unread, missing, tangled, rowTangled, masked>>

\* The server carries out an order of the page, which is a change of its own.
Carry(n) ==
  LET c == underway[n]
      as == CASE c.kind = "note" -> "open" [] c.kind = "close" -> "closed" [] OTHER -> escalation
  IN /\ c.kind \in Works /\ c.step = "asked" /\ now < MaxChanges
     /\ c.kind = "note" => escalation = "none"
     /\ now' = now + 1 /\ escalation' = as
     /\ underway' = [underway EXCEPT ![n] = [c EXCEPT !.step = "done", !.as = as, !.audit = now + 1,
                       !.main = IF c.kind = "act" THEN now + 1 ELSE c.main,
                       !.pay = IF c.kind \in {"act", "authorize"} THEN now + 1 ELSE c.pay]]
     /\ UNCHANGED <<record, shownVars, asked, own, unread, missing, tangled, rowTangled, masked>>

-----------------------------------------------------------------------------
Ends(n) == underway' = [underway EXCEPT ![n] = Quiet]
Shows(c) == [main |-> c.main, pay |-> c.pay]

\* The payments of the list are those of the order's page too.
ShowList(n) ==
  /\ underway[n].kind = "list" /\ underway[n].step = "read" /\ Ends(n)
  /\ row' = Shows(underway[n])
  /\ seen' = IF record = "order" /\ seen # Unloaded THEN [seen EXCEPT !.pay = underway[n].pay] ELSE seen
  /\ UNCHANGED <<record, now, escalation, audit, listed, asked, own, unread, missing, tangled, rowTangled, masked>>

\* A list of escalations, or of the audit, that cannot be had is shown as empty, with an
\* error, and the load goes on without it.
ShowRecord(n, lacks) ==
  /\ underway[n].kind \in Loading /\ underway[n].step = "read" /\ Ends(n)
  /\ record = "order" => "audit" \notin lacks
  /\ seen' = Shows(underway[n]) /\ row' = seen' /\ audit' = IF "audit" \in lacks THEN 0 ELSE underway[n].audit
  /\ listed' = IF "log" \in lacks \/ underway[n].as = "none" THEN Unlisted ELSE [times |-> 1, as |-> underway[n].as]
  /\ unread' = FALSE /\ missing' = lacks
  /\ UNCHANGED <<record, now, escalation, asked, own, tangled, rowTangled, masked>>

\* The answer of an action takes the place of the job on the page and in the list; a
\* payment is merged into the job as it was when the button was pressed.
syncJob(c) == Shows(c)

ShowDone(n) ==
  LET c == underway[n]
  IN /\ c.kind \in {"act", "authorize"} /\ c.step = "done" /\ Ends(n)
     /\ seen' = Shows(c) /\ row' = syncJob(c)
     /\ own' = [own EXCEPT !.pay = c.pay, !.main = IF c.kind = "act" THEN c.main ELSE @]
     /\ UNCHANGED <<record, now, escalation, audit, listed, asked, unread, missing, tangled, rowTangled, masked>>

\* An assignment done is followed by a load of the job, an override by one of the audit.
LoadAfter(n) ==
  LET c == underway[n]
  IN /\ c.kind \in {"assign", "override"} /\ c.step = "done"
     /\ underway' = [underway EXCEPT ![n].step = IF c.kind = "assign" THEN "load" ELSE "audit"]
     /\ own' = [own EXCEPT !.audit = c.audit, !.main = IF c.kind = "assign" THEN c.audit ELSE @]
     /\ UNCHANGED <<record, now, escalation, shownVars, asked, unread, missing, tangled, rowTangled, masked>>

ShowAudit(n) ==
  /\ underway[n].step = "audit" /\ Ends(n)
  /\ audit' = now /\ missing' = missing \ {"audit"}
  /\ UNCHANGED <<record, now, escalation, seen, row, listed, asked, own, unread, tangled, rowTangled, masked>>

\* What was created is put in front of the list; what was updated replaces its entry.
ShowEscalation(n) ==
  LET c == underway[n]
  IN /\ c.kind \in {"note", "close"} /\ c.step = "done" /\ Ends(n)
     /\ listed' = IF c.kind = "note" THEN [times |-> listed.times + 1, as |-> c.as]
                  ELSE [listed EXCEPT !.as = IF listed.times = 0 THEN @ ELSE c.as]
     /\ own' = [own EXCEPT !.as = c.as]
     /\ UNCHANGED <<record, now, escalation, seen, row, audit, asked, unread, missing, tangled, rowTangled, masked>>

\* An answer is an error or never comes, whether or not the server did its part.
LoseAnswerOf(n) ==
  LET c == underway[n]
      load == c.kind \in {"list", "detail"} \/ c.step \in {"load", "half", "read", "audit"}
  IN /\ c # Quiet /\ Ends(n)
     /\ unread' = (unread \/ load) /\ masked' = (masked \/ (load /\ record = "order"))
     /\ listed' = IF c.kind \in Loading /\ load THEN Unlisted ELSE listed
     /\ audit' = IF c.kind \in Loading /\ load THEN 0 ELSE audit
     /\ UNCHANGED <<record, now, escalation, seen, row, asked, own, missing, tangled, rowTangled>>

RecordsInit ==
  /\ record \in {"job", "order"} /\ now = 1 /\ escalation \in {"none", "open"}
  /\ seen = Unloaded /\ row = Unloaded /\ audit = 0 /\ listed = Unlisted /\ asked = 2
  /\ underway = [n \in Places |-> IF n = 1 THEN Request("list") ELSE IF n = 2 THEN Request("detail") ELSE Quiet]
  /\ own = [main |-> 0, pay |-> 0, audit |-> 0, as |-> "none"]
  /\ unread = FALSE /\ missing = {} /\ tangled = (record = "order") /\ rowTangled = TRUE /\ masked = FALSE

RecordsNext ==
  \/ RefreshRecord \/ RenewRecord \/ ServerChanges
  \/ \E kind \in Works : Order(kind)
  \/ \E n \in Places : \/ Read(n) \/ Carry(n) \/ ShowList(n) \/ ShowDone(n) \/ LoadAfter(n)
                       \/ \E lacks \in SUBSET {"log", "audit"} : ShowRecord(n, lacks)
                       \/ ShowAudit(n) \/ ShowEscalation(n) \/ LoseAnswerOf(n)

-----------------------------------------------------------------------------
Rank == [none |-> 0, open |-> 1, closed |-> 2]
AtRest == (\A n \in Places : underway[n] = Quiet) /\ ~unread /\ ~tangled

\* A page at rest shows what it was told of its own work: the record and its payment, and
\* its audit and its escalation, once, unless it went without that list.
OwnWorkIsShown ==
  AtRest => /\ seen.main >= own.main /\ seen.pay >= own.pay /\ listed.times <= 1
            /\ audit >= own.audit \/ "audit" \in missing
            /\ Rank[listed.as] >= Rank[own.as] \/ "log" \in missing

\* The order's payment is never older than the order beside it, and the row of the list
\* never behind the record.
PartsFitTogether ==
  AtRest => /\ record = "order" => seen.pay >= seen.main
            /\ ~rowTangled => row.main >= seen.main /\ row.pay >= seen.pay

\* A page at rest shows its own finished work, once, and parts that fit together, unless
\* answers that set the same part of it were under way at once, or its last load had to do
\* without the audit or the escalations, which are then missing from it.
RecordIsWhole == OwnWorkIsShown /\ PartsFitTogether

\* What is on the page never gives way to something older, unless such answers crossed; a
\* load that fails takes the audit from the page, and so does one that succeeds without it.
NothingGoesBack ==
  [][\/ tangled \/ unread'
     \/ seen'.main >= seen.main /\ seen'.pay >= seen.pay /\ (audit' >= audit \/ "audit" \in missing')]_recordVars
=============================================================================
