----------------------------- MODULE DriverDesk ------------------------------
(***************************************************************************)
(* A driver's page (apps/web, driver-shell and driver-execution) and what  *)
(* the API does for it (driver.service).  The handlers share one busy flag *)
(* and one pending action, which any of them clears when it ends; offers   *)
(* are held back by their own pending action only.                         *)
(***************************************************************************)
EXTENDS Naturals, FiniteSets

CONSTANTS Deliveries,   \* jobs that are offered to the driver
          MaxHandlers,  \* bound: handlers under way at once
          MaxTrouble    \* bound: failures, reloads, jobs taken away, work begun over other work

VARIABLES leg,      \* what became of each job for this driver
          active,   \* drivers.active_job_id
          online,   \* drivers.availability_status is ONLINE
          proven,   \* jobs with a proof of delivery
          sheet,    \* what the page holds
          hidden,   \* it says it is loading
          busy,     \* its flag
          pending,  \* its pending action
          handlers, \* handlers[n]: a handler under way
          fresh,    \* nothing went astray, crossed or happened elsewhere since a load
          trouble,  \* as many of these so far
          mixed     \* since it opened, a proof was recorded while other work was under way

driverDeskVars == <<leg, active, online, proven, sheet, hidden, busy, pending, handlers, fresh, trouble, mixed>>

Nil == "none"
ASSUME DeliveriesAssumption == Nil \notin Deliveries /\ MaxHandlers \in Nat \ {0}
NoWork == [job |-> Nil, status |-> Nil]
BlankSheet == [loaded |-> FALSE, online |-> FALSE, current |-> NoWork, offers |-> {}, proof |-> FALSE]
Still == [kind |-> Nil, step |-> Nil]
Ways == <<"ASSIGNED", "EN_ROUTE_PICKUP", "PICKED_UP", "EN_ROUTE_DROP", "DELIVERED">>
Legs == {"none", "offered", "gone"} \cup {Ways[i] : i \in 1..5}
NextOf(status) == IF \E i \in 1..4 : Ways[i] = status THEN Ways[1 + CHOOSE i \in 1..4 : Ways[i] = status] ELSE Nil

Hands == 1..MaxHandlers
Resting == \A n \in Hands : handlers[n] = Still
Handler(kind, job) ==
  [kind |-> kind, job |-> job, step |-> "asked", current |-> NoWork,
   was |-> IF kind \in {"load", "accept"} THEN sheet.current.job ELSE Nil,
   to |-> IF kind = "move" THEN NextOf(sheet.current.status) ELSE Nil,
   offers |-> IF kind = "toggle" THEN sheet.offers ELSE {},
   online |-> kind = "toggle" /\ ~sheet.online]

Troubled == trouble < MaxTrouble /\ trouble' = trouble + 1

Start(handler) ==
  /\ \/ Resting /\ UNCHANGED trouble
     \/ ~Resting /\ (\E n \in Hands : handlers[n] = Still) /\ Troubled
  /\ handlers' = [handlers EXCEPT ![CHOOSE n \in Hands : handlers[n] = Still] = handler]
  /\ UNCHANGED <<leg, active, online, proven>>

Mixed(kind) == \/ mixed
               \/ \E n \in Hands : "pod" \in {kind, handlers[n].kind} /\ {kind, handlers[n].kind} \cap {"accept", "load", "move"} # {}

-----------------------------------------------------------------------------
\* refreshDriverWorkspace: the page opens, its session is renewed, or Refresh is pressed.
LoadDesk ==
  /\ Start(Handler("load", Nil)) /\ hidden' = TRUE
  /\ fresh' = Resting
  /\ mixed' = Mixed("load")
  /\ UNCHANGED <<sheet, busy, pending>>

\* The browser reloads the page and forgets all it held.
ReloadDesk ==
  /\ Troubled
  /\ handlers' = [n \in Hands |-> IF n = 1 THEN [Handler("load", Nil) EXCEPT !.was = Nil] ELSE Still]
  /\ sheet' = BlankSheet /\ hidden' = TRUE /\ busy' = FALSE /\ pending' = NoWork
  /\ fresh' = TRUE /\ mixed' = FALSE
  /\ UNCHANGED <<leg, active, online, proven>>

\* getDriverExecutionSteps: the step that the page offers.
OfferedStep(current, proof) ==
  IF current.status = "EN_ROUTE_DROP" /\ ~proof THEN "PROOF" ELSE NextOf(current.status)

Shown == sheet.loaded /\ ~hidden
Begin(kind, job) ==
  /\ Shown
  /\ Start(Handler(kind, job))
  /\ busy' = TRUE /\ pending' = [job |-> job, status |-> kind] /\ fresh' = (fresh /\ Resting)
  /\ mixed' = Mixed(kind)
  /\ UNCHANGED <<sheet, hidden>>

handleToggleAvailability == ~busy /\ Begin("toggle", Nil)
handleAcceptOffer(j) == j \in sheet.offers /\ pending.job # j /\ Begin("accept", j)
handleRejectOffer(j) == j \in sheet.offers /\ pending.job # j /\ Begin("reject", j)
handleTransition == /\ ~busy /\ OfferedStep(sheet.current, sheet.proof) \notin {Nil, "PROOF"}
                    /\ Begin("move", sheet.current.job)
handleCreatePod == /\ ~busy /\ OfferedStep(sheet.current, sheet.proof) = "PROOF"
                   /\ Begin("pod", sheet.current.job)

-----------------------------------------------------------------------------
\* What the API answers, or nothing if it refuses; drivers are set offline by work.
Work == IF active # Nil /\ leg[active] \in {Ways[i] : i \in 1..4}
        THEN [job |-> active, status |-> leg[active]] ELSE NoWork
Answered(n, step) == handlers' = [handlers EXCEPT ![n].step = step]

ReadDesk(n) ==
  /\ handlers[n].step = "load" \/ (handlers[n].kind = "load" /\ handlers[n].step = "asked")
  /\ handlers' = [handlers EXCEPT ![n].step = "read", ![n].online = online, ![n].current = Work,
                    ![n].offers = {j \in Deliveries : leg[j] = "offered"}]
  /\ UNCHANGED <<leg, active, online, proven>>

updateAvailability(n) ==
  /\ handlers[n].kind = "toggle" /\ handlers[n].step = "asked"
  /\ online' = handlers[n].online /\ Answered(n, "done")
  /\ UNCHANGED <<leg, active, proven>>

acceptOffer(n) ==
  /\ handlers[n].kind = "accept" /\ handlers[n].step = "asked" /\ leg[handlers[n].job] = "offered"
  /\ leg' = [leg EXCEPT ![handlers[n].job] = "ASSIGNED"]
  /\ active' = handlers[n].job /\ online' = FALSE /\ Answered(n, "done")
  /\ UNCHANGED proven

rejectOffer(n) ==
  /\ handlers[n].kind = "reject" /\ handlers[n].step = "asked" /\ leg[handlers[n].job] = "offered"
  /\ leg' = [leg EXCEPT ![handlers[n].job] = "gone"] /\ Answered(n, "done")
  /\ UNCHANGED <<active, online, proven>>

transitionJobStatus(n) ==
  LET c == handlers[n]
  IN /\ c.kind = "move" /\ c.step = "asked" /\ NextOf(leg[c.job]) = c.to
     /\ c.to = "DELIVERED" => c.job \in proven
     /\ leg' = [leg EXCEPT ![c.job] = c.to]
     /\ active' = IF c.to = "DELIVERED" THEN Nil ELSE c.job
     /\ online' = FALSE /\ Answered(n, "done")
     /\ UNCHANGED proven

createProofOfDelivery(n) ==
  LET j == handlers[n].job
  IN /\ handlers[n].kind = "pod" /\ handlers[n].step = "asked"
     /\ leg[j] = "EN_ROUTE_DROP" /\ j \notin proven
     /\ proven' = proven \cup {j} /\ Answered(n, "done")
     /\ UNCHANGED <<leg, active, online>>

listOffers(n) ==
  /\ handlers[n].kind = "toggle" /\ handlers[n].step = "shown"
  /\ \/ handlers' = [handlers EXCEPT ![n].step = "read", ![n].offers = {j \in Deliveries : leg[j] = "offered"}]
     \/ Answered(n, "read")
  /\ UNCHANGED <<leg, active, online, proven>>

AnswerDriver(n) ==
  /\ ReadDesk(n) \/ updateAvailability(n) \/ acceptOffer(n) \/ rejectOffer(n) \/ transitionJobStatus(n)
     \/ createProofOfDelivery(n) \/ listOffers(n)
  /\ fresh' = (fresh /\ ~(handlers[n].kind = "toggle" /\ handlers[n].step = "shown" /\ handlers'[n].offers # {j \in Deliveries : leg[j] = "offered"}))
  /\ UNCHANGED <<sheet, hidden, busy, pending, mixed, trouble>>

\* A worker offers a job; an offer lapses, an operator cancels or reassigns.
Elsewhere(j) ==
  /\ \/ leg[j] = "none" /\ leg' = [leg EXCEPT ![j] = "offered"] /\ UNCHANGED <<active, trouble>>
     \/ /\ leg[j] \in {"offered", "ASSIGNED"} /\ Troubled /\ leg' = [leg EXCEPT ![j] = "gone"]
        /\ active' = IF active = j THEN Nil ELSE active
  /\ fresh' = FALSE
  /\ UNCHANGED <<online, proven, sheet, hidden, busy, pending, handlers, mixed>>

-----------------------------------------------------------------------------
Finish(n) ==
  /\ handlers' = [handlers EXCEPT ![n] = Still]
  /\ pending' = NoWork
  /\ busy' = IF handlers[n].kind = "load" THEN busy ELSE FALSE
  /\ hidden' = IF handlers[n].step = "read" \/ handlers[n].kind = "load" THEN FALSE ELSE hidden
  /\ UNCHANGED <<leg, active, online, proven, mixed>>

\* The proof is forgotten with the job it belongs to.
KeepsProof(c) == sheet.proof /\ c.current # NoWork /\ c.current.job = c.was

\* An accepted offer is followed by a load, which hides the page.
LoadAccepted_NoLoad(n) ==
  /\ handlers[n].kind = "accept" /\ handlers[n].step = "done" /\ Finish(n)
  /\ UNCHANGED <<sheet, fresh, trouble>>
LoadAccepted(n) ==
  /\ handlers[n].kind = "accept" /\ handlers[n].step = "done"
  /\ hidden' = TRUE /\ Answered(n, "load")
  /\ UNCHANGED <<leg, active, online, proven, sheet, busy, pending, fresh, mixed, trouble>>

ShowDesk(n) ==
  LET c == handlers[n]
  IN /\ c.kind \in {"load", "accept"} /\ c.step = "read"
     /\ sheet' = [loaded |-> TRUE, online |-> c.online, current |-> c.current, offers |-> c.offers, proof |-> KeepsProof(c)]
     /\ Finish(n) /\ UNCHANGED <<fresh, trouble>>

ShowAvailability(n) ==
  /\ handlers[n].kind = "toggle" /\ handlers[n].step = "done"
  /\ sheet' = [sheet EXCEPT !.online = handlers[n].online] /\ Answered(n, "shown")
  /\ UNCHANGED <<leg, active, online, proven, hidden, busy, pending, fresh, mixed, trouble>>

ShowOutcome(n) ==
  LET c == handlers[n]
  IN /\ \/ c.kind = "toggle" /\ c.step = "read" /\ sheet' = [sheet EXCEPT !.offers = c.offers]
        \/ c.kind = "reject" /\ c.step = "done" /\ sheet' = [sheet EXCEPT !.offers = @ \ {c.job}]
        \/ c.kind = "pod" /\ c.step = "done" /\ sheet' = [sheet EXCEPT !.proof = TRUE]
        \/ /\ c.kind = "move" /\ c.step = "done"
           /\ sheet' = IF c.to = "DELIVERED" THEN [sheet EXCEPT !.current = NoWork, !.proof = FALSE]
                       ELSE [sheet EXCEPT !.current = [job |-> c.job, status |-> c.to]]
     /\ Finish(n) /\ UNCHANGED <<fresh, trouble>>

\* An answer is a refusal or never comes, whether or not the API did its part.
Fail(n) ==
  /\ handlers[n] # Still /\ Finish(n) /\ Troubled
  /\ fresh' = FALSE
  /\ UNCHANGED sheet

DriverDeskInit ==
  /\ leg = [j \in Deliveries |-> "none"] /\ active = Nil /\ online \in BOOLEAN /\ proven = {}
  /\ sheet = BlankSheet /\ hidden = TRUE /\ busy = FALSE /\ pending = NoWork
  /\ fresh = TRUE /\ mixed = FALSE /\ trouble = 0
  /\ handlers = [n \in Hands |-> IF n = 1 THEN Handler("load", Nil) ELSE Still]

DriverDeskNext ==
  \/ LoadDesk \/ ReloadDesk \/ handleToggleAvailability \/ handleTransition \/ handleCreatePod
  \/ \E j \in Deliveries : handleAcceptOffer(j) \/ handleRejectOffer(j) \/ Elsewhere(j)
  \/ \E n \in Hands : \/ AnswerDriver(n) \/ LoadAccepted(n) \/ ShowDesk(n) \/ ShowAvailability(n) \/ ShowOutcome(n) \/ Fail(n)

DriverDeskSpec == DriverDeskInit /\ [][DriverDeskNext]_driverDeskVars

-----------------------------------------------------------------------------
AtEase == Resting /\ fresh

\* A page at ease shows the driver's job, its leg and the open offers as the API has them.
ShowsTheWork ==
  AtEase => /\ sheet.loaded /\ sheet.current = Work /\ (online => sheet.online)
            /\ sheet.offers = {j \in Deliveries : leg[j] = "offered"}

\* It never takes a proof for granted that the API does not have.
ProofIsThere == AtEase /\ ~mixed /\ sheet.proof => sheet.current.job \in proven

\* Unless answers crossed, got lost or the job was changed elsewhere, the page at rest
\* shows the driver's work as it is and asks for the proof that is still missing.
DeskMatchesWork == ShowsTheWork /\ ProofIsThere

\* "Complete the delivery after proof has been recorded."
ProvenCanBeCompleted ==
  AtEase /\ sheet.current.job \in proven => OfferedStep(sheet.current, sheet.proof) = "DELIVERED"
=============================================================================
