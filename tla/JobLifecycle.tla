---------------------------- MODULE JobLifecycle ----------------------------
(***************************************************************************)
(* What a delivery job promises to everyone who watches it: the consumer's *)
(* tracking view, the business job list, the driver's current job.  A job  *)
(* has a status and at most one driver; it is handed out, carried stage by *)
(* stage by the driver who took it, given back, or called off, and no step *)
(* moves two jobs.  Offers, queues, clocks and driver records are not      *)
(* here: Dispatch.tla has them and implements this specification.          *)
(***************************************************************************)
CONSTANTS Jobs, Drivers, NoDriver,
          Overrides            \* the dispatch overrides operators use

VARIABLES status,              \* jobs.status, "NONE" before the row exists
          assigned             \* jobs.assigned_driver_id

lifecycleVars == <<status, assigned>>

Unassigned == {"REQUESTED", "DISPATCH_FAILED"}
Carried == {"ASSIGNED", "EN_ROUTE_PICKUP", "PICKED_UP", "EN_ROUTE_DROP"}

\* The stage a driver may report next.
NextStage == [ASSIGNED        |-> "EN_ROUTE_PICKUP",
              EN_ROUTE_PICKUP |-> "PICKED_UP",
              PICKED_UP       |-> "EN_ROUTE_DROP",
              EN_ROUTE_DROP   |-> "DELIVERED"]

Init == /\ status = [j \in Jobs |-> "NONE"]
        /\ assigned = [j \in Jobs |-> NoDriver]

Becomes(j, s, d) == /\ status' = [status EXCEPT ![j] = s]
                    /\ assigned' = [assigned EXCEPT ![j] = d]

Request(j) == status[j] = "NONE" /\ Becomes(j, "REQUESTED", NoDriver)

\* The search for a driver gives up, or is started again.
Search(j) == /\ status[j] \in Unassigned
             /\ \E s \in Unassigned : Becomes(j, s, NoDriver)

Take(j, d) == status[j] = "REQUESTED" /\ Becomes(j, "ASSIGNED", d)

Progress(j) == /\ status[j] \in Carried
               /\ Becomes(j, NextStage[status[j]], assigned[j])

\* An operator gives the job to another driver before the first one has moved.
Recall(j) == status[j] = "ASSIGNED" /\ Becomes(j, "REQUESTED", NoDriver)

Cancel(j) == /\ status[j] \in Unassigned \cup {"ASSIGNED", "EN_ROUTE_PICKUP"}
             /\ Becomes(j, "CANCELLED", assigned[j])

\* The unassign override takes any job from any driver at any stage.
Unassign(j) == /\ "UNASSIGN_DRIVER" \in Overrides
               /\ assigned[j] # NoDriver
               /\ Becomes(j, "REQUESTED", NoDriver)

Next == \E j \in Jobs : \/ Request(j)
                        \/ Search(j)
                        \/ \E d \in Drivers : Take(j, d)
                        \/ Progress(j)
                        \/ Recall(j)
                        \/ Cancel(j)
                        \/ Unassign(j)

Spec == Init /\ [][Next]_lifecycleVars
=============================================================================
