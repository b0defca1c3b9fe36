------------------------------ MODULE MCOutbox ------------------------------
(***************************************************************************)
(* Two workers share the outbox.  "admin" is an administrator's notification *)
(* to both channels; "capture" is a capture request, whose handler calls      *)
(* Stripe and writes "captured", the e-mail about it.                         *)
(***************************************************************************)
EXTENDS Outbox

MCMessages == {"admin", "capture", "captured"}
MCWorkers == {"w1", "w2"}
MCKind == [m \in MCMessages |-> CASE m = "admin"    -> "ADMIN"
                                  [] m = "capture"  -> "PAYMENT"
                                  [] m = "captured" -> "NOTIFY"]
MCChannel == [m \in MCMessages |-> "ANY"]
MCReachable == {"admin", "captured"}
MCConfigured == {"webhook", "email", "stripe"}
MCFollowUps == [m \in MCMessages |-> IF m = "capture" THEN {"captured"} ELSE {}]
=============================================================================
