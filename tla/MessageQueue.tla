---------------------------- MODULE MessageQueue ----------------------------
(***************************************************************************)
(* What the transactional outbox promises to the services that write to it *)
(* (README.md of the repository, "Core guarantees"): a message that was     *)
(* written with a transaction is handled or, after its last retry, given    *)
(* up, and is then never looked at again; what its handler writes, further   *)
(* messages included, happens exactly when it is handled.  Workers, batches, *)
(* locks and retries do not appear; Outbox implements this module.           *)
(***************************************************************************)
EXTENDS Naturals

CONSTANTS Messages,   \* the rows of outbox_messages that may come to exist
          FollowUps   \* the messages the handler of a message may write

VARIABLES status,     \* the rows, as others can see them
          effects     \* how often the writes of a handler were committed

vars == <<status, effects>>

In(s) == {m \in Messages : status[m] = s}

Init == /\ status = [m \in Messages |-> "absent"]
        /\ effects = [m \in Messages |-> 0]

\* A service commits a message of its own.
Enqueue(m) == /\ m \in In("absent")
              /\ \A c \in Messages : m \notin FollowUps[c]
              /\ status' = [status EXCEPT ![m] = "pending"]
              /\ UNCHANGED effects

\* A batch ends: some pending messages are handled and may leave follow-ups,
\* some are given up, the others of the batch will be tried again.
Settle(handled, lost, new) ==
  /\ handled \cap lost = {}
  /\ new \subseteq UNION {FollowUps[m] : m \in handled}
  /\ status' = [m \in Messages |-> CASE m \in handled -> "processed"
                                     [] m \in lost    -> "given_up"
                                     [] m \in new     -> "pending"
                                     [] OTHER         -> status[m]]
  /\ effects' = [m \in Messages |-> IF m \in handled THEN effects[m] + 1 ELSE effects[m]]

Next == \/ \E m \in Messages : Enqueue(m)
        \/ \E handled, lost \in SUBSET In("pending") : \E new \in SUBSET In("absent") :
             Settle(handled, lost, new)

Spec == Init /\ [][Next]_vars
=============================================================================
