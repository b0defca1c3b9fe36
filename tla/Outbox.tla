------------------------------- MODULE Outbox -------------------------------
(***************************************************************************)
(* The outbox worker (apps/worker/src/index.ts).  Several workers poll the  *)
(* table outbox_messages.  A poll is ONE database transaction: it claims up  *)
(* to BatchSize due rows, oldest first, skipping the rows another worker has  *)
(* locked, runs the handler of each, and commits once at the end.  A handler *)
(* that throws costs its message a retry and leaves the batch running; a      *)
(* statement that fails aborts the transaction, so that the update in the     *)
(* catch block fails too and the whole batch is rolled back.  E-mails,        *)
(* webhooks and calls of Stripe are not rolled back.                          *)
(***************************************************************************)
EXTENDS Naturals, FiniteSets, Sequences, SequencesExt

CONSTANTS Messages,       \* the rows that may come to exist
          Workers,        \* worker processes
          Kind,           \* message -> what its event_type makes the worker do
          Channel,        \* message -> payload.requestedChannel, or "ANY"
          Reachable,      \* the messages whose recipient is known
          Configured,     \* the targets the worker has credentials for
          FollowUps,      \* message -> the messages its handler may write
          BatchSize,      \* OUTBOX_BATCH_SIZE
          MaxRetries,     \* OUTBOX_MAX_RETRIES
          MaxRollbacks    \* bound: how many transactions are rolled back

Targets == {"webhook", "email", "stripe"}
Kinds == {"DISPATCH", "PAYMENT", "NOTIFY", "ADMIN"}
Statuses == {"absent", "pending", "processed", "given_up"}

ASSUME MessagesAssumption ==
  /\ Kind \in [Messages -> Kinds]
  /\ Channel \in [Messages -> {"ANY", "WEBHOOK", "EMAIL"}]
  /\ Reachable \subseteq Messages
  /\ Configured \subseteq Targets
  /\ FollowUps \in [Messages -> SUBSET Messages]
ASSUME LimitsAssumption ==
  BatchSize \in Nat \ {0} /\ MaxRetries \in Nat \ {0} /\ MaxRollbacks \in Nat

VARIABLES
  createdAt,  \* message -> its place in the order by created_at
  status,     \* absent, processed_at null, set after success, set after the last retry
  retries,    \* retry_count
  due,        \* the rows whose next_attempt_at has come
  tx,         \* worker -> its transaction (TransactionType)
  sent,       \* message -> target -> how often the outside saw the call
  effects,    \* how often the writes of the handler were committed
  rollbacks   \* transactions rolled back

rows == <<status, retries, due, effects>>
vars == <<createdAt, status, retries, due, tx, sent, effects, rollbacks>>

\* The claimed rows still to do, and what became of the others: handled, failed
\* with an exception, messages written, handlers whose writes are in it.
TransactionType == [open : BOOLEAN, claimed : Seq(Messages), handled : SUBSET Messages,
                    failed : SUBSET Messages, queued : SUBSET Messages, written : SUBSET Messages]

NoTransaction == [open |-> FALSE, claimed |-> <<>>, handled |-> {}, failed |-> {},
                  queued |-> {}, written |-> {}]

TypeOK == /\ createdAt \in [Messages -> Nat]
          /\ status \in [Messages -> Statuses]
          /\ retries \in [Messages -> Nat]
          /\ due \subseteq Messages
          /\ tx \in [Workers -> TransactionType]
          /\ sent \in [Messages -> [Targets -> Nat]]
          /\ effects \in [Messages -> Nat]
          /\ rollbacks \in Nat

-----------------------------------------------------------------------------
\* What the handlers do outside

AdminCalls(m) ==
  (IF Channel[m] \in {"ANY", "WEBHOOK"} /\ "webhook" \in Configured THEN <<"webhook">> ELSE <<>>)
  \o (IF Channel[m] \in {"ANY", "EMAIL"} /\ "email" \in Configured THEN <<"email">> ELSE <<>>)

NotificationCalls(m) ==
  IF m \in Reachable /\ "email" \in Configured THEN <<"email">> ELSE <<>>

\* dispatchSideEffect, as far as the outside can see it.
Calls(m) == CASE Kind[m] = "DISPATCH" -> <<>>
              [] Kind[m] = "PAYMENT"  -> <<"stripe">>
              [] Kind[m] = "NOTIFY"   -> NotificationCalls(m)
              [] Kind[m] = "ADMIN"    -> AdminCalls(m)

\* Handlers of jobs and payments look at the row first, and may find nothing to do.
MayFindNothing(m) == Kind[m] \in {"DISPATCH", "PAYMENT"}

\* The first n calls of m reach the outside.
Reach(m, n) ==
  sent' = [sent EXCEPT ![m] = [t \in Targets |->
             @[t] + Cardinality({i \in 1..n : Calls(m)[i] = t})]]

\* The writes a handler has made when n of its calls were answered: every handler
\* calls first and writes afterwards.
WrittenAfter_Anything(m, n) == {m}

WrittenAfter(m, n) == IF n = Len(Calls(m)) THEN {m} ELSE {}

-----------------------------------------------------------------------------
\* Rows

Locked(w) == {tx[w].claimed[i] : i \in DOMAIN tx[w].claimed} \cup tx[w].handled \cup tx[w].failed

Claimable_Once == {m \in due \ UNION {Locked(w) : w \in Workers} : status[m] = "pending" /\ retries[m] = 0}

Claimable == {m \in due \ UNION {Locked(w) : w \in Workers} : status[m] = "pending"}

\* A transaction of the API writes a message and commits.
Enqueue(m) ==
  /\ status[m] = "absent"
  /\ \A c \in Messages : m \notin FollowUps[c]
  /\ status' = [status EXCEPT ![m] = "pending"]
  /\ due' = due \cup {m}
  /\ UNCHANGED <<createdAt, retries, tx, sent, effects, rollbacks>>

\* The back-off of a row is over, or the time it was scheduled for has come.
BecomeDue(m) ==
  /\ status[m] = "pending" /\ m \notin due
  /\ due' = due \cup {m}
  /\ UNCHANGED <<createdAt, status, retries, tx, sent, effects, rollbacks>>

-----------------------------------------------------------------------------
\* The worker

\* order by created_at limit BatchSize for update skip locked
IsOldest(batch) ==
  /\ \A i, j \in DOMAIN batch : i < j => createdAt[batch[i]] < createdAt[batch[j]]
  /\ \A m \in Claimable \ Range(batch) :
       Len(batch) = BatchSize /\ \A i \in DOMAIN batch : createdAt[batch[i]] < createdAt[m]

Claim(w) ==
  /\ ~tx[w].open
  /\ \E n \in 1..BatchSize : \E batch \in [1..n -> Claimable] :
       /\ IsOldest(batch)
       /\ tx' = [tx EXCEPT ![w] = [NoTransaction EXCEPT !.open = TRUE, !.claimed = batch]]
  /\ UNCHANGED <<createdAt, rows, sent, rollbacks>>

Working(w) == tx[w].open /\ tx[w].claimed # <<>>

\* insert ... on conflict (event_type, idempotency_key) do nothing: the insert of a
\* key that another open transaction has inserted waits for that transaction.
KeysFree(w, m) == \A v \in Workers \ {w} : FollowUps[m] \cap tx[v].queued = {}

\* The handler returns and processed_at is set, both uncommitted.
Handle(w) ==
  LET m == Head(tx[w].claimed)
  IN  /\ Working(w) /\ KeysFree(w, m)
      /\ \E calls \in {0, Len(Calls(m))}, new \in {{}, FollowUps[m]} :
           /\ MayFindNothing(m) \/ (calls = Len(Calls(m)) /\ new = FollowUps[m])
           /\ Reach(m, calls)
           /\ tx' = [tx EXCEPT ![w].claimed = Tail(@), ![w].handled = @ \cup {m},
                               ![w].queued = @ \cup {f \in new : status[f] = "absent"},
                               ![w].written = @ \cup WrittenAfter(m, Len(Calls(m)))]
      /\ UNCHANGED <<createdAt, rows, rollbacks>>

\* A call is refused or its answer is lost; the handler throws, the catch block
\* notes the retry and goes on with the next message.
Throw(w) ==
  LET m == Head(tx[w].claimed)
  IN  /\ Working(w)
      /\ \E answered \in 0..(Len(Calls(m)) - 1), arrived \in {0, 1} :
           /\ Reach(m, answered + arrived)
           /\ tx' = [tx EXCEPT ![w].claimed = Tail(@), ![w].failed = @ \cup {m},
                               ![w].written = @ \cup WrittenAfter(m, answered)]
      /\ UNCHANGED <<createdAt, rows, rollbacks>>

\* A statement of the handler fails (and with it the catch block's), the process
\* or the connection dies, or the commit fails.  Calls made so far stay made.
Rollback_KeepsHandled(w) ==
  /\ tx[w].open /\ rollbacks < MaxRollbacks
  /\ tx' = [tx EXCEPT ![w] = NoTransaction]
  /\ rollbacks' = rollbacks + 1
  /\ status' = [m \in Messages |-> IF m \in tx[w].handled THEN "processed" ELSE status[m]]
  /\ UNCHANGED <<createdAt, retries, due, effects, sent>>

Rollback(w) ==
  /\ tx[w].open /\ rollbacks < MaxRollbacks
  /\ \/ Working(w) /\ \E n \in 0..Len(Calls(Head(tx[w].claimed))) : Reach(Head(tx[w].claimed), n)
     \/ UNCHANGED sent
  /\ tx' = [tx EXCEPT ![w] = NoTransaction]
  /\ rollbacks' = rollbacks + 1
  /\ UNCHANGED <<createdAt, rows>>

\* The end of the batch.  A message that failed becomes due again after a while
\* (computeRetrySeconds), unless this was its last retry; a message written may be
\* scheduled for later.
Terminal(m) == retries[m] + 1 >= MaxRetries

Commit_Uncounted(w) ==
  /\ tx[w].open /\ tx[w].claimed = <<>>
  /\ LET t == tx[w]
     IN  /\ status' = [m \in Messages |-> IF m \in t.handled THEN "processed"
                                         ELSE IF m \in t.queued THEN "pending" ELSE status[m]]
         /\ retries' = [m \in Messages |-> IF m \in t.handled THEN retries[m] + 1 ELSE retries[m]]
         /\ due' = (due \ t.failed) \cup t.queued
         /\ effects' = [m \in Messages |-> IF m \in t.written THEN effects[m] + 1 ELSE effects[m]]
  /\ tx' = [tx EXCEPT ![w] = NoTransaction]
  /\ UNCHANGED <<createdAt, sent, rollbacks>>

Commit(w) ==
  /\ tx[w].open /\ tx[w].claimed = <<>>
  /\ LET t == tx[w]
     IN  /\ status' = [m \in Messages |->
                         CASE m \in t.handled                  -> "processed"
                           [] m \in t.failed /\ Terminal(m)    -> "given_up"
                           [] m \in t.queued                   -> "pending"
                           [] OTHER                            -> status[m]]
         /\ retries' = [m \in Messages |-> IF m \in t.handled \cup t.failed THEN retries[m] + 1 ELSE retries[m]]
         /\ \E scheduled \in SUBSET t.queued : due' = (due \ t.failed) \cup (t.queued \ scheduled)
         /\ effects' = [m \in Messages |-> IF m \in t.written THEN effects[m] + 1 ELSE effects[m]]
  /\ tx' = [tx EXCEPT ![w] = NoTransaction]
  /\ UNCHANGED <<createdAt, sent, rollbacks>>

-----------------------------------------------------------------------------

Init == /\ createdAt \in {r \in [Messages -> 1..Cardinality(Messages)] : IsInjective(r)}
        /\ status = [m \in Messages |-> "absent"]
        /\ retries = [m \in Messages |-> 0]
        /\ due = {}
        /\ tx = [w \in Workers |-> NoTransaction]
        /\ sent = [m \in Messages |-> [t \in Targets |-> 0]]
        /\ effects = [m \in Messages |-> 0]
        /\ rollbacks = 0

\* One turn of a worker's loop that does not lose its transaction.
Step(w) == Claim(w) \/ Handle(w) \/ Throw(w) \/ Commit(w)

Next == \/ \E m \in Messages : Enqueue(m) \/ BecomeDue(m)
        \/ \E w \in Workers : Claim(w) \/ Handle(w) \/ Throw(w) \/ Rollback(w) \/ Commit(w)

\* runWorker polls for ever, and time passes.
Fairness == /\ \A w \in Workers : WF_vars(Step(w))
            /\ \A m \in Messages : WF_vars(BecomeDue(m))

Spec == Init /\ [][Next]_vars /\ Fairness

-----------------------------------------------------------------------------
\* Properties

\* What a handler writes is committed once, in the transaction that marks the
\* message processed: not with a retry, not with a message given up, not twice.
EffectsComeWithProcessing ==
  \A m \in Messages : effects[m] = (IF status[m] = "processed" THEN 1 ELSE 0)

\* A row is never in the batches of two workers.
BatchesAreDisjoint ==
  \A v, w \in Workers : v # w => Locked(v) \cap Locked(w) = {}

\* A message is given up with its last retry, neither before nor after, and no
\* message with retries left is abandoned.
RetriesDecide ==
  \A m \in Messages : /\ status[m] = "given_up" => retries[m] = MaxRetries
                      /\ status[m] = "pending" => retries[m] < MaxRetries

\* A notification is marked processed only if each of its targets was reached:
\* the webhook that went out before the e-mail failed does not count for both.
NotifiedWhenProcessed ==
  \A m \in Messages : status[m] = "processed" /\ ~MayFindNothing(m) =>
    \A i \in DOMAIN Calls(m) : sent[m][Calls(m)[i]] > 0

\* Each repetition of a call is paid for by a retry or by a transaction rolled back:
\* a recipient hears of a message at most that often.
RepetitionsAreAccounted ==
  \A m \in Messages, t \in Targets :
    sent[m][t] <= retries[m] + rollbacks
                  + Cardinality({w \in Workers : m \in tx[w].handled \cup tx[w].failed})

\* The outbox keeps the promise of MessageQueue.
Queue == INSTANCE MessageQueue
ImplementsQueue == Queue!Spec

\* Every message is handled or given up, however many handlers throw, as long as
\* transactions are not rolled back for ever.
EveryMessageSettles ==
  \A m \in Messages : status[m] = "pending" ~> status[m] \in {"processed", "given_up"}

\* The handling of messages is exact: each works once, in one batch, for all its targets,
\* or is given up with its last retry.
HandlingIsExact == EffectsComeWithProcessing /\ BatchesAreDisjoint /\ RetriesDecide /\ NotifiedWhenProcessed
=============================================================================
