------------------------- MODULE IdempotentRequests -------------------------
(***************************************************************************)
(* PgService.withIdempotency and two of its endpoints.  A request inserts   *)
(* its key, does its work and saves its answer in one transaction; the      *)
(* unique index makes a second request with the key wait for the first      *)
(* transaction to end.  A client that got no answer sends the request again *)
(* with its key, maybe while the first attempt is still running, and a      *)
(* caller may reuse a key for another payload.                              *)
(* A key refers to its user, so that its insert shares the user's row until *)
(* the transaction ends.  Opening a business locks that row for itself,     *)
(* because two keys of one user must not open two: it waits for every other *)
(* request of the user that has inserted a key, and two that open a         *)
(* business wait for each other.  All keys here are of one user.            *)
(***************************************************************************)
EXTENDS Naturals, FiniteSets

CONSTANTS BusinessKeys,  \* keys used on POST /v1/business/orgs
          JobKeys,       \* keys used on POST /v1/jobs
          Quotes,        \* payloads of the latter: a quote becomes at most one job
          Attempts       \* HTTP requests, each served once

Keys == BusinessKeys \cup JobKeys

ASSUME KeysAssumption ==
  /\ BusinessKeys \cap JobKeys = {}
  /\ "none" \notin Keys \cup Attempts
  /\ Quotes \cap {"none", "absent", "empty", "opened"} = {}

VARIABLES
  answerOf,    \* key -> committed row: "absent", "empty" (no response body) or its answer
  keyHolder,   \* key -> the transaction that inserted it and is still open, or "none"
  userLock,    \* the transaction that has the user's row for itself, or "none"
  businesses,  \* how many organisations the user operates
  jobOf,       \* quote -> the key whose job uses it, or "none"
  effects,     \* key -> committed executions
  attempt,     \* attempt -> where the request is
  heard        \* key -> the answers clients received, the answered attempts of a key

idemVars == <<answerOf, keyHolder, userLock, businesses, jobOf, effects, attempt, heard>>

Answers == {"opened", "operatesAlready"} \cup Quotes
Phases == {"unsent", "insert", "refer", "execute", "create", "save", "replay", "ended"}
NoKey == "none"

IdempotencyTypeOK ==
  /\ answerOf \in [Keys -> Answers \cup {"absent", "empty"}]
  /\ keyHolder \in [Keys -> Attempts \cup {"none"}]
  /\ userLock \in Attempts \cup {"none"}
  /\ businesses \in Nat
  /\ jobOf \in [Quotes -> Keys \cup {"none"}]
  /\ effects \in [Keys -> Nat]
  /\ attempt \in [Attempts -> [phase : Phases, key : Keys \cup {NoKey}, quote : Quotes \cup {"none"},
                               answer : Answers \cup {"none"}]]
  /\ heard \in [Keys -> SUBSET (Answers \cup {"missing"})]

IdempotencyInit ==
  /\ answerOf = [k \in Keys |-> "absent"]
  /\ keyHolder = [k \in Keys |-> "none"]
  /\ userLock = "none"
  /\ businesses = 0
  /\ jobOf = [q \in Quotes |-> "none"]
  /\ effects = [k \in Keys |-> 0]
  /\ attempt = [a \in Attempts |-> [phase |-> "unsent", key |-> NoKey, quote |-> "none", answer |-> "none"]]
  /\ heard = [k \in Keys |-> {}]

database == <<answerOf, keyHolder, userLock, businesses, jobOf, effects>>

Goto(a, phase) == attempt' = [attempt EXCEPT ![a].phase = phase]

\* A client sends a request, for the first time or again.  Before its transaction
\* createBusinessOrg writes the user's row in a statement of its own, and holds nothing
\* while it waits for that.
Send(a, k, q) ==
  /\ attempt[a].phase = "unsent"
  /\ (q # "none") <=> (k \in JobKeys)
  /\ attempt' = [attempt EXCEPT ![a] = [phase |-> "insert", key |-> k, quote |-> q, answer |-> "none"]]
  /\ UNCHANGED <<database, heard>>

MayInsert_Unindexed(k) == TRUE
\* The unique index: an insert waits while another transaction holds the key.
MayInsert(k) == keyHolder[k] = "none"

\* insert ... on conflict do nothing
InsertKey(a) ==
  LET k == attempt[a].key IN
  /\ attempt[a].phase = "insert"
  /\ MayInsert(k)
  /\ IF answerOf[k] = "absent"
     THEN Goto(a, "refer") /\ keyHolder' = [keyHolder EXCEPT ![k] = a]
     ELSE Goto(a, "replay") /\ UNCHANGED keyHolder
  /\ UNCHANGED <<answerOf, userLock, businesses, jobOf, effects, heard>>

\* The rest of the insert checks that the actor exists, and shares the actor's row with
\* other keys, but not with a transaction that has locked it.
ReferToUser(a) ==
  /\ attempt[a].phase = "refer"
  /\ userLock = "none"
  /\ Goto(a, "execute")
  /\ UNCHANGED <<database, heard>>

SharesUser(a) == attempt[a].phase \in {"execute", "create", "save"}

\* upsertUser, which writes the unique e-mail, and select ... for update wait for whoever has
\* the row of the user or shares it.
MayLock(a) == userLock = "none" /\ \A b \in Attempts \ {a} : ~SharesUser(b)

\* execute of createBusinessOrg up to the check of the memberships.
LockUser(a) ==
  /\ attempt[a].phase = "execute" /\ attempt[a].key \in BusinessKeys
  /\ MayLock(a)
  /\ userLock' = a
  /\ IF businesses > 0
     THEN attempt' = [attempt EXCEPT ![a].phase = "save", ![a].answer = "operatesAlready"]
     ELSE Goto(a, "create")
  /\ UNCHANGED <<answerOf, keyHolder, businesses, jobOf, effects, heard>>

\* The organisation, the membership and the audit record are inserted.
CreateBusiness(a) ==
  /\ attempt[a].phase = "create" /\ attempt[a].key \in BusinessKeys
  /\ attempt' = [attempt EXCEPT ![a].phase = "save", ![a].answer = "opened"]
  /\ UNCHANGED <<database, heard>>

\* An insert of a job with the quote waits for the transaction that has inserted another.
QuoteTaken(a) == \E b \in Attempts \ {a} : attempt[b].phase = "save" /\ attempt[b].quote = attempt[a].quote

\* execute of createJob: the unique index on quote_id waits, too; a quote already used
\* is refused, and the transaction with its key is rolled back.
CreateJob(a) ==
  LET q == attempt[a].quote IN
  /\ attempt[a].phase = "execute" /\ attempt[a].key \in JobKeys
  /\ ~QuoteTaken(a)
  /\ jobOf[q] = "none"
  /\ attempt' = [attempt EXCEPT ![a].phase = "save", ![a].answer = q]
  /\ UNCHANGED <<database, heard>>

\* The end of the transaction of a: locks are released.
Release(a) ==
  /\ keyHolder' = [k \in Keys |-> IF keyHolder[k] = a THEN "none" ELSE keyHolder[k]]
  /\ userLock' = IF userLock = a THEN "none" ELSE userLock

\* response_body is saved with the effects.
Saved(a) == attempt[a].answer

\* The answer is saved and the transaction commits; the answer may get lost on its way.
Commit(a) ==
  LET k == attempt[a].key IN
  /\ attempt[a].phase = "save"
  /\ answerOf' = [answerOf EXCEPT ![k] = Saved(a)]
  /\ effects' = [effects EXCEPT ![k] = @ + 1]
  /\ businesses' = businesses + (IF attempt[a].answer = "opened" THEN 1 ELSE 0)
  /\ jobOf' = IF k \in JobKeys THEN [jobOf EXCEPT ![attempt[a].quote] = k] ELSE jobOf
  /\ Release(a)
  /\ heard' \in {heard, [heard EXCEPT ![k] = @ \cup {attempt[a].answer}]}
  /\ Goto(a, "ended")

\* A statement fails (a used quote among them, or a deadlock that the database ends), the
\* connection is lost, the process stops.
Rollback(a) ==
  /\ attempt[a].phase \in {"insert", "refer", "execute", "create", "save", "replay"}
  /\ Release(a)
  /\ Goto(a, "ended")
  /\ UNCHANGED <<answerOf, businesses, jobOf, effects, heard>>

\* The cached answer, or idempotency_record_missing_response.
Replay(a) ==
  LET k == attempt[a].key IN
  /\ attempt[a].phase = "replay"
  /\ heard' = [heard EXCEPT ![k] = @ \cup {IF answerOf[k] \in {"absent", "empty"} THEN "missing" ELSE answerOf[k]}]
  /\ Goto(a, "ended")
  /\ UNCHANGED database

ServeAttempt(a) == InsertKey(a) \/ ReferToUser(a) \/ LockUser(a) \/ CreateBusiness(a) \/ CreateJob(a) \/ Commit(a) \/ Rollback(a) \/ Replay(a)

IdempotencyNext ==
  \E a \in Attempts :
    \/ \E k \in Keys, q \in Quotes \cup {"none"} : Send(a, k, q)
    \/ ServeAttempt(a)

IdempotencySpec == IdempotencyInit /\ [][IdempotencyNext]_idemVars

-----------------------------------------------------------------------------
\* However often and however concurrently a request is sent, its work is committed at
\* most once, and the key has an answer exactly from then on.
OncePerKey == \A k \in Keys : effects[k] <= 1 /\ (effects[k] = 1 <=> answerOf[k] # "absent")

\* Every answer a client ever gets for a key is the answer of the one committed
\* execution; no client is told "idempotency_record_missing_response".
OneAnswerPerKey == \A k \in Keys : heard[k] \subseteq ({answerOf[k]} \ {"absent", "empty"})

\* Whatever keys a user sends at once, the user ends up with one business at most.
OneBusiness == businesses <= 1

\* A quote becomes one job although several keys may try.
OneJobPerQuote == \A q \in Quotes, k \in JobKeys : answerOf[k] = q <=> jobOf[q] = k

\* Two requests have each inserted a key to open a business, and share the row of their
\* user that each wants for itself: the database aborts one of the two.
OpeningsCollide ==
  \E a, b \in Attempts : /\ a # b /\ attempt[a].phase = "execute" /\ attempt[b].phase = "execute"
                         /\ attempt[a].key \in BusinessKeys /\ attempt[b].key \in BusinessKeys

\* Requests of a user all wait for each other only where two of them open a business at the
\* same time; however many jobs, duplicates and one opening run at once, one can go on.
SomeAttemptGoesOn ==
  LET waits(a) == \/ attempt[a].phase = "insert" /\ ~MayInsert(attempt[a].key)
                  \/ attempt[a].phase = "refer" /\ userLock # "none"
                  \/ attempt[a].phase = "execute" /\ attempt[a].key \in BusinessKeys /\ ~MayLock(a)
                  \/ attempt[a].phase = "execute" /\ attempt[a].key \in JobKeys /\ QuoteTaken(a)
      served == {a \in Attempts : attempt[a].phase \notin {"unsent", "ended"}}
  IN served # {} /\ ~OpeningsCollide => \E a \in served : ~waits(a)

\* A key decides: whatever attempts and duplicates run at the same time and fail, each key
\* works once and has one answer, a user gets one business, a quote one job, and only two
\* openings of a business deadlock.
KeysDecide == OncePerKey /\ OneAnswerPerKey /\ OneBusiness /\ OneJobPerQuote /\ SomeAttemptGoesOn
=============================================================================
