--------------------------- MODULE RecordsProofs ---------------------------
(***************************************************************************)
(* Requests that write shared records, for any number of them at work at   *)
(* once: the idempotency keys of the business and the job endpoints, the   *)
(* trail and the rollbacks of a menu, and the finance reviews.  Each part  *)
(* has its inductive invariant, one lemma per action, and its theorem.     *)
(***************************************************************************)
EXTENDS IdempotentRequests, Menus, Finance, FiniteSetTheorems, TLAPS

-----------------------------------------------------------------------------
\* Idempotent requests.

Open == {"refer", "execute", "create", "save"}

\* A transaction past its insert owns its key, which has no answer yet; nobody else owns one.
KeysAreOwned ==
  /\ \A a \in Attempts : attempt[a].phase \in Open =>
       /\ attempt[a].key \in Keys
       /\ keyHolder[attempt[a].key] = a
       /\ answerOf[attempt[a].key] = "absent"
  /\ \A k \in Keys : keyHolder[k] # "none" =>
       attempt[keyHolder[k]].phase \in Open /\ attempt[keyHolder[k]].key = k

\* The user's row is locked by whoever works on a business, and only as long; nobody else
\* shares it then.
UserIsLocked ==
  /\ \A a \in Attempts : attempt[a].phase = "create" => attempt[a].key \in BusinessKeys
  /\ \A a \in Attempts :
       attempt[a].phase = "create" \/ (attempt[a].phase = "save" /\ attempt[a].key \in BusinessKeys)
       => userLock = a
  /\ userLock # "none" => attempt[userLock].phase \in {"create", "save"}
  /\ userLock # "none" => \A a \in Attempts \ {userLock} : ~SharesUser(a)

\* A business about to be opened is the first.
BusinessIsFirst ==
  \A a \in Attempts :
    attempt[a].phase = "create" \/ (attempt[a].phase = "save" /\ attempt[a].answer = "opened")
    => businesses = 0

\* A job about to be committed has a quote that no other job has or is about to have.
QuoteIsFree ==
  \A a \in Attempts : attempt[a].phase = "save" /\ attempt[a].key \in JobKeys =>
    /\ attempt[a].quote \in Quotes /\ jobOf[attempt[a].quote] = "none"
    /\ attempt[a].answer = attempt[a].quote
    /\ \A b \in Attempts \ {a} : attempt[b].phase = "save" => attempt[b].quote # attempt[a].quote

\* What is saved is an answer, and only an answer is replayed.
AnswersAreReal ==
  /\ \A a \in Attempts : attempt[a].phase \notin {"unsent", "ended"} =>
       attempt[a].key \in Keys /\ (attempt[a].quote # "none" <=> attempt[a].key \in JobKeys)
  /\ \A a \in Attempts : attempt[a].phase = "save" => attempt[a].answer \in Answers
  /\ \A a \in Attempts : attempt[a].phase = "save" /\ attempt[a].key \in BusinessKeys =>
       attempt[a].answer \in {"opened", "operatesAlready"}
  /\ \A a \in Attempts : attempt[a].phase = "replay" => answerOf[attempt[a].key] # "absent"
  /\ \A k \in Keys : answerOf[k] # "empty"
  /\ \A k \in JobKeys : answerOf[k] \in Quotes \cup {"absent"}

\* The inductive invariant.
KeysInv ==
  /\ IdempotencyTypeOK
  /\ KeysAreOwned /\ UserIsLocked /\ BusinessIsFirst /\ QuoteIsFree /\ AnswersAreReal
  /\ OncePerKey /\ OneAnswerPerKey /\ OneBusiness /\ OneJobPerQuote

\* Whoever has the user's row or is about to commit waits for nobody, and everybody who waits
\* does so for one of them, for a job that waits for one of them at most, or for the owner of
\* a key; two openings that have inserted their keys are excluded.
LEMMA OneGoesOn == KeysInv => SomeAttemptGoesOn
<1> SUFFICES ASSUME KeysInv, ~OpeningsCollide PROVE SomeAttemptGoesOn
  BY DEF SomeAttemptGoesOn
<1> DEFINE waits(a) == \/ attempt[a].phase = "insert" /\ ~MayInsert(attempt[a].key)
                       \/ attempt[a].phase = "refer" /\ userLock # "none"
                       \/ attempt[a].phase = "execute" /\ attempt[a].key \in BusinessKeys /\ ~MayLock(a)
                       \/ attempt[a].phase = "execute" /\ attempt[a].key \in JobKeys /\ QuoteTaken(a)
           served == {a \in Attempts : attempt[a].phase \notin {"unsent", "ended"}}
<1>1. ASSUME NEW a \in Attempts, attempt[a].phase \in {"create", "save"}
      PROVE  a \in served /\ ~waits(a)
  BY <1>1
<1>2. ASSUME userLock # "none" PROVE \E b \in served : ~waits(b)
  <2>1. userLock \in Attempts /\ attempt[userLock].phase \in {"create", "save"}
    BY <1>2 DEF KeysInv, IdempotencyTypeOK, UserIsLocked
  <2>2. QED BY <2>1, <1>1
<1>3. ASSUME NEW a \in Attempts, attempt[a].phase = "execute", attempt[a].key \in JobKeys, waits(a)
      PROVE  \E b \in served : ~waits(b)
  <2>1. attempt[a].key \notin BusinessKeys
    BY <1>3, KeysAssumption
  <2>2. PICK b \in Attempts : attempt[b].phase = "save"
    BY <1>3, <2>1 DEF QuoteTaken
  <2>3. QED BY <2>2, <1>1
<1>4. ASSUME NEW a \in Attempts, attempt[a].phase = "execute", waits(a)
      PROVE  \E b \in served : ~waits(b)
  <2>1. CASE attempt[a].key \in BusinessKeys /\ userLock = "none"
    <3>1. attempt[a].key \notin JobKeys
      BY <2>1, KeysAssumption
    <3>2. PICK b \in Attempts \ {a} : SharesUser(b)
      BY <1>4, <2>1, <3>1 DEF MayLock
    <3>3. CASE attempt[b].phase \in {"create", "save"}
      BY <3>2, <3>3, <1>1
    <3>4. CASE attempt[b].phase = "execute"
      <4>1. attempt[b].key \in JobKeys
        BY <1>4, <2>1, <3>2, <3>4 DEF OpeningsCollide, KeysInv, AnswersAreReal, Keys
      <4>2. CASE waits(b)
        BY <3>2, <3>4, <4>1, <4>2, <1>3
      <4>3. CASE ~waits(b)
        BY <3>2, <3>4, <4>3
      <4>4. QED BY <4>2, <4>3
    <3>5. QED BY <3>2, <3>3, <3>4 DEF SharesUser
  <2>2. CASE attempt[a].key \in JobKeys
    BY <1>4, <2>2, <1>3
  <2>3. QED
    BY <1>2, <1>4, <2>1, <2>2
<1>5. ASSUME NEW a \in Attempts, attempt[a].phase = "refer", waits(a)
      PROVE  \E b \in served : ~waits(b)
  BY <1>2, <1>5
<1>6. ASSUME NEW a \in Attempts, attempt[a].phase = "insert", waits(a)
      PROVE  \E b \in served : ~waits(b)
  <2>1. attempt[a].key \in Keys /\ keyHolder[attempt[a].key] # "none"
    BY <1>6 DEF KeysInv, AnswersAreReal, MayInsert
  <2> DEFINE b == keyHolder[attempt[a].key]
  <2>2. b \in Attempts /\ attempt[b].phase \in Open
    BY <2>1 DEF KeysInv, IdempotencyTypeOK, KeysAreOwned
  <2> HIDE DEF b
  <2>3. CASE attempt[b].phase \in {"create", "save"}
    BY <2>2, <2>3, <1>1
  <2>4. CASE attempt[b].phase \in {"refer", "execute"} /\ ~waits(b)
    BY <2>2, <2>4
  <2>5. CASE attempt[b].phase \in {"refer", "execute"} /\ waits(b)
    BY <2>2, <2>5, <1>4, <1>5
  <2>6. QED
    BY <2>2, <2>3, <2>4, <2>5 DEF Open
<1>7. ASSUME NEW a \in served PROVE \E b \in served : ~waits(b)
  BY <1>7, <1>4, <1>5, <1>6
<1>8. QED
  BY <1>7 DEF SomeAttemptGoesOn

LEMMA KeysInitInv == IdempotencyInit => KeysInv
<1> SUFFICES ASSUME IdempotencyInit PROVE KeysInv
  OBVIOUS
<1> USE DEF IdempotencyInit
<1>1. IdempotencyTypeOK
  BY DEF IdempotencyTypeOK, Phases, NoKey
<1>2. KeysAreOwned /\ UserIsLocked
  BY DEF KeysAreOwned, UserIsLocked, Open
<1>3. BusinessIsFirst /\ QuoteIsFree /\ AnswersAreReal
  BY DEF BusinessIsFirst, QuoteIsFree, AnswersAreReal, Keys
<1>4. OncePerKey /\ OneAnswerPerKey /\ OneBusiness
  BY DEF OncePerKey, OneAnswerPerKey, OneBusiness
<1>5. OneJobPerQuote
  BY KeysAssumption DEF OneJobPerQuote, Keys
<1>6. QED
  BY <1>1, <1>2, <1>3, <1>4, <1>5 DEF KeysInv

LEMMA SendKeeps ==
  ASSUME KeysInv, NEW a \in Attempts, NEW k \in Keys, NEW q \in Quotes \cup {"none"}, Send(a, k, q)
  PROVE  KeysInv'
<1> USE DEF KeysInv, Send, database
<1>1. attempt' = [attempt EXCEPT ![a] = [phase |-> "insert", key |-> k, quote |-> q, answer |-> "none"]]
  OBVIOUS
<1>2. IdempotencyTypeOK'
  BY DEF IdempotencyTypeOK, Phases
<1>3. KeysAreOwned'
  BY DEF IdempotencyTypeOK, KeysAreOwned, Open
<1>4. UserIsLocked'
  BY DEF IdempotencyTypeOK, UserIsLocked, SharesUser
<1>5. BusinessIsFirst' /\ QuoteIsFree'
  BY DEF IdempotencyTypeOK, BusinessIsFirst, QuoteIsFree
<1>6. AnswersAreReal'
  BY DEF IdempotencyTypeOK, AnswersAreReal
<1>7. OncePerKey' /\ OneAnswerPerKey' /\ OneBusiness' /\ OneJobPerQuote'
  BY DEF OncePerKey, OneAnswerPerKey, OneBusiness, OneJobPerQuote
<1>8. QED
  BY <1>2, <1>3, <1>4, <1>5, <1>6, <1>7

LEMMA InsertKeeps ==
  ASSUME KeysInv, NEW a \in Attempts, InsertKey(a)
  PROVE  KeysInv'
<1> DEFINE k == attempt[a].key
<1>0. k \in Keys /\ attempt[a].phase = "insert" /\ keyHolder[k] = "none"
  BY DEF KeysInv, AnswersAreReal, InsertKey, MayInsert
<1> USE DEF KeysInv
<1>1. CASE answerOf[k] = "absent"
  <2>0. /\ attempt' = [attempt EXCEPT ![a].phase = "refer"]
        /\ keyHolder' = [keyHolder EXCEPT ![k] = a]
        /\ UNCHANGED <<answerOf, userLock, businesses, jobOf, effects, heard>>
    BY <1>1 DEF InsertKey, Goto
  <2>2. IdempotencyTypeOK'
    BY <1>0, <2>0 DEF IdempotencyTypeOK, Phases
  <2>3. KeysAreOwned'
    BY <1>0, <1>1, <2>0, KeysAssumption DEF IdempotencyTypeOK, KeysAreOwned, Open
  <2>4. UserIsLocked'
    BY <1>0, <2>0 DEF IdempotencyTypeOK, UserIsLocked, SharesUser
  <2>5. BusinessIsFirst' /\ QuoteIsFree'
    BY <1>0, <2>0 DEF IdempotencyTypeOK, BusinessIsFirst, QuoteIsFree
  <2>6. AnswersAreReal'
    BY <1>0, <2>0 DEF IdempotencyTypeOK, AnswersAreReal
  <2>7. OncePerKey' /\ OneAnswerPerKey' /\ OneBusiness' /\ OneJobPerQuote'
    BY <2>0 DEF OncePerKey, OneAnswerPerKey, OneBusiness, OneJobPerQuote
  <2>8. QED
    BY <2>2, <2>3, <2>4, <2>5, <2>6, <2>7
<1>2. CASE answerOf[k] # "absent"
  <2>0. /\ attempt' = [attempt EXCEPT ![a].phase = "replay"]
        /\ UNCHANGED <<keyHolder, answerOf, userLock, businesses, jobOf, effects, heard>>
    BY <1>2 DEF InsertKey, Goto
  <2>2. IdempotencyTypeOK'
    BY <1>0, <2>0 DEF IdempotencyTypeOK, Phases
  <2>3. KeysAreOwned'
    BY <1>0, <2>0 DEF IdempotencyTypeOK, KeysAreOwned, Open
  <2>4. UserIsLocked'
    BY <1>0, <2>0 DEF IdempotencyTypeOK, UserIsLocked, SharesUser
  <2>5. BusinessIsFirst' /\ QuoteIsFree'
    BY <1>0, <2>0 DEF IdempotencyTypeOK, BusinessIsFirst, QuoteIsFree
  <2>6. AnswersAreReal'
    BY <1>0, <1>2, <2>0 DEF IdempotencyTypeOK, AnswersAreReal
  <2>7. OncePerKey' /\ OneAnswerPerKey' /\ OneBusiness' /\ OneJobPerQuote'
    BY <2>0 DEF OncePerKey, OneAnswerPerKey, OneBusiness, OneJobPerQuote
  <2>8. QED
    BY <2>2, <2>3, <2>4, <2>5, <2>6, <2>7
<1>3. QED
  BY <1>1, <1>2

LEMMA ReferKeeps ==
  ASSUME KeysInv, NEW a \in Attempts, ReferToUser(a)
  PROVE  KeysInv'
<1>0. /\ attempt[a].phase = "refer" /\ userLock = "none"
      /\ attempt' = [attempt EXCEPT ![a].phase = "execute"]
      /\ UNCHANGED <<answerOf, keyHolder, userLock, businesses, jobOf, effects, heard>>
  BY DEF ReferToUser, Goto, database
<1> USE DEF KeysInv
<1>2. IdempotencyTypeOK'
  BY <1>0 DEF IdempotencyTypeOK, Phases
<1>3. KeysAreOwned'
  <2>1. \A b \in Attempts : attempt'[b].key = attempt[b].key /\ (attempt'[b].phase \in Open <=> attempt[b].phase \in Open)
    BY <1>0 DEF IdempotencyTypeOK, Open
  <2>2. \A j \in Keys : keyHolder[j] # "none" => keyHolder[j] \in Attempts
    BY DEF IdempotencyTypeOK
  <2>3. QED
    BY <1>0, <2>1, <2>2 DEF KeysAreOwned
<1>4. UserIsLocked'
  BY <1>0 DEF IdempotencyTypeOK, UserIsLocked, SharesUser
<1>5. BusinessIsFirst' /\ QuoteIsFree'
  BY <1>0 DEF IdempotencyTypeOK, BusinessIsFirst, QuoteIsFree
<1>6. AnswersAreReal'
  BY <1>0 DEF IdempotencyTypeOK, AnswersAreReal
<1>7. OncePerKey' /\ OneAnswerPerKey' /\ OneBusiness' /\ OneJobPerQuote'
  BY <1>0 DEF OncePerKey, OneAnswerPerKey, OneBusiness, OneJobPerQuote
<1>8. QED
  BY <1>2, <1>3, <1>4, <1>5, <1>6, <1>7

LEMMA LockKeeps ==
  ASSUME KeysInv, NEW a \in Attempts, LockUser(a)
  PROVE  KeysInv'
<1> DEFINE k == attempt[a].key
<1>0. /\ attempt[a].phase = "execute" /\ k \in BusinessKeys /\ userLock = "none" /\ userLock' = a
      /\ UNCHANGED <<answerOf, keyHolder, businesses, jobOf, effects, heard>>
  BY DEF LockUser, MayLock
<1> USE DEF KeysInv
<1>1. k \in Keys /\ a # "none" /\ k \notin JobKeys /\ businesses \in Nat
  BY <1>0, KeysAssumption DEF Keys, IdempotencyTypeOK
<1>2. attempt' = [attempt EXCEPT ![a] = attempt'[a]]
  BY DEF LockUser, Goto, IdempotencyTypeOK
<1>3. /\ attempt'[a].key = k /\ attempt'[a].quote = attempt[a].quote
      /\ attempt'[a] \in [phase : Phases, key : Keys \cup {NoKey}, quote : Quotes \cup {"none"},
                          answer : Answers \cup {"none"}]
      /\ \/ attempt'[a].phase = "create" /\ businesses = 0
         \/ attempt'[a].phase = "save" /\ attempt'[a].answer = "operatesAlready"
  <2>1. CASE businesses > 0
    BY <1>0, <2>1 DEF LockUser, IdempotencyTypeOK, Phases, Answers
  <2>2. CASE ~(businesses > 0)
    BY <1>0, <1>1, <2>2 DEF LockUser, Goto, IdempotencyTypeOK, Phases
  <2>3. QED
    BY <2>1, <2>2
<1>4. IdempotencyTypeOK'
  BY <1>0, <1>2, <1>3 DEF IdempotencyTypeOK
<1>5. KeysAreOwned'
  <2>1. /\ \A b \in Attempts : attempt'[b].key = attempt[b].key
        /\ \A b \in Attempts : attempt'[b].phase \in Open <=> attempt[b].phase \in Open
    BY <1>0, <1>2, <1>3 DEF IdempotencyTypeOK, Open
  <2>2. \A j \in Keys : keyHolder[j] # "none" => keyHolder[j] \in Attempts
    BY DEF IdempotencyTypeOK
  <2>3. QED
    BY <1>0, <2>1, <2>2 DEF KeysAreOwned
<1>6. UserIsLocked'
  <2>1. \A b \in Attempts \ {a} : attempt'[b] = attempt[b] /\ b # "none"
    BY <1>2, KeysAssumption DEF IdempotencyTypeOK
  <2>2. \A b \in Attempts \ {a} : ~(attempt[b].phase = "create" \/ (attempt[b].phase = "save" /\ attempt[b].key \in BusinessKeys))
    BY <1>0, <2>1 DEF UserIsLocked, SharesUser
  <2>3. \A b \in Attempts \ {a} : ~SharesUser(b)
    BY DEF LockUser, MayLock
  <2>4. QED
    BY <1>0, <1>3, <2>1, <2>2, <2>3 DEF UserIsLocked, SharesUser
<1>7. BusinessIsFirst'
  BY <1>0, <1>2, <1>3 DEF IdempotencyTypeOK, BusinessIsFirst
<1>8. QuoteIsFree'
  <2>1. attempt[a].quote = "none"
    BY <1>0, <1>1 DEF AnswersAreReal
  <2>2. QED
    BY <1>0, <1>1, <1>2, <1>3, <2>1, KeysAssumption DEF IdempotencyTypeOK, QuoteIsFree
<1>9. AnswersAreReal'
  BY <1>0, <1>1, <1>2, <1>3 DEF IdempotencyTypeOK, AnswersAreReal, Answers
<1>10. OncePerKey' /\ OneAnswerPerKey' /\ OneBusiness' /\ OneJobPerQuote'
  BY <1>0 DEF OncePerKey, OneAnswerPerKey, OneBusiness, OneJobPerQuote
<1>11. QED
  BY <1>4, <1>5, <1>6, <1>7, <1>8, <1>9, <1>10

LEMMA CreateBusinessKeeps ==
  ASSUME KeysInv, NEW a \in Attempts, CreateBusiness(a)
  PROVE  KeysInv'
<1> USE DEF KeysInv
<1>0. /\ attempt[a].phase = "create" /\ attempt[a].key \in BusinessKeys
      /\ attempt' = [attempt EXCEPT ![a].phase = "save", ![a].answer = "opened"]
      /\ UNCHANGED <<answerOf, keyHolder, userLock, businesses, jobOf, effects, heard>>
  BY DEF CreateBusiness, database
<1>1. attempt[a].key \notin JobKeys
  BY <1>0, KeysAssumption
<1>2. IdempotencyTypeOK'
  <2>1. [attempt[a] EXCEPT !.phase = "save", !.answer = "opened"]
          \in [phase : Phases, key : Keys \cup {NoKey}, quote : Quotes \cup {"none"}, answer : Answers \cup {"none"}]
    <3>1. attempt[a] \in [phase : Phases, key : Keys \cup {NoKey}, quote : Quotes \cup {"none"},
                          answer : Answers \cup {"none"}]
      BY DEF IdempotencyTypeOK
    <3>2. "save" \in Phases /\ "opened" \in Answers
      BY DEF Phases, Answers
    <3>3. QED BY <3>1, <3>2
  <2>2. attempt' = [attempt EXCEPT ![a] = [attempt[a] EXCEPT !.phase = "save", !.answer = "opened"]]
    BY <1>0
  <2>3. QED
    BY <1>0, <2>1, <2>2 DEF IdempotencyTypeOK
<1>3. KeysAreOwned' /\ UserIsLocked' /\ BusinessIsFirst'
  <2>1. /\ \A b \in Attempts : attempt'[b].key = attempt[b].key
        /\ \A b \in Attempts \ {a} : attempt'[b] = attempt[b]
        /\ attempt'[a].phase = "save"
    BY <1>0 DEF IdempotencyTypeOK
  <2>2. \A j \in Keys : keyHolder[j] # "none" => keyHolder[j] \in Attempts
    BY DEF IdempotencyTypeOK
  <2>3. KeysAreOwned'
    <3>1. \A b \in Attempts : attempt'[b].phase \in Open <=> attempt[b].phase \in Open
      BY <1>0, <2>1 DEF Open
    <3>2. UNCHANGED <<answerOf, keyHolder>>
      BY <1>0
    <3>3. QED
      BY <2>1, <2>2, <3>1, <3>2 DEF KeysAreOwned
  <2>4. userLock = a
    BY <1>0 DEF UserIsLocked, SharesUser
  <2>5. UserIsLocked'
    BY <1>0, <2>1, <2>4 DEF UserIsLocked, SharesUser
  <2>6. QED
    BY <1>0, <2>1, <2>3, <2>5 DEF BusinessIsFirst
<1>4. QuoteIsFree'
  <2>1. attempt[a].quote = "none"
    BY <1>0, <1>1 DEF AnswersAreReal
  <2>2. QED
    BY <1>0, <1>1, <2>1, KeysAssumption DEF IdempotencyTypeOK, QuoteIsFree
<1>5. AnswersAreReal'
  BY <1>0, <1>1 DEF IdempotencyTypeOK, AnswersAreReal, Answers
<1>6. OncePerKey' /\ OneAnswerPerKey' /\ OneBusiness' /\ OneJobPerQuote'
  BY <1>0 DEF OncePerKey, OneAnswerPerKey, OneBusiness, OneJobPerQuote
<1>7. QED
  BY <1>2, <1>3, <1>4, <1>5, <1>6

LEMMA CreateJobKeeps ==
  ASSUME KeysInv, NEW a \in Attempts, CreateJob(a)
  PROVE  KeysInv'
<1> USE DEF KeysInv
<1> DEFINE q == attempt[a].quote
<1>0. /\ attempt[a].phase = "execute" /\ attempt[a].key \in JobKeys /\ ~QuoteTaken(a) /\ jobOf[q] = "none"
      /\ attempt' = [attempt EXCEPT ![a].phase = "save", ![a].answer = q]
      /\ UNCHANGED <<answerOf, keyHolder, userLock, businesses, jobOf, effects, heard>>
  BY DEF CreateJob, database
<1>1. attempt[a].key \notin BusinessKeys /\ q \in Quotes /\ q # "opened"
  BY <1>0, KeysAssumption DEF AnswersAreReal, IdempotencyTypeOK
<1>2. IdempotencyTypeOK'
  <2>1. [attempt[a] EXCEPT !.phase = "save", !.answer = q]
          \in [phase : Phases, key : Keys \cup {NoKey}, quote : Quotes \cup {"none"}, answer : Answers \cup {"none"}]
    <3>1. attempt[a] \in [phase : Phases, key : Keys \cup {NoKey}, quote : Quotes \cup {"none"},
                          answer : Answers \cup {"none"}]
      BY DEF IdempotencyTypeOK
    <3>2. "save" \in Phases /\ q \in Answers
      BY <1>1 DEF Phases, Answers
    <3> HIDE DEF q
    <3>3. QED BY <3>1, <3>2
  <2>2. attempt' = [attempt EXCEPT ![a] = [attempt[a] EXCEPT !.phase = "save", !.answer = q]]
    BY <1>0
  <2> HIDE DEF q
  <2>3. QED
    BY <1>0, <2>1, <2>2 DEF IdempotencyTypeOK
<1>3. KeysAreOwned' /\ UserIsLocked'
  BY <1>0, <1>1 DEF IdempotencyTypeOK, KeysAreOwned, UserIsLocked, SharesUser, Open
<1>4. BusinessIsFirst'
  BY <1>0, <1>1 DEF IdempotencyTypeOK, BusinessIsFirst
<1>5. QuoteIsFree'
  BY <1>0, <1>1 DEF IdempotencyTypeOK, QuoteIsFree, QuoteTaken
<1>6. AnswersAreReal'
  BY <1>0, <1>1 DEF IdempotencyTypeOK, AnswersAreReal, Answers
<1>7. OncePerKey' /\ OneAnswerPerKey' /\ OneBusiness' /\ OneJobPerQuote'
  BY <1>0 DEF OncePerKey, OneAnswerPerKey, OneBusiness, OneJobPerQuote
<1>8. QED
  BY <1>2, <1>3, <1>4, <1>5, <1>6, <1>7

LEMMA ReplayKeeps ==
  ASSUME KeysInv, NEW a \in Attempts, Replay(a)
  PROVE  KeysInv'
<1> USE DEF KeysInv
<1> DEFINE k == attempt[a].key
<1>0. /\ attempt[a].phase = "replay" /\ k \in Keys /\ answerOf[k] \notin {"absent", "empty"}
      /\ attempt' = [attempt EXCEPT ![a].phase = "ended"]
      /\ UNCHANGED <<answerOf, keyHolder, userLock, businesses, jobOf, effects>>
  BY DEF Replay, database, Goto, AnswersAreReal
<1>1. heard' = [heard EXCEPT ![k] = @ \cup {answerOf[k]}]
  BY <1>0 DEF Replay
<1>2. IdempotencyTypeOK'
  <2>1. answerOf[k] \in Answers
    BY <1>0 DEF IdempotencyTypeOK
  <2>2. QED
    BY <1>0, <1>1, <2>1 DEF IdempotencyTypeOK, Phases
<1>3. KeysAreOwned' /\ UserIsLocked'
  BY <1>0 DEF IdempotencyTypeOK, KeysAreOwned, UserIsLocked, SharesUser, Open
<1>4. BusinessIsFirst' /\ QuoteIsFree' /\ AnswersAreReal'
  BY <1>0 DEF IdempotencyTypeOK, BusinessIsFirst, QuoteIsFree, AnswersAreReal
<1>5. OneAnswerPerKey'
  BY <1>0, <1>1 DEF IdempotencyTypeOK, OneAnswerPerKey
<1>6. OncePerKey' /\ OneBusiness' /\ OneJobPerQuote'
  BY <1>0 DEF OncePerKey, OneBusiness, OneJobPerQuote
<1>7. QED
  BY <1>2, <1>3, <1>4, <1>5, <1>6

\* The end of a transaction gives back what it held, and nothing of others.
LEMMA ReleaseKeeps ==
  ASSUME IdempotencyTypeOK, KeysAreOwned, UserIsLocked, NEW a \in Attempts, Release(a),
         attempt' = [attempt EXCEPT ![a].phase = "ended"],
         \A k \in Keys : keyHolder[k] # a => answerOf'[k] = answerOf[k]
  PROVE  /\ keyHolder' \in [Keys -> Attempts \cup {"none"}] /\ userLock' \in Attempts \cup {"none"}
         /\ attempt' \in [Attempts -> [phase : Phases, key : Keys \cup {NoKey}, quote : Quotes \cup {"none"},
                                       answer : Answers \cup {"none"}]]
         /\ KeysAreOwned' /\ UserIsLocked'
<1>1. attempt' \in [Attempts -> [phase : Phases, key : Keys \cup {NoKey}, quote : Quotes \cup {"none"},
                                 answer : Answers \cup {"none"}]]
  BY DEF IdempotencyTypeOK, Phases
<1>2. keyHolder' \in [Keys -> Attempts \cup {"none"}] /\ userLock' \in Attempts \cup {"none"}
  BY DEF Release, IdempotencyTypeOK
<1>3. KeysAreOwned'
  BY DEF Release, IdempotencyTypeOK, KeysAreOwned, Open
<1>4. UserIsLocked'
  BY DEF Release, IdempotencyTypeOK, UserIsLocked, SharesUser
<1>5. QED
  BY <1>1, <1>2, <1>3, <1>4

LEMMA RollbackKeeps ==
  ASSUME KeysInv, NEW a \in Attempts, Rollback(a)
  PROVE  KeysInv'
<1> USE DEF KeysInv
<1>0. /\ Release(a) /\ attempt' = [attempt EXCEPT ![a].phase = "ended"]
      /\ UNCHANGED <<answerOf, businesses, jobOf, effects, heard>>
  BY DEF Rollback, Goto
<1>1. IdempotencyTypeOK' /\ KeysAreOwned' /\ UserIsLocked'
  <2>1. /\ keyHolder' \in [Keys -> Attempts \cup {"none"}] /\ userLock' \in Attempts \cup {"none"}
        /\ attempt' \in [Attempts -> [phase : Phases, key : Keys \cup {NoKey}, quote : Quotes \cup {"none"},
                                      answer : Answers \cup {"none"}]]
        /\ KeysAreOwned' /\ UserIsLocked'
    BY <1>0, ReleaseKeeps
  <2>2. QED
    BY <1>0, <2>1 DEF IdempotencyTypeOK
<1>2. BusinessIsFirst' /\ QuoteIsFree' /\ AnswersAreReal'
  BY <1>0 DEF IdempotencyTypeOK, BusinessIsFirst, QuoteIsFree, AnswersAreReal
<1>3. OncePerKey' /\ OneAnswerPerKey' /\ OneBusiness' /\ OneJobPerQuote'
  BY <1>0 DEF OncePerKey, OneAnswerPerKey, OneBusiness, OneJobPerQuote
<1>4. QED
  BY <1>1, <1>2, <1>3

LEMMA CommitKeeps ==
  ASSUME KeysInv, NEW a \in Attempts, Commit(a)
  PROVE  KeysInv'
<1> USE DEF KeysInv
<1> DEFINE k == attempt[a].key
           x == attempt[a].answer
<1>0. /\ attempt[a].phase = "save" /\ k \in Keys /\ x \in Answers
      /\ keyHolder[k] = a /\ answerOf[k] = "absent"
      /\ Release(a) /\ attempt' = [attempt EXCEPT ![a].phase = "ended"]
      /\ answerOf' = [answerOf EXCEPT ![k] = x]
      /\ effects' = [effects EXCEPT ![k] = @ + 1]
      /\ businesses' = businesses + (IF x = "opened" THEN 1 ELSE 0)
      /\ jobOf' = IF k \in JobKeys THEN [jobOf EXCEPT ![attempt[a].quote] = k] ELSE jobOf
      /\ heard' \in {heard, [heard EXCEPT ![k] = @ \cup {x}]}
  BY DEF Commit, Saved, Goto, KeysAreOwned, AnswersAreReal, Open
<1>1. x \notin {"absent", "empty", "none"}
  BY <1>0, KeysAssumption DEF Answers
<1>2. k \in JobKeys => attempt[a].quote \in Quotes /\ x = attempt[a].quote /\ jobOf[x] = "none" /\ x # "opened"
  BY <1>0, KeysAssumption DEF QuoteIsFree
<1>3. IdempotencyTypeOK' /\ KeysAreOwned' /\ UserIsLocked'
  <2>1. /\ keyHolder' \in [Keys -> Attempts \cup {"none"}] /\ userLock' \in Attempts \cup {"none"}
        /\ attempt' \in [Attempts -> [phase : Phases, key : Keys \cup {NoKey}, quote : Quotes \cup {"none"},
                                      answer : Answers \cup {"none"}]]
        /\ KeysAreOwned' /\ UserIsLocked'
    BY <1>0, ReleaseKeeps DEF IdempotencyTypeOK
  <2>2. answerOf' \in [Keys -> Answers \cup {"absent", "empty"}] /\ effects' \in [Keys -> Nat]
    BY <1>0 DEF IdempotencyTypeOK
  <2>3. businesses' \in Nat /\ jobOf' \in [Quotes -> Keys \cup {"none"}]
    BY <1>0, <1>2 DEF IdempotencyTypeOK
  <2>4. heard' \in [Keys -> SUBSET (Answers \cup {"missing"})]
    BY <1>0 DEF IdempotencyTypeOK
  <2>5. QED
    BY <2>1, <2>2, <2>3, <2>4 DEF IdempotencyTypeOK
<1>4. BusinessIsFirst'
  <2>1. CASE x = "opened"
    <3>1. userLock = a
      BY <1>0, <1>2, <2>1 DEF UserIsLocked, SharesUser, Keys
    <3>2. ASSUME NEW b \in Attempts \ {a} PROVE attempt[b].phase # "create"
                  /\ (attempt[b].phase = "save" => attempt[b].answer # "opened")
      <4>1. attempt[b].phase = "save" => attempt[b].key \in Keys
        BY DEF AnswersAreReal
      <4>2. attempt[b].phase = "save" /\ attempt[b].key \in JobKeys => attempt[b].answer # "opened"
        BY KeysAssumption DEF QuoteIsFree
      <4>3. QED
        BY <3>1, <4>1, <4>2 DEF UserIsLocked, SharesUser, Keys
    <3>3. QED
      BY <1>0, <3>2 DEF BusinessIsFirst, IdempotencyTypeOK
  <2>2. CASE x # "opened"
    BY <1>0, <2>2 DEF BusinessIsFirst, IdempotencyTypeOK
  <2>3. QED
    BY <2>1, <2>2
<1>5. QuoteIsFree'
  BY <1>0, <1>2 DEF IdempotencyTypeOK, QuoteIsFree
<1>6. AnswersAreReal'
  <2>1. \A j \in Keys : answerOf'[j] = IF j = k THEN x ELSE answerOf[j]
    BY <1>0 DEF IdempotencyTypeOK
  <2>2. \A b \in Attempts : b # a => attempt'[b] = attempt[b]
    BY <1>0 DEF IdempotencyTypeOK
  <2>3. attempt'[a].phase = "ended"
    BY <1>0 DEF IdempotencyTypeOK
  <2>4. /\ \A j \in Keys : answerOf'[j] # "empty"
        /\ \A j \in JobKeys : answerOf'[j] \in Quotes \cup {"absent"}
    BY <1>1, <1>2, <2>1 DEF AnswersAreReal, Keys
  <2>5. \A b \in Attempts : attempt'[b].phase = "replay" => answerOf'[attempt'[b].key] # "absent"
    BY <1>1, <2>1, <2>2, <2>3 DEF AnswersAreReal
  <2>6. QED
    BY <2>2, <2>3, <2>4, <2>5 DEF AnswersAreReal
<1>7. OncePerKey'
  <2>1. ASSUME NEW j \in Keys
        PROVE  effects'[j] <= 1 /\ (effects'[j] = 1 <=> answerOf'[j] # "absent")
    <3>1. effects[j] \in Nat /\ effects[j] <= 1 /\ (effects[j] = 1 <=> answerOf[j] # "absent")
      BY DEF IdempotencyTypeOK, OncePerKey
    <3>2. CASE j = k
      <4>1. effects[j] = 0
        BY <1>0, <3>1, <3>2
      <4>2. effects'[j] = 1 /\ answerOf'[j] = x
        BY <1>0, <3>2, <4>1 DEF IdempotencyTypeOK
      <4>3. QED
        BY <1>1, <4>2
    <3>3. CASE j # k
      BY <1>0, <3>1, <3>3 DEF IdempotencyTypeOK
    <3>4. QED
      BY <3>2, <3>3
  <2>2. QED
    BY <2>1 DEF OncePerKey
<1>8. OneAnswerPerKey'
  BY <1>0, <1>1 DEF IdempotencyTypeOK, OneAnswerPerKey
<1>9. OneBusiness'
  BY <1>0 DEF IdempotencyTypeOK, OneBusiness, BusinessIsFirst
<1>10. OneJobPerQuote'
  <2>1. CASE k \in JobKeys
    <3>1. ASSUME NEW r \in Quotes, NEW j \in JobKeys PROVE answerOf'[j] = r <=> jobOf'[r] = j
      <4>1. answerOf[k] # r /\ j \in Keys /\ j # "none"
        BY <1>0, KeysAssumption DEF Keys
      <4>2. CASE r = x
        BY <1>0, <1>2, <2>1, <4>1, <4>2 DEF IdempotencyTypeOK, OneJobPerQuote
      <4>3. CASE r # x
        BY <1>0, <1>2, <2>1, <4>1, <4>3 DEF IdempotencyTypeOK, OneJobPerQuote
      <4>4. QED
        BY <4>2, <4>3
    <3>2. QED
      BY <3>1 DEF OneJobPerQuote
  <2>2. CASE k \notin JobKeys
    BY <1>0, <2>2 DEF IdempotencyTypeOK, OneJobPerQuote, Keys
  <2>3. QED
    BY <2>1, <2>2
<1>11. QED
  BY <1>3, <1>4, <1>5, <1>6, <1>7, <1>8, <1>9, <1>10

LEMMA KeysStepInv == KeysInv /\ [IdempotencyNext]_idemVars => KeysInv'
<1> SUFFICES ASSUME KeysInv, [IdempotencyNext]_idemVars PROVE KeysInv'
  OBVIOUS
<1>1. CASE UNCHANGED idemVars
  BY <1>1 DEF idemVars, KeysInv, IdempotencyTypeOK, KeysAreOwned, UserIsLocked, SharesUser, BusinessIsFirst,
              QuoteIsFree, AnswersAreReal, OncePerKey, OneAnswerPerKey, OneBusiness, OneJobPerQuote
<1>2. CASE IdempotencyNext
  BY <1>2, SendKeeps, InsertKeeps, ReferKeeps, LockKeeps, CreateBusinessKeeps, CreateJobKeeps, CommitKeeps,
     RollbackKeeps, ReplayKeeps DEF IdempotencyNext, ServeAttempt
<1>3. QED BY <1>1, <1>2

LEMMA KeysInvDecides == KeysInv => IdempotencyTypeOK /\ KeysDecide
BY OneGoesOn DEF KeysInv, KeysDecide

\* Each key works once and has one answer, a user gets one business and a quote one job,
\* and requests all wait for each other only where two open a business
\* (IdempotentRequests.KeysDecide).
THEOREM AKeyDecides == IdempotencySpec => [](IdempotencyTypeOK /\ KeysDecide)
BY KeysInitInv, KeysStepInv, KeysInvDecides, PTL DEF IdempotencySpec

-----------------------------------------------------------------------------
\* Menus: the types of rows, events and requests in memory.
AllFields == CategoryFields \cup ItemFields
AllValues == UNION {ValuesOf(f) : f \in AllFields}
PartRows == UNION {[fs -> AllValues] : fs \in SUBSET AllFields}

MenuEvents == [kind : {"created", "updated", "rollback"}, resource : Resources, changed : SUBSET AllFields,
               previous : {NoRow} \cup PartRows, next : PartRows, of : Nat]
Updates == [step : {"write", "audit"}, resource : Resources, changed : SUBSET AllFields,
            before : PartRows, after : PartRows]
Rollbacks == [step : {"rollback"}, resource : Resources, changed : SUBSET AllFields,
              before : PartRows, after : PartRows, of : Nat]

MenusTyped ==
  /\ row \in [Resources -> {NoRow} \cup PartRows] /\ \A r \in Resources : row[r] = NoRow \/ FullRow(r, row[r])
  /\ trail \in Seq(MenuEvents)
  /\ serving \in [MenuRequests -> {AtRest} \cup Updates \cup Rollbacks]
  /\ disturbed \subseteq Resources

RestoresAnUpdate(s) ==
  /\ s.of \in DOMAIN trail /\ trail[s.of].kind = "updated"
  /\ trail[s.of].resource = s.resource /\ trail[s.of].changed = s.changed
  /\ \A f \in Fields(s.resource) : s.after[f] = trail[s.of].previous[f]

\* An event is of a row that exists; an update's event holds two whole rows, which differ in
\* the changed columns at most, and a rollback's names an update of the same row before it.
EventsAreSound ==
  \A i \in DOMAIN trail :
    /\ row[trail[i].resource] # NoRow /\ trail[i].changed \subseteq Fields(trail[i].resource)
    /\ trail[i].kind = "updated" =>
         /\ FullRow(trail[i].resource, trail[i].previous) /\ FullRow(trail[i].resource, trail[i].next)
         /\ \A f \in Fields(trail[i].resource) \ trail[i].changed : trail[i].next[f] = trail[i].previous[f]
    /\ trail[i].kind = "rollback" => trail[i].of \in DOMAIN trail

\* A request holds two whole rows of a row that exists: an update's differ in the changed
\* columns at most, a rollback's second is the one its original found.
RequestsAreSound ==
  \A p \in MenuRequests :
    /\ serving[p].step # "idle" =>
         /\ row[serving[p].resource] # NoRow /\ serving[p].changed \subseteq Fields(serving[p].resource)
         /\ FullRow(serving[p].resource, serving[p].before) /\ FullRow(serving[p].resource, serving[p].after)
    /\ serving[p].step \in {"write", "audit"} =>
         \A f \in Fields(serving[p].resource) \ serving[p].changed : serving[p].after[f] = serving[p].before[f]
    /\ serving[p].step = "rollback" => RestoresAnUpdate(serving[p])

\* Of a row no two requests disturbed, one at most is under way, and the row is as it found or left it.
UndisturbedIsAlone ==
  \A p \in MenuRequests : serving[p].step # "idle" /\ serving[p].resource \notin disturbed =>
    /\ \A q \in MenuRequests \ {p} : serving[q].step # "idle" => serving[q].resource # serving[p].resource
    /\ row[serving[p].resource] = IF serving[p].step = "audit" THEN serving[p].after ELSE serving[p].before

\* What a column holds for the trail: what the requests under way found in it, or else the row.
Holds(r, f, v) == /\ \A p \in InFlight(r) : serving[p].before[f] = v
                  /\ InFlight(r) = {} => row[r][f] = v

\* The trail of an undisturbed row has no gap, and ends where the request under way began.
TrailHasNoGap ==
  \A i \in DOMAIN trail : trail[i].resource \notin disturbed =>
    \A f \in Fields(trail[i].resource) :
      /\ \A j \in DOMAIN trail : Follows(i, j) => trail[j].previous[f] = RowLeft(trail[i])[f]
      /\ LastOfItsRow(i) => Holds(trail[i].resource, f, RowLeft(trail[i])[f])

\* A column no longer holds what an update left in it only if a later event touched it.
ChangesAreTold ==
  \A i \in DOMAIN trail : trail[i].kind = "updated" /\ trail[i].resource \notin disturbed =>
    \A f \in Fields(trail[i].resource) :
      \/ Holds(trail[i].resource, f, trail[i].next[f])
      \/ \E k \in i+1..Len(trail) : Touched(k, trail[i].resource, f)

MenusInv == /\ MenusTyped /\ EventsAreSound /\ RequestsAreSound /\ UndisturbedIsAlone
            /\ TrailHasNoGap /\ ChangesAreTold /\ RollbackReaches

LEMMA FieldsOfARow ==
  ASSUME NEW r \in Resources PROVE Fields(r) \subseteq AllFields /\ Fields(r) # {}
BY MenusAssumption DEF Fields, AllFields

\* A row with a value of its type in every column.
LEMMA WholeRow ==
  ASSUME NEW r \in Resources, NEW v, FullRow(r, v), v = [f \in Fields(r) |-> v[f]]
  PROVE  v \in PartRows
<1>1. \A f \in Fields(r) : f \in AllFields /\ v[f] \in AllValues
  BY FieldsOfARow DEF FullRow, AllValues
<1>2. v \in [Fields(r) -> AllValues]
  BY <1>1
<1>3. Fields(r) \in SUBSET AllFields
  BY FieldsOfARow
<1>4. QED BY <1>2, <1>3 DEF PartRows

LEMMA FullRowIsSome ==
  ASSUME NEW r \in Resources, NEW v, FullRow(r, v) PROVE v # NoRow
BY FieldsOfARow DEF FullRow, NoRow

\* What Append does to the order of a row's events.
LEMMA TrailGrows ==
  ASSUME trail \in Seq(MenuEvents), NEW e \in MenuEvents, trail' = Append(trail, e),
         NEW n, n = Len(trail) + 1
  PROVE  /\ trail' \in Seq(MenuEvents) /\ DOMAIN trail' = DOMAIN trail \cup {n}
         /\ trail'[n] = e /\ \A i \in DOMAIN trail : trail'[i] = trail[i]
         /\ \A i, j \in DOMAIN trail : Follows(i, j)' => Follows(i, j)
         /\ \A i \in DOMAIN trail :
              /\ Follows(i, n)' => trail[i].resource = e.resource /\ LastOfItsRow(i)
              /\ LastOfItsRow(i)' => LastOfItsRow(i) /\ trail[i].resource # e.resource
         /\ \A j \in DOMAIN trail' : ~Follows(n, j)'
<1>1. /\ trail' \in Seq(MenuEvents) /\ Len(trail') = n /\ n \in Nat /\ Len(trail) = n - 1 /\ n - 1 \in Nat
      /\ DOMAIN trail = 1..n-1 /\ DOMAIN trail' = 1..n
      /\ trail'[n] = e /\ \A i \in 1..n-1 : trail'[i] = trail[i]
  OBVIOUS
<1>2. 1..n = 1..n-1 \cup {n}
  BY <1>1
<1>3. ASSUME NEW i \in 1..n-1, NEW j \in 1..n-1, Follows(i, j)' PROVE Follows(i, j)
  <2>1. \A k \in i+1..j-1 : k \in 1..n-1
    BY <1>1
  <2>2. QED BY <1>1, <1>3, <2>1 DEF Follows
<1>4. ASSUME NEW i \in 1..n-1, Follows(i, n)' PROVE trail[i].resource = e.resource /\ LastOfItsRow(i)
  <2>1. \A k \in i+1..n-1 : k \in 1..n-1
    BY <1>1
  <2>2. QED BY <1>1, <1>4, <2>1 DEF Follows, LastOfItsRow
<1>5. ASSUME NEW i \in 1..n-1, LastOfItsRow(i)' PROVE LastOfItsRow(i) /\ trail[i].resource # e.resource
  <2>1. \A k \in i+1..n-1 : k \in 1..n-1 /\ k \in i+1..n
    BY <1>1
  <2>2. n \in i+1..n
    BY <1>1
  <2>3. \A k \in i+1..n : trail'[k].resource # trail'[i].resource
    BY <1>1, <1>5 DEF LastOfItsRow
  <2>4. QED BY <1>1, <2>1, <2>2, <2>3 DEF LastOfItsRow
<1>6. ASSUME NEW j \in 1..n PROVE ~Follows(n, j)'
  BY <1>1 DEF Follows
<1>7. QED BY <1>1, <1>2, <1>3, <1>4, <1>5, <1>6

\* The events that the trail holds.
LEMMA TrailHolds ==
  ASSUME MenusInv, NEW i \in DOMAIN trail
  PROVE  trail[i] \in MenuEvents /\ trail[i].resource \in Resources /\ i \in Nat
<1>1. trail \in Seq(MenuEvents)
  BY DEF MenusInv, MenusTyped
<1>2. trail[i] \in MenuEvents /\ i \in Nat
  BY <1>1
<1>3. QED BY <1>2 DEF MenuEvents

\* A request takes its place in memory, changes it or leaves it.
LEMMA ServingChanges ==
  ASSUME MenusInv, NEW p \in MenuRequests, NEW new \in {AtRest} \cup Updates \cup Rollbacks,
         serving' = [serving EXCEPT ![p] = new]
  PROVE  /\ serving' \in [MenuRequests -> {AtRest} \cup Updates \cup Rollbacks]
         /\ serving'[p] = new /\ \A q \in MenuRequests \ {p} : serving'[q] = serving[q]
         /\ AtRest.step = "idle"
BY DEF MenusInv, MenusTyped, AtRest

\* An action that tells nothing, and leaves the columns of undisturbed rows as the trail has them.
LEMMA TrailKept ==
  ASSUME MenusInv, trail' = trail, disturbed \subseteq disturbed',
         \A r \in Resources \ disturbed' : \A f, v : Holds(r, f, v) => Holds(r, f, v)'
  PROVE  TrailHasNoGap' /\ ChangesAreTold' /\ RollbackReaches'
<1>1. \A i \in DOMAIN trail : trail[i].resource \in Resources
  BY TrailHolds
<1>2. /\ \A e : RowLeft(e)' = RowLeft(e)
      /\ \A k, r, f : Touched(k, r, f)' = Touched(k, r, f)
      /\ \A i, j : Follows(i, j)' = Follows(i, j)
      /\ \A i : LastOfItsRow(i)' = LastOfItsRow(i)
  BY DEF RowLeft, Touched, Follows, LastOfItsRow
<1>3. TrailHasNoGap'
  <2> SUFFICES ASSUME NEW i \in DOMAIN trail, trail[i].resource \notin disturbed',
                      NEW f \in Fields(trail[i].resource)
               PROVE  /\ \A j \in DOMAIN trail : Follows(i, j) => trail[j].previous[f] = RowLeft(trail[i])[f]
                      /\ LastOfItsRow(i) => Holds(trail[i].resource, f, RowLeft(trail[i])[f])'
    BY <1>2 DEF TrailHasNoGap, RowLeft
  <2>1. /\ \A j \in DOMAIN trail : Follows(i, j) => trail[j].previous[f] = RowLeft(trail[i])[f]
        /\ LastOfItsRow(i) => Holds(trail[i].resource, f, RowLeft(trail[i])[f])
    BY DEF MenusInv, TrailHasNoGap
  <2>2. trail[i].resource \in Resources \ disturbed' /\ RowLeft(trail[i])' = RowLeft(trail[i])
    BY <1>1, <1>2
  <2> PICK v : v = RowLeft(trail[i])[f]
    OBVIOUS
  <2> PICK r : r = trail[i].resource
    OBVIOUS
  <2>3. Holds(r, f, v) => Holds(r, f, v)'
    BY <2>2
  <2>4. QED BY <2>1, <2>2, <2>3 DEF Holds, InFlight
<1>4. ChangesAreTold'
  <2> SUFFICES ASSUME NEW i \in DOMAIN trail, trail[i].kind = "updated", trail[i].resource \notin disturbed',
                      NEW f \in Fields(trail[i].resource), ~Holds(trail[i].resource, f, trail[i].next[f])'
               PROVE  \E k \in i+1..Len(trail) : Touched(k, trail[i].resource, f)'
    BY DEF ChangesAreTold
  <2> PICK v : v = trail[i].next[f]
    OBVIOUS
  <2> PICK r : r = trail[i].resource
    OBVIOUS
  <2>1. ~Holds(r, f, v)
    BY <1>1 DEF Holds, InFlight
  <2>2. QED BY <1>2, <2>1 DEF MenusInv, ChangesAreTold
<1>5. RollbackReaches'
  BY <1>2 DEF MenusInv, RollbackReaches
<1>6. QED BY <1>3, <1>4, <1>5

\* An action that tells one event, whose row holds from then on what the event left.
LEMMA TrailExtended ==
  ASSUME MenusInv, NEW e \in MenuEvents, trail' = Append(trail, e), NEW n, n = Len(trail) + 1,
         disturbed' = disturbed, NEW r, r = e.resource,
         e.kind = "rollback" => e.of \in DOMAIN trail,
         r \notin disturbed => \A f \in Fields(r) :
           /\ \A i \in DOMAIN trail : trail[i].resource = r =>
                \A v : Holds(r, f, v) => e.previous[f] = v
           /\ \A v : v = RowLeft(e)[f] => Holds(r, f, v)'
           /\ e.kind = "rollback" /\ f \notin e.changed /\ RowLeft(e)[f] # e.previous[f] =>
                \E k \in e.of+1..Len(trail) : Touched(k, r, f),
         \A o \in Resources \ {r} : \A f, v : Holds(o, f, v) => Holds(o, f, v)'
  PROVE  TrailHasNoGap' /\ ChangesAreTold' /\ RollbackReaches'
<1>1. /\ trail \in Seq(MenuEvents) /\ Len(trail) \in Nat /\ DOMAIN trail = 1..Len(trail)
      /\ \A i \in DOMAIN trail : trail[i] \in MenuEvents /\ trail[i].resource \in Resources
  BY TrailHolds DEF MenusInv, MenusTyped
<1>2. /\ trail' \in Seq(MenuEvents) /\ DOMAIN trail' = DOMAIN trail \cup {n} /\ Len(trail') = n
      /\ trail'[n] = e /\ \A i \in DOMAIN trail : trail'[i] = trail[i]
  BY <1>1, TrailGrows
<1>3. /\ RowLeft(e)' = RowLeft(e)
      /\ \A i \in DOMAIN trail : RowLeft(trail[i])' = RowLeft(trail[i])
  BY <1>1, <1>2 DEF MenusInv, EventsAreSound, RowLeft
<1>4. /\ \A k \in DOMAIN trail : \A o, f : Touched(k, o, f)' = Touched(k, o, f)
      /\ \A f : Touched(n, r, f)' <=> RowLeft(e)[f] # e.previous[f]
  <2>1. RowLeft(trail[n])' = RowLeft(e)
    BY <1>2, <1>3 DEF RowLeft
  <2>2. \A k \in DOMAIN trail : RowLeft(trail[k])' = RowLeft(trail[k])
    BY <1>2, <1>3 DEF RowLeft
  <2>3. QED BY <1>2, <2>1, <2>2 DEF Touched
<1>5. TrailHasNoGap'
  <2> SUFFICES ASSUME NEW i \in DOMAIN trail', trail'[i].resource \notin disturbed,
                      NEW f \in Fields(trail'[i].resource)
               PROVE  /\ \A j \in DOMAIN trail' : Follows(i, j)' => trail'[j].previous[f] = RowLeft(trail[i])'[f]
                      /\ LastOfItsRow(i)' => Holds(trail[i].resource, f, RowLeft(trail[i])[f])'
    BY DEF TrailHasNoGap
  <2>1. CASE i \in DOMAIN trail
    <3>0. /\ trail'[i] = trail[i] /\ trail[i].resource \in Resources
          /\ RowLeft(trail[i])' = RowLeft(trail[i])
      BY <1>1, <1>2, <1>3, <2>1 DEF RowLeft
    <3>1. /\ \A j \in DOMAIN trail : Follows(i, j) => trail[j].previous[f] = RowLeft(trail[i])[f]
          /\ LastOfItsRow(i) => Holds(trail[i].resource, f, RowLeft(trail[i])[f])
      BY <2>1, <3>0 DEF MenusInv, TrailHasNoGap
    <3>2. ASSUME NEW j \in DOMAIN trail', Follows(i, j)'
          PROVE  trail'[j].previous[f] = RowLeft(trail[i])[f]
      <4>1. CASE j \in DOMAIN trail
        <5>1. Follows(i, j) /\ trail'[j] = trail[j]
          BY <1>1, <1>2, <2>1, <3>2, <4>1, TrailGrows
        <5>2. QED BY <3>1, <4>1, <5>1
      <4>2. CASE j = n
        <5>1. trail[i].resource = r /\ LastOfItsRow(i)
          BY <1>1, <2>1, <3>2, <4>2, TrailGrows
        <5>2. QED BY <1>2, <2>1, <3>0, <3>1, <4>2, <5>1
      <4>3. QED BY <1>2, <4>1, <4>2
    <3>3. ASSUME LastOfItsRow(i)', NEW v, v = RowLeft(trail[i])[f] PROVE Holds(trail[i].resource, f, v)'
      <4>1. LastOfItsRow(i) /\ trail[i].resource # r
        BY <1>1, <2>1, <3>3, TrailGrows
      <4>2. Holds(trail[i].resource, f, v)
        BY <3>1, <3>3, <4>1
      <4> PICK o : o = trail[i].resource
        OBVIOUS
      <4>3. Holds(o, f, v)'
        BY <3>0, <4>1, <4>2
      <4>4. trail[i].resource = o
        OBVIOUS
      <4>5. QED BY <4>3, <4>4, <3>0, <1>2, <2>1 DEF Holds, InFlight
    <3>4. ASSUME LastOfItsRow(i)' PROVE Holds(trail[i].resource, f, RowLeft(trail[i])[f])'
      <4> PICK v : v = RowLeft(trail[i])[f]
        OBVIOUS
      <4>1. Holds(trail[i].resource, f, v)'
        BY <3>3, <3>4
      <4>2. QED BY <3>0, <4>1 DEF Holds, InFlight
    <3>5. QED BY <3>0, <3>2, <3>4
  <2>2. CASE i = n
    <3>1. \A j \in DOMAIN trail' : ~Follows(i, j)'
      BY <1>1, <2>2, TrailGrows
    <3>2. trail'[i] = e /\ RowLeft(trail[i])' = RowLeft(e)
      BY <1>2, <1>3, <2>2 DEF RowLeft
    <3> PICK v : v = RowLeft(e)[f]
      OBVIOUS
    <3>3. Holds(r, f, v)'
      BY <3>2
    <3>4. Holds(trail[i].resource, f, RowLeft(trail[i])[f])'
      BY <3>2, <3>3 DEF Holds, InFlight
    <3>5. QED BY <3>1, <3>4
  <2>3. QED BY <1>2, <2>1, <2>2
<1>6. ChangesAreTold'
  <2> SUFFICES ASSUME NEW i \in DOMAIN trail', trail'[i].kind = "updated", trail'[i].resource \notin disturbed,
                      NEW f \in Fields(trail'[i].resource),
                      ~Holds(trail[i].resource, f, trail[i].next[f])'
               PROVE  \E k \in i+1..n : Touched(k, trail[i].resource, f)'
    BY <1>2 DEF ChangesAreTold
  <2> PICK v : v = trail'[i].next[f]
    OBVIOUS
  <2> PICK o : o = trail'[i].resource
    OBVIOUS
  <2>0. ~Holds(o, f, v)'
    BY DEF Holds, InFlight
  <2>1. CASE i \in DOMAIN trail
    <3>0. trail'[i] = trail[i] /\ trail[i].resource \in Resources /\ i \in 1..Len(trail)
      BY <1>1, <1>2, <2>1
    <3>1. \/ Holds(o, f, v) \/ \E k \in i+1..Len(trail) : Touched(k, o, f)
      BY <2>1, <3>0 DEF MenusInv, ChangesAreTold
    <3>2. CASE \E k \in i+1..Len(trail) : Touched(k, o, f)
      <4>1. PICK k \in i+1..Len(trail) : Touched(k, o, f)
        BY <3>2
      <4>2. k \in DOMAIN trail /\ k \in i+1..n
        BY <1>1, <3>0
      <4>3. Touched(k, o, f)'
        BY <1>4, <4>1, <4>2
      <4>4. QED BY <3>0, <4>2, <4>3 DEF Touched, RowLeft
    <3>3. CASE Holds(o, f, v)
      <4>1. o = r
        BY <2>0, <3>0, <3>3
      <4>2. e.previous[f] = v
        BY <2>1, <3>0, <3>3, <4>1
      <4>3. RowLeft(e)[f] # v
        BY <2>0, <3>0, <4>1
      <4>4. Touched(n, r, f)'
        BY <1>4, <4>2, <4>3
      <4>5. n \in i+1..n
        BY <1>1, <3>0
      <4>6. QED BY <3>0, <4>1, <4>4, <4>5 DEF Touched, RowLeft
    <3>4. QED BY <3>1, <3>2, <3>3
  <2>2. CASE i = n
    <3>1. trail'[i] = e /\ RowLeft(e) = e.next
      BY <1>2, <2>2 DEF RowLeft
    <3>2. v = RowLeft(e)[f] /\ f \in Fields(r) /\ r \notin disturbed
      BY <3>1
    <3>3. Holds(r, f, v)'
      BY <3>2
    <3>4. QED BY <2>0, <3>1, <3>3
  <2>3. QED BY <1>2, <2>1, <2>2
<1>7. RollbackReaches'
  <2> SUFFICES ASSUME NEW i \in DOMAIN trail', trail'[i].kind = "rollback", trail'[i].resource \notin disturbed,
                      NEW f \in Fields(trail'[i].resource) \ trail'[i].changed, Touched(i, trail[i].resource, f)'
               PROVE  \E k \in trail'[i].of+1..i-1 : Touched(k, trail[i].resource, f)'
    BY DEF RollbackReaches
  <2>1. CASE i \in DOMAIN trail
    <3>0. trail'[i] = trail[i] /\ trail[i].of \in DOMAIN trail /\ i \in 1..Len(trail)
      BY <1>1, <1>2, <2>1 DEF MenusInv, EventsAreSound
    <3> PICK o : o = trail[i].resource
      OBVIOUS
    <3>1. Touched(i, o, f)
      BY <1>4, <2>1, <3>0 DEF Touched, RowLeft
    <3>2. PICK k \in trail[i].of+1..i-1 : Touched(k, o, f)
      BY <2>1, <3>0, <3>1 DEF MenusInv, RollbackReaches
    <3>3. k \in DOMAIN trail
      BY <1>1, <3>0
    <3>4. Touched(k, o, f)'
      BY <1>4, <3>2, <3>3
    <3>5. Touched(k, trail[i].resource, f)'
      BY <3>0, <3>4 DEF Touched, RowLeft
    <3>6. QED BY <3>0, <3>2, <3>5
  <2>2. CASE i = n
    <3>1. trail'[i] = e /\ e.of \in DOMAIN trail /\ i - 1 = Len(trail)
      BY <1>1, <1>2, <2>2
    <3>2. RowLeft(e)[f] # e.previous[f]
      BY <1>4, <2>2, <3>1 DEF Touched, RowLeft
    <3>3. PICK k \in e.of+1..Len(trail) : Touched(k, r, f)
      BY <3>1, <3>2
    <3>4. k \in DOMAIN trail
      BY <1>1, <3>1
    <3>5. Touched(k, r, f)'
      BY <1>4, <3>3, <3>4
    <3>6. QED BY <3>1, <3>3, <3>5 DEF Touched, RowLeft
  <2>3. QED BY <1>2, <2>1, <2>2
<1>8. QED BY <1>5, <1>6, <1>7

LEMMA MenusInitInv == MenusInit => MenusInv
<1> SUFFICES ASSUME MenusInit PROVE MenusInv
  OBVIOUS
<1>1. /\ row = [r \in Resources |-> NoRow] /\ trail = <<>> /\ disturbed = {}
      /\ serving = [p \in MenuRequests |-> AtRest] /\ \A p \in MenuRequests : serving[p].step = "idle"
  BY DEF MenusInit, AtRest
<1>2. MenusTyped
  BY <1>1 DEF MenusTyped
<1>3. EventsAreSound /\ RequestsAreSound /\ UndisturbedIsAlone /\ TrailHasNoGap /\ ChangesAreTold /\ RollbackReaches
  BY <1>1 DEF EventsAreSound, RequestsAreSound, UndisturbedIsAlone, TrailHasNoGap, ChangesAreTold, RollbackReaches
<1>4. QED BY <1>2, <1>3 DEF MenusInv

LEMMA CreateMenuRowKeeps ==
  ASSUME MenusInv, NEW r \in Resources, NEW values \in [Fields(r) -> UNION {ValuesOf(f) : f \in Fields(r)}],
         CreateMenuRow(r, values)
  PROVE  MenusInv'
<1> DEFINE e == Event("created", r, Fields(r), NoRow, values)
<1>1. /\ row[r] = NoRow /\ FullRow(r, values) /\ row' = [row EXCEPT ![r] = values] /\ trail' = Append(trail, e)
      /\ serving' = serving /\ disturbed' = disturbed
  BY DEF CreateMenuRow
<1>2. values \in PartRows /\ values # NoRow
  BY <1>1, WholeRow, FullRowIsSome
<1>3. e \in MenuEvents /\ e.resource = r /\ e.kind = "created" /\ e.changed = Fields(r)
  BY <1>2, FieldsOfARow DEF Event, MenuEvents
<1> HIDE DEF e
<1>4. trail \in Seq(MenuEvents) /\ row \in [Resources -> {NoRow} \cup PartRows]
  BY DEF MenusInv, MenusTyped
<1>5. row'[r] = values /\ \A o \in Resources \ {r} : row'[o] = row[o]
  BY <1>1, <1>4
<1>6. \A i \in DOMAIN trail : trail[i].resource # r /\ trail[i].resource \in Resources
  BY <1>1, TrailHolds DEF MenusInv, EventsAreSound
<1>7. \A p \in MenuRequests : serving[p].step # "idle" => serving[p].resource # r /\ serving[p].resource \in Resources
  BY <1>1 DEF MenusInv, MenusTyped, RequestsAreSound, Updates, Rollbacks, AtRest
<1>8. MenusTyped'
  BY <1>1, <1>2, <1>3, <1>4, <1>5, TrailGrows DEF MenusInv, MenusTyped, FullRow
<1>9. EventsAreSound'
  BY <1>1, <1>2, <1>3, <1>4, <1>5, <1>6, TrailGrows DEF MenusInv, EventsAreSound, FullRow
<1>10. RequestsAreSound'
  <2>1. \A i \in DOMAIN trail : i \in DOMAIN trail' /\ trail'[i] = trail[i]
    BY <1>1, <1>3, <1>4, TrailGrows
  <2>2. QED BY <1>1, <1>5, <1>7, <2>1 DEF MenusInv, RequestsAreSound, RestoresAnUpdate, FullRow
<1>11. UndisturbedIsAlone'
  BY <1>1, <1>5, <1>7 DEF MenusInv, UndisturbedIsAlone
<1>12. TrailHasNoGap' /\ ChangesAreTold' /\ RollbackReaches'
  <2>1. InFlight(r) = {} /\ \A o : InFlight(o)' = InFlight(o)
    BY <1>1, <1>7 DEF InFlight
  <2>2. \A o \in Resources \ {r} : \A f, v : Holds(o, f, v) => Holds(o, f, v)'
    BY <1>1, <1>5, <2>1 DEF Holds
  <2>3. RowLeft(e) = values
    BY <1>3 DEF RowLeft, e, Event
  <2>4. \A f : \A v : v = RowLeft(e)[f] => Holds(r, f, v)'
    BY <1>5, <2>1, <2>3 DEF Holds
  <2>5. e.kind # "rollback"
    BY <1>3
  <2> PICK n : n = Len(trail) + 1
    OBVIOUS
  <2>6. QED BY <1>1, <1>3, <1>6, <2>2, <2>4, <2>5, TrailExtended
<1>13. QED BY <1>8, <1>9, <1>10, <1>11, <1>12 DEF MenusInv

\* A read for an update or a rollback: the request joins those under way.
LEMMA JoiningKeeps ==
  ASSUME MenusInv, NEW p \in MenuRequests, NEW r \in Resources, NEW new \in Updates \cup Rollbacks,
         serving[p].step = "idle", new.step \in {"write", "rollback"}, new.resource = r, new.before = row[r],
         row[r] # NoRow, new.changed \subseteq Fields(r), FullRow(r, new.after),
         new.step = "write" => \A f \in Fields(r) \ new.changed : new.after[f] = new.before[f],
         new.step = "rollback" => RestoresAnUpdate(new),
         serving' = [serving EXCEPT ![p] = new], disturbed' = Overlaps(r), row' = row, trail' = trail
  PROVE  MenusInv'
<1>1. /\ serving' \in [MenuRequests -> {AtRest} \cup Updates \cup Rollbacks]
      /\ serving'[p] = new /\ \A q \in MenuRequests \ {p} : serving'[q] = serving[q]
  BY ServingChanges
<1>2. disturbed \subseteq disturbed' /\ disturbed' \subseteq Resources /\ (r \notin disturbed' => InFlight(r) = {})
  BY DEF Overlaps, MenusInv, MenusTyped
<1>3. MenusTyped'
  BY <1>1, <1>2 DEF MenusInv, MenusTyped, FullRow
<1>4. EventsAreSound'
  BY DEF MenusInv, EventsAreSound, FullRow
<1>5. RequestsAreSound'
  <2>1. FullRow(r, row[r])
    BY DEF MenusInv, MenusTyped
  <2>2. \A q \in MenuRequests \ {p} : serving'[q] = serving[q]
    BY <1>1
  <2>3. QED BY <1>1, <2>1, <2>2 DEF MenusInv, RequestsAreSound, RestoresAnUpdate, FullRow
<1>6. UndisturbedIsAlone'
  <2>1. r \notin disturbed' => \A q \in MenuRequests \ {p} : serving[q].step # "idle" => serving[q].resource # r
    BY <1>2 DEF InFlight
  <2>2. QED BY <1>1, <1>2, <2>1 DEF MenusInv, UndisturbedIsAlone
<1>7. TrailHasNoGap' /\ ChangesAreTold' /\ RollbackReaches'
  <2> SUFFICES ASSUME NEW o \in Resources \ disturbed', NEW f, NEW v, Holds(o, f, v) PROVE Holds(o, f, v)'
    BY <1>2, TrailKept
  <2>1. CASE o = r
    <3>1. InFlight(r) = {} /\ InFlight(r)' = {p}
      BY <1>1, <1>2, <2>1 DEF InFlight
    <3>2. QED BY <1>1, <2>1, <3>1 DEF Holds
  <2>2. CASE o # r
    <3>1. InFlight(o)' = InFlight(o) /\ p \notin InFlight(o) /\ InFlight(o) \subseteq MenuRequests
      BY <1>1, <2>2 DEF InFlight
    <3>2. QED BY <1>1, <3>1 DEF Holds
  <2>3. QED BY <2>1, <2>2
<1>8. QED BY <1>3, <1>4, <1>5, <1>6, <1>7 DEF MenusInv

LEMMA ReadForUpdateKeeps ==
  ASSUME MenusInv, NEW p \in MenuRequests, NEW r \in Resources, NEW given \in Given(r), ReadForUpdate(p, r, given)
  PROVE  MenusInv'
<1> DEFINE new == [step |-> "write", resource |-> r, changed |-> DOMAIN given,
                   before |-> row[r], after |-> Merged(r, given)]
<1>1. /\ serving[p].step = "idle" /\ row[r] # NoRow /\ ValidInput(r, given)
      /\ serving' = [serving EXCEPT ![p] = new] /\ disturbed' = Overlaps(r) /\ row' = row /\ trail' = trail
  BY DEF ReadForUpdate
<1>2. FullRow(r, row[r]) /\ row[r] \in PartRows
  BY <1>1 DEF MenusInv, MenusTyped
<1>3. DOMAIN given \subseteq Fields(r)
  <2>1. PICK fs \in SUBSET Fields(r) \ {{}} : given \in [fs -> UNION {ValuesOf(f) : f \in fs}]
    BY DEF Given
  <2>2. QED BY <2>1
<1>4. FullRow(r, Merged(r, given)) /\ Merged(r, given) = [f \in Fields(r) |-> Merged(r, given)[f]]
  BY <1>1, <1>2 DEF FullRow, Merged, ValidInput
<1>5. Merged(r, given) \in PartRows
  BY <1>4, WholeRow
<1>6. /\ new \in Updates /\ new.step = "write" /\ new.resource = r /\ new.before = row[r]
      /\ new.changed \subseteq Fields(r) /\ FullRow(r, new.after)
      /\ \A f \in Fields(r) \ new.changed : new.after[f] = new.before[f]
  BY <1>2, <1>3, <1>4, <1>5, FieldsOfARow DEF Updates, Merged
<1> HIDE DEF new
<1>7. QED BY <1>1, <1>6, JoiningKeeps

LEMMA PreviewRollbackKeeps ==
  ASSUME MenusInv, NEW p \in MenuRequests, NEW i \in DOMAIN trail, PreviewRollback(p, i)
  PROVE  MenusInv'
<1> DEFINE e == trail[i]
           r == trail[i].resource
           new == [step |-> "rollback", resource |-> r, changed |-> e.changed, before |-> row[r],
                   after |-> Restored(e), of |-> i]
<1>1. /\ serving[p].step = "idle" /\ Prepared(e) /\ row[r] # NoRow /\ NoDrift(e)
      /\ serving' = [serving EXCEPT ![p] = new] /\ disturbed' = Overlaps(r) /\ row' = row /\ trail' = trail
  BY DEF PreviewRollback
<1>2. e \in MenuEvents /\ r \in Resources /\ i \in Nat
  BY TrailHolds
<1>3. FullRow(r, row[r]) /\ row[r] \in PartRows
  BY <1>1, <1>2 DEF MenusInv, MenusTyped
<1>4. e.changed \subseteq Fields(r) /\ FullRow(r, e.previous)
  BY <1>1 DEF MenusInv, EventsAreSound, Prepared
<1>5. FullRow(r, Restored(e)) /\ Restored(e) = [f \in Fields(r) |-> Restored(e)[f]]
  BY <1>3, <1>4 DEF FullRow, Restored
<1>6. Restored(e) \in PartRows
  BY <1>2, <1>5, WholeRow
<1>7. /\ new \in Rollbacks /\ new.step = "rollback" /\ new.resource = r /\ new.before = row[r]
      /\ new.changed \subseteq Fields(r) /\ FullRow(r, new.after) /\ new.of = i /\ new.changed = e.changed
      /\ \A f \in Fields(r) : new.after[f] = e.previous[f]
  BY <1>1, <1>2, <1>3, <1>4, <1>5, <1>6, FieldsOfARow DEF Rollbacks, Restored, FullRow
<1> HIDE DEF new
<1>8. RestoresAnUpdate(new)
  BY <1>1, <1>7 DEF RestoresAnUpdate, Prepared
<1>9. QED BY <1>1, <1>2, <1>7, <1>8, JoiningKeeps

\* What the types and the invariant say of a request under way.
LEMMA UnderWay ==
  ASSUME MenusInv, NEW p \in MenuRequests, serving[p].step # "idle", NEW s, s = serving[p]
  PROVE  /\ s \in Updates \cup Rollbacks /\ s.resource \in Resources /\ s.before \in PartRows /\ s.after \in PartRows
         /\ s.changed \subseteq Fields(s.resource) /\ s.changed \in SUBSET AllFields
         /\ FullRow(s.resource, s.before) /\ FullRow(s.resource, s.after)
         /\ s.after # NoRow /\ row[s.resource] # NoRow /\ FullRow(s.resource, row[s.resource])
<1>1. s \in Updates \cup Rollbacks
  BY DEF MenusInv, MenusTyped, AtRest
<1>2. /\ s.resource \in Resources /\ s.before \in PartRows /\ s.after \in PartRows /\ s.changed \in SUBSET AllFields
  BY <1>1 DEF Updates, Rollbacks
<1>3. /\ s.changed \subseteq Fields(s.resource) /\ FullRow(s.resource, s.before) /\ FullRow(s.resource, s.after)
      /\ row[s.resource] # NoRow
  BY DEF MenusInv, RequestsAreSound
<1>4. FullRow(s.resource, row[s.resource])
  BY <1>2, <1>3 DEF MenusInv, MenusTyped
<1>5. s.after # NoRow
  BY <1>2, <1>3, FullRowIsSome
<1>6. QED BY <1>1, <1>2, <1>3, <1>4, <1>5

LEMMA WriteMenuRowKeeps ==
  ASSUME MenusInv, NEW p \in MenuRequests, WriteMenuRow(p) PROVE MenusInv'
<1> PICK s : s = serving[p]
  OBVIOUS
<1> PICK r : r = s.resource
  OBVIOUS
<1> DEFINE new == [s EXCEPT !.step = "audit"]
<1>1. /\ s.step = "write" /\ row' = [row EXCEPT ![r] = s.after] /\ serving' = [serving EXCEPT ![p] = new]
      /\ trail' = trail /\ disturbed' = disturbed
  BY DEF WriteMenuRow
<1>2. /\ s \in Updates /\ r \in Resources /\ s.after \in PartRows /\ s.changed \subseteq Fields(r)
      /\ FullRow(r, s.before) /\ FullRow(r, s.after) /\ s.after # NoRow /\ row[r] # NoRow
  BY <1>1, UnderWay DEF Rollbacks
<1>3. /\ new \in Updates /\ new.step = "audit" /\ new.resource = r /\ new.changed = s.changed
      /\ new.before = s.before /\ new.after = s.after
  BY <1>2 DEF Updates
<1> HIDE DEF new
<1>4. /\ serving' \in [MenuRequests -> {AtRest} \cup Updates \cup Rollbacks]
      /\ serving'[p] = new /\ \A q \in MenuRequests \ {p} : serving'[q] = serving[q]
  BY <1>1, <1>3, ServingChanges
<1>5. /\ row' \in [Resources -> {NoRow} \cup PartRows] /\ row'[r] = s.after
      /\ \A o \in Resources \ {r} : row'[o] = row[o]
  BY <1>1, <1>2 DEF MenusInv, MenusTyped
<1>6. MenusTyped'
  BY <1>1, <1>2, <1>4, <1>5 DEF MenusInv, MenusTyped, FullRow
<1>7. EventsAreSound'
  BY <1>1, <1>2, <1>5, TrailHolds DEF MenusInv, EventsAreSound, FullRow
<1>8. RequestsAreSound'
  <2>1. \A q \in MenuRequests : serving[q].step # "idle" => serving[q].resource \in Resources
    BY UnderWay
  <2>2. \A f \in Fields(r) \ s.changed : s.after[f] = s.before[f]
    BY <1>1 DEF MenusInv, RequestsAreSound
  <2>3. QED BY <1>1, <1>2, <1>3, <1>4, <1>5, <2>1, <2>2 DEF MenusInv, RequestsAreSound, RestoresAnUpdate, FullRow
<1>9. UndisturbedIsAlone'
  <2>1. \A q \in MenuRequests : serving[q].step # "idle" => serving[q].resource \in Resources
    BY UnderWay
  <2>2. r \notin disturbed => \A q \in MenuRequests \ {p} : serving[q].step # "idle" => serving[q].resource # r
    BY <1>1 DEF MenusInv, UndisturbedIsAlone
  <2>3. QED BY <1>1, <1>3, <1>4, <1>5, <2>1, <2>2 DEF MenusInv, UndisturbedIsAlone
<1>10. TrailHasNoGap' /\ ChangesAreTold' /\ RollbackReaches'
  <2>1. \A o : InFlight(o)' = InFlight(o) /\ InFlight(o) \subseteq MenuRequests
    BY <1>1, <1>3, <1>4 DEF InFlight
  <2>2. p \in InFlight(r) /\ \A q \in MenuRequests : serving'[q].before = serving[q].before
    BY <1>1, <1>3, <1>4 DEF InFlight
  <2>3. \A o \in Resources : \A f, v : Holds(o, f, v) => Holds(o, f, v)'
    BY <1>5, <2>1, <2>2 DEF Holds
  <2>4. QED BY <1>1, <2>3, TrailKept
<1>11. QED BY <1>6, <1>7, <1>8, <1>9, <1>10 DEF MenusInv

\* The last statement of a request: its event is told, and its row holds what it made.
LEMMA LeavingKeeps ==
  ASSUME MenusInv, NEW p \in MenuRequests, NEW s, s = serving[p], s.step # "idle",
         NEW r, r = s.resource, NEW e \in MenuEvents, trail' = Append(trail, e),
         serving' = [serving EXCEPT ![p] = AtRest], disturbed' = disturbed,
         e.resource = r, e.changed = s.changed, e.previous = s.before,
         \/ e.kind = "updated" /\ s.step = "audit" /\ e.next = s.after
         \/ e.kind = "rollback" /\ s.step = "rollback" /\ e.of = s.of,
         row' \in [Resources -> {NoRow} \cup PartRows], \A o \in Resources \ {r} : row'[o] = row[o],
         FullRow(r, row'[r]), r \notin disturbed => row'[r] = s.after
  PROVE  MenusInv'
<1>1. /\ r \in Resources /\ s.changed \subseteq Fields(r) /\ FullRow(r, s.before)
  BY UnderWay
<1>2. /\ serving' \in [MenuRequests -> {AtRest} \cup Updates \cup Rollbacks]
      /\ serving'[p] = AtRest /\ AtRest.step = "idle" /\ \A q \in MenuRequests \ {p} : serving'[q] = serving[q]
  BY ServingChanges
<1>3. trail \in Seq(MenuEvents)
  BY DEF MenusInv, MenusTyped
<1> PICK n : n = Len(trail) + 1
  OBVIOUS
<1>4. /\ trail' \in Seq(MenuEvents) /\ DOMAIN trail' = DOMAIN trail \cup {n}
      /\ trail'[n] = e /\ \A i \in DOMAIN trail : trail'[i] = trail[i]
  BY <1>3, TrailGrows
<1>5. row'[r] # NoRow
  BY <1>1, FullRowIsSome
<1>6. MenusTyped'
  BY <1>1, <1>2, <1>4, <1>5 DEF MenusInv, MenusTyped, FullRow
<1>7. EventsAreSound'
  <2>1. e.kind = "updated" => /\ FullRow(r, e.previous) /\ FullRow(r, e.next)
                             /\ \A f \in Fields(r) \ e.changed : e.next[f] = e.previous[f]
    BY <1>1, UnderWay DEF MenusInv, RequestsAreSound
  <2>2. e.kind = "rollback" => e.of \in DOMAIN trail
    BY DEF MenusInv, RequestsAreSound, RestoresAnUpdate
  <2> SUFFICES ASSUME NEW i \in DOMAIN trail'
               PROVE  /\ row'[trail'[i].resource] # NoRow /\ trail'[i].changed \subseteq Fields(trail'[i].resource)
                      /\ trail'[i].kind = "updated" =>
                           /\ FullRow(trail'[i].resource, trail'[i].previous) /\ FullRow(trail'[i].resource, trail'[i].next)
                           /\ \A f \in Fields(trail'[i].resource) \ trail'[i].changed : trail'[i].next[f] = trail'[i].previous[f]
                      /\ trail'[i].kind = "rollback" => trail'[i].of \in DOMAIN trail'
    BY DEF EventsAreSound, FullRow
  <2>3. CASE i \in DOMAIN trail
    <3>1. trail'[i] = trail[i] /\ trail[i].resource \in Resources
      BY <1>4, <2>3, TrailHolds
    <3>2. QED BY <1>4, <1>5, <2>3, <3>1 DEF MenusInv, EventsAreSound
  <2>4. CASE i = n
    BY <1>1, <1>4, <1>5, <2>1, <2>2, <2>4
  <2>5. QED BY <1>4, <2>3, <2>4
<1>8. \A q \in MenuRequests \ {p} : serving[q].step # "idle" => serving[q].resource \in Resources
  BY UnderWay
<1>9. RequestsAreSound'
  <2>1. \A i \in DOMAIN trail : i \in DOMAIN trail' /\ trail'[i] = trail[i]
    BY <1>4
  <2>2. QED BY <1>1, <1>2, <1>5, <1>8, <2>1 DEF MenusInv, RequestsAreSound, RestoresAnUpdate, FullRow
<1>10. r \notin disturbed => \A q \in MenuRequests \ {p} : serving[q].step # "idle" => serving[q].resource # r
  BY DEF MenusInv, UndisturbedIsAlone
<1>11. UndisturbedIsAlone'
  BY <1>2, <1>8, <1>10 DEF MenusInv, UndisturbedIsAlone
<1>12. TrailHasNoGap' /\ ChangesAreTold' /\ RollbackReaches'
  <2>1. \A o \in Resources \ {r} : \A f, v : Holds(o, f, v) => Holds(o, f, v)'
    <3> SUFFICES ASSUME NEW o \in Resources \ {r}, NEW f, NEW v, Holds(o, f, v) PROVE Holds(o, f, v)'
      OBVIOUS
    <3>1. InFlight(o)' = InFlight(o) /\ \A q \in InFlight(o) : serving'[q] = serving[q]
      BY <1>2 DEF InFlight
    <3>2. QED BY <3>1 DEF Holds
  <2>2. p \in InFlight(r) /\ \A f \in Fields(r) : RowLeft(e)[f] = s.after[f]
    BY DEF InFlight, RowLeft, MenusInv, RequestsAreSound, RestoresAnUpdate
  <2>3. e.kind = "rollback" => e.of \in DOMAIN trail
    BY DEF MenusInv, RequestsAreSound, RestoresAnUpdate
  <2>4. ASSUME r \notin disturbed, NEW f \in Fields(r)
        PROVE  /\ \A v : Holds(r, f, v) => e.previous[f] = v
               /\ \A v : v = RowLeft(e)[f] => Holds(r, f, v)'
    <3>1. InFlight(r)' = {}
      BY <1>2, <1>10, <2>4 DEF InFlight
    <3>2. QED BY <2>2, <2>4, <3>1 DEF Holds
  <2>5. ASSUME r \notin disturbed, NEW f \in Fields(r), e.kind = "rollback", f \notin e.changed,
               RowLeft(e)[f] # e.previous[f]
        PROVE  \E k \in e.of+1..Len(trail) : Touched(k, r, f)
    <3>1. RestoresAnUpdate(s)
      BY <2>5 DEF MenusInv, RequestsAreSound
    <3> PICK o : o = s.of
      OBVIOUS
    <3>2. /\ o \in DOMAIN trail /\ trail[o].kind = "updated" /\ trail[o].resource = r /\ e.of = o
          /\ trail[o].next[f] = trail[o].previous[f] /\ s.after[f] = trail[o].previous[f]
      BY <2>5, <3>1 DEF RestoresAnUpdate, MenusInv, EventsAreSound
    <3>3. ~Holds(r, f, trail[o].next[f])
      BY <2>2, <2>5, <3>2 DEF Holds
    <3>4. QED BY <2>5, <3>2, <3>3 DEF MenusInv, ChangesAreTold
  <2>6. QED BY <2>1, <2>3, <2>4, <2>5, TrailExtended
<1>13. QED BY <1>6, <1>7, <1>9, <1>11, <1>12 DEF MenusInv

LEMMA AuditMenuUpdateKeeps ==
  ASSUME MenusInv, NEW p \in MenuRequests, AuditMenuUpdate(p) PROVE MenusInv'
<1> PICK s : s = serving[p]
  OBVIOUS
<1> PICK r : r = s.resource
  OBVIOUS
<1> PICK e : e = UpdateEvent(s)
  OBVIOUS
<1>1. /\ s.step = "audit" /\ trail' = Append(trail, e) /\ serving' = [serving EXCEPT ![p] = AtRest]
      /\ row' = row /\ disturbed' = disturbed
  BY DEF AuditMenuUpdate
<1>2. /\ r \in Resources /\ s.before \in PartRows /\ s.after \in PartRows /\ s.changed \in SUBSET AllFields
      /\ FullRow(r, s.after) /\ FullRow(r, row[r])
  BY <1>1, UnderWay
<1>3. /\ e \in MenuEvents /\ e.resource = r /\ e.changed = s.changed /\ e.previous = s.before /\ e.next = s.after
  BY <1>2 DEF UpdateEvent, Event, MenuEvents
<1>4. /\ row' \in [Resources -> {NoRow} \cup PartRows] /\ FullRow(r, row'[r])
      /\ r \notin disturbed => row'[r] = s.after
  BY <1>1, <1>2 DEF MenusInv, MenusTyped, UndisturbedIsAlone
<1>5. e.kind = "updated" /\ s.step # "idle"
  BY <1>1 DEF UpdateEvent, Event
<1>6. QED BY <1>1, <1>3, <1>4, <1>5, LeavingKeeps

LEMMA ApplyRollbackKeeps ==
  ASSUME MenusInv, NEW p \in MenuRequests, ApplyRollback(p) PROVE MenusInv'
<1> PICK s : s = serving[p]
  OBVIOUS
<1> PICK r : r = s.resource
  OBVIOUS
<1> PICK e : e = RollbackEvent(s)
  OBVIOUS
<1>1. /\ s.step = "rollback" /\ trail' = Append(trail, e) /\ serving' = [serving EXCEPT ![p] = AtRest]
      /\ row' = [row EXCEPT ![r] = s.after] /\ disturbed' = disturbed
  BY DEF ApplyRollback
<1>2. /\ r \in Resources /\ s.before \in PartRows /\ s.after \in PartRows /\ s.changed \in SUBSET AllFields
      /\ FullRow(r, s.after) /\ s.changed \subseteq Fields(r)
  BY <1>1, UnderWay
<1>3. [f \in s.changed |-> s.after[f]] \in PartRows
  <2>1. \A f \in s.changed : s.after[f] \in AllValues
    BY <1>2 DEF FullRow, AllValues
  <2>2. [f \in s.changed |-> s.after[f]] \in [s.changed -> AllValues]
    BY <2>1
  <2>3. QED BY <1>2, <2>2 DEF PartRows
<1>4. /\ e \in MenuEvents /\ e.resource = r /\ e.changed = s.changed /\ e.previous = s.before /\ e.kind = "rollback"
      /\ e.of = s.of
  <2>1. s.of \in Nat
    BY <1>1, UnderWay DEF Rollbacks, Updates
  <2>2. QED BY <1>2, <1>3, <2>1 DEF RollbackEvent, Event, MenuEvents
<1>5. /\ row' \in [Resources -> {NoRow} \cup PartRows] /\ row'[r] = s.after
      /\ \A o \in Resources \ {r} : row'[o] = row[o]
  BY <1>1, <1>2 DEF MenusInv, MenusTyped
<1>6. FullRow(r, row'[r]) /\ e.kind # "updated" /\ s.step # "idle"
  BY <1>1, <1>2, <1>4, <1>5
<1>7. trail' = Append(trail, e) /\ serving' = [serving EXCEPT ![p] = AtRest] /\ disturbed' = disturbed
  BY <1>1
<1>8. /\ e.kind = "rollback" /\ s.step = "rollback" /\ e.of = s.of
      /\ r \notin disturbed => row'[r] = s.after
  BY <1>1, <1>4, <1>5
<1>9. QED BY <1>4, <1>5, <1>6, <1>7, <1>8, LeavingKeeps

LEMMA BreakOffUpdateKeeps ==
  ASSUME MenusInv, NEW p \in MenuRequests, BreakOffUpdate(p) PROVE MenusInv'
<1> PICK r : r = serving[p].resource
  OBVIOUS
<1>1. /\ serving[p].step # "idle" /\ disturbed' = disturbed \cup {r} /\ serving' = [serving EXCEPT ![p] = AtRest]
      /\ row' = row /\ trail' = trail /\ r \in Resources
  BY UnderWay DEF BreakOffUpdate
<1>2. /\ serving' \in [MenuRequests -> {AtRest} \cup Updates \cup Rollbacks]
      /\ serving'[p] = AtRest /\ AtRest.step = "idle" /\ \A q \in MenuRequests \ {p} : serving'[q] = serving[q]
  BY <1>1, ServingChanges
<1>3. MenusTyped' /\ EventsAreSound' /\ RequestsAreSound' /\ UndisturbedIsAlone'
  BY <1>1, <1>2 DEF MenusInv, MenusTyped, EventsAreSound, RequestsAreSound, RestoresAnUpdate, UndisturbedIsAlone, FullRow
<1>4. TrailHasNoGap' /\ ChangesAreTold' /\ RollbackReaches'
  <2> SUFFICES ASSUME NEW o \in Resources \ disturbed', NEW f, NEW v, Holds(o, f, v) PROVE Holds(o, f, v)'
    BY <1>1, TrailKept
  <2>1. InFlight(o)' = InFlight(o) /\ \A q \in InFlight(o) : serving'[q] = serving[q]
    BY <1>1, <1>2 DEF InFlight
  <2>2. QED BY <1>1, <2>1 DEF Holds
<1>5. QED BY <1>3, <1>4 DEF MenusInv

LEMMA MenusStepInv == MenusInv /\ [MenusNext]_menuVars => MenusInv'
<1> SUFFICES ASSUME MenusInv, [MenusNext]_menuVars PROVE MenusInv'
  OBVIOUS
<1>1. CASE MenusNext
  <2>1. \A r \in Resources : \A values \in [Fields(r) -> UNION {ValuesOf(f) : f \in Fields(r)}] :
          CreateMenuRow(r, values) => MenusInv'
    BY CreateMenuRowKeeps
  <2>2. \A p \in MenuRequests, r \in Resources : \A given \in Given(r) : ReadForUpdate(p, r, given) => MenusInv'
    BY ReadForUpdateKeeps
  <2>3. \A p \in MenuRequests, i \in DOMAIN trail : PreviewRollback(p, i) => MenusInv'
    BY PreviewRollbackKeeps
  <2>4. \A p \in MenuRequests :
          WriteMenuRow(p) \/ AuditMenuUpdate(p) \/ BreakOffUpdate(p) \/ ApplyRollback(p) => MenusInv'
    BY WriteMenuRowKeeps, AuditMenuUpdateKeeps, BreakOffUpdateKeeps, ApplyRollbackKeeps
  <2>5. QED BY <1>1, <2>1, <2>2, <2>3, <2>4 DEF MenusNext
<1>2. CASE UNCHANGED menuVars
  <2>1. row' = row /\ trail' = trail /\ serving' = serving /\ disturbed' = disturbed
    BY <1>2 DEF menuVars
  <2>2. MenusTyped' /\ EventsAreSound' /\ RequestsAreSound' /\ UndisturbedIsAlone'
    BY <2>1 DEF MenusInv, MenusTyped, EventsAreSound, RequestsAreSound, RestoresAnUpdate, UndisturbedIsAlone, FullRow
  <2>3. TrailHasNoGap' /\ ChangesAreTold' /\ RollbackReaches'
    BY <2>1, TrailKept DEF Holds, InFlight
  <2>4. QED BY <2>2, <2>3 DEF MenusInv
<1>3. QED BY <1>1, <1>2

\* The invariant says what the runs check of the menus.
LEMMA MenusInvTells == MenusInv => MenusTypeOK /\ TrailTellsTheRow /\ RollbackReaches
<1> SUFFICES ASSUME MenusInv PROVE MenusTypeOK /\ TrailTellsTheRow /\ RollbackReaches
  OBVIOUS
<1>1. MenusTypeOK
  <2>1. \A i \in DOMAIN trail : trail[i].resource \in Resources
    BY TrailHolds
  <2>2. \A p \in MenuRequests : serving[p].step \in {"idle", "write", "audit", "rollback"}
    BY DEF MenusInv, MenusTyped, AtRest, Updates, Rollbacks
  <2>3. QED BY <2>1, <2>2 DEF MenusInv, MenusTyped, MenusTypeOK
<1>2. TrailTellsTheRow
  BY DEF MenusInv, TrailHasNoGap, TrailTellsTheRow, Holds
<1>3. RollbackReaches
  BY DEF MenusInv
<1>4. QED BY <1>1, <1>2, <1>3

\* A menu's trail leads to what the rows hold, once a rollback is read as the return to its
\* original's whole row, and what a rollback changes beyond the columns it names somebody
\* changed after the event it takes back (Menus.TrailTellsTheRow, Menus.RollbackReaches).
THEOREM RollbacksReach == MenusInit /\ [][MenusNext]_menuVars => [](MenusTypeOK /\ TrailTellsTheRow /\ RollbackReaches)
BY MenusInitInv, MenusStepInv, MenusInvTells, PTL

-----------------------------------------------------------------------------
\* Finance reviews

ReviewRows == [subject : ReviewSubjects, status : ReviewStatuses, resolution : BOOLEAN,
               resolvedBy : Reviewers \cup {"nobody"}]
InsertRequests == [step : {"insert"}, subject : ReviewSubjects, by : Reviewers]
UpdateRequests == [step : {"update"}, review : Nat, given : ReviewUpdates, by : Reviewers, before : ReviewRows]

ReviewNotes == [action : {"finance_review_created", "finance_review_updated", "finance_review_resolved", "finance_review_cancelled"},
                from : ReviewStatuses \cup {"none"}, to : ReviewStatuses, by : Reviewers]
ReviewHistories == Seq(ReviewNotes) \ {<<>>}

Inserting == {q \in ReviewRequests : reviewing[q].step = "insert"}

\* What a transaction under way may hold; an update holds its row as it is, and alone.
ReviewsUnderWay ==
  /\ reviewing \in [ReviewRequests -> {NoReview} \cup InsertRequests \cup UpdateRequests]
  /\ \A p \in ReviewRequests : reviewing[p].step = "update" =>
       /\ reviewing[p].review \in DOMAIN reviews
       /\ reviewing[p].before = reviews[reviewing[p].review]
       /\ \A q \in ReviewRequests \ {p} : reviewing[q].step = "update" => reviewing[q].review # reviewing[p].review

\* A creation under way is of a subject without an active review and is the only one, or the twin is explained.
CreationsAreAlone ==
  \A p \in Inserting : reviewing[p].subject \notin rivals \cup reopened =>
    /\ \A i \in DOMAIN reviews : reviews[i].subject = reviewing[p].subject =>
         reviews[i].status \notin ActiveReviewStatuses
    /\ \A q \in Inserting \ {p} : reviewing[q].subject # reviewing[p].subject

RoomIsKept == Len(reviews) + Cardinality(Inserting) <= MaxReviews

FinanceInv == /\ reviews \in Seq(ReviewRows)
              /\ reviewTold \in Seq(ReviewHistories) /\ Len(reviewTold) = Len(reviews)
              /\ ReviewsUnderWay /\ CreationsAreAlone /\ RoomIsKept
              /\ ReviewsTellTheirStory /\ TwinsAreExplained

LEMMA FinanceInitInv == FinanceInit => FinanceInv
<1> SUFFICES ASSUME FinanceInit PROVE FinanceInv
  OBVIOUS
<1>1. /\ reviews = <<>> /\ reviewTold = <<>> /\ reviewing = [p \in ReviewRequests |-> NoReview]
      /\ \A p \in ReviewRequests : reviewing[p].step = "idle"
  BY DEF FinanceInit, NoReview
<1>2. Inserting = {} /\ Cardinality({}) = 0
  BY <1>1, FS_EmptySet DEF Inserting
<1>3. RoomIsKept
  <2>1. Len(reviews) = 0
    BY <1>1
  <2>2. QED BY <1>2, <2>1, FinanceAssumption DEF RoomIsKept
<1>4. ReviewsUnderWay /\ CreationsAreAlone
  BY <1>1, <1>2 DEF ReviewsUnderWay, CreationsAreAlone
<1>5. ReviewsTellTheirStory /\ TwinsAreExplained
  BY <1>1 DEF ReviewsTellTheirStory, TwinsAreExplained
<1>6. QED BY <1>1, <1>3, <1>4, <1>5 DEF FinanceInv

\* A transaction takes its place, or leaves it.
LEMMA PlaceTaken ==
  ASSUME FinanceInv, NEW p \in ReviewRequests, NEW new, reviewing' = [reviewing EXCEPT ![p] = new]
  PROVE  /\ reviewing'[p] = new /\ \A q \in ReviewRequests \ {p} : reviewing'[q] = reviewing[q]
         /\ IsFiniteSet(Inserting) /\ Cardinality(Inserting) \in Nat
         /\ new.step = "insert" => Inserting' = Inserting \cup {p}
         /\ new.step # "insert" => Inserting' = Inserting \ {p}
         /\ IsFiniteSet(Inserting') /\ Cardinality(Inserting') \in Nat /\ NoReview.step = "idle"
<1>1. reviewing'[p] = new /\ \A q \in ReviewRequests \ {p} : reviewing'[q] = reviewing[q]
  BY DEF FinanceInv, ReviewsUnderWay
<1>2. Inserting \subseteq ReviewRequests /\ Inserting' \subseteq ReviewRequests
  BY DEF Inserting
<1>3. IsFiniteSet(Inserting) /\ IsFiniteSet(Inserting')
  BY <1>2, FinanceAssumption, FS_Subset
<1>4. Cardinality(Inserting) \in Nat /\ Cardinality(Inserting') \in Nat
  BY <1>3, FS_CardinalityType
<1>5. new.step = "insert" => Inserting' = Inserting \cup {p}
  BY <1>1 DEF Inserting
<1>6. new.step # "insert" => Inserting' = Inserting \ {p}
  BY <1>1 DEF Inserting
<1>7. NoReview.step = "idle"
  BY DEF NoReview
<1>8. QED BY <1>1, <1>3, <1>4, <1>5, <1>6, <1>7

LEMMA CheckForReviewKeeps ==
  ASSUME FinanceInv, NEW p \in ReviewRequests, NEW s \in ReviewSubjects, NEW by \in Reviewers,
         CheckForReview(p, s, by)
  PROVE  FinanceInv'
<1> DEFINE new == [step |-> "insert", subject |-> s, by |-> by]
<1>1. /\ reviewing[p] = NoReview /\ ~Tracked(s) /\ Len(reviews) + Cardinality(Inserting) < MaxReviews
      /\ reviewing' = [reviewing EXCEPT ![p] = new]
      /\ rivals' = (IF \E q \in ReviewRequests : reviewing[q].step = "insert" /\ reviewing[q].subject = s
                      THEN rivals \cup {s} ELSE rivals)
      /\ UNCHANGED <<reviews, reviewTold, reopened>>
  BY DEF CheckForReview, Inserting
<1>2. new \in InsertRequests /\ new.step = "insert" /\ new.subject = s
  BY DEF InsertRequests
<1> HIDE DEF new
<1>3. /\ reviewing'[p] = new /\ \A q \in ReviewRequests \ {p} : reviewing'[q] = reviewing[q]
      /\ IsFiniteSet(Inserting) /\ Cardinality(Inserting) \in Nat /\ Inserting' = Inserting \cup {p}
  BY <1>1, <1>2, PlaceTaken
<1>4. p \notin Inserting
  BY <1>1 DEF Inserting, NoReview
<1>5. RoomIsKept'
  <2>1. Cardinality(Inserting') = Cardinality(Inserting) + 1
    BY <1>3, <1>4, FS_AddElement
  <2>2. Len(reviews) \in Nat
    BY DEF FinanceInv
  <2>3. QED BY <1>1, <1>3, <2>1, <2>2, FinanceAssumption DEF RoomIsKept
<1>6. ReviewsUnderWay'
  <2>1. reviewing' \in [ReviewRequests -> {NoReview} \cup InsertRequests \cup UpdateRequests]
    BY <1>1, <1>2 DEF FinanceInv, ReviewsUnderWay
  <2>2. QED BY <1>1, <1>2, <1>3, <2>1 DEF FinanceInv, ReviewsUnderWay
<1>7. CreationsAreAlone'
  <2> SUFFICES ASSUME NEW r \in Inserting', reviewing'[r].subject \notin rivals' \cup reopened'
               PROVE  /\ \A i \in DOMAIN reviews' : reviews'[i].subject = reviewing'[r].subject =>
                           reviews'[i].status \notin ActiveReviewStatuses
                      /\ \A q \in Inserting' \ {r} : reviewing'[q].subject # reviewing'[r].subject
    BY DEF CreationsAreAlone
  <2>0. rivals \subseteq rivals' /\ reopened' = reopened /\ Inserting \subseteq ReviewRequests
    BY <1>1 DEF Inserting
  <2>1. \A i \in DOMAIN reviews : reviews[i].subject = s => reviews[i].status \notin ActiveReviewStatuses
    BY <1>1 DEF Tracked
  <2>2. \A q \in Inserting : reviewing[q].subject = s => s \in rivals'
    BY <1>1 DEF Inserting
  <2>3. CASE r = p
    <3>1. reviewing'[r].subject = s /\ s \notin rivals'
      BY <1>2, <1>3, <2>3
    <3>2. \A q \in Inserting' \ {r} : q \in Inserting /\ q # p /\ reviewing'[q] = reviewing[q]
      BY <1>3, <2>0, <2>3
    <3>3. QED BY <1>1, <2>1, <2>2, <3>1, <3>2
  <2>4. CASE r # p
    <3>1. r \in Inserting /\ reviewing'[r] = reviewing[r]
      BY <1>3, <2>0, <2>4
    <3>2. reviewing[r].subject \notin rivals \cup reopened /\ reviewing[r].subject # s
      BY <2>0, <2>2, <3>1
    <3>3. /\ \A i \in DOMAIN reviews : reviews[i].subject = reviewing[r].subject =>
               reviews[i].status \notin ActiveReviewStatuses
          /\ \A q \in Inserting \ {r} : reviewing[q].subject # reviewing[r].subject
      BY <3>1, <3>2 DEF FinanceInv, CreationsAreAlone
    <3>4. \A q \in Inserting' \ {r} : reviewing'[q].subject # reviewing'[r].subject
      BY <1>2, <1>3, <2>0, <3>1, <3>2, <3>3
    <3>5. QED BY <1>1, <3>1, <3>3, <3>4
  <2>5. QED BY <2>3, <2>4
<1>8. ReviewsTellTheirStory' /\ TwinsAreExplained'
  BY <1>1 DEF FinanceInv, ReviewsTellTheirStory, TwinsAreExplained, LastTold
<1>9. QED BY <1>1, <1>5, <1>6, <1>7, <1>8 DEF FinanceInv

LEMMA InsertReviewKeeps ==
  ASSUME FinanceInv, NEW p \in ReviewRequests, InsertReview(p) PROVE FinanceInv'
<1> DEFINE s == reviewing[p].subject
           kept == NewReview(reviewing[p].subject)
           note == ReviewEvent("finance_review_created", "none", "OPEN", reviewing[p].by)
<1>1. /\ reviewing[p].step = "insert" /\ reviews' = Append(reviews, kept) /\ reviewTold' = Append(reviewTold, <<note>>)
      /\ reviewing' = [reviewing EXCEPT ![p] = NoReview] /\ rivals' = rivals /\ reopened' = reopened
  BY DEF InsertReview
<1>2. p \in Inserting /\ reviewing[p] \in InsertRequests
  BY <1>1 DEF Inserting, FinanceInv, ReviewsUnderWay, NoReview, UpdateRequests
<1>3. /\ reviewing'[p] = NoReview /\ \A q \in ReviewRequests \ {p} : reviewing'[q] = reviewing[q]
      /\ IsFiniteSet(Inserting) /\ Cardinality(Inserting) \in Nat /\ Inserting' = Inserting \ {p}
      /\ NoReview.step = "idle"
  <2>1. NoReview.step = "idle"
    BY DEF NoReview
  <2>2. QED BY <1>1, <2>1, PlaceTaken
<1>4. /\ kept \in ReviewRows /\ kept.subject = s /\ kept.status = "OPEN" /\ s \in ReviewSubjects
      /\ <<note>> \in ReviewHistories /\ note.to = "OPEN"
  BY <1>2 DEF NewReview, ReviewRows, InsertRequests, ReviewEvent, ReviewNotes, ReviewHistories, ReviewStatuses
<1>5. /\ reviews \in Seq(ReviewRows) /\ reviewTold \in Seq(ReviewHistories) /\ Len(reviewTold) = Len(reviews)
      /\ Len(reviews) \in Nat /\ DOMAIN reviews = 1..Len(reviews) /\ DOMAIN reviewTold = DOMAIN reviews
  BY DEF FinanceInv
<1> HIDE DEF kept, note
<1>6. /\ reviews' \in Seq(ReviewRows) /\ reviewTold' \in Seq(ReviewHistories) /\ Len(reviewTold') = Len(reviews')
      /\ Len(reviews') = Len(reviews) + 1 /\ DOMAIN reviews' = 1..(Len(reviews) + 1)
      /\ reviews'[Len(reviews) + 1] = kept /\ reviewTold'[Len(reviews) + 1] = <<note>>
      /\ \A i \in DOMAIN reviews : i \in DOMAIN reviews' /\ reviews'[i] = reviews[i] /\ reviewTold'[i] = reviewTold[i]
      /\ \A i \in DOMAIN reviews' : i \in DOMAIN reviews \/ i = Len(reviews) + 1
  BY <1>1, <1>4, <1>5
<1>7. RoomIsKept'
  <2>1. Cardinality(Inserting') = Cardinality(Inserting) - 1
    BY <1>2, <1>3, FS_RemoveElement
  <2>2. QED BY <1>3, <1>5, <1>6, <2>1, FinanceAssumption DEF FinanceInv, RoomIsKept
<1>8. ReviewsUnderWay'
  <2>1. reviewing' \in [ReviewRequests -> {NoReview} \cup InsertRequests \cup UpdateRequests]
    BY <1>1 DEF FinanceInv, ReviewsUnderWay
  <2>2. QED BY <1>3, <1>6, <2>1 DEF FinanceInv, ReviewsUnderWay
<1>9. CreationsAreAlone'
  <2> SUFFICES ASSUME NEW r \in Inserting', reviewing'[r].subject \notin rivals' \cup reopened'
               PROVE  /\ \A i \in DOMAIN reviews' : reviews'[i].subject = reviewing'[r].subject =>
                           reviews'[i].status \notin ActiveReviewStatuses
                      /\ \A q \in Inserting' \ {r} : reviewing'[q].subject # reviewing'[r].subject
    BY DEF CreationsAreAlone
  <2>1. r \in Inserting /\ r # p /\ Inserting \subseteq ReviewRequests /\ reviewing'[r] = reviewing[r]
    BY <1>3 DEF Inserting
  <2>2. /\ \A i \in DOMAIN reviews : reviews[i].subject = reviewing[r].subject =>
             reviews[i].status \notin ActiveReviewStatuses
        /\ \A q \in Inserting \ {r} : reviewing[q].subject # reviewing[r].subject
    BY <1>1, <2>1 DEF FinanceInv, CreationsAreAlone
  <2>3. reviewing[r].subject # s
    BY <1>2, <2>1, <2>2
  <2>4. \A i \in DOMAIN reviews' : reviews'[i].subject = reviewing'[r].subject =>
          reviews'[i].status \notin ActiveReviewStatuses
    BY <1>4, <1>6, <2>1, <2>2, <2>3
  <2>5. QED BY <1>3, <2>1, <2>2, <2>4
<1>10. ReviewsTellTheirStory'
  <2> SUFFICES ASSUME NEW i \in DOMAIN reviews'
               PROVE  /\ \A k \in 2..Len(reviewTold'[i]) : reviewTold'[i][k].from = reviewTold'[i][k - 1].to
                      /\ LastTold(i)'.to = reviews'[i].status
                      /\ reviews'[i].status \notin ActiveReviewStatuses =>
                           reviews'[i].resolvedBy = LastTold(i)'.by /\ reviews'[i].resolution
    BY DEF ReviewsTellTheirStory
  <2>1. CASE i \in DOMAIN reviews
    <3>1. reviews'[i] = reviews[i] /\ reviewTold'[i] = reviewTold[i]
      BY <1>6, <2>1
    <3>2. LastTold(i)' = LastTold(i)
      BY <3>1 DEF LastTold
    <3>3. QED BY <2>1, <3>1, <3>2 DEF FinanceInv, ReviewsTellTheirStory
  <2>2. CASE i = Len(reviews) + 1
    <3>1. reviewTold'[i] = <<note>> /\ Len(<<note>>) = 1 /\ <<note>>[1] = note /\ reviews'[i] = kept
      BY <1>6, <2>2
    <3>2. LastTold(i)' = note
      BY <3>1 DEF LastTold
    <3>3. QED BY <1>4, <3>1, <3>2 DEF ActiveReviewStatuses
  <2>3. QED BY <1>6, <2>1, <2>2
<1>11. TwinsAreExplained'
  <2>1. s \notin rivals \cup reopened =>
          \A i \in DOMAIN reviews : reviews[i].subject = s => reviews[i].status \notin ActiveReviewStatuses
    BY <1>2 DEF FinanceInv, CreationsAreAlone
  <2> SUFFICES ASSUME NEW i \in DOMAIN reviews', NEW j \in DOMAIN reviews', i # j,
                      reviews'[i].subject = reviews'[j].subject,
                      reviews'[i].status \in ActiveReviewStatuses, reviews'[j].status \in ActiveReviewStatuses
               PROVE  reviews'[i].subject \in rivals \cup reopened
    BY <1>1 DEF TwinsAreExplained
  <2>2. CASE i \in DOMAIN reviews /\ j \in DOMAIN reviews
    BY <1>6, <2>2 DEF FinanceInv, TwinsAreExplained
  <2>3. CASE i \notin DOMAIN reviews
    BY <1>4, <1>6, <2>1, <2>3
  <2>4. CASE j \notin DOMAIN reviews
    BY <1>4, <1>6, <2>1, <2>4
  <2>5. QED BY <2>2, <2>3, <2>4
<1>12. QED BY <1>6, <1>7, <1>8, <1>9, <1>10, <1>11 DEF FinanceInv

LEMMA LockReviewKeeps ==
  ASSUME FinanceInv, NEW p \in ReviewRequests, NEW i \in DOMAIN reviews, NEW given \in ReviewUpdates,
         NEW by \in Reviewers, LockReview(p, i, given, by)
  PROVE  FinanceInv'
<1> DEFINE new == [step |-> "update", review |-> i, given |-> given, by |-> by, before |-> reviews[i]]
<1>1. /\ reviewing[p] = NoReview /\ ReviewFree(i) /\ reviewing' = [reviewing EXCEPT ![p] = new]
      /\ reviews' = reviews /\ reviewTold' = reviewTold /\ rivals' = rivals /\ reopened' = reopened
  BY DEF LockReview
<1>2. /\ new \in UpdateRequests /\ new.step = "update" /\ new.review = i /\ new.before = reviews[i]
  BY DEF UpdateRequests, FinanceInv
<1> HIDE DEF new
<1>3. /\ reviewing'[p] = new /\ \A q \in ReviewRequests \ {p} : reviewing'[q] = reviewing[q]
      /\ Inserting' = Inserting \ {p} /\ NoReview.step = "idle"
  BY <1>1, <1>2, PlaceTaken
<1>4. Inserting' = Inserting
  BY <1>1, <1>3 DEF Inserting
<1>5. RoomIsKept'
  BY <1>1, <1>4 DEF FinanceInv, RoomIsKept
<1>6. ReviewsUnderWay'
  <2>1. reviewing' \in [ReviewRequests -> {NoReview} \cup InsertRequests \cup UpdateRequests]
    BY <1>1, <1>2 DEF FinanceInv, ReviewsUnderWay
  <2>2. QED BY <1>1, <1>2, <1>3, <2>1 DEF FinanceInv, ReviewsUnderWay, ReviewFree
<1>7. CreationsAreAlone'
  <2>1. \A r \in Inserting : reviewing'[r] = reviewing[r]
    BY <1>1, <1>3 DEF Inserting
  <2>2. QED BY <1>1, <1>4, <2>1 DEF FinanceInv, CreationsAreAlone
<1>8. ReviewsTellTheirStory' /\ TwinsAreExplained'
  BY <1>1 DEF FinanceInv, ReviewsTellTheirStory, TwinsAreExplained, LastTold
<1>9. QED BY <1>1, <1>5, <1>6, <1>7, <1>8 DEF FinanceInv

LEMMA AbandonReviewKeeps ==
  ASSUME FinanceInv, NEW p \in ReviewRequests, AbandonReview(p) PROVE FinanceInv'
<1>1. /\ reviewing' = [reviewing EXCEPT ![p] = NoReview]
      /\ reviews' = reviews /\ reviewTold' = reviewTold /\ rivals' = rivals /\ reopened' = reopened
  BY DEF AbandonReview
<1>2. NoReview.step = "idle"
  BY DEF NoReview
<1>3. /\ reviewing'[p] = NoReview /\ \A q \in ReviewRequests \ {p} : reviewing'[q] = reviewing[q]
      /\ IsFiniteSet(Inserting) /\ Cardinality(Inserting) \in Nat /\ Inserting' = Inserting \ {p}
      /\ Cardinality(Inserting') \in Nat
  BY <1>1, <1>2, PlaceTaken
<1>4. RoomIsKept'
  <2>1. Cardinality(Inserting') <= Cardinality(Inserting)
    BY <1>3, FS_Subset
  <2>2. Len(reviews) \in Nat
    BY DEF FinanceInv
  <2>3. QED BY <1>1, <1>3, <2>1, <2>2, FinanceAssumption DEF FinanceInv, RoomIsKept
<1>5. ReviewsUnderWay'
  <2>1. reviewing' \in [ReviewRequests -> {NoReview} \cup InsertRequests \cup UpdateRequests]
    BY <1>1 DEF FinanceInv, ReviewsUnderWay
  <2>2. QED BY <1>1, <1>2, <1>3, <2>1 DEF FinanceInv, ReviewsUnderWay
<1>6. CreationsAreAlone'
  <2>1. \A r \in Inserting' : r \in Inserting /\ reviewing'[r] = reviewing[r]
    BY <1>3 DEF Inserting
  <2>2. QED BY <1>1, <1>3, <2>1 DEF FinanceInv, CreationsAreAlone
<1>7. ReviewsTellTheirStory' /\ TwinsAreExplained'
  BY <1>1 DEF FinanceInv, ReviewsTellTheirStory, TwinsAreExplained, LastTold
<1>8. QED BY <1>1, <1>4, <1>5, <1>6, <1>7 DEF FinanceInv

\* The row an update writes: closed only with a resolution and by the one who writes it.
LEMMA UpdatedRow ==
  ASSUME NEW r \in UpdateRequests, RowAllowed(UpdatedReview(r))
  PROVE  /\ UpdatedReview(r) \in ReviewRows /\ UpdatedReview(r).subject = r.before.subject
         /\ UpdatedReview(r).status = NextReviewStatus(r) /\ NextReviewStatus(r) \in ReviewStatuses
         /\ UpdatedReview(r).status \notin ActiveReviewStatuses =>
              IsCloseout(r) /\ UpdatedReview(r).resolvedBy = r.by /\ UpdatedReview(r).resolution
         /\ UpdatedReview(r).status \in ActiveReviewStatuses => ~IsCloseout(r)
<1>1. /\ r.before \in ReviewRows /\ r.by \in Reviewers /\ r.given \in ReviewUpdates
  BY DEF UpdateRequests
<1>2. r.given.status \in ReviewStatuses \cup {Keep} /\ r.before.status \in ReviewStatuses
  BY <1>1 DEF ReviewUpdates, ReviewRows
<1>3. NextReviewStatus(r) \in ReviewStatuses
  BY <1>2 DEF NextReviewStatus
<1>4. IsCloseout(r) \in BOOLEAN /\ (IsCloseout(r) <=> NextReviewStatus(r) \notin ActiveReviewStatuses)
  BY <1>3 DEF IsCloseout, ReviewStatuses, ActiveReviewStatuses
<1> DEFINE res == IF r.given.resolution = Keep THEN r.before.resolution ELSE r.given.resolution = "given"
           by == IF IsCloseout(r) THEN r.by ELSE r.before.resolvedBy
<1>5. res \in BOOLEAN /\ by \in Reviewers \cup {"nobody"}
  BY <1>1 DEF ReviewRows
<1>6. UpdatedReview(r) = [r.before EXCEPT !.status = NextReviewStatus(r), !.resolution = res, !.resolvedBy = by]
  BY DEF UpdatedReview
<1> HIDE DEF res
<1>7. /\ UpdatedReview(r) \in ReviewRows /\ UpdatedReview(r).subject = r.before.subject
      /\ UpdatedReview(r).status = NextReviewStatus(r) /\ UpdatedReview(r).resolvedBy = by
  BY <1>1, <1>3, <1>5, <1>6 DEF ReviewRows
<1>8. UpdatedReview(r).status \notin ActiveReviewStatuses => UpdatedReview(r).resolution
  BY DEF RowAllowed
<1>9. QED BY <1>3, <1>4, <1>7, <1>8

LEMMA WriteReviewKeeps ==
  ASSUME FinanceInv, NEW p \in ReviewRequests, WriteReview(p) PROVE FinanceInv'
<1> DEFINE r == reviewing[p]
           i == r.review
           kept == UpdatedReview(reviewing[p])
           note == ReviewEvent(UpdateAction(NextReviewStatus(reviewing[p])), reviewing[p].before.status,
                               NextReviewStatus(reviewing[p]), reviewing[p].by)
<1>1. /\ r.step = "update" /\ RowAllowed(kept)
      /\ reviews' = [reviews EXCEPT ![i] = kept]
      /\ reviewTold' = [reviewTold EXCEPT ![i] = Append(reviewTold[i], note)]
      /\ reviewing' = [reviewing EXCEPT ![p] = NoReview] /\ rivals' = rivals
      /\ reopened' = (IF r.before.status \notin ActiveReviewStatuses /\ ~IsCloseout(r)
                        THEN reopened \cup {r.before.subject} ELSE reopened)
  BY DEF WriteReview
<1>2. /\ r \in UpdateRequests /\ i \in DOMAIN reviews /\ r.before = reviews[i]
      /\ \A q \in ReviewRequests \ {p} : reviewing[q].step = "update" => reviewing[q].review # i
  BY <1>1 DEF FinanceInv, ReviewsUnderWay, NoReview, InsertRequests
<1>3. /\ kept \in ReviewRows /\ kept.subject = reviews[i].subject /\ kept.status = NextReviewStatus(r)
      /\ NextReviewStatus(r) \in ReviewStatuses
      /\ kept.status \notin ActiveReviewStatuses => IsCloseout(r) /\ kept.resolvedBy = r.by /\ kept.resolution
      /\ kept.status \in ActiveReviewStatuses => ~IsCloseout(r)
  BY <1>1, <1>2, UpdatedRow
<1>4. note \in ReviewNotes /\ note.from = reviews[i].status /\ note.to = kept.status /\ note.by = r.by
  <2>1. reviews[i].status \in ReviewStatuses /\ r.by \in Reviewers
    BY <1>2 DEF UpdateRequests, ReviewRows
  <2>2. UpdateAction(NextReviewStatus(r)) \in {"finance_review_updated", "finance_review_resolved", "finance_review_cancelled"}
    BY DEF UpdateAction
  <2>3. QED BY <1>2, <1>3, <2>1, <2>2 DEF ReviewEvent, ReviewNotes
<1>5. /\ reviews \in Seq(ReviewRows) /\ reviewTold \in Seq(ReviewHistories) /\ Len(reviewTold) = Len(reviews)
      /\ Len(reviews) \in Nat /\ DOMAIN reviews = 1..Len(reviews) /\ DOMAIN reviewTold = DOMAIN reviews
      /\ reviewTold[i] \in Seq(ReviewNotes) /\ Len(reviewTold[i]) \in Nat /\ Len(reviewTold[i]) >= 1
  <2>1. /\ reviews \in Seq(ReviewRows) /\ reviewTold \in Seq(ReviewHistories) /\ Len(reviewTold) = Len(reviews)
        /\ Len(reviews) \in Nat /\ DOMAIN reviews = 1..Len(reviews) /\ DOMAIN reviewTold = DOMAIN reviews
    BY DEF FinanceInv
  <2>2. reviewTold[i] \in Seq(ReviewNotes) /\ reviewTold[i] # <<>>
    BY <1>2, <2>1 DEF ReviewHistories
  <2>3. QED BY <2>1, <2>2
<1> HIDE DEF kept, note, r, i
<1> DEFINE long == Append(reviewTold[i], note)
<1>6. /\ long \in Seq(ReviewNotes) /\ long # <<>> /\ Len(long) = Len(reviewTold[i]) + 1
      /\ long[Len(reviewTold[i]) + 1] = note
      /\ \A k \in 1..Len(reviewTold[i]) : long[k] = reviewTold[i][k]
  BY <1>4, <1>5
<1>7. /\ reviews' \in Seq(ReviewRows) /\ Len(reviews') = Len(reviews) /\ DOMAIN reviews' = DOMAIN reviews
      /\ reviews'[i] = kept /\ \A j \in DOMAIN reviews \ {i} : reviews'[j] = reviews[j]
  BY <1>1, <1>2, <1>3, <1>5
<1>8. /\ reviewTold' \in Seq(ReviewHistories) /\ Len(reviewTold') = Len(reviewTold)
      /\ reviewTold'[i] = long /\ \A j \in DOMAIN reviews \ {i} : reviewTold'[j] = reviewTold[j]
  <2>1. long \in ReviewHistories
    BY <1>6 DEF ReviewHistories
  <2>2. reviewTold' = [reviewTold EXCEPT ![i] = long]
    BY <1>1
  <2> HIDE DEF long
  <2>3. QED BY <1>2, <1>5, <2>1, <2>2
<1>9. /\ reviewing'[p] = NoReview /\ \A q \in ReviewRequests \ {p} : reviewing'[q] = reviewing[q]
      /\ Inserting' = Inserting \ {p} /\ NoReview.step = "idle"
  <2>1. NoReview.step = "idle"
    BY DEF NoReview
  <2>2. QED BY <1>1, <2>1, PlaceTaken
<1>10. Inserting' = Inserting
  BY <1>1, <1>9 DEF Inserting, r
<1>11. RoomIsKept'
  BY <1>7, <1>10 DEF FinanceInv, RoomIsKept
<1>12. ReviewsUnderWay'
  <2>1. reviewing' \in [ReviewRequests -> {NoReview} \cup InsertRequests \cup UpdateRequests]
    BY <1>1 DEF FinanceInv, ReviewsUnderWay
  <2> SUFFICES ASSUME NEW q \in ReviewRequests, reviewing'[q].step = "update"
               PROVE  /\ reviewing'[q].review \in DOMAIN reviews'
                      /\ reviewing'[q].before = reviews'[reviewing'[q].review]
                      /\ \A o \in ReviewRequests \ {q} :
                           reviewing'[o].step = "update" => reviewing'[o].review # reviewing'[q].review
    BY <2>1 DEF ReviewsUnderWay
  <2>2. q # p /\ reviewing'[q] = reviewing[q] /\ reviewing[q].review # i
    BY <1>2, <1>9
  <2>3. /\ reviewing[q].review \in DOMAIN reviews /\ reviewing[q].before = reviews[reviewing[q].review]
        /\ \A o \in ReviewRequests \ {q} : reviewing[o].step = "update" => reviewing[o].review # reviewing[q].review
    BY <2>2 DEF FinanceInv, ReviewsUnderWay
  <2>4. QED BY <1>7, <1>9, <2>2, <2>3
<1>13. \A j \in DOMAIN reviews : /\ reviews'[j].subject = reviews[j].subject
                                 /\ reviews'[j].subject \notin reopened' =>
                                      (reviews'[j].status \in ActiveReviewStatuses => reviews[j].status \in ActiveReviewStatuses)
  <2> SUFFICES ASSUME NEW j \in DOMAIN reviews
               PROVE  /\ reviews'[j].subject = reviews[j].subject
                      /\ reviews'[j].subject \notin reopened' =>
                           (reviews'[j].status \in ActiveReviewStatuses => reviews[j].status \in ActiveReviewStatuses)
    OBVIOUS
  <2>1. CASE j = i
    BY <1>1, <1>2, <1>3, <1>7, <2>1
  <2>2. CASE j # i
    BY <1>7, <2>2
  <2>3. QED BY <2>1, <2>2
<1>14. reopened \subseteq reopened'
  BY <1>1
<1>15. CreationsAreAlone'
  <2> SUFFICES ASSUME NEW q \in Inserting', reviewing'[q].subject \notin rivals' \cup reopened'
               PROVE  /\ \A j \in DOMAIN reviews' : reviews'[j].subject = reviewing'[q].subject =>
                           reviews'[j].status \notin ActiveReviewStatuses
                      /\ \A o \in Inserting' \ {q} : reviewing'[o].subject # reviewing'[q].subject
    BY DEF CreationsAreAlone
  <2>1. \A o \in Inserting : reviewing'[o] = reviewing[o]
    BY <1>9, <1>10 DEF Inserting
  <2>2. q \in Inserting /\ reviewing[q].subject \notin rivals \cup reopened
    BY <1>1, <1>10, <1>14, <2>1
  <2>3. /\ \A j \in DOMAIN reviews : reviews[j].subject = reviewing[q].subject =>
             reviews[j].status \notin ActiveReviewStatuses
        /\ \A o \in Inserting \ {q} : reviewing[o].subject # reviewing[q].subject
    BY <2>2 DEF FinanceInv, CreationsAreAlone
  <2>4. QED BY <1>7, <1>10, <1>13, <2>1, <2>2, <2>3
<1>16. TwinsAreExplained'
  <2> SUFFICES ASSUME NEW j \in DOMAIN reviews, NEW k \in DOMAIN reviews, j # k,
                      reviews'[j].subject = reviews'[k].subject,
                      reviews'[j].status \in ActiveReviewStatuses, reviews'[k].status \in ActiveReviewStatuses,
                      reviews'[j].subject \notin rivals \cup reopened'
               PROVE  FALSE
    BY <1>1, <1>7 DEF TwinsAreExplained
  <2>1. /\ reviews[j].subject = reviews[k].subject /\ reviews[j].subject \notin rivals \cup reopened
        /\ reviews[j].status \in ActiveReviewStatuses /\ reviews[k].status \in ActiveReviewStatuses
    BY <1>13, <1>14
  <2>2. QED BY <2>1 DEF FinanceInv, TwinsAreExplained
<1>17. ReviewsTellTheirStory'
  <2> SUFFICES ASSUME NEW j \in DOMAIN reviews
               PROVE  /\ \A k \in 2..Len(reviewTold'[j]) : reviewTold'[j][k].from = reviewTold'[j][k - 1].to
                      /\ LastTold(j)'.to = reviews'[j].status
                      /\ reviews'[j].status \notin ActiveReviewStatuses =>
                           reviews'[j].resolvedBy = LastTold(j)'.by /\ reviews'[j].resolution
    BY <1>7 DEF ReviewsTellTheirStory
  <2>0. /\ \A k \in 2..Len(reviewTold[j]) : reviewTold[j][k].from = reviewTold[j][k - 1].to
        /\ LastTold(j).to = reviews[j].status
        /\ reviews[j].status \notin ActiveReviewStatuses =>
             reviews[j].resolvedBy = LastTold(j).by /\ reviews[j].resolution
    BY DEF FinanceInv, ReviewsTellTheirStory
  <2>1. CASE j # i
    <3>1. reviews'[j] = reviews[j] /\ reviewTold'[j] = reviewTold[j] /\ LastTold(j)' = LastTold(j)
      BY <1>7, <1>8, <2>1 DEF LastTold
    <3>2. QED BY <2>0, <3>1
  <2>2. CASE j = i
    <3>1. LastTold(j)' = note
      BY <1>6, <1>8, <2>2 DEF LastTold
    <3>2. reviewTold[i][Len(reviewTold[i])].to = reviews[i].status
      BY <2>0, <2>2 DEF LastTold
    <3>5. /\ reviews'[j].status = note.to
          /\ reviews'[j].status \notin ActiveReviewStatuses => reviews'[j].resolvedBy = note.by /\ reviews'[j].resolution
      BY <1>3, <1>4, <1>7, <1>8, <2>2
    <3>6. reviewTold'[j] = long
      BY <1>7, <1>8, <2>2
    <3> SUFFICES ASSUME NEW k \in 2..Len(long) PROVE long[k].from = long[k - 1].to
      BY <3>1, <3>5, <3>6
    <3>3. CASE k \in 2..Len(reviewTold[i])
      <4>1. k \in 1..Len(reviewTold[i]) /\ k - 1 \in 1..Len(reviewTold[i])
        BY <1>5, <3>3
      <4>2. QED BY <1>6, <2>0, <2>2, <3>3, <4>1
    <3>4. CASE k = Len(reviewTold[i]) + 1
      <4>1. k - 1 = Len(reviewTold[i]) /\ k - 1 \in 1..Len(reviewTold[i])
        BY <1>5, <3>4
      <4>2. QED BY <1>4, <1>6, <3>2, <3>4, <4>1
    <3>7. QED BY <1>5, <1>6, <3>3, <3>4
  <2>3. QED BY <2>1, <2>2
<1>18. QED BY <1>7, <1>8, <1>5, <1>11, <1>12, <1>15, <1>16, <1>17 DEF FinanceInv

LEMMA FinanceStepInv == FinanceInv /\ [FinanceNext]_financeVars => FinanceInv'
<1> SUFFICES ASSUME FinanceInv, [FinanceNext]_financeVars PROVE FinanceInv'
  OBVIOUS
<1>1. CASE FinanceNext
  <2>1. PICK p \in ReviewRequests :
          \/ \E s \in ReviewSubjects, by \in Reviewers : CheckForReview(p, s, by)
          \/ \E i \in DOMAIN reviews, given \in ReviewUpdates, by \in Reviewers : LockReview(p, i, given, by)
          \/ InsertReview(p) \/ WriteReview(p) \/ AbandonReview(p)
    BY <1>1 DEF FinanceNext
  <2>2. QED BY <2>1, CheckForReviewKeeps, LockReviewKeeps, InsertReviewKeeps, WriteReviewKeeps, AbandonReviewKeeps
<1>2. CASE UNCHANGED financeVars
  BY <1>2 DEF financeVars, FinanceInv, ReviewsUnderWay, CreationsAreAlone, RoomIsKept, Inserting,
              ReviewsTellTheirStory, LastTold, TwinsAreExplained
<1>3. QED BY <1>1, <1>2

LEMMA FinanceInvTyped == FinanceInv => FinanceTypeOK
<1> SUFFICES ASSUME FinanceInv PROVE FinanceTypeOK
  OBVIOUS
<1>1. \A i \in DOMAIN reviews : reviews[i] \in ReviewRows
  BY DEF FinanceInv
<1>2. Len(reviewTold) = Len(reviews) /\ Len(reviews) <= MaxReviews
  <2>1. IsFiniteSet(Inserting)
    BY FinanceAssumption, FS_Subset DEF Inserting
  <2>2. Cardinality(Inserting) \in Nat /\ Len(reviews) \in Nat
    BY <2>1, FS_CardinalityType DEF FinanceInv
  <2>3. QED BY <2>2, FinanceAssumption DEF FinanceInv, RoomIsKept
<1>3. \A p \in ReviewRequests : reviewing[p].step \in {"idle", "insert", "update"}
  BY DEF FinanceInv, ReviewsUnderWay, NoReview, InsertRequests, UpdateRequests
<1>4. QED BY <1>1, <1>2, <1>3 DEF FinanceTypeOK, ReviewRows

LEMMA FinanceInvTells == FinanceInv => ReviewsTellTheirStory /\ TwinsAreExplained
BY DEF FinanceInv

\* The events of a review tell its status, and a subject has two open reviews only if two
\* requests looked for one at the same time (Finance.ReviewsTellTheirStory, Finance.TwinsAreExplained).
THEOREM ReviewsAreExplained ==
  FinanceInit /\ [][FinanceNext]_financeVars => [](FinanceTypeOK /\ ReviewsTellTheirStory /\ TwinsAreExplained)
BY FinanceInitInv, FinanceStepInv, FinanceInvTyped, FinanceInvTells, PTL
=============================================================================
