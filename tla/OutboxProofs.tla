---------------------------- MODULE OutboxProofs ----------------------------
(***************************************************************************)
(* Outbox keeps its promises for every set of messages and workers, every    *)
(* routing of the notifications and every limit: the rows a transaction holds *)
(* are its own, what a handler writes is committed exactly with its message,   *)
(* a message is given up with its last retry, a repeated call is paid for, and *)
(* each step of the workers is a step of MessageQueue or invisible to it.      *)
(***************************************************************************)
EXTENDS Outbox, FiniteSetTheorems, SequenceTheorems, TLAPS

Distinct(s) == \A i, j \in DOMAIN s : i # j => s[i] # s[j]

Claimed(w) == {tx[w].claimed[i] : i \in DOMAIN tx[w].claimed}

\* A transaction that is not open is empty; in an open one a row is still to be
\* done, handled or failed, and a handler's writes are those of a row handled.
TransactionsAreTidy ==
  \A w \in Workers :
    /\ ~tx[w].open => tx[w] = NoTransaction
    /\ Distinct(tx[w].claimed)
    /\ Claimed(w) \cap (tx[w].handled \cup tx[w].failed) = {}
    /\ tx[w].handled \cap tx[w].failed = {}
    /\ tx[w].written = tx[w].handled

\* Locked rows are pending: nobody settles them but the transaction that holds them.
LockedArePending == \A w \in Workers : \A m \in Locked(w) : status[m] = "pending"

\* Rows a transaction has inserted are unknown to the others, belong to a row it
\* handled, and no other transaction has inserted them.
InsertsAreOwn ==
  /\ \A w \in Workers : \A m \in tx[w].queued :
       status[m] = "absent" /\ \E c \in tx[w].handled : m \in FollowUps[c]
  /\ \A v, w \in Workers : v # w => tx[v].queued \cap tx[w].queued = {}

AbsentAreFresh == \A m \in Messages : status[m] = "absent" => retries[m] = 0

\* The calls of a row handled were all answered.
HandledWereHeard ==
  \A w \in Workers : \A m \in tx[w].handled : ~MayFindNothing(m) =>
    \A i \in DOMAIN Calls(m) : sent[m][Calls(m)[i]] > 0

Inv == /\ TypeOK
       /\ TransactionsAreTidy
       /\ LockedArePending
       /\ InsertsAreOwn
       /\ AbsentAreFresh
       /\ HandledWereHeard
       /\ HandlingIsExact
       /\ RepetitionsAreAccounted

-----------------------------------------------------------------------------
\* The operators

\* The calls of a handler are one of five sequences, none with a target twice.
LEMMA CallsType ==
  ASSUME NEW m \in Messages
  PROVE  Calls(m) \in {<<>>, <<"stripe">>, <<"email">>, <<"webhook">>, <<"webhook", "email">>}
<1>1. AdminCalls(m) \in {<<>>, <<"email">>, <<"webhook">>, <<"webhook", "email">>}
  <2> DEFINE a == IF Channel[m] \in {"ANY", "WEBHOOK"} /\ "webhook" \in Configured THEN <<"webhook">> ELSE <<>>
             b == IF Channel[m] \in {"ANY", "EMAIL"} /\ "email" \in Configured THEN <<"email">> ELSE <<>>
  <2>1. a \in {<<>>, <<"webhook">>} /\ b \in {<<>>, <<"email">>}
    OBVIOUS
  <2>2. AdminCalls(m) = a \o b
    BY DEF AdminCalls
  <2> HIDE DEF a, b
  <2>3. \A s \in {<<>>, <<"email">>} : <<>> \o s = s
    OBVIOUS
  <2>4. <<"webhook">> \o <<>> = <<"webhook">>
    OBVIOUS
  <2>5. <<"webhook">> \o <<"email">> = <<"webhook", "email">>
    <3> DEFINE S == {"webhook", "email"}
               u == <<"webhook">>
               v == <<"email">>
               c == u \o v
    <3>0. u \in Seq(S) /\ v \in Seq(S) /\ Len(u) = 1 /\ Len(v) = 1 /\ u[1] = "webhook" /\ v[1] = "email"
      OBVIOUS
    <3> HIDE DEF u, v
    <3>1. c \in Seq(S) /\ Len(c) = 2 /\ c[1] = "webhook" /\ c[2] = "email"
      BY <3>0, ConcatProperties
    <3> HIDE DEF c
    <3>2. c = <<"webhook", "email">>
      BY <3>1
    <3>3. QED BY <3>2 DEF c, u, v
  <2>6. QED BY <2>1, <2>2, <2>3, <2>4, <2>5
<1>2. NotificationCalls(m) \in {<<>>, <<"email">>}
  BY DEF NotificationCalls
<1>3. Kind[m] \in {"DISPATCH", "PAYMENT", "NOTIFY", "ADMIN"}
  BY MessagesAssumption DEF Kinds
<1>4. QED BY <1>1, <1>2, <1>3 DEF Calls

LEMMA CallsShape ==
  ASSUME NEW m \in Messages
  PROVE  /\ Calls(m) \in Seq(Targets)
         /\ Len(Calls(m)) \in Nat
         /\ DOMAIN Calls(m) = 1..Len(Calls(m))
         /\ Distinct(Calls(m))
<1>1. CASE Calls(m) = <<>>
  BY <1>1 DEF Distinct
<1>2. CASE Calls(m) = <<"stripe">>
  BY <1>2 DEF Distinct, Targets
<1>3. CASE Calls(m) = <<"email">>
  BY <1>3 DEF Distinct, Targets
<1>4. CASE Calls(m) = <<"webhook">>
  BY <1>4 DEF Distinct, Targets
<1>5. CASE Calls(m) = <<"webhook", "email">>
  BY <1>5 DEF Distinct, Targets
<1>6. QED BY <1>1, <1>2, <1>3, <1>4, <1>5, CallsType

\* A set with at most one member has cardinality 0 or 1.
LEMMA AtMostOne ==
  ASSUME NEW S, \A a, b \in S : a = b
  PROVE  /\ Cardinality(S) \in {0, 1}
         /\ S = {} => Cardinality(S) = 0
         /\ S # {} => Cardinality(S) = 1
<1>1. CASE S = {}
  BY <1>1, FS_EmptySet
<1>2. CASE S # {}
  <2>1. PICK a : S = {a}
    BY <1>2
  <2>2. QED BY <2>1, FS_Singleton
<1>3. QED BY <1>1, <1>2

\* What the outside sees of the first n calls of m: each target at most once more,
\* each of them when n is all, and nothing of other messages.
LEMMA ReachAddsAtMostOne ==
  ASSUME TypeOK, NEW m \in Messages, NEW n \in 0..Len(Calls(m)), Reach(m, n)
  PROVE  /\ sent' \in [Messages -> [Targets -> Nat]]
         /\ \A o \in Messages \ {m} : sent'[o] = sent[o]
         /\ \A t \in Targets : sent'[m][t] \in {sent[m][t], sent[m][t] + 1}
         /\ n = Len(Calls(m)) => \A i \in DOMAIN Calls(m) : sent'[m][Calls(m)[i]] > 0
<1> DEFINE Hits(t) == {i \in 1..n : Calls(m)[i] = t}
           row == [t \in Targets |-> sent[m][t] + Cardinality(Hits(t))]
<1>1. /\ Calls(m) \in Seq(Targets) /\ Len(Calls(m)) \in Nat
      /\ DOMAIN Calls(m) = 1..Len(Calls(m)) /\ Distinct(Calls(m))
  BY CallsShape
<1>2. \A t : \A i, j \in Hits(t) : i = j
  BY <1>1 DEF Distinct
<1>3. \A t : Cardinality(Hits(t)) \in {0, 1} /\ (Hits(t) # {} => Cardinality(Hits(t)) = 1)
  BY <1>2, AtMostOne
<1>4. sent \in [Messages -> [Targets -> Nat]]
  BY DEF TypeOK
<1>5. sent' = [sent EXCEPT ![m] = row]
  BY <1>4 DEF Reach
<1> HIDE DEF Hits
<1>6. row \in [Targets -> Nat] /\ \A t \in Targets : row[t] \in {sent[m][t], sent[m][t] + 1}
  <2>1. \A t \in Targets : sent[m][t] \in Nat
    BY <1>4
  <2>2. \A t \in Targets : row[t] = sent[m][t] + Cardinality(Hits(t))
    OBVIOUS
  <2> HIDE DEF row
  <2>3. \A t \in Targets : row[t] \in Nat /\ row[t] \in {sent[m][t], sent[m][t] + 1}
    BY <2>1, <2>2, <1>3
  <2>4. row = [t \in Targets |-> row[t]]
    BY DEF row
  <2>5. QED BY <2>3, <2>4
<1>7. n = Len(Calls(m)) => \A i \in DOMAIN Calls(m) : row[Calls(m)[i]] > 0
  <2> SUFFICES ASSUME n = Len(Calls(m)), NEW i \in DOMAIN Calls(m) PROVE row[Calls(m)[i]] > 0
    OBVIOUS
  <2>1. i \in Hits(Calls(m)[i])
    BY <1>1 DEF Hits
  <2>2. Cardinality(Hits(Calls(m)[i])) = 1
    BY <2>1, <1>3
  <2>3. Calls(m)[i] \in Targets /\ sent[m][Calls(m)[i]] \in Nat
    BY <1>1, <1>4
  <2>4. QED BY <2>2, <2>3
<1> HIDE DEF row
<1>8. sent'[m] = row /\ \A o \in Messages \ {m} : sent'[o] = sent[o]
  BY <1>4, <1>5
<1>9. QED BY <1>4, <1>5, <1>6, <1>7, <1>8

\* Taking the head off a sequence without repetitions takes one element out.
LEMMA TailDropsHead ==
  ASSUME NEW S, NEW s \in Seq(S), s # <<>>, Distinct(s)
  PROVE  /\ Head(s) \in {s[i] : i \in DOMAIN s}
         /\ Head(s) \in S
         /\ Tail(s) \in Seq(S)
         /\ Distinct(Tail(s))
         /\ {Tail(s)[i] : i \in DOMAIN Tail(s)} = {s[i] : i \in DOMAIN s} \ {Head(s)}
<1>1. /\ Len(s) \in Nat \ {0} /\ DOMAIN s = 1..Len(s) /\ Head(s) = s[1] /\ Tail(s) \in Seq(S)
      /\ DOMAIN Tail(s) = 1..(Len(s) - 1) /\ \A i \in 1..(Len(s) - 1) : Tail(s)[i] = s[i + 1]
  OBVIOUS
<1>2. Head(s) \in {s[i] : i \in DOMAIN s} /\ Head(s) \in S
  BY <1>1
<1>3. Distinct(Tail(s))
  BY <1>1 DEF Distinct
<1>4. ASSUME NEW i \in DOMAIN Tail(s)
      PROVE  Tail(s)[i] \in {s[j] : j \in DOMAIN s} \ {Head(s)}
  <2>1. i + 1 \in DOMAIN s /\ 1 \in DOMAIN s /\ i + 1 # 1 /\ Tail(s)[i] = s[i + 1]
    BY <1>1
  <2>2. QED BY <2>1, <1>1 DEF Distinct
<1>5. ASSUME NEW j \in DOMAIN s, s[j] # Head(s)
      PROVE  s[j] \in {Tail(s)[i] : i \in DOMAIN Tail(s)}
  <2>1. j - 1 \in DOMAIN Tail(s) /\ Tail(s)[j - 1] = s[j]
    BY <1>1, <1>5
  <2>2. QED BY <2>1
<1>6. QED BY <1>1, <1>2, <1>3, <1>4, <1>5

-----------------------------------------------------------------------------
\* The invariant, action by action

LEMMA InitInv == Init => Inv
<1> SUFFICES ASSUME Init PROVE Inv
  OBVIOUS
<1>1. \A w \in Workers : /\ tx[w] = NoTransaction
                         /\ Claimed(w) = {} /\ tx[w].handled = {} /\ tx[w].failed = {}
                         /\ tx[w].queued = {} /\ tx[w].written = {} /\ Distinct(tx[w].claimed)
                         /\ Locked(w) = {}
  BY DEF Init, NoTransaction, Claimed, Locked, Distinct
<1>2. TypeOK
  <2>1. createdAt \in [Messages -> Nat]
    <3>1. PICK r \in [Messages -> 1..Cardinality(Messages)] : createdAt = r
      BY DEF Init
    <3>2. \A m \in Messages : r[m] \in Nat
      BY <3>1
    <3>3. QED BY <3>1, <3>2
  <2>2. tx \in [Workers -> TransactionType]
    <3>1. NoTransaction \in TransactionType
      BY DEF NoTransaction, TransactionType
    <3>2. QED BY <3>1 DEF Init
  <2>3. QED BY <2>1, <2>2 DEF TypeOK, Init, Statuses
<1>3. TransactionsAreTidy /\ LockedArePending /\ InsertsAreOwn /\ AbsentAreFresh /\ HandledWereHeard
  BY <1>1 DEF TransactionsAreTidy, LockedArePending, InsertsAreOwn, AbsentAreFresh, HandledWereHeard, Init
<1>4. HandlingIsExact
  BY <1>1, LimitsAssumption DEF HandlingIsExact, EffectsComeWithProcessing, BatchesAreDisjoint, RetriesDecide,
         NotifiedWhenProcessed, Init
<1>5. RepetitionsAreAccounted
  <2> SUFFICES ASSUME NEW m \in Messages, NEW t \in Targets
               PROVE  sent[m][t] <= retries[m] + rollbacks
                  + Cardinality({w \in Workers : m \in tx[w].handled \cup tx[w].failed})
    BY DEF RepetitionsAreAccounted
  <2>1. {w \in Workers : m \in tx[w].handled \cup tx[w].failed} = {}
    BY <1>1
  <2>2. QED BY <2>1, FS_EmptySet DEF Init
<1>6. QED BY <1>2, <1>3, <1>4, <1>5 DEF Inv

\* The workers whose open transaction has done m, well or badly: never two.
Holders(m) == {w \in Workers : m \in tx[w].handled \cup tx[w].failed}

LEMMA OneHolder ==
  ASSUME Inv, NEW m \in Messages
  PROVE  /\ Cardinality(Holders(m)) \in {0, 1}
         /\ Holders(m) = {} => Cardinality(Holders(m)) = 0
         /\ Holders(m) # {} => Cardinality(Holders(m)) = 1
<1>1. \A v, w \in Holders(m) : v = w
  BY DEF Inv, HandlingIsExact, BatchesAreDisjoint, Holders, Locked
<1>2. QED BY <1>1, AtMostOne

LEMMA EnqueueInv == ASSUME Inv, NEW m \in Messages, Enqueue(m) PROVE Inv'
<1> USE DEF Inv
<1>1. /\ status' = [status EXCEPT ![m] = "pending"] /\ status[m] = "absent" /\ due' = due \cup {m}
      /\ UNCHANGED <<createdAt, retries, tx, sent, effects, rollbacks>>
      /\ \A c \in Messages : m \notin FollowUps[c]
  BY DEF Enqueue
<1>2. TypeOK'
  BY <1>1 DEF TypeOK, Statuses
<1>3. status'[m] = "pending" /\ \A o \in Messages \ {m} : status'[o] = status[o]
  BY <1>1 DEF TypeOK
<1>4. \A w \in Workers : Claimed(w)' = Claimed(w) /\ Locked(w)' = Locked(w)
  BY <1>1 DEF Claimed, Locked
<1>5. \A w \in Workers : tx[w].handled \subseteq Messages /\ tx[w].queued \subseteq Messages
                         /\ Locked(w) \subseteq Messages
  BY DEF TypeOK, TransactionType, Locked
<1>6. TransactionsAreTidy'
  BY <1>1, <1>4 DEF TransactionsAreTidy
<1>7. LockedArePending'
  BY <1>3, <1>4, <1>5 DEF LockedArePending
<1>8. InsertsAreOwn'
  BY <1>1, <1>3, <1>5 DEF InsertsAreOwn
<1>9. AbsentAreFresh' /\ HandledWereHeard'
  BY <1>1, <1>3, <1>5 DEF AbsentAreFresh, HandledWereHeard
<1>10. HandlingIsExact'
  BY <1>1, <1>3, <1>4, LimitsAssumption
  DEF HandlingIsExact, EffectsComeWithProcessing, BatchesAreDisjoint, RetriesDecide, NotifiedWhenProcessed, AbsentAreFresh
<1>11. RepetitionsAreAccounted'
  BY <1>1 DEF RepetitionsAreAccounted
<1>12. QED BY <1>2, <1>6, <1>7, <1>8, <1>9, <1>10, <1>11

LEMMA BecomeDueInv == ASSUME Inv, NEW m \in Messages, BecomeDue(m) PROVE Inv'
<1> USE DEF Inv
<1>1. due' = due \cup {m} /\ UNCHANGED <<createdAt, status, retries, tx, sent, effects, rollbacks>>
  BY DEF BecomeDue
<1>2. TypeOK'
  BY <1>1 DEF TypeOK
<1>3. QED
  BY <1>1, <1>2 DEF TransactionsAreTidy, LockedArePending, InsertsAreOwn, AbsentAreFresh, HandledWereHeard,
     HandlingIsExact, EffectsComeWithProcessing, BatchesAreDisjoint, RetriesDecide, NotifiedWhenProcessed,
     RepetitionsAreAccounted, Claimed, Locked

LEMMA ClaimInv == ASSUME Inv, NEW w \in Workers, Claim(w) PROVE Inv'
<1> USE DEF Inv
<1>0. PICK n \in 1..BatchSize : \E batch \in [1..n -> Claimable] :
        /\ IsOldest(batch)
        /\ tx' = [tx EXCEPT ![w] = [NoTransaction EXCEPT !.open = TRUE, !.claimed = batch]]
  BY DEF Claim
<1>1. PICK batch \in [1..n -> Claimable] :
        /\ IsOldest(batch)
        /\ tx' = [tx EXCEPT ![w] = [NoTransaction EXCEPT !.open = TRUE, !.claimed = batch]]
  BY <1>0
<1>2. ~tx[w].open /\ UNCHANGED <<createdAt, status, retries, due, effects, sent, rollbacks>>
  BY DEF Claim, rows
<1>3. /\ Distinct(batch) /\ batch \in Seq(Messages)
      /\ \A i \in DOMAIN batch : /\ batch[i] \in Messages /\ status[batch[i]] = "pending"
                                 /\ \A v \in Workers : batch[i] \notin Locked(v)
  <2>1. \A i \in 1..n : batch[i] \in Claimable
    OBVIOUS
  <2>2. \A m \in Claimable : /\ m \in Messages /\ status[m] = "pending" /\ createdAt[m] \in Nat
                             /\ \A v \in Workers : m \notin Locked(v)
    BY DEF Claimable, TypeOK
  <2>3. Distinct(batch)
    <3> SUFFICES ASSUME NEW i \in 1..n, NEW j \in 1..n, i # j, batch[i] = batch[j] PROVE FALSE
      BY DEF Distinct
    <3>1. createdAt[batch[i]] < createdAt[batch[j]] \/ createdAt[batch[j]] < createdAt[batch[i]]
      BY <1>1 DEF IsOldest
    <3>2. QED BY <3>1, <2>1, <2>2
  <2>4. n \in Nat
    BY LimitsAssumption
  <2>5. QED BY <2>1, <2>2, <2>3, <2>4
<1>4. /\ tx'[w] = [open |-> TRUE, claimed |-> batch, handled |-> {}, failed |-> {}, queued |-> {}, written |-> {}]
      /\ \A v \in Workers \ {w} : tx'[v] = tx[v]
      /\ tx[w] = NoTransaction
  BY <1>1, <1>2 DEF TypeOK, NoTransaction, TransactionsAreTidy
<1>5. TypeOK'
  <2>1. tx'[w] \in TransactionType
    BY <1>3, <1>4 DEF TransactionType
  <2>2. tx' \in [Workers -> TransactionType]
    BY <1>1, <1>4, <2>1 DEF TypeOK
  <2>3. QED BY <1>2, <2>2 DEF TypeOK
<1>6. /\ Claimed(w)' = {batch[i] : i \in DOMAIN batch} /\ Locked(w)' = {batch[i] : i \in DOMAIN batch}
      /\ \A v \in Workers \ {w} : Claimed(v)' = Claimed(v) /\ Locked(v)' = Locked(v)
  BY <1>4 DEF Claimed, Locked
<1>7. TransactionsAreTidy'
  <2> SUFFICES ASSUME NEW v \in Workers
               PROVE  /\ ~tx'[v].open => tx'[v] = NoTransaction
                      /\ Distinct(tx'[v].claimed)
                      /\ Claimed(v)' \cap (tx'[v].handled \cup tx'[v].failed) = {}
                      /\ tx'[v].handled \cap tx'[v].failed = {}
                      /\ tx'[v].written = tx'[v].handled
    BY DEF TransactionsAreTidy, Distinct
  <2>1. CASE v = w
    <3>1. tx'[w].open /\ Distinct(tx'[w].claimed)
      BY <1>3, <1>4
    <3>2. Claimed(w)' \cap (tx'[w].handled \cup tx'[w].failed) = {}
      BY <1>4
    <3>3. tx'[w].handled \cap tx'[w].failed = {} /\ tx'[w].written = tx'[w].handled
      BY <1>4
    <3>4. QED BY <2>1, <3>1, <3>2, <3>3
  <2>2. CASE v # w
    <3>1. tx'[v] = tx[v] /\ Claimed(v)' = Claimed(v)
      BY <1>4, <1>6, <2>2
    <3>2. /\ ~tx[v].open => tx[v] = NoTransaction
          /\ Distinct(tx[v].claimed)
          /\ Claimed(v) \cap (tx[v].handled \cup tx[v].failed) = {}
          /\ tx[v].handled \cap tx[v].failed = {}
          /\ tx[v].written = tx[v].handled
      BY DEF TransactionsAreTidy
    <3>3. QED BY <3>1, <3>2 DEF Distinct
  <2>3. QED BY <2>1, <2>2
<1>8. LockedArePending'
  BY <1>2, <1>3, <1>6 DEF LockedArePending
<1>9. InsertsAreOwn' /\ AbsentAreFresh' /\ HandledWereHeard'
  BY <1>2, <1>4 DEF InsertsAreOwn, AbsentAreFresh, HandledWereHeard
<1>10. HandlingIsExact'
  <2>1. BatchesAreDisjoint'
    BY <1>3, <1>6 DEF HandlingIsExact, BatchesAreDisjoint
  <2>2. QED BY <1>2, <2>1 DEF HandlingIsExact, EffectsComeWithProcessing, RetriesDecide, NotifiedWhenProcessed
<1>11. RepetitionsAreAccounted'
  <2>1. \A m \in Messages : Holders(m)' = Holders(m)
    BY <1>4 DEF Holders, NoTransaction
  <2>2. QED BY <1>2, <2>1 DEF RepetitionsAreAccounted, Holders
<1>12. QED BY <1>5, <1>7, <1>8, <1>9, <1>10, <1>11

\* Handle and Throw: m goes from the rows to be done to those handled or to those failed.
LEMMA HeadIsHeld ==
  ASSUME Inv, NEW w \in Workers, Working(w)
  PROVE  LET m == Head(tx[w].claimed)
         IN  /\ m \in Messages /\ m \in Locked(w) /\ status[m] = "pending"
             /\ m \notin tx[w].handled \cup tx[w].failed
             /\ \A v \in Workers \ {w} : m \notin Locked(v)
             /\ Holders(m) = {}
             /\ Tail(tx[w].claimed) \in Seq(Messages) /\ Distinct(Tail(tx[w].claimed))
             /\ {Tail(tx[w].claimed)[i] : i \in DOMAIN Tail(tx[w].claimed)} = Claimed(w) \ {m}
<1> DEFINE s == tx[w].claimed
           m == Head(s)
<1>1. s \in Seq(Messages) /\ s # <<>> /\ Distinct(s)
  BY DEF Inv, TypeOK, TransactionType, Working, TransactionsAreTidy
<1>2. m \in {s[i] : i \in DOMAIN s} /\ m \in Messages /\ Tail(s) \in Seq(Messages) /\ Distinct(Tail(s))
      /\ {Tail(s)[i] : i \in DOMAIN Tail(s)} = {s[i] : i \in DOMAIN s} \ {m}
  BY <1>1, TailDropsHead
<1>3. Claimed(w) = {s[i] : i \in DOMAIN s} /\ Claimed(w) \subseteq Locked(w)
  BY DEF Claimed, Locked
<1> HIDE DEF s, m
<1>4. m \in Claimed(w) /\ m \in Locked(w)
  BY <1>2, <1>3
<1>5. status[m] = "pending" /\ m \notin tx[w].handled \cup tx[w].failed
      /\ \A v \in Workers \ {w} : m \notin Locked(v)
  BY <1>4 DEF Inv, LockedArePending, TransactionsAreTidy, HandlingIsExact, BatchesAreDisjoint
<1>6. Holders(m) = {}
  BY <1>5 DEF Holders, Locked
<1>7. QED BY <1>2, <1>3, <1>4, <1>5, <1>6 DEF s, m

\* When one worker does a row nobody has done, and its calls reach each target at most
\* once, the row's holder accounts for them.
LEMMA DoneIsAccounted ==
  ASSUME Inv, NEW w \in Workers, NEW m \in Messages, Holders(m) = {}, TypeOK',
         \A v \in Workers \ {w} : tx'[v] = tx[v],
         \/ tx'[w].handled = tx[w].handled \cup {m} /\ tx'[w].failed = tx[w].failed
         \/ tx'[w].handled = tx[w].handled /\ tx'[w].failed = tx[w].failed \cup {m},
         \A o \in Messages \ {m} : sent'[o] = sent[o],
         \A t \in Targets : sent'[m][t] \in {sent[m][t], sent[m][t] + 1},
         retries' = retries, rollbacks' = rollbacks
  PROVE  RepetitionsAreAccounted'
<1>1. /\ \A o \in Messages \ {m} : Holders(o)' = Holders(o)
      /\ Holders(m)' = {w}
  BY DEF Holders
<1>2. Cardinality(Holders(m)) = 0 /\ Cardinality(Holders(m)') = 1
  BY <1>1, FS_EmptySet, FS_Singleton
<1>3. \A o \in Messages, t \in Targets : sent[o][t] <= retries[o] + rollbacks + Cardinality(Holders(o))
  BY DEF Inv, RepetitionsAreAccounted, Holders
<1>4. ASSUME NEW o \in Messages, NEW t \in Targets
      PROVE  sent'[o][t] <= retries'[o] + rollbacks' + Cardinality(Holders(o)')
  <2>1. CASE o # m
    BY <1>1, <1>3, <2>1
  <2>2. CASE o = m
    <3>1. sent[m][t] \in Nat /\ retries[m] \in Nat /\ rollbacks \in Nat
      BY DEF Inv, TypeOK
    <3>2. sent[m][t] <= retries[m] + rollbacks + 0
      BY <1>2, <1>3
    <3>3. QED BY <1>2, <2>2, <3>1, <3>2
  <2>3. QED BY <2>1, <2>2
<1>5. QED BY <1>4 DEF RepetitionsAreAccounted, Holders

LEMMA HandleInv == ASSUME Inv, NEW w \in Workers, Handle(w) PROVE Inv'
<1> USE DEF Inv
<1> DEFINE m == Head(tx[w].claimed)
<1>1. PICK calls \in {0, Len(Calls(m))}, new \in {{}, FollowUps[m]} :
        /\ MayFindNothing(m) \/ (calls = Len(Calls(m)) /\ new = FollowUps[m])
        /\ Reach(m, calls)
        /\ tx' = [tx EXCEPT ![w].claimed = Tail(@), ![w].handled = @ \cup {m},
                            ![w].queued = @ \cup {f \in new : status[f] = "absent"},
                            ![w].written = @ \cup WrittenAfter(m, Len(Calls(m)))]
  BY DEF Handle
<1>2. /\ Working(w) /\ KeysFree(w, m)
      /\ UNCHANGED <<createdAt, status, retries, due, effects, rollbacks>>
  BY DEF Handle, rows
<1> DEFINE fresh == {f \in new : status[f] = "absent"}
           rest == Tail(tx[w].claimed)
<1>3. /\ m \in Messages /\ m \in Locked(w) /\ status[m] = "pending"
      /\ m \notin tx[w].handled \cup tx[w].failed
      /\ \A v \in Workers \ {w} : m \notin Locked(v)
      /\ Holders(m) = {}
      /\ rest \in Seq(Messages) /\ Distinct(rest)
      /\ {rest[i] : i \in DOMAIN rest} = Claimed(w) \ {m}
  BY <1>2, HeadIsHeld
<1>4. tx[w] \in TransactionType /\ tx[w].open
  BY <1>2 DEF TypeOK, Working
<1>5. WrittenAfter(m, Len(Calls(m))) = {m}
  BY DEF WrittenAfter
<1>6. /\ tx'[w] = [tx[w] EXCEPT !.claimed = rest, !.handled = @ \cup {m}, !.queued = @ \cup fresh, !.written = @ \cup {m}]
      /\ \A v \in Workers \ {w} : tx'[v] = tx[v]
      /\ DOMAIN tx' = Workers /\ tx' = [v \in Workers |-> tx'[v]]
  <2> HIDE DEF m, rest, fresh
  <2>1. tx' = [tx EXCEPT ![w].claimed = rest, ![w].handled = @ \cup {m}, ![w].queued = @ \cup fresh, ![w].written = @ \cup {m}]
    BY <1>1, <1>5 DEF m, rest, fresh
  <2>2. QED BY <2>1 DEF TypeOK
<1> HIDE DEF m, rest, fresh
<1>7. /\ tx'[w].open = TRUE /\ tx'[w].claimed = rest /\ tx'[w].handled = tx[w].handled \cup {m}
      /\ tx'[w].failed = tx[w].failed /\ tx'[w].queued = tx[w].queued \cup fresh
      /\ tx'[w].written = tx[w].written \cup {m}
      /\ tx'[w] = [open |-> tx'[w].open, claimed |-> tx'[w].claimed, handled |-> tx'[w].handled,
                   failed |-> tx'[w].failed, queued |-> tx'[w].queued, written |-> tx'[w].written]
  <2> DEFINE from == tx[w]
             to == tx'[w]
             handled == from.handled \cup {m}
             queued == from.queued \cup fresh
             written == from.written \cup {m}
  <2>1. /\ from \in TransactionType /\ from.open
        /\ to = [from EXCEPT !.claimed = rest, !.handled = handled, !.queued = queued, !.written = written]
    BY <1>4, <1>6
  <2> HIDE DEF from, to, handled, queued, written
  <2>2. /\ to.open = TRUE /\ to.claimed = rest /\ to.handled = handled /\ to.failed = from.failed
        /\ to.queued = queued /\ to.written = written
        /\ to = [open |-> to.open, claimed |-> to.claimed, handled |-> to.handled,
                 failed |-> to.failed, queued |-> to.queued, written |-> to.written]
    BY <2>1 DEF TransactionType
  <2>3. QED BY <2>2 DEF from, to, handled, queued, written
<1>8. /\ fresh \subseteq FollowUps[m] /\ fresh \subseteq Messages
      /\ \A f \in fresh : status[f] = "absent"
      /\ \A v \in Workers \ {w} : fresh \cap tx[v].queued = {}
  <2>1. new \subseteq FollowUps[m] /\ FollowUps[m] \subseteq Messages
    BY <1>1, <1>3, MessagesAssumption DEF m
  <2>2. QED BY <1>2, <2>1 DEF fresh, KeysFree, m
<1>9. /\ sent' \in [Messages -> [Targets -> Nat]]
      /\ \A o \in Messages \ {m} : sent'[o] = sent[o]
      /\ \A t \in Targets : sent'[m][t] \in {sent[m][t], sent[m][t] + 1}
      /\ ~MayFindNothing(m) => \A i \in DOMAIN Calls(m) : sent'[m][Calls(m)[i]] > 0
  <2>0. Len(Calls(m)) \in Nat
    BY <1>3, CallsShape
  <2>1. calls \in {0, Len(Calls(m))} /\ Reach(m, calls)
    BY <1>1 DEF m
  <2>11. calls \in 0..Len(Calls(m))
    BY <2>0, <2>1
  <2>2. ~MayFindNothing(m) => calls = Len(Calls(m))
    BY <1>1 DEF m
  <2>3. QED BY <1>3, <2>1, <2>11, <2>2, ReachAddsAtMostOne
<1>10. TypeOK'
  <2>1. tx'[w] \in TransactionType
    BY <1>3, <1>4, <1>7, <1>8 DEF TransactionType
  <2>2. tx' \in [Workers -> TransactionType]
    BY <1>6, <2>1 DEF TypeOK
  <2>3. QED BY <1>2, <1>9, <2>2 DEF TypeOK
<1>11. /\ Claimed(w)' = Claimed(w) \ {m} /\ Locked(w)' = Locked(w)
       /\ \A v \in Workers \ {w} : Claimed(v)' = Claimed(v) /\ Locked(v)' = Locked(v)
  <2>1. Claimed(w)' = Claimed(w) \ {m}
    BY <1>3, <1>7 DEF Claimed
  <2>2. Locked(w) = Claimed(w) \cup tx[w].handled \cup tx[w].failed
    BY DEF Locked, Claimed
  <2>3. Locked(w)' = Claimed(w)' \cup tx'[w].handled \cup tx'[w].failed
    BY DEF Locked, Claimed
  <2>4. Locked(w)' = Locked(w)
    BY <1>3, <1>7, <2>1, <2>2, <2>3
  <2>5. \A v \in Workers \ {w} : Claimed(v)' = Claimed(v) /\ Locked(v)' = Locked(v)
    BY <1>6 DEF Claimed, Locked
  <2>6. QED BY <2>1, <2>4, <2>5
<1>12. TransactionsAreTidy'
  <2> SUFFICES ASSUME NEW v \in Workers
               PROVE  /\ ~tx'[v].open => tx'[v] = NoTransaction
                      /\ Distinct(tx'[v].claimed)
                      /\ Claimed(v)' \cap (tx'[v].handled \cup tx'[v].failed) = {}
                      /\ tx'[v].handled \cap tx'[v].failed = {}
                      /\ tx'[v].written = tx'[v].handled
    BY DEF TransactionsAreTidy, Distinct
  <2>1. CASE v = w
    <3>1. /\ Claimed(w) \cap (tx[w].handled \cup tx[w].failed) = {}
          /\ tx[w].handled \cap tx[w].failed = {} /\ tx[w].written = tx[w].handled
      BY DEF TransactionsAreTidy
    <3>2. tx'[w].open /\ Distinct(tx'[w].claimed)
      BY <1>3, <1>7
    <3>3. Claimed(w)' \cap (tx'[w].handled \cup tx'[w].failed) = {}
      BY <1>7, <1>11, <3>1
    <3>4. tx'[w].handled \cap tx'[w].failed = {} /\ tx'[w].written = tx'[w].handled
      BY <1>3, <1>7, <3>1
    <3>5. QED BY <2>1, <3>2, <3>3, <3>4
  <2>2. CASE v # w
    <3>1. tx'[v] = tx[v] /\ Claimed(v)' = Claimed(v)
      BY <1>6, <1>11, <2>2
    <3>2. /\ ~tx[v].open => tx[v] = NoTransaction
          /\ Distinct(tx[v].claimed)
          /\ Claimed(v) \cap (tx[v].handled \cup tx[v].failed) = {}
          /\ tx[v].handled \cap tx[v].failed = {}
          /\ tx[v].written = tx[v].handled
      BY DEF TransactionsAreTidy
    <3>3. QED BY <3>1, <3>2 DEF Distinct
  <2>3. QED BY <2>1, <2>2
<1>13. LockedArePending'
  BY <1>2, <1>11 DEF LockedArePending
<1>14. InsertsAreOwn'
  <2>1. ASSUME NEW v \in Workers, NEW o \in tx'[v].queued
        PROVE  status'[o] = "absent" /\ \E c \in tx'[v].handled : o \in FollowUps[c]
    <3>1. CASE v # w
      BY <1>2, <1>6, <2>1, <3>1 DEF InsertsAreOwn
    <3>2. CASE v = w /\ o \in fresh
      BY <1>2, <1>7, <1>8, <3>2
    <3>3. CASE v = w /\ o \in tx[w].queued
      BY <1>2, <1>7, <3>3 DEF InsertsAreOwn
    <3>4. QED BY <1>7, <2>1, <3>1, <3>2, <3>3
  <2>2. ASSUME NEW u \in Workers, NEW v \in Workers, u # v
        PROVE  tx'[u].queued \cap tx'[v].queued = {}
    BY <1>6, <1>7, <1>8, <2>2 DEF InsertsAreOwn
  <2>3. QED BY <2>1, <2>2 DEF InsertsAreOwn
<1>15. AbsentAreFresh'
  BY <1>2 DEF AbsentAreFresh
<1>16. HandledWereHeard'
  <2> SUFFICES ASSUME NEW v \in Workers, NEW o \in tx'[v].handled, ~MayFindNothing(o), NEW i \in DOMAIN Calls(o)
               PROVE  sent'[o][Calls(o)[i]] > 0
    BY DEF HandledWereHeard
  <2>1. CASE o = m
    BY <1>9, <2>1
  <2>2. CASE o # m
    <3>1. o \in tx[v].handled
      BY <1>6, <1>7, <2>2
    <3>11. o \in Messages
      BY <3>1 DEF TypeOK, TransactionType
    <3>2. QED BY <1>9, <2>2, <3>1, <3>11 DEF HandledWereHeard
  <2>3. QED BY <2>1, <2>2
<1>17. HandlingIsExact'
  <2>1. BatchesAreDisjoint'
    BY <1>11 DEF HandlingIsExact, BatchesAreDisjoint
  <2>2. NotifiedWhenProcessed'
    BY <1>2, <1>3, <1>9 DEF HandlingIsExact, NotifiedWhenProcessed
  <2>3. QED BY <1>2, <2>1, <2>2 DEF HandlingIsExact, EffectsComeWithProcessing, RetriesDecide
<1>18. RepetitionsAreAccounted'
  <2>1. /\ \A v \in Workers \ {w} : tx'[v] = tx[v]
        /\ \/ tx'[w].handled = tx[w].handled \cup {m} /\ tx'[w].failed = tx[w].failed
           \/ tx'[w].handled = tx[w].handled /\ tx'[w].failed = tx[w].failed \cup {m}
    BY <1>6, <1>7
  <2>2. m \in Messages /\ Holders(m) = {} /\ retries' = retries /\ rollbacks' = rollbacks
    BY <1>2, <1>3
  <2>3. QED BY <1>9, <1>10, <2>1, <2>2, DoneIsAccounted
<1>19. QED BY <1>10, <1>12, <1>13, <1>14, <1>15, <1>16, <1>17, <1>18

LEMMA ThrowInv == ASSUME Inv, NEW w \in Workers, Throw(w) PROVE Inv'
<1> USE DEF Inv
<1> DEFINE m == Head(tx[w].claimed)
<1>1. PICK answered \in 0..(Len(Calls(m)) - 1), arrived \in {0, 1} :
        /\ Reach(m, answered + arrived)
        /\ tx' = [tx EXCEPT ![w].claimed = Tail(@), ![w].failed = @ \cup {m},
                            ![w].written = @ \cup WrittenAfter(m, answered)]
  BY DEF Throw
<1>2. /\ Working(w)
      /\ UNCHANGED <<createdAt, status, retries, due, effects, rollbacks>>
  BY DEF Throw, rows
<1> DEFINE rest == Tail(tx[w].claimed)
<1>3. /\ m \in Messages /\ m \in Locked(w) /\ status[m] = "pending"
      /\ m \notin tx[w].handled \cup tx[w].failed
      /\ \A v \in Workers \ {w} : m \notin Locked(v)
      /\ Holders(m) = {}
      /\ rest \in Seq(Messages) /\ Distinct(rest)
      /\ {rest[i] : i \in DOMAIN rest} = Claimed(w) \ {m}
  BY <1>2, HeadIsHeld
<1>4. tx[w] \in TransactionType /\ tx[w].open
  BY <1>2 DEF TypeOK, Working
<1>5. /\ Len(Calls(m)) \in Nat /\ answered + arrived \in 0..Len(Calls(m))
      /\ WrittenAfter(m, answered) = {}
  <2>1. Len(Calls(m)) \in Nat /\ answered \in 0..(Len(Calls(m)) - 1) /\ arrived \in {0, 1}
    BY <1>1, <1>3, CallsShape
  <2>2. QED BY <2>1 DEF WrittenAfter
<1>6. /\ tx'[w] = [tx[w] EXCEPT !.claimed = rest, !.failed = @ \cup {m}]
      /\ \A v \in Workers \ {w} : tx'[v] = tx[v]
      /\ DOMAIN tx' = Workers /\ tx' = [v \in Workers |-> tx'[v]]
  <2> HIDE DEF m, rest
  <2>1. tx' = [tx EXCEPT ![w].claimed = rest, ![w].failed = @ \cup {m}, ![w].written = @ \cup {}]
    BY <1>1, <1>5 DEF m, rest
  <2>2. tx[w].written \cup {} = tx[w].written
    OBVIOUS
  <2>3. QED BY <1>4, <2>1, <2>2 DEF TypeOK, TransactionType
<1> HIDE DEF m, rest
<1>7. /\ tx'[w].open = TRUE /\ tx'[w].claimed = rest /\ tx'[w].handled = tx[w].handled
      /\ tx'[w].failed = tx[w].failed \cup {m} /\ tx'[w].queued = tx[w].queued
      /\ tx'[w].written = tx[w].written
      /\ tx'[w] = [open |-> tx'[w].open, claimed |-> tx'[w].claimed, handled |-> tx'[w].handled,
                   failed |-> tx'[w].failed, queued |-> tx'[w].queued, written |-> tx'[w].written]
  <2> DEFINE from == tx[w]
             to == tx'[w]
             failed == from.failed \cup {m}
  <2>1. /\ from \in TransactionType /\ from.open
        /\ to = [from EXCEPT !.claimed = rest, !.failed = failed]
    BY <1>4, <1>6
  <2> HIDE DEF from, to, failed
  <2>2. /\ to.open = TRUE /\ to.claimed = rest /\ to.handled = from.handled /\ to.failed = failed
        /\ to.queued = from.queued /\ to.written = from.written
        /\ to = [open |-> to.open, claimed |-> to.claimed, handled |-> to.handled,
                 failed |-> to.failed, queued |-> to.queued, written |-> to.written]
    BY <2>1 DEF TransactionType
  <2>3. QED BY <2>2 DEF from, to, failed
<1>9. /\ sent' \in [Messages -> [Targets -> Nat]]
      /\ \A o \in Messages \ {m} : sent'[o] = sent[o]
      /\ \A t \in Targets : sent'[m][t] \in {sent[m][t], sent[m][t] + 1}
  <2>1. Reach(m, answered + arrived)
    BY <1>1 DEF m
  <2>2. QED BY <1>3, <1>5, <2>1, ReachAddsAtMostOne
<1>10. TypeOK'
  <2>1. tx'[w] \in TransactionType
    BY <1>3, <1>4, <1>7 DEF TransactionType
  <2>2. tx' \in [Workers -> TransactionType]
    BY <1>6, <2>1 DEF TypeOK
  <2>3. QED BY <1>2, <1>9, <2>2 DEF TypeOK
<1>11. /\ Claimed(w)' = Claimed(w) \ {m} /\ Locked(w)' = Locked(w)
       /\ \A v \in Workers \ {w} : Claimed(v)' = Claimed(v) /\ Locked(v)' = Locked(v)
  <2>1. Claimed(w)' = Claimed(w) \ {m}
    BY <1>3, <1>7 DEF Claimed
  <2>2. Locked(w) = Claimed(w) \cup tx[w].handled \cup tx[w].failed
    BY DEF Locked, Claimed
  <2>3. Locked(w)' = Claimed(w)' \cup tx'[w].handled \cup tx'[w].failed
    BY DEF Locked, Claimed
  <2>4. Locked(w)' = Locked(w)
    BY <1>3, <1>7, <2>1, <2>2, <2>3
  <2>5. \A v \in Workers \ {w} : Claimed(v)' = Claimed(v) /\ Locked(v)' = Locked(v)
    BY <1>6 DEF Claimed, Locked
  <2>6. QED BY <2>1, <2>4, <2>5
<1>12. TransactionsAreTidy'
  <2> SUFFICES ASSUME NEW v \in Workers
               PROVE  /\ ~tx'[v].open => tx'[v] = NoTransaction
                      /\ Distinct(tx'[v].claimed)
                      /\ Claimed(v)' \cap (tx'[v].handled \cup tx'[v].failed) = {}
                      /\ tx'[v].handled \cap tx'[v].failed = {}
                      /\ tx'[v].written = tx'[v].handled
    BY DEF TransactionsAreTidy, Distinct
  <2>1. CASE v = w
    <3>1. /\ Claimed(w) \cap (tx[w].handled \cup tx[w].failed) = {}
          /\ tx[w].handled \cap tx[w].failed = {} /\ tx[w].written = tx[w].handled
      BY DEF TransactionsAreTidy
    <3>2. tx'[w].open /\ Distinct(tx'[w].claimed)
      BY <1>3, <1>7
    <3>3. Claimed(w)' \cap (tx'[w].handled \cup tx'[w].failed) = {}
      BY <1>7, <1>11, <3>1
    <3>4. tx'[w].handled \cap tx'[w].failed = {} /\ tx'[w].written = tx'[w].handled
      BY <1>3, <1>7, <3>1
    <3>5. QED BY <2>1, <3>2, <3>3, <3>4
  <2>2. CASE v # w
    <3>1. tx'[v] = tx[v] /\ Claimed(v)' = Claimed(v)
      BY <1>6, <1>11, <2>2
    <3>2. /\ ~tx[v].open => tx[v] = NoTransaction
          /\ Distinct(tx[v].claimed)
          /\ Claimed(v) \cap (tx[v].handled \cup tx[v].failed) = {}
          /\ tx[v].handled \cap tx[v].failed = {}
          /\ tx[v].written = tx[v].handled
      BY DEF TransactionsAreTidy
    <3>3. QED BY <3>1, <3>2 DEF Distinct
  <2>3. QED BY <2>1, <2>2
<1>13. LockedArePending'
  BY <1>2, <1>11 DEF LockedArePending
<1>14. InsertsAreOwn'
  <2>1. \A v \in Workers : tx'[v].queued = tx[v].queued /\ tx'[v].handled = tx[v].handled
    BY <1>6, <1>7
  <2>2. QED BY <1>2, <2>1 DEF InsertsAreOwn
<1>15. AbsentAreFresh'
  BY <1>2 DEF AbsentAreFresh
<1>16. HandledWereHeard'
  <2> SUFFICES ASSUME NEW v \in Workers, NEW o \in tx'[v].handled, ~MayFindNothing(o), NEW i \in DOMAIN Calls(o)
               PROVE  sent'[o][Calls(o)[i]] > 0
    BY DEF HandledWereHeard
  <2>1. o \in tx[v].handled
    BY <1>6, <1>7
  <2>2. o \in Messages /\ o \in Locked(v)
    BY <2>1 DEF TypeOK, TransactionType, Locked
  <2>3. o # m
    BY <1>3, <2>1, <2>2
  <2>4. QED BY <1>9, <2>1, <2>2, <2>3 DEF HandledWereHeard
<1>17. HandlingIsExact'
  <2>1. BatchesAreDisjoint'
    BY <1>11 DEF HandlingIsExact, BatchesAreDisjoint
  <2>2. NotifiedWhenProcessed'
    BY <1>2, <1>3, <1>9 DEF HandlingIsExact, NotifiedWhenProcessed
  <2>3. QED BY <1>2, <2>1, <2>2 DEF HandlingIsExact, EffectsComeWithProcessing, RetriesDecide
<1>18. RepetitionsAreAccounted'
  <2>1. /\ \A v \in Workers \ {w} : tx'[v] = tx[v]
        /\ \/ tx'[w].handled = tx[w].handled \cup {m} /\ tx'[w].failed = tx[w].failed
           \/ tx'[w].handled = tx[w].handled /\ tx'[w].failed = tx[w].failed \cup {m}
    BY <1>6, <1>7
  <2>2. m \in Messages /\ Holders(m) = {} /\ retries' = retries /\ rollbacks' = rollbacks
    BY <1>2, <1>3
  <2>3. QED BY <1>9, <1>10, <2>1, <2>2, DoneIsAccounted
<1>19. QED BY <1>10, <1>12, <1>13, <1>14, <1>15, <1>16, <1>17, <1>18

LEMMA RollbackInv == ASSUME Inv, NEW w \in Workers, Rollback(w) PROVE Inv'
<1> USE DEF Inv
<1>1. /\ tx' = [tx EXCEPT ![w] = NoTransaction] /\ rollbacks' = rollbacks + 1
      /\ UNCHANGED <<createdAt, status, retries, due, effects>>
  BY DEF Rollback, rows
<1>2. /\ tx'[w] = NoTransaction /\ \A v \in Workers \ {w} : tx'[v] = tx[v]
      /\ tx' \in [Workers -> TransactionType]
  <2>1. NoTransaction \in TransactionType
    BY DEF NoTransaction, TransactionType
  <2>2. QED BY <1>1, <2>1 DEF TypeOK
<1>3. /\ sent' \in [Messages -> [Targets -> Nat]]
      /\ \A o \in Messages, t \in Targets :
           \/ sent'[o][t] = sent[o][t]
           \/ Holders(o) = {} /\ sent'[o][t] = sent[o][t] + 1
  <2>1. CASE UNCHANGED sent
    BY <2>1 DEF TypeOK
  <2>2. CASE Working(w) /\ \E n \in 0..Len(Calls(Head(tx[w].claimed))) : Reach(Head(tx[w].claimed), n)
    <3> DEFINE m == Head(tx[w].claimed)
    <3>1. m \in Messages /\ Holders(m) = {}
      BY <2>2, HeadIsHeld
    <3>2. PICK n \in 0..Len(Calls(m)) : Reach(m, n)
      BY <2>2
    <3> HIDE DEF m
    <3>3. /\ sent' \in [Messages -> [Targets -> Nat]]
          /\ \A o \in Messages \ {m} : sent'[o] = sent[o]
          /\ \A t \in Targets : sent'[m][t] \in {sent[m][t], sent[m][t] + 1}
      BY <3>1, <3>2, ReachAddsAtMostOne
    <3>4. QED BY <3>1, <3>3
  <2>3. QED BY <2>1, <2>2 DEF Rollback
<1>4. TypeOK'
  BY <1>1, <1>2, <1>3 DEF TypeOK
<1>5. /\ \A v \in Workers : Locked(v)' \subseteq Locked(v)
      /\ TransactionsAreTidy'
  <2>1. Claimed(w)' = {} /\ Locked(w)' = {} /\ tx'[w].handled = {} /\ tx'[w].failed = {} /\ tx'[w].written = {}
        /\ Distinct(tx'[w].claimed)
    BY <1>2 DEF NoTransaction, Claimed, Locked, Distinct
  <2>2. \A v \in Workers \ {w} : Claimed(v)' = Claimed(v) /\ Locked(v)' = Locked(v)
    BY <1>2 DEF Claimed, Locked
  <2> SUFFICES ASSUME NEW v \in Workers
               PROVE  /\ Locked(v)' \subseteq Locked(v)
                      /\ ~tx'[v].open => tx'[v] = NoTransaction
                      /\ Distinct(tx'[v].claimed)
                      /\ Claimed(v)' \cap (tx'[v].handled \cup tx'[v].failed) = {}
                      /\ tx'[v].handled \cap tx'[v].failed = {}
                      /\ tx'[v].written = tx'[v].handled
    BY DEF TransactionsAreTidy, Distinct
  <2>3. CASE v = w
    BY <1>2, <2>1, <2>3
  <2>4. CASE v # w
    <3>1. tx'[v] = tx[v] /\ Claimed(v)' = Claimed(v) /\ Locked(v)' = Locked(v)
      BY <1>2, <2>2, <2>4
    <3>2. /\ ~tx[v].open => tx[v] = NoTransaction
          /\ Distinct(tx[v].claimed)
          /\ Claimed(v) \cap (tx[v].handled \cup tx[v].failed) = {}
          /\ tx[v].handled \cap tx[v].failed = {}
          /\ tx[v].written = tx[v].handled
      BY DEF TransactionsAreTidy
    <3>3. QED BY <3>1, <3>2 DEF Distinct
  <2>5. QED BY <2>3, <2>4
<1>6. LockedArePending'
  BY <1>1, <1>5 DEF LockedArePending
<1>7. InsertsAreOwn' /\ AbsentAreFresh'
  BY <1>1, <1>2 DEF InsertsAreOwn, AbsentAreFresh, NoTransaction
<1>8. \A o \in Messages : \A t \in Targets : sent'[o][t] \in Nat /\ sent[o][t] \in Nat /\ sent'[o][t] >= sent[o][t]
  BY <1>3 DEF TypeOK
<1>9. \A o \in Messages : \A i \in DOMAIN Calls(o) : Calls(o)[i] \in Targets
  BY CallsShape
<1>10. HandledWereHeard'
  <2> SUFFICES ASSUME NEW v \in Workers, NEW o \in tx'[v].handled, ~MayFindNothing(o), NEW i \in DOMAIN Calls(o)
               PROVE  sent'[o][Calls(o)[i]] > 0
    BY DEF HandledWereHeard
  <2>1. o \in tx[v].handled
    BY <1>2 DEF NoTransaction
  <2>2. o \in Messages
    BY <2>1 DEF TypeOK, TransactionType
  <2>3. sent[o][Calls(o)[i]] > 0
    BY <2>1 DEF HandledWereHeard
  <2>4. QED BY <1>8, <1>9, <2>2, <2>3
<1>11. HandlingIsExact'
  <2>1. NotifiedWhenProcessed'
    <3> SUFFICES ASSUME NEW o \in Messages, status[o] = "processed", ~MayFindNothing(o), NEW i \in DOMAIN Calls(o)
                 PROVE  sent'[o][Calls(o)[i]] > 0
      BY <1>1 DEF NotifiedWhenProcessed
    <3>1. sent[o][Calls(o)[i]] > 0
      BY DEF HandlingIsExact, NotifiedWhenProcessed
    <3>2. QED BY <1>8, <1>9, <3>1
  <2>2. BatchesAreDisjoint'
    BY <1>5 DEF HandlingIsExact, BatchesAreDisjoint
  <2>3. QED BY <1>1, <2>1, <2>2 DEF HandlingIsExact, EffectsComeWithProcessing, RetriesDecide
<1>12. RepetitionsAreAccounted'
  <2> SUFFICES ASSUME NEW o \in Messages, NEW t \in Targets
               PROVE  sent'[o][t] <= retries'[o] + rollbacks' + Cardinality(Holders(o)')
    BY DEF RepetitionsAreAccounted, Holders
  <2>1. sent[o][t] <= retries[o] + rollbacks + Cardinality(Holders(o))
    BY DEF RepetitionsAreAccounted, Holders
  <2>2. sent[o][t] \in Nat /\ retries[o] \in Nat /\ rollbacks \in Nat
    BY DEF TypeOK
  <2>3. Cardinality(Holders(o)) \in {0, 1} /\ (Holders(o) = {} => Cardinality(Holders(o)) = 0)
    BY OneHolder
  <2>4. Cardinality(Holders(o)') \in {0, 1} /\ (Holders(o)' = {} => Cardinality(Holders(o)') = 0)
        /\ (Holders(o)' # {} => Cardinality(Holders(o)') = 1)
    <3>1. \A u, v \in Holders(o)' : u = v
      BY <1>11 DEF HandlingIsExact, BatchesAreDisjoint, Holders, Locked
    <3>2. QED BY <3>1, AtMostOne
  <2>5. QED BY <1>1, <1>3, <2>1, <2>2, <2>3, <2>4
<1>13. QED BY <1>4, <1>5, <1>6, <1>7, <1>10, <1>11, <1>12

\* What a commit does to a row: to one handled, failed, written, or none of these.
LEMMA CommitEffects ==
  ASSUME Inv, NEW w \in Workers, Commit(w)
  PROVE  /\ UNCHANGED <<createdAt, sent, rollbacks>>
         /\ tx'[w] = NoTransaction /\ \A v \in Workers \ {w} : tx'[v] = tx[v]
         /\ TypeOK'
         /\ \A m \in tx[w].handled :
              /\ m \in Messages /\ status[m] = "pending" /\ m \notin tx[w].failed
              /\ status'[m] = "processed" /\ retries'[m] = retries[m] + 1 /\ effects'[m] = effects[m] + 1
         /\ \A m \in tx[w].failed :
              /\ m \in Messages /\ status[m] = "pending" /\ m \notin tx[w].handled
              /\ status'[m] = (IF Terminal(m) THEN "given_up" ELSE "pending")
              /\ retries'[m] = retries[m] + 1 /\ effects'[m] = effects[m]
         /\ \A m \in tx[w].queued :
              /\ m \in Messages /\ status[m] = "absent"
              /\ status'[m] = "pending" /\ retries'[m] = retries[m] /\ effects'[m] = effects[m]
         /\ \A m \in Messages \ (tx[w].handled \cup tx[w].failed \cup tx[w].queued) :
              status'[m] = status[m] /\ retries'[m] = retries[m] /\ effects'[m] = effects[m]
<1> USE DEF Inv
<1> DEFINE t == tx[w]
<1>1. /\ tx' = [tx EXCEPT ![w] = NoTransaction]
      /\ UNCHANGED <<createdAt, sent, rollbacks>>
      /\ status' = [m \in Messages |->
                      CASE m \in t.handled                  -> "processed"
                        [] m \in t.failed /\ Terminal(m)    -> "given_up"
                        [] m \in t.queued                   -> "pending"
                        [] OTHER                            -> status[m]]
      /\ retries' = [m \in Messages |-> IF m \in t.handled \cup t.failed THEN retries[m] + 1 ELSE retries[m]]
      /\ effects' = [m \in Messages |-> IF m \in t.written THEN effects[m] + 1 ELSE effects[m]]
  BY DEF Commit
<1>2. /\ t.handled \subseteq Messages /\ t.failed \subseteq Messages /\ t.queued \subseteq Messages
      /\ t.handled \cap t.failed = {} /\ t.written = t.handled
      /\ \A m \in t.handled \cup t.failed : status[m] = "pending"
      /\ \A m \in t.queued : status[m] = "absent"
  BY DEF TypeOK, TransactionType, TransactionsAreTidy, LockedArePending, Locked, InsertsAreOwn
<1>3. tx'[w] = NoTransaction /\ (\A v \in Workers \ {w} : tx'[v] = tx[v]) /\ tx' \in [Workers -> TransactionType]
  <2>1. NoTransaction \in TransactionType
    BY DEF NoTransaction, TransactionType
  <2>2. QED BY <1>1, <2>1 DEF TypeOK
<1>4. due' \subseteq Messages
  <2>1. PICK scheduled \in SUBSET t.queued : due' = (due \ t.failed) \cup (t.queued \ scheduled)
    BY DEF Commit
  <2>2. QED BY <1>2, <2>1 DEF TypeOK
<1> HIDE DEF t
<1>5. TypeOK'
  <2>1. status' \in [Messages -> Statuses]
    BY <1>1 DEF TypeOK, Statuses
  <2>2. retries' \in [Messages -> Nat] /\ effects' \in [Messages -> Nat]
    BY <1>1 DEF TypeOK
  <2>3. QED BY <1>1, <1>3, <1>4, <2>1, <2>2 DEF TypeOK
<1>6. \A m \in t.handled : status'[m] = "processed" /\ retries'[m] = retries[m] + 1 /\ effects'[m] = effects[m] + 1
  BY <1>1, <1>2
<1>7. \A m \in t.failed : /\ status'[m] = (IF Terminal(m) THEN "given_up" ELSE "pending")
                          /\ retries'[m] = retries[m] + 1 /\ effects'[m] = effects[m]
  BY <1>1, <1>2
<1>8. \A m \in t.queued : status'[m] = "pending" /\ retries'[m] = retries[m] /\ effects'[m] = effects[m]
  BY <1>1, <1>2
<1>9. \A m \in Messages \ (t.handled \cup t.failed \cup t.queued) :
         status'[m] = status[m] /\ retries'[m] = retries[m] /\ effects'[m] = effects[m]
  BY <1>1, <1>2
<1>10. QED BY <1>1, <1>2, <1>3, <1>5, <1>6, <1>7, <1>8, <1>9 DEF t

LEMMA CommitInv == ASSUME Inv, NEW w \in Workers, Commit(w) PROVE Inv'
<1> USE DEF Inv
<1> DEFINE t == tx[w]
<1>1. /\ UNCHANGED <<createdAt, sent, rollbacks>>
      /\ tx'[w] = NoTransaction /\ \A v \in Workers \ {w} : tx'[v] = tx[v]
      /\ TypeOK'
  BY CommitEffects
<1>2. \A m \in t.handled :
         /\ m \in Messages /\ status[m] = "pending" /\ m \notin t.failed
         /\ status'[m] = "processed" /\ retries'[m] = retries[m] + 1 /\ effects'[m] = effects[m] + 1
  BY CommitEffects
<1>3. \A m \in t.failed :
         /\ m \in Messages /\ status[m] = "pending" /\ m \notin t.handled
         /\ status'[m] = (IF Terminal(m) THEN "given_up" ELSE "pending")
         /\ retries'[m] = retries[m] + 1 /\ effects'[m] = effects[m]
  BY CommitEffects
<1>4. \A m \in t.queued :
         /\ m \in Messages /\ status[m] = "absent"
         /\ status'[m] = "pending" /\ retries'[m] = retries[m] /\ effects'[m] = effects[m]
  BY CommitEffects
<1>5. \A m \in Messages \ (t.handled \cup t.failed \cup t.queued) :
         status'[m] = status[m] /\ retries'[m] = retries[m] /\ effects'[m] = effects[m]
  BY CommitEffects
<1>6. /\ \A v \in Workers \ {w} : Claimed(v)' = Claimed(v) /\ Locked(v)' = Locked(v)
      /\ Claimed(w)' = {} /\ Locked(w)' = {} /\ Distinct(tx'[w].claimed)
      /\ tx'[w].handled = {} /\ tx'[w].failed = {} /\ tx'[w].queued = {} /\ tx'[w].written = {}
  BY <1>1 DEF NoTransaction, Claimed, Locked, Distinct
<1>7. \A v \in Workers \ {w} : /\ Locked(v) \subseteq Messages \ (t.handled \cup t.failed \cup t.queued)
                               /\ tx[v].queued \subseteq Messages \ (t.handled \cup t.failed \cup t.queued)
  <2>1. t.handled \cup t.failed \subseteq Locked(w)
    BY DEF Locked
  <2> SUFFICES ASSUME NEW v \in Workers \ {w}
               PROVE  /\ Locked(v) \subseteq Messages \ (t.handled \cup t.failed \cup t.queued)
                      /\ tx[v].queued \subseteq Messages \ (t.handled \cup t.failed \cup t.queued)
    OBVIOUS
  <2>2. Locked(v) \cap (t.handled \cup t.failed) = {} /\ tx[v].queued \cap t.queued = {}
    BY <2>1 DEF HandlingIsExact, BatchesAreDisjoint, InsertsAreOwn
  <2>3. Locked(v) \subseteq Messages /\ tx[v].queued \subseteq Messages
    BY DEF TypeOK, TransactionType, Locked
  <2>4. \A m \in Locked(v) : status[m] = "pending"
    BY DEF LockedArePending
  <2>5. \A m \in tx[v].queued : status[m] = "absent"
    BY DEF InsertsAreOwn
  <2>6. QED BY <1>2, <1>3, <1>4, <2>2, <2>3, <2>4, <2>5
<1> HIDE DEF t
<1>8. TransactionsAreTidy'
  <2> SUFFICES ASSUME NEW v \in Workers
               PROVE  /\ ~tx'[v].open => tx'[v] = NoTransaction
                      /\ Distinct(tx'[v].claimed)
                      /\ Claimed(v)' \cap (tx'[v].handled \cup tx'[v].failed) = {}
                      /\ tx'[v].handled \cap tx'[v].failed = {}
                      /\ tx'[v].written = tx'[v].handled
    BY DEF TransactionsAreTidy, Distinct
  <2>1. CASE v = w
    BY <1>1, <1>6, <2>1
  <2>2. CASE v # w
    <3>1. tx'[v] = tx[v] /\ Claimed(v)' = Claimed(v)
      BY <1>1, <1>6, <2>2
    <3>2. /\ ~tx[v].open => tx[v] = NoTransaction
          /\ Distinct(tx[v].claimed)
          /\ Claimed(v) \cap (tx[v].handled \cup tx[v].failed) = {}
          /\ tx[v].handled \cap tx[v].failed = {}
          /\ tx[v].written = tx[v].handled
      BY DEF TransactionsAreTidy
    <3>3. QED BY <3>1, <3>2 DEF Distinct
  <2>3. QED BY <2>1, <2>2
<1>9. LockedArePending'
  BY <1>5, <1>6, <1>7 DEF LockedArePending
<1>10. InsertsAreOwn'
  <2>1. ASSUME NEW v \in Workers, NEW o \in tx'[v].queued
        PROVE  status'[o] = "absent" /\ \E c \in tx'[v].handled : o \in FollowUps[c]
    <3>1. v # w /\ tx'[v] = tx[v] /\ o \in tx[v].queued
      BY <1>1, <1>6, <2>1
    <3>2. status'[o] = status[o]
      BY <1>5, <1>7, <3>1
    <3>3. QED BY <3>1, <3>2 DEF InsertsAreOwn
  <2>2. \A u, v \in Workers : u # v => tx'[u].queued \cap tx'[v].queued = {}
    BY <1>1, <1>6 DEF InsertsAreOwn
  <2>3. QED BY <2>1, <2>2 DEF InsertsAreOwn
<1>11. AbsentAreFresh'
  BY <1>2, <1>3, <1>4, <1>5 DEF AbsentAreFresh
<1>12. HandledWereHeard'
  BY <1>1, <1>6 DEF HandledWereHeard
<1>13. HandlingIsExact'
  <2>1. EffectsComeWithProcessing'
    <3> SUFFICES ASSUME NEW m \in Messages PROVE effects'[m] = (IF status'[m] = "processed" THEN 1 ELSE 0)
      BY DEF EffectsComeWithProcessing
    <3>1. effects[m] = (IF status[m] = "processed" THEN 1 ELSE 0)
      BY DEF HandlingIsExact, EffectsComeWithProcessing
    <3>2. QED BY <1>2, <1>3, <1>4, <1>5, <3>1
  <2>2. BatchesAreDisjoint'
    BY <1>6 DEF HandlingIsExact, BatchesAreDisjoint
  <2>3. RetriesDecide'
    <3> SUFFICES ASSUME NEW m \in Messages
                 PROVE  /\ status'[m] = "given_up" => retries'[m] = MaxRetries
                        /\ status'[m] = "pending" => retries'[m] < MaxRetries
      BY DEF RetriesDecide
    <3>1. /\ status[m] = "given_up" => retries[m] = MaxRetries
          /\ status[m] = "pending" => retries[m] < MaxRetries
          /\ status[m] = "absent" => retries[m] = 0
      BY DEF HandlingIsExact, RetriesDecide, AbsentAreFresh
    <3>2. retries[m] \in Nat /\ MaxRetries \in Nat \ {0}
      BY LimitsAssumption DEF TypeOK
    <3>3. CASE m \in t.failed
      BY <1>3, <3>1, <3>2, <3>3 DEF Terminal
    <3>4. QED BY <1>2, <1>4, <1>5, <3>1, <3>2, <3>3
  <2>4. NotifiedWhenProcessed'
    <3> SUFFICES ASSUME NEW m \in Messages, status'[m] = "processed", ~MayFindNothing(m), NEW i \in DOMAIN Calls(m)
                 PROVE  sent[m][Calls(m)[i]] > 0
      BY <1>1 DEF NotifiedWhenProcessed
    <3>1. CASE m \in t.handled
      BY <3>1 DEF HandledWereHeard, t
    <3>2. CASE m \notin t.handled
      <4>1. status[m] = "processed"
        BY <1>3, <1>4, <1>5, <3>2
      <4>2. QED BY <4>1 DEF HandlingIsExact, NotifiedWhenProcessed
    <3>3. QED BY <3>1, <3>2
  <2>5. QED BY <2>1, <2>2, <2>3, <2>4 DEF HandlingIsExact
<1>14. RepetitionsAreAccounted'
  <2> SUFFICES ASSUME NEW o \in Messages, NEW x \in Targets
               PROVE  sent'[o][x] <= retries'[o] + rollbacks' + Cardinality(Holders(o)')
    BY DEF RepetitionsAreAccounted, Holders
  <2>1. sent[o][x] <= retries[o] + rollbacks + Cardinality(Holders(o))
    BY DEF RepetitionsAreAccounted, Holders
  <2>2. sent[o][x] \in Nat /\ retries[o] \in Nat /\ rollbacks \in Nat
    BY DEF TypeOK
  <2>3. CASE o \in t.handled \cup t.failed
    <3>1. Cardinality(Holders(o)) \in {0, 1}
      BY OneHolder
    <3>2. Holders(o)' = {}
      <4>1. \A v \in Workers \ {w} : o \notin Locked(v)
        BY <1>7, <2>3
      <4>2. QED BY <1>1, <1>6, <4>1 DEF Holders, Locked
    <3>3. Cardinality(Holders(o)') = 0
      BY <3>2, FS_EmptySet
    <3>4. retries'[o] = retries[o] + 1
      BY <1>2, <1>3, <2>3
    <3>5. QED BY <1>1, <2>1, <2>2, <3>1, <3>3, <3>4
  <2>4. CASE o \notin t.handled \cup t.failed
    <3>1. Holders(o)' = Holders(o)
      BY <1>1, <1>6, <2>4 DEF Holders, t
    <3>2. retries'[o] = retries[o]
      BY <1>4, <1>5, <2>4
    <3>3. QED BY <1>1, <2>1, <3>1, <3>2
  <2>5. QED BY <2>3, <2>4
<1>15. QED BY <1>1, <1>8, <1>9, <1>10, <1>11, <1>12, <1>13, <1>14

\* Nothing happens to the outbox.
LEMMA StutterInv == ASSUME Inv, UNCHANGED vars PROVE Inv'
<1> USE DEF Inv
<1>1. UNCHANGED <<createdAt, status, retries, due, tx, sent, effects, rollbacks>>
  BY DEF vars
<1>2. TypeOK'
  BY <1>1 DEF TypeOK
<1>3. QED
  BY <1>1, <1>2 DEF TransactionsAreTidy, LockedArePending, InsertsAreOwn, AbsentAreFresh, HandledWereHeard,
     HandlingIsExact, EffectsComeWithProcessing, BatchesAreDisjoint, RetriesDecide, NotifiedWhenProcessed,
     RepetitionsAreAccounted, Claimed, Locked

\* The invariant holds for every set of messages and workers and every limit.
THEOREM OutboxInvariant == Spec => []Inv
<1>1. Inv /\ [Next]_vars => Inv'
  <2> SUFFICES ASSUME Inv, [Next]_vars PROVE Inv'
    OBVIOUS
  <2>1. ASSUME NEW m \in Messages, Enqueue(m) PROVE Inv'
    BY <2>1, EnqueueInv
  <2>2. ASSUME NEW m \in Messages, BecomeDue(m) PROVE Inv'
    BY <2>2, BecomeDueInv
  <2>3. ASSUME NEW w \in Workers, Claim(w) PROVE Inv'
    BY <2>3, ClaimInv
  <2>4. ASSUME NEW w \in Workers, Handle(w) PROVE Inv'
    BY <2>4, HandleInv
  <2>5. ASSUME NEW w \in Workers, Throw(w) PROVE Inv'
    BY <2>5, ThrowInv
  <2>6. ASSUME NEW w \in Workers, Rollback(w) PROVE Inv'
    BY <2>6, RollbackInv
  <2>7. ASSUME NEW w \in Workers, Commit(w) PROVE Inv'
    BY <2>7, CommitInv
  <2>8. CASE UNCHANGED vars
    BY <2>8, StutterInv
  <2>9. QED BY <2>1, <2>2, <2>3, <2>4, <2>5, <2>6, <2>7, <2>8 DEF Next
<1>2. QED BY InitInv, <1>1, PTL DEF Spec

\* Each handler's writes are committed once, with its message; no row is in two
\* batches; a message is given up with its last retry; a notification that counts as
\* processed reached each of its targets (runWorker, dispatchSideEffect, the catch block).
THEOREM HandlingExact == Spec => []HandlingIsExact
<1>1. Inv => HandlingIsExact
  BY DEF Inv
<1>2. QED BY OutboxInvariant, <1>1, PTL

\* A call is repeated at most once per retry and per transaction rolled back.
THEOREM RepetitionsAccounted == Spec => []RepetitionsAreAccounted
<1>1. Inv => RepetitionsAreAccounted
  BY DEF Inv
<1>2. QED BY OutboxInvariant, <1>1, PTL

-----------------------------------------------------------------------------
\* The refinement

\* A step of the outbox is a step of the queue or leaves the queue as it is.
LEMMA QueueStep == Inv /\ [Next]_vars => [Queue!Next]_(Queue!vars)
<1> SUFFICES ASSUME Inv, [Next]_vars PROVE Queue!Next \/ UNCHANGED Queue!vars
  OBVIOUS
<1> USE DEF Inv
<1>1. ASSUME NEW m \in Messages, Enqueue(m) PROVE Queue!Next
  <2>1. Queue!Enqueue(m)
    BY <1>1 DEF Enqueue, Queue!Enqueue, Queue!In
  <2>2. QED BY <2>1 DEF Queue!Next
<1>2. ASSUME NEW m \in Messages, BecomeDue(m) PROVE UNCHANGED Queue!vars
  BY <1>2 DEF BecomeDue, Queue!vars
<1>3. ASSUME NEW w \in Workers, Claim(w) \/ Handle(w) \/ Throw(w) \/ Rollback(w) PROVE UNCHANGED Queue!vars
  BY <1>3 DEF Claim, Handle, Throw, Rollback, rows, Queue!vars
<1>4. ASSUME NEW w \in Workers, Commit(w) PROVE Queue!Next
  <2> DEFINE handled == tx[w].handled
             lost == {m \in tx[w].failed : Terminal(m)}
             new == tx[w].queued
  <2>1. /\ handled \in SUBSET Queue!In("pending") /\ lost \in SUBSET Queue!In("pending")
        /\ new \in SUBSET Queue!In("absent") /\ handled \cap lost = {}
    BY <1>4, CommitEffects DEF Queue!In
  <2>2. new \subseteq UNION {FollowUps[m] : m \in handled}
    BY DEF InsertsAreOwn
  <2>3. status' = [m \in Messages |-> CASE m \in handled -> "processed"
                                       [] m \in lost    -> "given_up"
                                       [] m \in new     -> "pending"
                                       [] OTHER         -> status[m]]
    BY <1>4 DEF Commit
  <2>4. effects' = [m \in Messages |-> IF m \in handled THEN effects[m] + 1 ELSE effects[m]]
    BY <1>4 DEF Commit, TransactionsAreTidy
  <2>5. Queue!Settle(handled, lost, new)
    BY <2>1, <2>2, <2>3, <2>4 DEF Queue!Settle
  <2>6. QED BY <2>1, <2>5 DEF Queue!Next
<1>5. CASE UNCHANGED vars
  BY <1>5 DEF vars, Queue!vars
<1>6. QED BY <1>1, <1>2, <1>3, <1>4, <1>5 DEF Next

\* The workers, with their batches, locks, retries and rollbacks, implement the queue
\* the services were promised: a message that was written is handled or given up
\* once, and what its handler writes comes with it.
THEOREM OutboxImplementsQueue == Spec => ImplementsQueue
<1>1. Init => Queue!Init
  BY DEF Init, Queue!Init
<1>2. QED BY OutboxInvariant, <1>1, QueueStep, PTL DEF Spec, ImplementsQueue, Queue!Spec
=============================================================================
