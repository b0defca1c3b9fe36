# Verification of the ShipWright delivery platform

This directory holds TLA+ specifications of the platform under `src/`, configurations that check
them with TLC, and proofs that TLAPS checks. Every definition that models code is mapped to its
lines in `PROJECT.json`; the names are the code's own.

1. [The system](#1-the-system)
2. [Hard behaviours](#2-hard-behaviours)
3. [Modules](#3-modules)
4. [Runs, bounds and fairness](#4-runs-bounds-and-fairness)
5. [What the code does that its reader may not expect](#5-what-the-code-does-that-its-reader-may-not-expect)
6. [Proofs](#6-proofs)
7. [What is not modelled](#7-what-is-not-modelled)
8. [Plan](#8-plan)

## 1. The system

A consumer orders from a restaurant, or a business asks for a delivery. The API (`apps/api`,
NestJS) writes rows to PostgreSQL and messages to an outbox table; workers (`apps/worker`) poll the
outbox and dispatch, charge and notify; drivers accept offers and carry jobs; operators intervene
from a console; Stripe holds the money and reports by webhooks. The web application (`apps/web`)
loads rows into pages, keeps them there and sends changes back. There is no shared memory: the
processes meet in the rows of the database.

| Component | State | Operations | Talks to | Correct when |
|---|---|---|---|---|
| Dispatch and job progression (`jobs.service`, `driver.service`, worker) | `jobs`, `job_offers`, `drivers`, `proof_of_delivery`, dispatch and expiry messages | request, retry, reassign, unassign, cancel; online, offline, accept, reject, proof, report a stage; dispatch, expiry check | outbox, payments | the records of who has a job agree; one open offer at most; a requested job is never forgotten; a search ends |
| Payments and settlement (`payments.service`, `packages/payments`, worker) | `payments`, `refunds`, `payout_ledger`, settlement columns of `jobs` | authorize, create intent, capture, settle, webhook | Stripe, jobs, orders, outbox | charged once, in full only when delivered; the row converges to what Stripe did |
| Finance reviews (`payments.service`) | `finance_review_records` and events | create, update, resolve | business, admin | the events tell the record's story; one open review of an order |
| Outbox worker (`apps/worker`) | `outbox_messages` | claim a batch, handle, retry with back-off, give up | every handler | effects exactly with processing; every message is settled |
| Idempotent requests (`pg.service`) | `idempotency_keys` | run once, replay, refuse | every `POST` | one effect per key, one answer |
| Restaurants, menus, orders (`restaurants.service`) | `customer_orders`, menu tables, menu audit | public menu, order, edit the menu, roll it back | payments, jobs | charged what is shown; a rollback takes back nothing that it does not name, but for later changes |
| Quotes (`quotes.service`) | `quotes` | compute, store | jobs | price = payout + fee, within the table's checks |
| Identity, members, invitations (`identity.service`, `fleets.service`) | memberships, `org_invitations`, statuses, access audit | invite, resend, cancel, change, suspend | outbox | a cancelled invitation stays so; an administrator remains; the trail names the rows |
| Demo requests, support escalations, operational resets | their rows, events and messages; reset runs | create, update, close; preview, execute | outbox, one another | the history tells the row; a reset spares what people handled |
| Pilot workspaces, validation evidence, release readiness | workspaces, checks, evidence runs | create, update, check off, judge | web | status follows the checks, alike on both sides |
| Notifications (`notifications.service`) | read marks over events | list, mark, mark all | web | unread is what was not shown |
| Briefing, reports, incident and admin queues | none | classify, count, truncate | web | nothing urgent is missed, and all of them agree |
| Access: services, policies, pages | memberships | read and act on a job | all | what is offered is accepted |
| Web sessions | session in tab, cache, cookie, client | restore, sign in and out, other tabs | Supabase, API | who is shown is who is signed in |
| Web pages: storefront, driver, delivery, order, menu, consoles, pilots, notifications | what was loaded, what is typed, what is under way | load, choose, refresh, save | API | a page at rest shows the server |
| Schema and start-up check, tokens, contracts, observability, static pages | - | - | all | - |

## 2. Hard behaviours

`PROJECT.json` lists each hazard at its line. In short:

* **Interleaving.** Accepting, reassigning, unassigning, cancelling and expiring write the same four
  records; identity and fleet requests run statement by statement without a transaction; two people
  update one record whose old state each of them has read.
* **Partial failure.** Handlers call Stripe inside a database transaction, and a worker's batch is one
  transaction: the database rolls back, Stripe and the mail server do not.
* **Unreliable delivery.** Webhooks come late, repeated and out of order. Messages are handled at least
  once, or are given up after the last retry. Answers to a browser get lost.
* **Time.** An offer expires by the database's clock and is judged by two others; messages back off.
* **Stale state.** A settlement is computed when a job is cancelled and again when the money moves; a
  page writes back what it loaded; an audit record names what was read before an update.
* **Liveness.** A waiting job is only looked at if some message about it is still due; a message only
  gets its turn if batches commit.
* **Deadlock.** Transactions around one job lock its rows in three different orders, and a key is
  inserted under a shared lock of the user's row that the request may then want for itself.
* **The same question answered apart.** Eligibility, risk, readiness, progress and access are each
  computed by several queries, services and pages.
* **Numbers.** Fees, quotes and report windows round, floor and cap.

## 3. Modules

| Group | Modules |
|---|---|
| Jobs and drivers | `JobLifecycle` (abstract), `Dispatch` (implements it), `DispatchProofs`, `MCDispatch` |
| Money | `CancellationSettlement`, `SettlementCases`, `Payments` (composes `JobLifecycle` and `CancellationSettlement`), `PaymentsProofs`, `MCPayments` |
| Messages | `MessageQueue` (abstract), `Outbox` (implements it), `OutboxProofs`, `MCOutbox` |
| Offices (services beside dispatch) | `DemoRequests`, `SupportEscalations`, `OperationalResets` (composes the two), `Governance`, `Team`, `IdempotentRequests`, `Menus`, `Finance`, composed by `MCOffices`; `RecordsProofs` (the last three), `OfficesProofs` (the others and the composition) |
| Pages (a browser and the service it calls) | `Pilots`, `Storefront`, `BrowserSession`, `Desks`, `RecordPages`, `DriverDesk`, `MenuDesk`, `Inbox`, composed by `MCPages`; `BrowserProofs` (the session, the storefront, pilots, notifications, the driver's page), `PagesProofs` (the others and the composition) |
| Cases (pure functions) | `Cases`, `SettlementCases`, `Pricing`, `Readiness`, `Attention`, `Closeout`, `Eligibility`, `Tracking`, `Access`, composed by `MCCases`; `CasesProofs` |

### Jobs and drivers

Each API operation and each message handler is one transaction that holds the job's row lock
(`select ... for update`), so each is one action. The rows of `job_offers` are keyed by job and
driver and become a function `offer`; `"LAPSED"` is an `OFFERED` row whose `expires_at` the database's
clock has passed, and `Lapse` is the passing. `dispatchQueue` and `expiryQueue` are the unprocessed
messages; a handler takes its message away in the same step, because `processed_at` is set in the
handler's transaction. With `ClocksAgree = FALSE` a process may judge a lapsed offer as still open.
A handler whose transaction the database aborts changes nothing, and is the step not taken, as long
as what aborts it: `hasActiveOffer` overlooks an offer that lapsed, the index over open offers refuses
another one (`Refused`), and the worker's batch with that message is rolled back each time.
`Suitable` abstracts the eligibility query (`Eligibility` has it); the order of candidates is left
open, which allows every ranking.

### Money

`determineCancellationSettlement` with its phases, fee and provider action is a pure function.
`Percent` is `Math.round(n * p / 100)` on whole numbers; JavaScript's double arithmetic gives the same
cents for every total up to 30 000 in the currency's main unit, computed exhaustively.

`Payments` is one job, one driver, one payment: different jobs' payments share no row. The job moves
by `JobLifecycle`, which `Dispatch` implements, so whatever the payment can meet here, dispatch can
produce. `payment` is the row; `Snapshot` is what `updatePaymentFromSnapshot` writes, `OrderFollows`
the triggers of migration 0014 and the worker's `completeCustomerOrderIfPaidAndDelivered`. Stripe is
external: `intents`, the `answers` it keeps under idempotency keys, the `events` it sent. Every handler
that calls Stripe has three outcomes beyond success: Stripe refuses or is unreachable; Stripe acts and
its answer is lost; Stripe acts and the handler's commit is lost.

### Messages

`Outbox` models `processOutboxBatch` as it runs: a transaction that claims rows oldest first with
`SKIP LOCKED`, one handler after the other, one commit. A handler may throw (a retry is counted, the
batch goes on), a statement may fail (the batch rolls back with its retry counts), the worker may
stop. Calls leave the database and stay made; the history variables count them. `MessageQueue` is the
promise of the repository's README: handled with its effects, or given up, once. `Outbox` implements
it with a refinement mapping.

### Offices

Services that share no row run side by side; each module says which reads, writes and commits are
steps of their own. `DemoRequests` and `SupportEscalations` split a transaction where it reads without
a lock; `OperationalResets` acts on both. `Team` and `Governance` have a step for each statement,
because their services use no transaction, and a request may end after any of them. `Menus` has the
update's read and write, the audit trail and the rollback from it, which writes back every column that
the event had found and names only those the event had changed. `Finance` has the lookup and the
insert apart. `IdempotentRequests` has the unique index's wait, the lock on the user's row, which the
key's foreign key shares and the opening of a business wants for itself, and the replay; a client may
send again while the first attempt runs.

### Pages

A page is what it has loaded, the calls under way and the answers that will come late, in another
order, or never; the service executes a call between the two. `Desks` is one protocol for twenty-seven
pages of the consoles, told apart by what they do with superseded answers, filters, refreshes and
saves (`Pages` maps each to its component). `RecordPages` counts moments: what is shown carries how
many changes the server had made; a load goes on with an empty list where that list's call failed, and
`missing` tells which. `Storefront` has the restaurant edit its menu between load and order, and two
ways for an answer about a payment to be lost: the service's to the page, and Stripe's to the service,
after which the page says that no payment was completed (`held` counts the authorized payments,
`lost` the answers). `BrowserSession` has the client's announcements, the provider's numbered attempts, other tabs,
timeouts, the cookie and the sign-in page that bypasses the attempts. `DriverDesk` is the driver's page
with `driver.service` behind it. `MenuDesk` moves items by renumbering them one call at a time.
`Inbox` has two lists, the bell's and the page's, which mark first,
call later and do not tell each other. `Pilots` has the workspaces, their checks and the page that edits
them.

### Cases

A behaviour is one input, drawn from both sides of every limit; an invariant compares what several
places of the code make of it. `Attention` has the job and order rows as the briefing, the end-of-day
report, the incident summary, the intervention queue, the jobs service and the consoles judge them;
`Closeout` the rows that the queries read (the orders changed last, the orders of the day, a few of
any age), the truncated lists and the quiet day. `Eligibility` has five views of one courier, with the
key of `job_offers` and the primary vehicle apart from a matching one.
`Readiness` has the guardrail in the API and in the browser, the rehearsal, the release verdict and
the fleet couriers in SQL and in TypeScript. `Tracking` has the progress as customer, courier and
operator read it. `Access` has a person's memberships against the conditions of the services, the
row policies and the pages. `Pricing` has the quote with binary fractions as a choice at ties.

## 4. Runs, bounds and fairness

| Run | Instance | Shows |
|---|---|---|
| `dispatch_crossing` | 2 jobs, 2 drivers, unassign override, skewed clocks | the four records agree under every interleaving; refinement of `JobLifecycle` |
| `dispatch_live` | 1 job, 3 drivers, 2 retries, agreeing clocks, no unassign | a requested job is pending; a refused insert waits for a check to come; proofs stay with carriers; the search ends or is held back |
| `pay_attempts` | 2 keys, 1 unassign, expiring holds, ordered events, given-up messages | charged through one intent; the row converges to Stripe |
| `pay_refunds` | 1 key, 2 unassigns, staff refund, 2 refund events, unordered events, expiring holds | row CHECKs; captured cents are real; full price only on delivery; nothing paid out without it |
| `pay_live` | 2 keys, unordered events, holds in place, Stripe's outages end | a requested capture happens, unless the row stops being `AUTHORIZED` first |
| `outbox` | 2 workers, 3 messages (two channels, a payment with its follow-up), batches of 2, 2 retries, 1 rollback | effects exactly with processing; repetitions are accounted for; refinement of `MessageQueue`; every message settles |
| `offices` | seven services, two or three requests at once in each, two varying columns of a category | histories tell the rows; an administrator remains; keys decide, and only two openings of a business deadlock; how far a rollback reaches; twins; what people decided stays |
| `pages` | eight areas, 2 to 4 calls each (of notifications: 2, a window of 1, 2 calls), a menu of two dishes alike that the restaurant edits once, 2.3 million states | a page at rest shows the server; nothing typed goes astray; orders, sessions and a driver's work are as shown |
| `cases` | about 1 100 000 inputs | the places that answer one question agree, and with the tables' checks |
| `dispatch_reopened`, `pay_matrix`, `driver_proof` (`DriverDesk` on its own) | small | section 5 |

The runs `offices`, `pages` and `cases` join modules whose properties concern one another's kind of
hazard; a behaviour picks one area and stays there, so the areas do not multiply. Each property of
those runs is a named conjunction, and each conjunct is stated and explained in its own module:

| Property | Conjuncts |
|---|---|
| `HistoriesTell` | `RequestHistoryTells`, `EscalationHistoryTells`, `ResolverMatchesStatus`, `ReviewsTellTheirStory`, `RecordsNameState`, `AuditNamesStanding`, `TrailTellsTheRow` |
| `HandWorkStays` | `ResetSparesQualified`, `HandClosedStays`, `CancelledStays`, `DeactivatedStays` |
| `KeysDecide` | one effect and one answer per key, one business per user, one job per quote, some attempt goes on unless two open a business |
| `PagesShowTheServer` | `PageCatchesUp`, `ShownChecksAreComplete`, `DeskIsCurrent`, `RecordIsWhole`, `MenuDeskIsSound`, `InboxAgrees` |
| `NothingGoesAstray` | `UpdatesStayInSelected`, `SavedWhereTyped`, `NothingGoesBack` |
| `OrdersAreAsShown` | `OrderIsTheCart`, `ChargedAsShown`, `PaidTwiceOnlyIfLost` |
| `SessionsHold` | `RestoredIsCurrent`, `RestoredHasCookie`, `NeverStuckLoading` |
| `RiskIsSeenAlike` | `BriefedIsReported`, `QueuesAgree`, `RiskSeenAlike`, `FinanceSeesRisk`, `OrderPageAgrees`, `FlaggedJobsAreReviewed`, `WorstComesFirst`, `WindowsExplain`, `QuietDaysAreQuiet` |
| `ViewsAgree` | `EligibilityAgrees`, `ReasonsAgree`, `AdviceIsAccepted`, `ViewsTellOneStory`, `ProgressStays`, `OfferedIsAccepted` |
| `AccessAgrees` | `ShownOpens`, `PoliciesAgree`, `WorkspacesOpen` |

**Exceptions are named.** Where the code does not keep a promise in some situation, the property says
in which (a history variable such as `hasty`, `unsettled`, `crossed`, `lost`, or an explicit
condition), and everything else is held to it. A property's comment tells the exceptions.

**Why these bounds.** The proofs of section 6 remove the bounds that are constants for
everything but liveness; those of the modules themselves stay (three items of a menu, two memberships
of a person, one escalation of a record). The four records of dispatch are related per job and
driver; two of each make every crossing possible. Three drivers and two retries
let a retry's message, an expiry check and a redispatch of one job be outstanding together. In
Payments, two keys are needed for two intents of one payment; one unassign for a release or a fee, two
for a refund, because the worker refunds only when a job that was captured, cancelled and taken back
again is settled late. The price of 1000 cents has the 250 cents minimum fee, so that fee, refund and
price differ. One staff refund of 400 cents, reported twice, is the smallest double count. In the
outbox, two workers and batches of two let a batch roll back with another message in it while its
sibling is claimed elsewhere. An office needs two people on one record for a stale read, and a third
request to overtake; three attempts on two keys make a duplicate of a duplicate wait, and two openings
collide with a third request about. A menu's category has two columns that vary, so that a rollback can
reach a column it does not name. Three orders and windows of two, one and one put an order and a
support record beyond each query. A page needs two
calls that cross and one change of the server between them; the third load shows that the last one
wins. `MaxRulings`, `MaxTeamWork`, `MaxTrail`, `MaxLoads` and the like count operations in the guards.

`CHECK_DEADLOCK FALSE` everywhere: a job may end delivered, a message handled, a page closed with
nothing left to do. Symmetry (jobs, drivers, keys, interchangeable values) is used in runs without
liveness only.

**Fairness.** `Dispatch!Fairness`: `runWorker` polls for ever and claims what is due, oldest first, in
one transaction. A dispatch message that the index over open offers refuses aborts that transaction
every time, so the two handlers are weakly fair per message only while no message is refused, and
`SearchEnds` names that case; time passes, so `Lapse` is fair. `Payments!Fairness`: the worker
retries what stays in the outbox, and an outage of Stripe ends before the retries do
(`RetriesSuffice`); Stripe repeats webhooks until they are accepted. `Outbox`: each worker goes on
polling and finishes its batch; that transactions are not rolled back for ever is the bound
`MaxRollbacks`, without which a poisonous statement starves its batch (section 5). Nobody is obliged
to order, accept, drive, cancel or refund.

## 5. What the code does that its reader may not expect

Three runs end with a counterexample; `PROJECT.json` quotes the lines.

* `dispatch_reopened`: the unassign override makes a picked-up job cancellable, which the runbook
  excludes.
* `pay_matrix`: the worker recomputes the settlement with the job's status of now, `CANCELLED`, and
  overwrites the documented settlement with manual review; with no provider action left the payment
  becomes `CANCELLED` while Stripe keeps the hold.
* `driver_proof`: the driver's page knows of a recorded proof only what it did itself. Loaded anew it
  offers to record it again, is refused, and never offers to complete the delivery.

Met while modelling, stated as exceptions of properties or as hazards:

* `hasActiveOffer` overlooks an offer that lapsed, the index over open offers does not. The batch is
  rolled back with the younger expiry check in it, and the next batch is the same (`Refused`); without
  that exception TLC finds a search that never ends.
* A capture request handled while the payment is not `AUTHORIZED`, because of a second attempt or a
  late event, counts as handled; when the row is `AUTHORIZED` again, nobody captures.
* A driver who accepted two offers looks free when the job named by `active_job_id` ends.
* A capture learned from the webhook makes no payout ready; an order whose first card was declined is
  never `FULFILLED`; a late `amount_capturable_updated` sets a captured payment back to `AUTHORIZED`;
  two events about one partial refund are added up.
* A handler whose statement fails rolls back its whole batch with the retry count, so it is claimed
  again with the same neighbours.
* Two administrators may suspend each other at the same time (`hasty`); a suspended one may still act.
* A resend that read an invitation before it was cancelled revives it only within the exceptions named
  in `Team`; two finance reviews of one order can be opened at once.
* Members invited with a role such as `OWNER` or `MANAGER`, and no organisation of their own, are sent
  to set up a business although team and finance pages serve them; a `FINANCE_VIEWER` is served payments
  that the table's policy hides; a person in two organisations may see the team of another one than the
  workspace names.
* The storefront uses a new key for each submission, so a lost answer can buy twice: the service's
  answer to the browser, or Stripe's answer to the service, after which the page says that no payment
  was completed although the hold is there.
* A menu's rollback writes back every column of the row that the event had found
  (`restaurants.service.ts:1153-1157`, `1197-1204`) and its audit record names the restored ones only:
  changes of other columns since then are lost without a trace in the trail.
* Two requests of one user to open a business under two keys share the user's row through their keys
  and then wait for each other's share; the database aborts one.
* The bell and the notifications page keep lists of their own: what one marks, the other shows as
  unread until it is loaded again.
* A record's page loads on when the list of escalations or the audit fails, and shows it as empty, even
  over one that was shown.
* The briefing reads the 100 orders changed last, the report the orders created that day, the
  intervention queue 12 rows of any age for each of four questions: a failed dispatch of yesterday is
  briefed and not reported, an uncaptured delivery of last month queued and not briefed.
* The readiness list looks at the primary vehicle only, worker and assignment at any; a courier without
  a primary one is called not eligible and is asked.
* `select count(*)` without a `from` (`dispatch-recovery.service.ts:307`) gives 1, so the advice to
  retry a job that never had an offer is never given.
* A courier who let an offer of the job pass is called ready by the panel, the check and the advice, and
  then refused by the key of job and driver (migration 0004:133).

## 6. Proofs

Eight modules of proofs hold for all values of the constants: any number of jobs, drivers, keys,
messages, people and requests at once. Each has the same shape: the invariant that is inductive, one
lemma for each action, the initial states, the step, and the theorems that follow. TLC checked every
inductive invariant on the run's instance before it was proved.

**`DispatchProofs`**

* **TypeCorrect**: one step per action. `OfferTypes` covers `createSequentialOffer`, shared by both
  worker handlers.
* **AssignmentsAgree**: `OneOpenOffer`, `AcceptedIffAssigned`, `StatusMatchesAssignment` and
  `ActiveJobIsCarried` are inductive only together. `acceptOffer` needs the third to know that a
  `REQUESTED` job has no accepted row left; `reassignDriver`, `applyManualUnassign` and `cancelJob`
  need the second to know whose job they take; the fourth needs both. **CarriersAreConsistent** states
  what the run checks. No assumption on clocks or overrides. `OneOpenOffer` rests on the index where a
  dispatch message inserts, and on what the handlers close themselves elsewhere.
* **RequestedJobsStayPending**: assumes `ClocksAgree` and no unassign override, both necessary (TLC
  has counterexamples without). The strengthening `OpenOffersAreWatched` says that every open offer
  has its expiry check to come. **RefusalsStayPassing** needs agreeing clocks only.
* **ProofStaysWithCarrier**: assumes no unassign override, which section 5 shows to be necessary.
* **DispatchImplementsLifecycle**: initial states map to initial states and every action to one
  abstract step or a stutter; it uses the invariants of AssignmentsAgree.

**`PaymentsProofs`**, for any set of keys, price, payout and schedule of Stripe

* **PaymentsInvariant** has two halves. `StripeInv` is about what Stripe did and said: an answer kept
  under a key, an event sent and the row name only intents that exist; what an event says was received
  was received and stays so (`EventsAreTrue`, `AnswersAreTrue`); an intent is charged once, is then the
  row's own, and no later one takes its place (`ChargesAreTold`, `ChargesAreLast`, `ChargedIsOurs`).
  `RowInv` is about the row: its CHECKs, that captured cents were received, and that a status with
  captured cents is one no authorization overwrites (`StatusFits`). Neither half is inductive alone: a
  handler writes into the row what an answer or an event says, and chooses its call by the row.
* **TypeCorrect**, **AmountsStayConsistent**, **CapturedWasReceived**, **ChargedAtMostOnce**,
  **RecordsConverge** state what the runs check. The last needs `HeardInOrder`: when events come in
  order, the row holds the latest one recorded.
* **NothingPaidOutUncharged**: a step that fulfils the order or releases the payout is one after which
  Stripe has the whole price.
* **FullChargeOnDelivery** assumes `Total > 250`. It is necessary: at 250 cents and below, the least
  fee of a late cancellation is the whole price.
* **PaymentsFollowLifecycle**: the job in `Payments` does what `JobLifecycle` allows, which `Dispatch`
  implements.

**`OutboxProofs`**, for any messages, workers, channels, batch and retry limits

* **OutboxInvariant**: no row is in two batches, what a transaction handled is locked and still pending
  in the table (`TransactionsAreTidy`, `LockedArePending`), a follow-up is inserted by one transaction
  (`InsertsAreOwn`), and what is not there yet has no history (`AbsentAreFresh`). `HandledWereHeard`
  carries the calls of a handler from the moment it returns to the commit.
* **HandlingExact** and **RepetitionsAccounted** follow; the latter counts the transactions that hold a
  message, which is at most one, by the cardinality of a set that is empty or a singleton.
* **OutboxImplementsQueue**: a commit is one abstract step for a whole batch, everything before it a
  stutter, since nothing is visible before the commit. The claim's batch is stated without recursion:
  the distinct sequence of oldest due rows (`IsOldest`).

**`RecordsProofs`** and **`OfficesProofs`**

* **AKeyDecides**: `KeysAreOwned` ties a transaction to its key, which has no answer before it commits;
  `UserIsLocked` and `BusinessIsFirst` make the count of businesses behind the lock a zero;
  `QuoteIsFree` keeps two commits of one quote apart. A key inserted shares the user's row by its
  foreign key, and `UserIsLocked` also says that nobody else shares the row while it is locked. That
  requests never all wait unless two openings have both inserted their keys (`OneGoesOn`) follows from
  the invariant: whoever holds the user's row or is about to commit waits for nobody.
* **RollbacksReach**: on a row that no two requests disturbed, a request is alone
  (`UndisturbedIsAlone`); the trail has no gap in any column once a rollback is read as the return to
  the whole row its original found (`TrailHasNoGap`); and a column no longer holds what an update left
  in it only if a later event touched it (`ChangesAreTold`). A rollback refuses columns that drifted, so
  what it changes beyond the columns it names was changed by somebody after its original.
* **ReviewsAreExplained**: two creations of one subject under way at once are counted as rivals before
  either inserts (`CreationsAreAlone`).
* **AdminsRemain**: `CountedBefore` says that a suspension about to be written was let through by a
  count above one; `AnotherIsActive` turns the count into a second administrator.
* **AuditsName**: needs that an undisturbed ruling is the only one on its subject (`RulingsAreAlone`).
* **OfficesAreTyped**, **HistoriesAreTrue**, **HandWorkIsKept** are about the composition: a step of
  the offices is a step of each of them or leaves it alone (`OfficesStep`), so their invariants hold
  together (`OfficesInv`). For the teams, `Fits` says statement by statement what the tables, the audit
  and the mails of an address hold while a request is between two of them.

**`CasesProofs`**, for any totals, distances, ages, lengths of lists and limits of pages

* **SettlementsAreSound** and **FeeIsRounded**: from `CaseAmounts`, `FeeBounds`,
  `SettlementConserves`, `FeeStaysWithinTotal` and `ActionFitsAmounts`.
* **QuotesStaySound**: a fare is a base, the miles and what does not depend on the distance
  (`FareParts`); rounding keeps within half a unit and in order (`RoundIsNear`, `RoundGrows`), so the
  margin between the two price lists outlasts it (`FeeIsThere`) and a longer way costs no less
  (`FaresGrow`).
* **ReadinessIsAgreed**: guardrails by their tests in order; `FreshEnough` is the one difference between
  pilots and the release, the last minute of the window.
* **ViewsAreAgreed**: the five views of a courier are one test of flags each (`FlagsAre`,
  `EligibleIs`, `ReadinessIs`) with two exceptions: the readiness list asks for the primary vehicle,
  and a courier who had an offer of the job is refused by the key (job_id, driver_id). The reason shown
  is one of the flags (`ReasonIsFlag`); the advice for a waiting job satisfies the guards of the service
  it names (`AdviceHolds`); the steps that customer,
  courier and operator read are compared status by status (`StepIs`, `RanksAre`), and a step never
  falls when the status goes on (`NextJobIs`, `ProgressHolds`).
* **AccessIsAgreed**: what a set of roles admits a wider one does (`WiderRoles`), and `RolesNest`
  says which sets lie in which and that `FINANCE_VIEWER` is the one role apart; the workspace a
  person is taken to is that of the least index among those that count (`NewestIs`).
* **RiskIsAgreed**: `InterventionsAre` turns the queues' queries into tests of a row, and `RowsTell`
  what briefing and report say of it. They differ by the rows each query reads (`WindowsHold`): a
  query returns all that match or as many as it may (`FullOrAll`), and the oldest open record is
  always among those briefed (`OldestIsBriefed`). `ReasonsAre` tells the reasons of the consoles
  apart. For the lists that are cut off, whatever is worse than a listed item has fewer items ahead
  of it (`WorstHolds`), and a list that is empty after the cut was empty before, because a finite
  list has a first item (`SomethingIsFirst`: among the sets of those ahead of an item one is
  smallest).

**`BrowserProofs`** and **`PagesProofs`**, for any number of calls under way, jobs, accounts, orders

A page's promise is about the page at rest, when nothing is under way; it is never inductive. Each
invariant says what every call under way, at each of its steps, will make of the page when it ends,
and the exceptions are the history variables that the properties name.

* Sessions (`SessionInv`): the last announcement under way tells whom the client keeps (`LastTells`),
  an attempt has one context at most (`OneContextEach`), and with nothing left to hear the newest
  attempt is about the client's account and has its cookie (`NewestIsCurrent`).
* Storefront (`StoreInv`): what the page shows costs what it did when read, unless the menu was
  edited (`MenuIsRead`), what is being sent is the cart at the total shown (`SentAsShown`), and the
  authorized payments are no more than the one the page was told of and the answers that were lost,
  to the page or to the API (`EachIsTold`).
* Pilots (`PilotsInv`): the form and the call for checks are of the workspace selected
  (`FormIsOfSelected`); until an update is executed, the rows on the page, or on their way to it, are
  the table's (`RowsAreCurrent`).
* Notifications (`InboxInv`): one invariant for each of the two lists, the bell's and the page's
  (`ListInv`). Unless calls of the list crossed, two under way open different notifications
  (`CallsApart`), each knows the list and what is read (`CallsKnow`), and what is shown as read is read
  or about to be (`ShownAsRead`); what the other list marked is in `elsewhere` and excused.
* The driver's page (`DriverInv`): on a page that nothing has crossed there is one handler at most, and
  the page is right once it ends, said for each of its kinds and steps (`FreshIsSettled`, `Settles`);
  a proof on the page is the API's, of the job that was asked for (`ProofIsOfTheJob`).
* Consoles (`DesksInv`): unless answers crossed, one call at most is under way, for what is chosen
  (`OneIsUnderWay`), and what a load was told includes every save the page knows (`RowsHoldTheSaves`).
* Records (`RecordsInv`): unless answers crossed, no two requests set the same part of the page and
  none is behind what is shown (`RequestsApart`, `RequestsNotBehind`), what the page itself wrote is
  there, unless a load went on without that list (`OwnIsThere`, `missing`), and the row in the list
  follows the detail (`RowFollows`). `RecordsGoOn` is the action property, step by step.
* Menu (`MenuInv`): loads are of the chosen restaurant and read its menu unless one came late
  (`LoadsAreCurrent`), a move is loaded once, after its requests (`OneMove`), and until then each row has
  its wanted place or a write on its way to give it (`MoveGetsThere`).

`PagesStep` splits a step as for the offices, and `PagesInv` joins the eight. **PagesAreTyped**,
**PagesAreCurrent**, **OrdersAreTheCarts**, **SessionsAreRestored**, **DeskShowsTheWork** and
**NothingIsLost** (an action property) follow.

**Assumptions.** They are named and sit in the modules that declare the constants, and TLC evaluates
them on every run. Nulls and markers (`NoJob`, `NoDriver`, `NoIntent`, `none`, `absent`, `empty`,
`opened`, `created`, `free`, `reset`) are none of the real values; `Suitable`, `Kind`, `Channel` and
`FollowUps` have the shape of the columns they stand for; amounts, ages, distances and minutes are
natural numbers, prices, batch, retry and list limits positive ones. Attempts, orders,
quantities, edits, saves, records asked for at once and the window of notifications are natural
numbers, loads and handlers at once positive; `None` is no pilot, `Nil` no delivery. The payout and the refunds are
within the price (checks of the tables); administrators are a finite non-empty set apart from the other
subjects, review requests are finite, a menu row has a field; founders have a role one can be given.
What a theorem assumes beyond these (`ClocksAgree`, no unassign override, `Total > 250`) stands in its
statement.

**Only model-checked.** The three liveness properties: `SearchEnds`, `DeliveredIsCaptured` and
`EveryMessageSettles` rest on fairness, and `ENABLED` is out of the prover's reach. Every other
property of a passing run is stated by a theorem. The three counterexamples of section 5 are TLC's.

## 7. What is not modelled

The reasons are with each component in `PROJECT.json`. In general: reads whose answer nobody decides
on, formatting, layout, validation of forms, the wording of mails, and logs that no one reads back.
Token checks and the start-up check of the schema come before and beside everything modelled here.
Not modelled although they hold state: driver locations and upload URLs, payment events and refund rows,
a member whose notifications end with the membership, creating a restaurant, recording an evidence run,
accepting an invitation (done by a function that is not in the repository), the write policies of the
tables. Foreign-key share locks are modelled where requests of one user meet at the user's row
(`IdempotentRequests`), and nowhere else. The order in which handlers take row locks across tables is
not modelled: the worker handles a batch in one transaction that keeps every lock to its end
(`index.ts:1894-1957`, `1981-1984`), so its order is that of the messages. The database breaks the
circles that arise, and the batch or the request starts again; the rollback is a step of `Outbox` and of
`IdempotentRequests`.

## 8. Plan

Done: the modules of section 3 with their runs, and theorems for every safety, action and refinement
property that a passing run checks. Open: `Dispatch` composed with `Payments` directly, in place of
`JobLifecycle`, for one job and two drivers. Liveness stays with TLC.
