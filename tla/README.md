# airbar-core in TLA+

airbar-core is the backend of a marketplace in which carriers who travel take
along the shipments of senders.  It is a NestJS application over PostgreSQL
(Prisma), Redis and BullMQ queues; money is kept by a separate finance service
behind gRPC.  This directory models the state that its handlers, jobs and queues
share, checks it with TLC and proves its main safety properties with TLAPS.

Paths below are relative to the repository; `application`, `adapters` and `domain`
are under `src/src/`.

## 1. Inventory

| component | state | operations | talks to | modelled in |
|---|---|---|---|---|
| **Integration outbox** `application/finance/integration-outbox.service.ts`, `outbox-backoff.ts`, queue `finance-outbox` | table `integration_outbox`, jobs in Redis | enqueue, processRow, handleFailure, replay | orchestrator, command handler, bridge | `CommandDelivery`, `IntegrationOutbox` |
| **Finance orchestrator** `finance-orchestrator.ts`, `outbox-command.handler.ts`, `grpc-error.mapper.ts` | none | `trySync`: call, store the answer, or enqueue when the error is retryable | finance service, outbox, bridge | `IntegrationOutbox`, `ShipmentLifecycle`, `Withdrawals` |
| **Shipment finance bridge** `shipment-finance-bridge.service.ts` | writes shipments | apply, markShipmentPaid | shipments | `ShipmentLifecycle` |
| **Shipment handlers** `application/marketplace/shipment.use-cases.ts` | table `shipments` | create, update, assign, accept, reject, cancel, status, dispute | trips, chat, orchestrator, pricing | `ShipmentLifecycle`, `ShipmentRecord`, `PriceRules` |
| **Payment and dispute resolution** `application/finance/payment.use-cases.ts` | none | pay, RELEASE, REFUND, PARTIAL_REFUND, SPLIT | orchestrator, shipments | `ShipmentLifecycle`, `FinanceGates` |
| **Escrow cron jobs** `escrow-jobs.service.ts` | none | pollFundedEscrows every minute, autoReleaseEscrow every hour | finance service, bridge | `ShipmentLifecycle` |
| **Trips** `trip.use-cases.ts`, `prisma-trip.repository.ts` | table `trips`, `users.totalTrips` | create, publish, cancel, delete, adjust the weight | shipments | `TripBoard`, `ShipmentLifecycle` |
| **Pricing and limits** `pricing-calculator.ts`, `pricing-quote.service.ts`, `finance-limits.service.ts` | table `pricing_rules` | choose a rule, price, floor, fee; requirement and limit of an amount | shipments, KYC | `PriceRules`, `FinanceGates` |
| **Chat** `application/chat` | chats, messages, trust events | create, deactivate, send, list and mark read, reveal | shipments | `ChatMessages`, `ShipmentLifecycle` |
| **Matching** `matching.service.ts`, queue `marketplace-matching` | suggestions, jobs | on shipment created, on trip published, auto match | shipments, trips | `MatchSuggestions` |
| **Withdrawals** `payment.use-cases.ts` | outbox rows | request, approve, send, settle, fail, process, reject | orchestrator | `Withdrawals`, `FinanceGates` |
| **Campaigns and credit** `campaign.use-cases.ts` | `campaigns.grantCount` | create, update, grant | finance service | `Campaigns` |
| **One-time passwords, login** `application/auth` | `otps`, counters in Redis | send, verify, rate limit | SMS | `OneTimeCodes` |
| **Sessions** `session-manager.ts`, `refresh-token.use-case.ts` | `sessions`, ban and password of the user | sign in, rotate, log out, ban | tokens | `Sessions` |
| **KYC** `application/kyc`, `prisma-kyc.repository.ts` | level, identity, documents, cards, payout profile | verify, upload, review, add and remove cards | api.ir, storage | `KycLevels`, `BankCards` |
| **Intake drafts** `application/intake` | `draft_requests` | create, claim, expire | shipments, trips | `IntakeDrafts` |
| **Reviews** `review.use-cases.ts` | `reviews`, `users.rating` | submit and recompute | shipments | `Reviews` |
| **Market statistics** `market-stats.service.ts` | counters in Redis | count, rebuild | shipments, trips | `MarketStats` |
| **Lists and pagination** `shared/pagination`, `find...` of the repositories | none | twelve paged lists | all tables | `Listings` |
| **Notifications** `notification.use-cases.ts` | `notifications` | tell the parties, list, mark, delete | push | `Notices` (telling), `Listings` (the inbox) |
| **Administration, profiles, internal API, health, metrics, web layer, clients** | rows and counters nobody decides by | views, single-row updates, I/O | | not modelled (section 6) |

### How they interact

A handler of the web layer is an `async` method: it awaits one database, Redis
or gRPC call after another, with no lock and, except for a few repository methods,
no transaction around them.  Two requests, a cron job and a queue worker therefore
interleave at every await.  Nearly every write of a row is `update where id`: what
the handler checked is what it *read*, not what the row *is* when it is written.
Only the claim of a draft, the rotation of a session and the suggestions use a
conditional write.

A finance command is tried over gRPC (`trySync`).  An answer is stored at once.
A call without an answer may or may not have been executed; the command is stored
in the outbox and executed again, under the same idempotency key, until it
succeeds or has used up its attempts.  So one command can act on a shipment from
two places: the handler that sent it and, minutes later, the outbox.

### What is hard, and what correctness means

- *Outbox.*  Crashes between the row and its job, workers that stall and come
  back, two jobs of one row, attempt counts read before the call and written
  after it.  Correct: DONE implies executed and stored; no row is forgotten; a
  row is given up only when its attempts are used up; every row is finished.
- *Shipment, payment, dispute.*  Stale writes of overlapping handlers, cron jobs
  that act on a list read earlier, late and replayed outbox rows.  Correct: no
  shipment is treated as paid whose escrow was not funded; the escrow moves only
  with a cause; a dispute is closed only when finance settled it; what a paid or
  delivered shipment is owed happens without anybody asking again.
- *Row, trip, price.*  One row under several writers, a capacity and counters
  written apart from it, a price computed for the row as it was.  Correct: history,
  weight, capacity, price and counters agree with the row, and where a race can
  break that, the property says exactly which race.
- *Chat.*  Messages sent, listed and marked while the shipment moves on.  An answer
  that is lost after its messages were marked also leaves them read unseen: the
  model ends with the mark and counts its page as shown.
- *Codes, sessions, KYC, cards, money.*  Check-then-act on codes, tokens, levels,
  cards and limits; a level computed from three reads; a removal in four writes.
- *Drafts, campaigns, matching, statistics, reviews, notices.*  Two systems or two
  rows that are written one after the other, with a failure or another request
  between.
- *Lists.*  Pages cut at offsets of a list that changes between two pages.

`PROJECT.json` lists every hazard at its line with the property that covers it.

## 2. Modules

| module | contents | about |
|---|---|---|
| `CommandDelivery` | what the outbox promises of one finance command: abstract specification | 1 command |
| `IntegrationOutbox` | rows, jobs, workers, requests and replays of the outbox; implements `CommandDelivery` | keys |
| `ShipmentLifecycle` | shipment, capacity, chat, escrow, handlers, cron jobs, outbox rows; uses the outbox as `CommandDelivery` promises it | shipments and trips |
| `ShipmentRecord` | the row of a shipment: status, tracking history, weight, prices | one row |
| `PriceRules` | rules that administrators edit, prices, and the requests that store them | one row, a table of rules |
| `TripBoard` | publish, cancel, delete of trips, offers to them, the trip counter | one carrier |
| `ChatMessages` | one chat while its shipment moves on | one chat |
| `MatchSuggestions` | the two kinds of matching job | shipments and trips |
| `Reviews` | submissions and the rating they recompute | one user |
| `MarketStats` | counters, increments, rebuilds | all listings |
| `IntakeDrafts` | claims of a draft | one draft |
| `OneTimeCodes` | codes of a phone and the rate limiter | one phone |
| `Sessions` | sign in, rotation, logout, ban | one account |
| `KycLevels` | identity, documents, reviews, level | one account |
| `BankCards` | cards, the default, the flag of the gates, the payout profile | one account |
| `FinanceGates` | payments and payouts over `KycLevels` and `BankCards`, which it extends | one account |
| `Withdrawals` | a withdrawal under users, administrators and outbox rows | submissions |
| `Campaigns` | credit granted under a cap | one campaign |
| `Listings` | a walk through the pages of a list that changes meanwhile | one list of any of twelve kinds |
| `Notices` | who is told of what happens, and what a failure leaves untold | one occasion of one shipment |
| `IntegrationOutboxProofs`, `ShipmentLifecycleProofs`, `ListingsProofs` | the theorems of one module each | |
| `AccountProofs` | the theorems of `Sessions`, `Withdrawals`, `Campaigns`, `OneTimeCodes` | |
| `FinanceGatesProofs` | the theorems of `KycLevels`, `BankCards`, `FinanceGates` | |
| `MarketProofs` | the theorems of `TripBoard`, `MatchSuggestions`, `Reviews`, `MarketStats`, `IntakeDrafts` | |
| `RecordProofs` | the theorems of `ShipmentRecord`, `PriceRules`, `ChatMessages`, `Notices` | |
| `Sums` | lemmas about sums of integers over finite sets, for `ShipmentLifecycleProofs` and `RecordProofs` | |
| `MCIntegrationOutbox`, `MCShipmentLifecycle`, `MCShipmentSafety`, `MCShipmentUpkeep`, `MCAccounts`, `MCMarket` | instances for TLC | |

`IntegrationOutbox` says how one command gets through; `ShipmentLifecycle` says
what the commands of a shipment do to it.  They are joined by `CommandDelivery`:
the outbox is shown to implement it (`DeliverySafeSpec`, `DeliverySpec`), and the
rows of the lifecycle are shown to keep to it as well (`UsesDelivery`), with the
same refinement mapping of row states.  `FinanceGates` composes the two modules
of an account with the requests that read them twice.  The other modules share no
variable: what one of them needs of another (that a code was taken, that a
shipment is assigned) is a step it may take at any time.

Modules name the *mutants* of some definitions (a plausible bug in the code each):
the comment `Mutant` marks them, nothing else refers to them, and `PROJECT.json`
says which property finds which.

### IntegrationOutbox and the code

One step per await.  A request goes `calling` (the gRPC call of `trySync`),
`applying` (onSuccess, the bridge) or `inserting` (`outboxRepo.insert`) and
`adding` (`queue.add`).  A worker slot goes `finding` (`findById`), `marking`
(`markProcessing`), `executing` (`OutboxCommandHandler.execute`), `applying`
(`bridge.apply`), `completing` (`markDone`), and after an error in the try block
`failing` (`markFailed` or `markPendingForRetry`) and `requeueing`
(`queue.add` with a delay).  `worker[w].attempts` is the attemptCount read by
`findById`, which `handleFailure` uses after the call: a worker that was
overtaken writes an old count.

BullMQ is external and is modelled by what the repository relies on: every job
is handed to one worker at a time, a worker that stops renewing its lock loses
the job (`LosesLock`: it goes on all the same; `WorkerCrashes`: it is gone), a
stalled job is put back at most `maxStalledCount` times, and a failed job is not
run again since `queue.add` is called without `attempts`.  `CallerFails` and
`JobFails` are the crash of the API process and every error of PostgreSQL or
Redis outside the try block.  A row that does not exist has status `NONE`.
A delay (`nextRetryAt`, `computeBackoffMs`) is only that the job waits.
`DEAD` is in the schema but no code writes it.

### ShipmentLifecycle and the code

`shipment[s]` holds the fields of a row that some handler reads: status, tripId
(and carrierId, written and cleared with it), weight, paymentOrderId set,
deliveredAt set, disputeReason set, disputeResolvedAt set.  `proc[p]` is a
running handler: its next step and what it has read.  A handler starts with
`Begin...` (the reads and checks; they are one step, since nothing is written
between them) and then takes one step per write or call:

| code | actions |
|---|---|
| AssignShipmentToTrip | BeginAssign, AssignToTrip, ReserveWeight, CreateChat |
| AcceptShipmentOffer | BeginAccept, AcceptOffer, then CreateEscrow through trySync |
| RejectShipmentOffer, CancelShipment | BeginWithdraw, ReturnWeight, DeactivateChat, Detach |
| UpdateShipment (the weight) | BeginReweigh, Reweigh |
| CreateShipmentPayment | BeginPayment, then PayFromWallet or CreatePaymentOrder |
| UpdateShipmentStatus | BeginAdvance, Advance, then MarkDelivered or ReleaseEscrow |
| DisputeShipment | BeginDispute, OpenDispute, then FreezeEscrow |
| ResolveDispute | BeginResolve, the command, ReleaseRest (SPLIT), ResolveShipmentDispute |
| trySync | FinanceAnswers, FinanceRejects, FinanceUnanswered, StoreAnswer, Enqueue |
| ShipmentFinanceBridge.apply | Bridge |
| outbox row | RowExecutes, RowApplies, RowFails, Replay |
| pollFundedEscrows, markShipmentPaid | BeginPoll, GetEscrow, RecheckAccepted, MarkPaid |
| autoReleaseEscrow | BeginAutoRelease, Advance |
| crash or database error in a handler | HandlerFails |

The finance service is external: `effect` is the set of commands it has
executed, `gateway` the shipments whose payment order was paid.  `HeldByFinance`
is the answer FUNDED or HELD of `getEscrow`.  It may refuse any command
(`FinanceRejects`), so the model assumes nothing of its own checks.  A cron job
that works through a list is modelled as a run of its own for each candidate:
the candidate is read, and acted on any time later.


### The other modules and the code

All of them follow one rule: an action is what a handler does between two awaits,
a check is made on what was read before, and a write says `where id` unless the
code adds a condition.  Variables that record history for a property (`crossed`,
`overtaken`, `raced`, `blurred`, ...) are named as such in the `VARIABLES` of their
module and guard nothing.

| module | state and the rows it stands for | actions and the functions they translate |
|---|---|---|
| `ShipmentRecord` | `row`: status, trackingHistory, weight and prices of one shipment; `held`: weight that trips set aside for it; `req`: requests and their copy of the row | `Check`, `Prepare`, `Write`, `TakeWeight`: the handlers of `shipment.use-cases.ts` and `payment.use-cases.ts` cut at read, side calls and write; `updateStatus` of the repository writes back the history it read, every other one pushes; `FailRequest` between any two; `QueueResolution`, and `BridgeResolution` whenever the outbox runs the row, unchecked as in `applyDisputeResolution` |
| `PriceRules` | `rules`: `pricing_rules`; `consignment`: what the row was priced for and its prices; `quoter`: requests | `SaveRule` (admin upsert), `BeginCreate`/`CalculatePrice`/`CreateParcel`, `BeginUpdate`/`WriteUpdate`, `BeginAcceptOffer`/`CheckFloor`/`AcceptPrice`, `MatchParcel`; `BestRule`, `Floor`, fee and price as operators |
| `TripBoard` | `trip`: status of each row of one carrier, `totalTrips`, `parcel`: the shipments assigned | `CreateTrip`/`CountCreated`, `FindFor...` then `Publish`, `CancelTrip`, `DeleteTrip`/`CountDeleted` with `CheckActiveShipments` between, `FindForAssign`/`AssignToTrip`, `RejectOffer`, `FindForStatus`/`WriteStatus` (accept, payment and whatever else writes a status and not the trip), `CrashRequest`; a row of the outbox that writes again is one more such request |
| `ChatMessages` | `chatOpen`, `messages` with read marks, `trustEvents`, `onShipment` | `BeginSend`/`RecordTrustEvent`/`SendMessage` (firewall: allow, black out, block), `BeginListing`/`ListMessages`/`MarkMessagesRead`, `BeginReveal`/`FindParticipantContact`, `MoveOn`, `CloseChat`/`WriteClosed`, `FailChatCall` |
| `MatchSuggestions` | `shipment`, `offer`, `apart`: pairs that room, route or cargo keep apart at present, `publishing`, `toEnqueue`, `job`: the BullMQ job named after its subject, `suggested` | `CreateShipment`, `SeeDraft`/`PublishTrip`, `Enqueue`, `EnqueueFails`, `ReadSubject`/`RunQuery`, `StoreSuggestion`, `CompleteJob`, `JobFails`, `AutoMatch`; assign, reject and cancel move the rows on, `PutApart` and `BringTogether` stand for updates of either row and of the room on the trip |
| `Reviews` | `reviews`, `rating`: the reviews the user's average counts, `ratingLock`: row lock of the transaction | `CheckSubmission`, then `BeginReview`, `InsertReview`, `AverageReviews`, `WriteRating`, `CommitReview`, `RollBack`; READ COMMITTED |
| `MarketStats` | rows in the database, `counters` in Redis, `boot`: the rebuild of each process | `InsertShipment`, `InsertTrip`, `ActivateTrip`, `CancelActiveTrip`, `RecordShipmentDemand`, `RecordTripSupply`, `StartProcess`, `DeleteCounters`, `CountRows`, `AddCounts` and their failures |
| `Listings` | `list`: where rows enter, whether they leave or move; `place`: the rows of the list with their sort keys; `walk`: the page asked for and the queries still to make | `BeginWalk`, `QueryRows`, `QueryTotal` (two queries in either order, `Promise.all`), `AnswerPage`; `EnterList`, `LeaveList`, `MoveInList`; `Normalized`, `Taken`, `Skipped`, `TotalPages`, `PagesOf` as operators |
| `Notices` | `occasion`, `told`: notices for each party, `teller`: whom a handler or the outbox is about to tell, `outboxRow` | `ComeUpon`, `CallSettled`/`CallQueued`, `WriteRow`, `ReleaseEnds`, `StoreNotice`, `EndTelling`, `CutTeller`; `TakeRow`, `RowDone`, `RowFails`, `ReplayRow` |
| `IntakeDrafts` | `draft`: the row, `due`: expiresAt has passed, `listing`: what claims created, `claim` | `CreateDraft`, `FindDraft`, `ExpireDraft`, `Reserve` (conditional update), `CreateListing`, `CreateRefused`, `CountListing`, `LinkListing`, `Release`, `CallFails`, `CrashClaim` |
| `OneTimeCodes` | `codes`: rows of `otps`, `counter` and `cooldown` in Redis, `call` | `BeginSend`, `BeginVerify`, `CallStep` (one await of either), `RedisFails`, `CodeExpires`, `WindowEnds`, `CooldownEnds` |
| `Sessions` | `user`, `row`: the refresh token in each session, `second`: the clock that tokens are signed with | sign in (`BeginSignIn` ... `CreateSession`), refresh (`FindByUserAndToken`, `FindById`, `RotateSession`), the logouts, `UpdatePasswordHash`, `BanUser`, `UnbanUser` |
| `KycLevels` | `level`, `identity`, `elsewhere`: ids held by others, `docs`, `kycCall` | `FindIdentityByNationalIdHash`/`AskRegistries`/`UpsertIdentity`, `FindOpenDocument`/`WriteDocument`, `ReviewDocument`/`ReadDocuments`/`ReadUser`/`RaiseLevel` |
| `BankCards` | `card`, `verifiedOrder`, `financial`: `financialVerifiedAt`, `payout` | `UpsertBankAccount` (one transaction), `FindAccount` and `RemovalStep` (up to four awaits), `CrashRemoval` |
| `FinanceGates` | the variables of `KycLevels` and `BankCards`, `moneyCall` | `CheckRequirement`, `ReadAgreedPrice`, `CheckLimits`, `ReadPayoutProfile`, `CallFinance`: payments and payouts in the order of their awaits; `AccountMoves`: a step of the account |
| `Withdrawals` | `submitted`, `withdrawals`/`state`/`performed` at the finance service, `queued`/`rows`: outbox rows, `told`: notifications | `RequestWithdrawal`, `CreateAnswered`, `CreateUnanswered`, `CallCommand`, `CommandAnswered`, `CommandRefused`, `CommandUnanswered`, `ExecuteRow`, `EndRow`, `LoseStanding` |
| `Campaigns` | `campaign`: the row with grantCount, `credit` at the finance service, `grant` | `CheckGrant`, `GrantCredit`, `GrantCallFails`, `IncrementCount`, `IncrementLost`, `UpdateCampaign`, `ExpireCampaign` |

External to the repository and modelled by what it relies on: a transaction of
PostgreSQL is one step, except that of a review, whose statements see each other's
commits; Redis executes one command at a time; the finance service executes a key
once and answers it again with the first result; the registries answer whether a
national id belongs to the phone.

## 3. Runs

`PROJECT.json` lists the properties of every run and a mutant for each: a form of
some definition that a plausible bug would give it, with which TLC finds the
property violated.

| run | question | instance and why it is enough |
|---|---|---|
| `outbox_safety` | Is what is DONE done, is nothing forgotten or given up early, and is the outbox `CommandDelivery`? (TypeOK, CompletionMeansApplied, OrphanedOnlyByFailure, FullRetryBudget, OneWorkerPerRow, DeliverySafeSpec) | one key, two requests, a replay, two workers, one fault, two stalls: 0.98 million states.  Rows share no state, so one key suffices; two workers and two stalls give a stalled worker that finishes after its successor, and a job that has been returned once and is lost the second time. |
| `outbox_settles` | Is every stored command finished? (EventuallySettled, RecoversAfterOutage, DeliverySpec) | FairSpec; one request, one replay, two workers, one stall, no fault, three attempts: 135 thousand states.  An execution may fail at any time and for ever, so that rows settle is due to the limit on attempts alone |
| `life_safety` | Can stale writes, cron jobs, late rows or replays make a shipment paid that is not, or move or settle money without a cause? (TypeOK, PaidIsFunded, MoneyMovesWithCause, ResolvedAfterFinance, UsesDelivery) | one shipment in two settings that its weight selects (`MixedBounds`): any three of two requests and both cron jobs at once with every call answered; or one request with a cron job, a call without an answer, a handler that dies, retries, give-ups and replays.  The resolution PARTIAL_REFUND is left to the proofs: SPLIT takes the same way. |
| `life_upkeep` | Does a trip lack what the shipments on it weigh, and does what a paid or delivered shipment is owed happen without another request? (CapacityBalanced, PaidOrderIsNoticed, DeliveredIsClosed) | FairSpec, in two parts of its states (`Within`): two requests assign, withdraw and reweigh two shipments of weight 1 or 2 on a trip of 3; or one shipment with every operation, one request at a time, and both cron jobs: 42 thousand states.  The constraint cuts off only requests that would begin, which no fairness asks for, and among them those that the code does not exclude and the balance does not survive: requests that move one shipment at once, and updating the weight of a matched shipment |
| `market` | Do history, weight, prices, trips, chats, suggestions, counters, drafts, ratings, lists and notices agree with the rows they are about? | ten settings, two or three requests, jobs or claims in each: 0.90 million states |
| `accounts` | Are codes, sessions, levels, cards, limits, credit and withdrawals safe from overlapping requests? | seven settings, two overlapping requests in each and one failure: 1.0 million states |
| `outbox_crash` | NoOrphanedRow **violated** | one request that dies between insert and add |
| `life_wallet` | FundedEscrowIsNoticed **violated** | FairSpec; a shipment paid from the wallet |
| `life_split` | SplitReleasesRemainder **violated** | one unanswered partial refund |
| `life_overbooked` | NeverOverbooked **violated** | two assignments of weight 1 to a trip of 1 |
| `life_chat` | MatchedHasChat **violated** | assign, reject, assign |
| `life_auto_release` | AutoReleaseFromDelivered **violated** | a dispute between the read and the write of the job |

What `market` checks, by setting:

| setting | instance | property |
|---|---|---|
| record | two requests, weights 1 and 2, three new entries, one request that fails halfway, a resolution that the outbox writes again and again | `RecordFollowed`: the history is a path of the status machine until an overtaken request writes (`crossed`) or the outbox resolves a row that does not wait for it (`overrode`); the weight held is that of the row until a request crosses, fails between its two writes (`halfDone`) or edits the weight of a matched shipment (`reweighed`); the only write that ever drops an entry is that of `updateStatus` |
| prices | two requests, two rules, two edits, a product that a double rounds up | `PricesSound`: the stored prices are those of the goods unless a race or an update of the destination alone parted them; `PricesInForce`: a price is computed from the best rule at that moment unless a rule was edited meanwhile |
| board | two trips, one parcel, two requests, one crash | `BoardConsistent`: a parcel that is matched or further has its trip unless its assignment raced a delete, or an accept or payment that was decided before a reject or cancel was written after it (`raced`); the counter is the number of trips but for calls under way or crashed, and a cancelled trip comes back only by a publish that read it before |
| chat | a sender and a carrier, pages of one, two messages | `ChatKept`: a message is marked read only if its reader was given it or one of the named excuses applies; a closed chat gains only messages that were under way; contact is revealed only when secured |
| match | two shipments and a trip that match, of which a query takes one (`Take`), two attempts, two requests that publish at once, two upsets (a refusal by the queue, a job that fails, a cancel, an assignment, an edit that parts a pair) | `NoPairMissed`: when both jobs have run, a pair that matches is suggested, unless a query found more than it takes (`leftOut`) or the pair came to match when both jobs were past seeing it (`cameBack`) |
| reviews | three submissions, two shipments | `ReviewsCounted`: a commit leaves the rating as the average of all rows unless another transaction committed meanwhile |
| stats | two processes, two rows of each kind, one Redis error | `CountersMatchRows`: the counters are the rows unless something overlapped a rebuild |
| drafts | three claimers, two failed calls, one crash | `DraftsAccounted`: a draft is claimed by one user, for the listing he made, and stays reserved only while someone works or after a crash |
| lists | three rows with keys of their own at first, a limit of one or two (and zero, which only the trip search takes for none given), two changes of the list | `PagesMakeList`: who reads all pages is shown every row that stayed, unless another left or moved, one came between the two queries of the last answer, or rows share a key; no row is shown twice unless another came or moved, or rows share a key |
| notices | two handlers, one row with two tries and a replay, one failure | `PartiesTold`: nobody is told more often than it happened; a carrier who is told of an acceptance carries; everybody is told unless a handler failed after its write; a row that is done has told both parties whatever failed before |

What `accounts` checks, by setting:

| setting | instance | property |
|---|---|---|
| codes | two clients, three codes, one wrong guess and one message allowed, one failure of Redis | `CodesGuarded`: a code that another call took before it was read is not taken, nor one whose guesses were used up; `SendLimited`: how far overlapping calls can exceed the limit, and that the counter ends unless Redis failed between two commands |
| sessions | two devices, two sessions, three seconds | `LogoutEndsOneSession`, `BannedStaysOut` |
| kyc | two callers, two national ids, three documents | `VerificationEarned`, `KycOnlyMovesUp` |
| cards | three cards, two removals, one crash | `CardsConsistent`: default, flag and payout profile agree with the active cards unless a removal is under way, died or was overtaken |
| gates | an account with one card and a document for each of two levels, one payment of any of three amounts | `PaymentsWithinLimits`: whoever reaches finance is entitled to the amount at that moment unless the account was weakened since the check |
| campaign | two administrators, three keys, four requests | `CreditsAccounted`: credits, count and cap |
| withdrawal | one submission, two operators, two references, one unanswered call | `WithdrawalsAsTold`: users are told what happened, and no command takes effect twice |

The components of these two runs share no variable, so one behaviour visits one
of them: `area` says which, and the others stay as they began.  A run for each
would say the same.  Their actors are the same model values, and so one symmetry
serves all settings.

Bounds.  `MaxAttempts` 2 is the least budget with a retry.  `MaxTries`, no less
than `MaxAttempts`, is where the count of failed executions stays; executions may
go on failing, and properties only ask whether `MaxAttempts` was reached.
`MaxFaults`, `MaxStalls`, `MaxUnanswered`, `Max...Crashes`
`Max...Failures`, `MaxUpsets`, `MaxHalfDone` and `MaxCutShort` bound failures.  `MaxAvailable` stops requests that hand the
same weight back again and again from counting for ever (only overlapping cancels
can exceed the capacity).  `MaxCodes`, `MaxSessions`, `MaxTrips`, `MaxListings`,
`MaxRows`, `MaxMessages`, `MaxEdits`, `MaxQuoted`, `MaxNewEntries`,
`MaxGrantRequests`, `MaxPublishers`, `MaxChanges` and `MaxReplays` bound what a behaviour creates: two or three, so that a second
writer meets what the first one left.  `Take` is 20 in the code and 1 here, so that two
candidates are one too many.  In the proofs all of them are arbitrary.

`CHECK_DEADLOCK FALSE`: the systems really stop, when every request has ended
and the shipment is closed, the draft claimed or the document reviewed.

Symmetry is used for actors and data that are interchangeable, and only in runs
without liveness.

### Fairness

`IntegrationOutbox`: a worker that has taken a job goes on (weak), waiting jobs
are taken (strong: BullMQ hands out every job sooner or later, also when slots
keep changing), and a request that has stored its row calls `queue.add` (weak).
Nobody has to submit or replay.  Crashes and lost locks are bounded, never owed.

`ShipmentLifecycle`: a handler that runs goes on (weak), and the cron jobs look
at every shipment that matches their query again and again (strong: the query
runs every minute or hour and the shipment may stop matching in between).  Strong
fairness for each shipment is what `findMany ... take 50` gives as long as fewer
than 50 (100) candidates wait; beyond that the order of the query decides and
the code promises nothing.  Users, administrators, the gateway and the
outbox owe nothing here.

The other modules are about safety: what they leave unfinished waits for a user.

## 4. Findings

Each is a violation run that ends in a trace of the code's own steps.

1. `outbox_crash`: documents call the outbox transactional; the job is added in a
   second step and nobody scans for rows without one.
2. `life_wallet`: the poller asks for `paymentOrderId`, which a wallet payment
   never sets; the shipment stays ACCEPTED with a funded escrow.
3. `life_split`: a queued partial refund of SPLIT confirms the shipment later
   without the release of the remainder, which a test names as its purpose.
4. `life_overbooked`: the capacity check and the decrement are two steps.
   `ApartNeverOverbooked` proves that it takes two offers to one trip.
5. `life_chat`: after a reject the unique chat row stays, inactive, and the
   second assign fails in `createForShipment` after the shipment was matched.
6. `life_auto_release`: a shipment disputed after the job listed it is confirmed.

Observed while modelling, and not contradicted by any document, so that no run is
named after them; the properties carry them as named exceptions:

- A poller that dies between PAID and the notices does not come back
  (`PartiesTold`); a refund that the outbox completes never sends the sender the
  notice of the refund that a request sends.
- An update that changes the destination alone keeps the old price
  (`PricesSound`), and a rule that names only one end of a route never matches.
- The payout profile keeps the IBAN of the card that was verified last, also
  after that card was removed (`CardsConsistent`).
- Only accounts with an Iranian phone can get an identity, so the branch of the
  level ladder for passports alone is never taken.
- A claim of a draft that fails after the listing was created puts the draft
  back; the next claim creates a second listing (`DraftsAccounted`).
- `SearchTrips` passes the limit on as it came: a limit of zero returns twenty
  rows under metadata that speaks of pages of one (`Listings`).

## 5. What is proved

For every number of shipments, trips, keys, requests, workers, clients, rules,
messages, rows, attempts and failures, from the named assumptions on constants.
A theorem that needs more states it as a hypothesis: one on the rules that
administrators submit (`PricesStaySound`), and some on which requests overlap
(`CapacityStaysBalanced`, `OneByOneStaysBalanced`, `ApartNeverOverbooked`).

### Outbox, shipments, codes and levels

| theorem | says | argument |
|---|---|---|
| `TypeCorrect` | `Spec => []TypeOK` of `IntegrationOutbox` | inductive as it stands |
| `CompletionSafe` | `[]CompletionMeansApplied` | `CompletionInv` adds what the position of a worker or request says has happened to its key; effect and bridged only grow |
| `NeverOrphaned` | `[]OrphanedOnlyByFailure` | `AttendedInv` adds that before the first stall every worker holds its job and no job was returned; assumes `MaxStalledCount >= 1`, BullMQ's default |
| `FailedOnlyAfterBudget` | `[]FullRetryBudget` | `BudgetInv`: no attempt count, in the row or carried by a worker, runs ahead of the failures counted |
| `RowsHaveOneWorker` | `[]OneWorkerPerRow` | `TokenInv`: before the first stall and the first replay a row has at most one of: a job, a worker that holds it, a request or a worker about to add its job. `processRow` claims nothing, so this one token is all that keeps two workers apart; whoever adds a job must be shown to be the one who held it |
| `ImplementsDelivery` | `Spec => DeliverySafeSpec` | needs `CompletionInv` for Settle and `StoredInv` (jobs, workers and requests only exist for stored rows) |
| `LifecycleTypes` | `Spec => []TypeOK` of `ShipmentLifecycle` | `Typed` adds what a handler carries at each step (`Good`) and what a row carries (`RowsGood`): TypeOK alone does not say that a handler between two steps of a resolution has a command that matches its target |
| `FundedBeforePaid` | `[]PaidIsFunded` | `FundedInv` adds `HandlerFunded` and `RowsFunded`: whoever is about to write a paid status has read that the escrow is funded or a status that says so, and funding is never undone |
| `CauseBeforeMoney` | `[]MoneyMovesWithCause` | `CauseInv` adds that every handler and row that carries a settling command has its cause and that a status that is read as a cause comes with it; `StepGrows` proves that deliveredAt and disputeReason are never cleared |
| `SettledBeforeResolved` | `[]ResolvedAfterFinance` | `ResolvedInv` adds that an answered handler and an executed row have their command in effect |
| `RowsUseDelivery` | `Spec => UsesDelivery` | every step maps to a step of `CommandDelivery` or a stutter; `ResolvedInv` for Settle |
| `CapacityStaysBalanced` | `Spec /\ []NoOverlap /\ []FreelyReweighed => [](faults = 0 => CapacityBalanced)` | a shipment is moving between the write that puts it on a trip or takes it off and the update of `availableWeight`.  `Balance`: of the shipments that are not moving, the weights add up to what the trip lacks; `LoadSound`: what a handler read of its shipment is still so; `PendingFree`: a PENDING shipment is on no trip.  See below for the hypotheses |
| `OneByOneStaysBalanced` | the same without `NoOverlap`, for one request at a time | only requests move loads (`OnlyRequestsMove`), so cron jobs and outbox rows cannot overlap with one |
| `ApartNeverOverbooked` | `Spec /\ []OffersApart => []NeverOverbooked` | `RoomInv`: what an offer under way will take is still there; whatever else happens only hands back |
| `GuardedCodes` | `CodesSpec => CodesGuarded` | `CodesInv` adds `RowsSound`: refused guesses are counted on every row that can still be taken and a row that was taken stays verified; so what `findActive` returns is neither taken nor used up |
| `LimitedSending` | `CodesSpec => []SendLimited` | a counting argument over the calls under way: messages sent are at most the counter, the calls that sent and have not yet counted, and the failures of Redis; the calls past the check are bounded by the number of clients |
| `EarnedVerification` | `KycSpec => []VerificationEarned` | `KycInv` adds what a call carries (`CallSound`): a level about to be written rests on documents approved and an identity already stored, and neither is ever taken back |
| `LevelsKept` | `KycSpec => KycOnlyMovesUp` | `CallCurrent` in `KycInv`: until another request writes the level, what a call has read is still so |

The hypotheses of `CapacityStaysBalanced` are what the code does not guarantee,
and each is needed.  `NoOverlap`: no two handlers assign, withdraw or reweigh the
same shipment at once (two rejections that both read MATCHED hand the weight back
twice).  `FreelyReweighed`: no weight is updated while its shipment is matched;
UpdateShipment admits that and leaves the trip alone.  `faults = 0`: no handler
died between its writes, since nothing repairs the half that is missing.  Requests
for different shipments, of the same trip as well, may overlap as they like, as may
everything about payments, disputes, retries and replays.  The
first two bound the run `life_upkeep` as well.

### Accounts and money

| theorem | says | argument |
|---|---|---|
| `LogoutEndsOne`, `BannedOut` | `SessionsSpec => []LogoutEndsOneSession`, `[]BannedStaysOut` | `SessionsInv` adds that a live row was created by a call, and `CallBarred`: a call that began under a ban that still stands has read the ban or has yet to read it, and is not past the check |
| `WithdrawalsTold` | `WithdrawalsSpec => []WithdrawalsAsTold` | `WithdrawalsInv` adds that every effect came about in a call that was answered or in one that is on record as unanswered, that every answer follows an effect, and that a row stands for a call without an answer |
| `CreditsStayAccounted` | `CampaignsSpec => []CreditsAccounted` | two counting arguments: the count, the grants that were not counted and those under way are no more than the requests (`RequestsAccounted`), and as long as no request met another, the one under way still has the room it was checked for (`RoomWhileAlone`) |
| `CardsStayConsistent` | `CardsSpec => []CardsConsistent` | `RemovalCurrent`: until a removal is overtaken or dies, what it listed is what the rows are at each of its four steps, and only one is past its first write; the order of verification holds every active card once (`WithoutCardProperties`) |
| `MoneyStaysWithinLimits` | `GatesSpec => MoneyWithinLimits`, which the run checks as `PaymentsWithinLimits` | `PayerCurrent`: what a request was let through for stays until the account loses something, since levels rise (`KycInv`) and the flag means an active card (`CardsInv`).  The invariants of both components that `FinanceGates` extends are reused as they are |

### Market

| theorem | says | argument |
|---|---|---|
| `BoardStaysConsistent` | `BoardSpec => BoardConsistent` | the counter and the calls that still have to count are the number of trips, up to those that crashed; a publish that finds its trip changed is late; a delete past its check meets only parcels assigned since (`DeletesRaced`); a status write that is not late finds its parcel matched (`RequestSound`) |
| `PairsAreSuggested` | `MatchSpec => []NoPairMissed` | `RowsFirst`: a job exists only for a row that is written; a pair that matches, was not left out and did not come back, is suggested or among the hits still to be stored once both jobs are past seeing it (`PairFound`): the job that is later to pass sees both rows match, and what was apart while a job held a copy of its row (`doubtful`) counts as passed by it |
| `ReviewsStayCounted` | `ReviewsSpec => ReviewsCounted` | an average counts what was committed when it was taken and its own row, and is current until another transaction commits (`AveragesCurrent`); the unique key holds between rows that are not committed as well (`KeysDistinct`) |
| `CountersFollowRows` | `MarketSpec => []CountersMatchRows` | unless something overlapped a rebuild, either nobody rebuilds and the counters lack exactly the increments due (`Followed`), or one process does, with all counters at zero and the rows as it counted them (`Undisturbed`) |
| `DraftsStayAccounted` | `DraftsSpec => []DraftsAccounted` | the compare-and-set gives the draft to one claim until it ends (`ClaimSound`), and before that claim creates its listing every listing is due to a failed call (`ListingsOwed`) |

### The row of a shipment, its price, chat and notices

| theorem | says | argument |
|---|---|---|
| `RecordStaysFollowed` | `RecordSpec => RecordFollowed` | `Fresh`: as long as nobody has written since, what a request read is the row and it may still ask what it asks; `DisputeSound`: until a request crosses, whoever resolves, or left it to the outbox, does so for a row that is disputed or resolved, so that the outbox writes no status below it; `HeldSound`: the weight held is what the row carries, less what assignments still have to take and what the one request under way gave back.  Sums are handled by `IsSum` of `Sums` |
| `PricesFollowGoods`, `PricesStaySound` | `PricesSpec => []PriceFollowsGoods`, `[]PricesSound` | `ReadsSound` and `QuotesSound`: what a request read of the row is the row unless another wrote it, and the price it carries is one of the rules for the goods it read; the arithmetic is a set of lemmas about `CeilTo`.  `PricesStaySound` has the hypothesis that submitted risk multipliers are positive: prices have minima in the code (`MIN_BASE_PRICE`, `MIN_PRICE_PER_KG`), the multiplier has none, and a negative one makes heavier parcels cheaper |
| `PricesStayInForce` | `PricesSpec => PricesInForce` | from `QuotesSound`: a price about to be stored comes from rules in force unless one was edited meanwhile, and is not below the floor that was checked |
| `ChatStaysKept` | `ChatSpec => []ChatKept` | `PagesSound`: what a reader who is about to mark was not given is excused; `ClosedSound`: the messages that came late and those still under way are no more than were under way when the chat was closed; `EventsRecorded`: every refused or blacked out message has its event first |
| `PartiesStayTold` | `NoticesSpec => []PartiesTold` | `NoticesInv` counts: notices stored and notices still to be stored by all tellers are at most the news (twice that for the sender of a refund).  Each party that is owed a notice has it, is in the line of a teller, or met a failure after the write; the outbox works only while its row runs, so a done row told everybody.  That a carrier is there when the row of a settlement is taken rests on `CarriedSound`: only a reject or cancel takes the carrier away, and only before the payment is settled |

### Lists

| theorem | says | argument |
|---|---|---|
| `PagesAlwaysMakeList` | `ListingsSpec => []PagesMakeList` | the rank of a row is the number of rows before it, and a page shows the ranks from its offset to its end (`PageRanks`).  `ShownOnce`: as long as no row came or moved, what was shown ranks before the next page, since a row that leaves only lowers ranks.  `NoneSkipped`: as long as none left or moved, a row that was there at first and was not shown ranks after the pages so far, since a row that comes only raises ranks, and then the count says that there is a page for it |

Each module has its type invariant as a theorem as well (`...TypeCorrect`); the
type invariants that the runs `market` and `accounts` check (`MarketAreaTypeOK`,
`AccountsTypeOK`) are the conjunctions of these.

Each inductive invariant was checked by TLC on the instance of its run before it
was proved.  The components of a proof module share no variable; they are
together because their proofs share lemmas.

The lifecycle proofs classify steps once (`HandlerEffects`, `BeginEffects`,
`RowEffects`): each of the twenty handler steps is shown to be of one of eleven
kinds, which say only what it does to status, marks, commands and rows.  The
three money invariants are then proved kind by kind.  The other proofs have one
lemma per action; where several actions differ only in what they leave alone, a
lemma about the kind of step comes first (`QuietMoveKeeps`, `NewsKeeps` and
`RowMoveKeeps` for the notices).

Sums over sets are a fold in the modules, which the provers cannot expand.  `Sums`
states them as a relation, `IsSum`: a listing of the set with its partial sums.  It
proves that a set has one sum (`SumUnique`, by a smallest set with two), what
adding and removing an element does, and that the fold is that sum (`SumIsFold`),
so that theorems speak of the operator that the runs evaluate.

Assumptions on constants that only the proofs need, and why the code justifies
them: `NoUserYet` is none of the claimers; shipments and trips have different
ids (uuids of two tables); a statistics run counts rows, so `MaxRows >= 1`; the entries
of a list are finitely many, being rows of a table; what
administrators submit in a pricing rule are integers (the multiplier in tenths)
with the minima of `pricing-calculator.ts`, and cargo types are those of the
schema.

### Only model-checked

- Liveness (EventuallySettled, RecoversAfterOutage, the progress part of
  DeliverySpec, PaidOrderIsNoticed, DeliveredIsClosed), which is out of the
  prover's reach.
- The violations of section 4, which are traces.

Every invariant and action property of the passing runs is a theorem; under their
own name, or, where a run checks several components under one name
(`MarketAreaTypeOK`, `AccountsTypeOK`, `PaymentsWithinLimits`), as that of each
component.

## 6. Not modelled

Left out of the modules, besides what their parts of section 2 say: wording of
notices and errors, insurance, fields that no handler reads (`financeEscrowId`,
timestamps except whether they are set), authorisation and validation of inputs
(a request that would be refused changes nothing), and the delays of schedules.

Left out as components:

- *Generated code and clients.*  `adapters/grpc-client/generated` alone is a
  third of the implementation; it and the gRPC, SMS, storage and api.ir clients
  convert messages and perform I/O.  The services behind them appear in the
  models as what they may answer.
- *Web layer, wiring, configuration.*  Controllers, DTOs, modules and ports name
  routes, types and dependencies; they keep no state and decide nothing that the
  use cases they call do not decide.
- *Views.*  Dashboards, details, the internal API, health and metrics only read.
- *Rows with one writer.*  Profiles, addresses and settings are updates of one
  row by its owner or an administrator, and no handler acts on them; marking and
  deleting a notice likewise.
- *Parts of modelled components.*  Edits of a trip other than as steps that part or
  join a pair (`MatchSuggestions`), its soft deletion by an administrator, the
  amount in the key of a partial refund (`ShipmentLifecycle` gives the partial
  refunds of a shipment one outbox row, so a second one of another amount while the
  first is queued is left out), the passport inquiry, the encryption of personal data, the credit that an administrator
  grants or reverses by hand (one call to finance each), scores of suggestions.

So a model of every handler, job and repository method with a decision in it
still stands for a minority of the lines in `src/src`: the rest is generated,
declarative, or I/O.
