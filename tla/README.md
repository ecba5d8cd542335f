# Genyx: formal models, model checking and proofs

This directory is a TLA+ development of the Genyx API (`src/apps/api`): a Telegram
mini-app where members buy packages with USDT on TON, earn rewards in an in-app
wallet, play lottery auctions, invest, and withdraw. The money-moving part is modelled,
model-checked with TLC and proved with TLAPS as far as its safety goes.

    tlc -workers 2 -config payouts_safety.cfg MCPayouts.tla
    tlapm PayoutsProofs.tla

## 1. Inventory

One Fastify process (`server.ts`) serves all routes and runs all workers; PostgreSQL
(through Prisma) holds all durable state; TonAPI is the window to the TON chain. The
production compose file runs one API container, without replicas. Paths below are
relative to `src/apps/api/src` unless they begin with `web`, which is `src/apps/web`.

| Component | State it keeps | Operations | Model |
|---|---|---|---|
| Withdrawals, `services/withdrawals.ts` | `Withdrawal` rows; `AVAILABLE`, `HOLD` ledger accounts; `totalWithdrawn` | request, review (REVIEWING, APPROVED, REJECTED, PAID) | `Payouts` |
| Payout worker, `services/payout-worker.ts`, `domain/payout-outbox.ts` | `PayoutJob` rows (status, attempts, signed bytes, deadline) | create, confirm, recover, submit; broadcast with outbox | `Payouts` |
| Payments, `server.ts` (`confirmPayment`, payment routes, `autoConfirmSubmittedPayments`) | `Payment` rows, ledger transactions, `totalDeposited`, `activePackageCode` | open, register a hash, confirm, reject | `Payments` (PACKAGE, WALLET_TOPUP), `Auctions` (AUCTION), `Investments` (INVESTMENT) |
| Deposit discovery, `services/deposit-discovery.ts` | `deposit-cursor:*`, `deposit-retry:*` settings | read a page, settle or credit to the wallet, advance | `Payments` |
| Package intents, `services/package-intents.ts` | `Payment` rows | reuse or replace a quote | `Payments` |
| Worker runner, `services/worker-runner.ts` | `active`, `failures` in memory | one iteration at a time, poll again after a failure | control and fairness of every worker |
| Auctions and hall packs, `services/auctions.ts` | `Auction`, `AuctionBid`, `AuctionAward`, `AuctionEntryPass` | buy a pack, bid, close, award, expire, claim, confirm, cancel, reset | `Auctions` |
| Investments, `services/investments.ts`, `domain/investments.ts` | `Investment`, `InvestmentSettlement`, pool and locked accounts | open, settle monthly, withdraw profit, cancel, absorb overflow, consume capacity | `Investments` |
| Rewards, `services/rewards.ts`, `domain/reward-allocation.ts` | `RewardReceipt`, pools | credit within pool and cap | `Investments` |
| Binary network, `services/binary.ts`, `direct-referral.ts`, `referral-tree.ts`, `domain/economics-v2.ts` | `BinaryPosition`, `BinaryVolume`, `BinaryReceipt` | place, propagate volume, pay the sponsor, match, page the queue | `Network` |
| Ledger, `services/ledger.ts` | `LedgerTransaction`, `LedgerEntry` | balanced, idempotent posting | through its users |
| Tasks and ranks, `services/task-rewards.ts`, `task-verification.ts`, `task-metrics.ts`, `ranks.ts` | `Task`, `TaskClaim`, audit events of opened links | open a link, claim, approve, edit, archive | `Tasks` |
| Progress reset, `services/progress-reset.ts` | `TaskClaim` keys, a reset event | archive settled claims | `Tasks` |
| Shop and vouchers, `server.ts` | `ShopItem`, `ShopPurchase`, `User.vouchers` | purchase, delete, boosts | `Store` |
| GEN lottery of the admin panel, `server.ts` | `LotteryRound`, `LotteryEntry`, a reserve account | create, edit, enter, draw, delete, reset | `Store` |
| Sessions, roles and gates, `server.ts` (`requireUser`, `requireAdmin`), `services/telegram.ts`, `domain/membership-policy.ts` | `User.role`, sessions, report links | sign in, check, delegate a role | `Accounts` |
| Community and terms, `services/community.ts`, `services/terms.ts` | `RequiredChannel`, `ChannelMembership`, Terms and acceptances | list, ask Telegram, accept | `Accounts` |
| Wallet proof, `services/wallet-proof.ts` | `WalletChallenge`, `Wallet` | challenge, register, change for a fee | `Accounts` |
| Member's web app, `web/app/page.tsx`, `financial-flows.tsx`, `withdrawal-panel.tsx` | session token, request keys, shown data | renew, refresh, retry | `Client` |
| Pools and quotes, official tables, reports, admin pages, deployment | none others rely on | queries, formatting | not modelled (section 5) |

### How the components interact

* A member opens an invoice (package intent or top-up), signs a transfer whose comment
  names it, and may register its hash. The payment worker finds the transfer, or looks
  the hash up, and calls `confirmPayment`; an admin may call it too, or reject.
* `confirmPayment` credits packages, wallets, pools, binary volume and commissions in
  one READ COMMITTED transaction. For AUCTION and INVESTMENT invoices it calls those services.
* Rewards flow from binary settlement, commissions and tasks into a member's
  `AVAILABLE` account, bounded by his Max Cap; the overflow buys investments.
* A withdrawal moves `AVAILABLE` to `HOLD`. An admin approves it (small ones are
  approved at once in automatic mode), and the payout worker sends it, or an admin
  records a manual transfer in manual mode.
* Every route first passes `requireUser` or `requireAdmin`, whose reads are not in the
  transaction of the handler; membership and Terms are asked of Telegram and the database.
* The web app repeats a request under the same key when its answer is lost.
* Admin routes and workers meet in the database: row locks, the advisory locks 718291
  (payouts) and 718292 (binary volume), Serializable transactions, unique columns.

### What is hard here, and what makes each component correct

* **Payouts.** A transfer on chain cannot be undone, the answer of a provider cannot be
  trusted, the process may die between any two statements, and an admin reviews the
  same rows. Correct: paid at most once; rejected or paid, never both; booked as paid
  only on proof; one message that can run at a time; approved means paid in the end.
* **Payments.** Two paths of the worker and an admin confirm the same row; other
  statements update it by id after an unlocked read; the cursor must neither skip nor
  stick. Correct: one credit for one confirmed payment; a package sold once; a final
  status is final; the cursor passes only what was dealt with, and always catches up.
* **Auctions.** Expiry, claim, payment and cancellation of the same award, in
  transactions of different isolation; automatic opening of the next hall. Correct: one prize,
  or two halves, per hall; the lowest winning bids first and each member once; entry
  always paid; a hall that took its bids closes; a cancelled hall stays hidden.
* **Investments and rewards.** A settlement, a withdrawal of profit, a cancellation and a
  commission credited inside a READ COMMITTED confirmation write one row under different
  locks. Correct: no bar holds more than its room, every ended period is paid once, a
  cancellation returns the principal less what was paid, every reward counts on one bar.
* **Network.** Purchases place members and their ancestors, links arrive late, two
  purchases of one buyer overlap, one account always fails. Correct: a member stands below his
  sponsor, every purchase reaches every ancestor once on the right side, matching
  loses and repeats no volume, a day's limit holds, no account starves.
* **Tasks.** Telegram is asked outside the transaction, the task may be edited before it,
  and claims, approvals and a reset meet on one row. Correct: what is credited was quoted
  once and verified as the task now demands; ranks come in order.
* **Shop and lottery.** Balances read on another connection, edits by id after an unlocked
  check. Correct: every posting is accounted for, one boost at a time, one prize per round.
* **Accounts.** A check is a chain of reads while roles, channels, Terms and memberships
  change. Correct: whoever passes was entitled to during the request; a wallet change costs
  what was quoted.
* **Web app.** Answers are lost, late or overtaken, sessions end. Correct: a repeated request is
  recorded once; the screen catches up.

## 2. Modules

| Module | Role |
|---|---|
| `Payouts` | members, admins, the worker, the hot wallet and the chain |
| `PayoutPromise` | what a withdrawal promises: abstract specification implemented by `Payouts` |
| `Payments` | invoices, deposits, the payment worker and admins |
| `Auctions` | halls, members, admins and the auction worker |
| `Investments` | packs, their settlement worker, and rewards that fill the bars |
| `Network` | sponsors, the binary tree, volume, commission and the matching queue |
| `Store` | shop, boosts, the admin panel's lottery, credits an admin gives |
| `Tasks` | tasks, ranks, claims, approvals and the reset of progress |
| `Accounts` | sign-in, roles, the gates of a request, channels, Terms, wallets |
| `Client` | the member's page: session, refreshes, request keys |
| `MC...` | one per module: instances for TLC |
| `PayoutsProofs`, `PaymentsProofs`, `AuctionsProofs`, `InvestmentsProofs`, `StoreProofs` | TLAPS proofs about the module of that name |
| `EarningsProofs` | proofs about `Network` and `Tasks` |
| `MemberProofs` | proofs about `Accounts` and `Client` |
| `Sums` | lemmas about sums over finite sets, used by the proofs about balances |

`Network` and `Client` name their specification `NetworkSpec` and `ClientSpec` (and so on), and a member
and a day of `Network` are `Users` and `today`, so that one proof module can extend two of them.

Common conventions: a database statement or transaction, or a provider call, is one
step. A READ COMMITTED transaction that reads without a lock and writes later is two
steps; one that first locks the row it decides on, or that is Serializable and
conflicts with all its writers, is one step. A worker is a program counter
`pc` with the local variables that live across its steps. `Restart` clears exactly what is in
memory. Definitions whose comment begins with "Bug:" are plausible mistakes that show that a
property can fail; nothing in the specification uses them. Where the code lets something happen that a
property would rather exclude, the model lets it happen too, and a *history variable*, which no guard
reads, marks what it happened to: `overtaken` (`Payouts`), `overwritten` (`Payments`), `outlasted`
(`Investments`), `moved`, `crossed`, `repriced` (`Store`). The property then says that nothing else can break it.

### Payouts

State: `wd`, `txHash` are the columns of `Withdrawal`; `job` is the `PayoutJob` row of a
withdrawal (status, attempts, signed message, time of claim, order of creation, proof);
`available`, `hold`, `withdrawn`, `fees` are the ledger; `automatic` is the payout mode of
the running process; `review` and `lock` are the admin's open transaction with its
snapshot and the holder of advisory lock 718291; `pc`, `todo`, `proof`, `expired`,
`resend`, `seen`, `cand`, `draft` are the worker; `seqno`, `pool`, `executed`, `credited`
are the wallet contract and the messages validators know.

| Code | Actions |
|---|---|
| `requestWithdrawal` | `Request` |
| `reviewWithdrawal` by an admin | `ReviewBegin` (lock and snapshot), `ReviewCommit` |
| `createJobsForApprovedWithdrawals` | `CreateRead`, `CreateJob` |
| `confirmSubmittedJobs` | `ConfirmRead`, `ConfirmFound`, `ConfirmMissed`, `ConfirmSettle`, `ConfirmMark` |
| `recoverOutbox` | `RecoverUnsent`, `RecoverLive`, `RecoverScan`, `RecoverSeqno`, `RecoverExpired`, `Rebroadcast` |
| `submitQueuedJobs`, `submitJob`, `broadcastPayout` | `SubmitPick`, `SubmitLock`, `SubmitClaim`, `SubmitLoad`, `SubmitSave`, `SubmitSend`, `SubmitRefused`, `SubmitRetry`, `SubmitGiveUp` |
| providers, process, chain | `ProviderFails`, `Restart`, `Execute`, `Tick` |

`ReviewBegin` fixes the snapshot of the Serializable transaction when it *starts* its
first statement, which is the advisory lock: that is what PostgreSQL does, and the lock
may be granted only later (`SubmitClaim` hands it over). A rejection that commits on a snapshot older
than the claim it waited for puts its withdrawal into the history variable `overtaken`.

A message is a job, a wallet seqno and a deadline. The wallet executes a message of its
current seqno before the deadline, at most once, and the token transfer inside may fail
although the message ran (`IGNORE_ERRORS`): `executed` and `credited` differ. Messages
can be broadcast again, lost, or accepted with an error answer.

### Payments

State: `pay` is the `Payment` row of an invoice; `ledger` is the set of idempotency keys
posted (`package-credit:<id>`, `wallet-topup:<id>`); `deposited`, `active` are columns of
`User`; `chain` is the treasury's transactions; `cursor`, `attempts` are the settings of
deposit discovery; `pc`, `last`, `submitted` are the worker; `route` is an open hash
registration, `rejecting` an open rejection.

| Code | Actions |
|---|---|
| `getOrCreatePackageIntent`, top-up route | `OpenInvoice` |
| registration of a hash | `RegisterRead`, `RegisterWrite` |
| admin route | `RejectRead`, `RejectWrite`, `AdminConfirm` |
| `confirmPayment` | `Settle` and `Credit`, used by every confirmation |
| `discoverDeposits` | `DiscoverRead`, `DiscoverRow`, `DiscoverHash`, `DiscoverConfirm`, `DiscoverRetry`, `TopupWrite`, `TopupConfirm`, `DiscoverAdvance` |
| `autoConfirmSubmittedPayments` | `SubmittedRead`, `SubmittedCheck`, `SubmittedDone` |
| failures, process, chain, clock | `Fails`, `Restart`, `Transfer`, `Tick` |

`confirmPayment` is one step because it locks the payment first and, for a package that
is sold once, the member's row. The postings to pools, GEN and commissions inside it are one
credit, and its AUCTION and INVESTMENT branches are left out with the services
they call. A rejection is a read and, later, an update by id: a confirmation may commit in between, and
its invoice is then in `overwritten`. A member may register any hash of the treasury, also that of another
invoice's transfer; `Registering` bounds which invoices are registered for.

### Auctions

State: `status`, `left`, `cands` are columns of `Auction` (`left` is `remainingSeconds`, which
every bid lowers by one: a hall takes that many bids); `bids`, `awards` are its rows in order
of creation; `passes` and `credits` are `AuctionEntryPass`, for one hall and for a series;
`usdt` is a member's wallet; `queue` is the list `processAuctions` has read; `tx` is an open
claim or advance with what its snapshot shows; `resetting` is what an open reset has read.

| Code | Actions |
|---|---|
| `createAuction`, `deleteUnusedAuction`, reset route | `CreateAuction`, `DeleteAuction`, `ResetRead`, `ResetWrite` |
| `purchaseHallPack`, `placeAuctionBid` | `PurchaseHallPack`, `PlaceBid` with `EnterHall`, `EnterRoom` |
| `processAuctions`, `advanceAuction` | `Poll`, `AdvanceBegin`, `AdvanceOpen`, `AdvanceOffers`, `AdvanceClosed` |
| `closeIfFinished` | `CloseIfFinished`, in every settling action |
| `claimAuctionAward` | `ClaimBegin`, `ClaimCommit` |
| `auctionPaymentIntent`, `confirmAuctionPayment` | `PaymentIntent`, `ConfirmPayment` |
| time | `Tick` |

Serializable transactions take effect one after the other, so while one is open (`tx`) no other
one acts. A confirmation and a reset are READ COMMITTED and may commit in between: a
Serializable transaction takes its snapshot when its first statement starts, and aborts only if
a row it writes has changed, not if the row it waited for was merely locked.
`ConfirmsMayOverlap` says whether a confirmation may do so.

The order in which bids and lapsed offers are served is `Sorted`, by an order given as a set
of pairs (`ByCents`, `Rising`), because proofs cannot be about an operator passed as an argument.

### Investments

State: `pack` are the rows of `Investment` in the order they were opened (status, plan, periods
settled, profit paid and locked, `consumed`, refund); `used` is `User.capConsumed`; `pool`,
`locked`, `held`, `income` are ledger accounts; `month` counts 30-day periods; `credit` is a
commission under way in a confirmation; `worker` is one pass of `settleDueInvestments`.

| Code | Actions |
|---|---|
| `confirmInvestmentPayment` | `Purchase` |
| `creditRewardInTransaction` of a Serializable caller | `Reward` |
| the same inside `confirmPayment` | `Allocate`, `ReadSlots`, `FillSlots` |
| `consumeCapacity`, `absorbOverflow` | `Filled`, `Spent`, `Absorbed`, in every crediting action |
| `settleDueInvestments`, `settleInvestment`, `monthlyPayout` | `Poll`, `Settle`, `SettleFails`, with `Payout` |
| `withdrawInvestmentProfit`, `cancelInvestment` | `WithdrawProfit`, `Cancel` |
| time | `PeriodEnds` |

A confirmation holds the rows of the pool and of the sponsor, so a settlement and another reward
wait for it; a cancellation locks only the pack and does not wait. What `ReadSlots` has read
is written by id in `FillSlots`, whatever the row has become.

### Network

State: `sponsor` is `User.referredById`; `place` is `BinaryPosition` (parent and side);
`volume`, `lifetime`, `slots`, `vouchers`, `credited` are its counters and receipts; `stage`,
`dated`, `direct` are a purchase (dated, not committed; confirmed), what its date makes earlier, and
its commission; `page`, `lastPosition` are one pass of `processBinaryQueue`.

| Code | Actions |
|---|---|
| `assignSponsor` and its correction | `AssignSponsor`, `CorrectSponsor` |
| `recordBinaryVolume`, `payDirectReferralCommission` in `confirmPayment` | `Stamp` (before the advisory lock), `Confirm`, `Abort` |
| `place`, spillover | `WithPlace`, `PlaceUnder`, `Spillover`, in `Confirm` |
| `processBinaryQueue`, `binarySettlement` | `Poll`, `Skip`, `SettleBinary` |
| time | `NextNoon` |

What the Max Cap leaves of a reward is the business of `Investments`: here any part of it may be credited.

### Store

State: `gen`, `usdt`, `vouchers` are balances; `item`, `request`, `bought`, `running` the
items, the purchases under way, the history and the boosts; `spent`, `given` what the purchases' rows say
was spent and what was given; `round`, `paid`, `reserve`, `prize`, `refund` the lottery; `editing`, `deleting`
what an admin has checked and not written; `credit` the idempotent credits of a finance admin.

| Code | Actions |
|---|---|
| `POST /v1/shop/:id/purchase` | `Begin` (the item, before the transaction), `Look` (its snapshot: boosts, vouchers), `Fund` (the balance, on another connection), `Purchase`, `Refuse` |
| item routes, time | `PatchItem`, `DeleteItem`, `BoostEnds` |
| lottery: create, edit, delete | `CreateRound`, `EditRead`, `EditWrite`, `DeleteRead`, `DeleteWrite`, `TimePasses` |
| lottery: enter, draw, reset | `Enter`, `Draw`, `ResetLottery` |
| withdrawable credit and vouchers of an admin | `AdminCredit`, `AdminVouchers` |

An item is the row an admin may edit: status, category (`boost`), duration, prices and rewards; a request keeps
the row it has read. A Serializable purchase is aborted when a transaction that committed after its snapshot
wrote the member's row too, or added the boost it had looked for: `stale` marks the requests this applies to. A
purchase with USDT does not write that row, and a lottery entry is not Serializable: `late` marks the requests
whose balance does not show such a debit.

### Tasks

State: `task` rows with `version` for `updatedAt`; `claim` rows by member, task and claim key;
`request` a claim between Telegram's answer and its transaction; `opened` the link events;
`joined`, `cycles`, `boosted`, `day` the world; `xp`, `usdt`, `pool` the rewards; `archived`,
`resets` what a reset has put aside.

| Code | Actions |
|---|---|
| opening a link | `OpenLink` |
| claim route, `claimTask` | `Check`, `ClaimTask`, `Refuse`, with `RankOpen`, `TargetMet` |
| ranks as the app shows them (`completedRank` of bootstrap) | `CompletedRank`, `NextRank`, `ShownLocked` |
| `approveTaskClaim` | `ApproveTaskClaim` |
| task routes of admins | `EditTask` (kind, daily, reward, rank; publishes again), `ArchiveTask` |
| `resetProgress` | `ResetProgress` |
| members, network, shop, clock | `JoinOrLeave`, `Cycle`, `BoostChanges`, `Noon` |

### Accounts

State: `role`, `signed`, `links` who a member is and holds; `list`, `joined`, `verified`, `text`,
`accepted`, `agreeing` the channels, the Terms and an open acceptance of them; `wallet`, `challenge`, `fees` the registered wallet; `req` the
requests under way. A request carries, besides its program counter and locals, what its member was
and did while it was under way (`was`, `kept`, `seen`, `texts`): history the properties compare
with, which no guard reads.

| Code | Actions |
|---|---|
| start of the bot, sign-in | `Start`, `SignIn` |
| `requireUser`, `requireAdmin`, membership and Terms | `Arrive`, `RequireUser`, `ReadTerms` (the version), `FindAcceptance`, `ListChannels`, `ListOne`, `Ask`, `Unavailable`, `Answer` |
| handlers behind the checks | `ReadRole`, `PatchRole`, `PutTerms`, `SaveChannel`, `DeleteChannel`, `MakeLink`, `Finish` |
| acceptance, Telegram | `AcceptTerms` (reads the version), `WriteAcceptance`, `JoinOrLeave` |
| `walletChallenge`, `saveProvenWallet` | `WalletChallenge`, `SaveWallet` |

Sessions and links that expire are sessions and links not used again. The bootstrap admins are fixed
for a deployment.

### Client

State: `tab`, `mount`, `token`, `hours`, `guard`, `bidKeys`, `retry`, `shown` are the React state and
refs of the page; `wire` are calls in flight; `recorded`, `server` what the API has; `closed` the keys
whose success the member was told (or that he replaced).

| Code | Actions |
|---|---|
| tabs, opening the app anew | `Open`, `Reload` |
| `connectTelegram`, `request` | `Connect`, `Hour`, `Renew` |
| bid and withdrawal forms | `SubmitBid`, `SubmitWithdrawal`, `Accepted`, `Refused`, `NotSignedIn`, `GiveUp` |
| the refresh loop | `Refresh`, `Show` |
| the API and the network | `Unauthorized`, `Record`, `RefuseCall`, `ReadBootstrap`, `Change`, `Unheard` |

### How the modules meet

Each module takes from its neighbours what the code takes, as actions or constants: `Auctions` and
`Investments` have the branches of `confirmPayment` that call them, with its isolation level; `Network`
the volume and commission of a confirmed purchase; `Investments` every kind of reward and the overflow;
`Tasks` the cycles of `Network` and the boosts of `Store` as steps of the world; `Client` the idempotent
server the other modules model. A composition of whole modules would multiply their states and has
no lock or row of its own to check.

## 3. Runs

Expected to pass:

| Run | States | What it shows |
|---|---|---|
| `payouts_safety` | 4.3 million | `PaidOnce`, `RejectedNeverPaid`, `PaidIsProved`, `ConfirmedAgrees`, `HoldMatches`, `NeverResigned` and the implementation of `PayoutPromise` (`KeepsPromise`): two withdrawals of one member, all decisions of admins, also those that wait for the worker's claim, both payout modes |
| `payouts_liveness` | 418 thousand | `ApprovedIsResolved`, `PaidIsConfirmed` in automatic mode, with admins that approve |
| `payments` | 3.2 million | `CreditedOnce`, `OnePackage`, `CursorPassesSettled`, `WorkerProves`, `FinalIsFinal`, `CursorCatchesUp`: rejections overlap with confirmations, and a member registers any hash |
| `auctions` | 522 thousand | `PrizeWithinHall`, `LowestFirst`, `WalletMatches`, `HistoryKept`, `OffersResolve`: a hall of two bids with the hall that follows it, and a room of four bids of three members |
| `investments` | 870 thousand | `BarsNeverOverfilled`, `LockedMatches`, `IncomeOnBars`, `CancelBalances`, `DueIsSettled`: three packs of two members under settlements, cancellations, rewards of which one outlasts its rounds, and a commission |
| `network` | 113 thousand | `BelowSponsor`, `PurchasesCount`, `DailyLimitHolds`, `MatchedIsSettled`: six purchases of seven members, with spillover, late links and a cycle of sponsors |
| `store` | 645 thousand | `BooksMatch`, `WithinMeans`, `OneBoost`, `OnePrize`: two windows of a shopper, an admin who edits items and prices, and a lottery round |
| `tasks` | 1.6 million | `PaidAsQuoted`, `RanksInOrder`, `SettledAsChecked`: two windows, edits of a mission or of three ranks, a reset, a noon |
| `client` | 1.1 million | `RetryIsSafe`, `ShownCatchesUp`: a page with lost answers and an expiring session |
| `accounts` | 1.1 million | `GateIsCurrent`, `LinkedAsQuoted`: an administrator and a member with overlapping requests, and Terms that change during a request and during an acceptance |

A type invariant is a conjunct of a property of each module (`BarsNeverOverfilled`, `BelowSponsor`,
`BooksMatch`, `PaidAsQuoted`, `LinkedAsQuoted`, `RetryIsSafe`, `WalletMatches`), which is proved with it;
those of `Payouts` and `Payments` are theorems of their own.

Expected to be violated, each checking what the code says of itself without the exception the passing run makes:

| Run | Violated | What happens |
|---|---|---|
| `payouts_overlap` | `ReleasedNeverPaid` | A rejection that waits for the worker's claim decides on the snapshot from before it, and releases the hold of a payout that is then sent (`withdrawals.ts:47`, `50`) |
| `payments_final` | `AlreadyFinal` | A rejection reads a PENDING payment, a confirmation credits it, and the rejection then writes REJECTED by id, in spite of "Payment is already final" (`server.ts:3749-3750`) |

`payouts_safety` checks `RejectedNeverPaid` in the same world as the first: the overlap is the only way, a
withdrawal not in `overtaken` is never both. `payments` checks `FinalIsFinal`, `CreditedOnce` and `OnePackage`
in the same world as the second.

### Seen while modelling, without a run of their own

The first ones are exceptions that a property names, so that it says that nothing else can go wrong; the others
are what the model of the code does while the properties hold all the same.

* A hash registered on the wrong invoice makes the worker's update fail on the unique column in every
  poll, outside the try that counts attempts (`deposit-discovery.ts:60`; the hash may be any, `server.ts:1730-1745`),
  although the comment there says "never let one unsettleable purchase block every later deposit behind the cursor"
  (`deposit-discovery.ts:64-65`). `CursorCatchesUp` names it: the cursor catches up or stands at such a deposit (`Blocked`).
* The claim of a rank counts settled claims of lower ranks, not ranks (`task-rewards.ts:134`), and nothing keeps an admin from
  making a rank a daily task (`server.ts:257-275`, `3288-3323`), which has one claim a day: a member who
  settled the first rank on two days claims the third without the second, in spite of "Complete the previous
  organizational rank first." (`task-rewards.ts:142`). `RanksInOrder` names it: of a member with at most one settled claim of
  each lower rank the rule holds, whatever admins do to the ranks (`EachOnce`). The run reaches the
  exception: without `EachOnce` TLC finds it violated.
* An approval by an admin does not look at ranks: a claim quoted while its task was MANUAL and without a rank is settled
  after the task has become one (`approveTaskClaim`). `RanksInOrder` is about the claims of members.
* The acceptance of the Terms is recorded for the version that was current when the request arrived (`server.ts:1249`, `1254`), and
  the gate asks for the version it has read before (`terms.ts:49`, `50`): when an admin replaces the text in
  between, a member passes on an acceptance that never was of the current text. `GateIsCurrent` promises a version that was
  in force at some time of the request, which is what is left.
* An item that is put into another category is not found by the boost check (`server.ts:2062-2068`) while it is there: with it
  and back again two boosts can run. `OneBoost` is about the items that have been boosts all along.
* A balance is read outside the purchase's transaction: two purchases with USDT at once, or one with GEN and a lottery
  entry, overdraw a wallet (`server.ts:2107`). `WithinMeans` says that nothing else does.
* A reset of the lottery refunds the price of the round as edited, not what was paid (`server.ts:3046`).
  `RefundsMatch` excepts the rounds edited after an entry (`repriced`); `WalletsMatch` and `ReserveMatches` do not.
* An overflow of more than 100 packs' principal stays held beyond them (`investments.ts:151`): the rewards of ranks are
  20,000 to 1,000,000 USDT (`domain/ranks.ts:12-15`). `IncomeOnBars` bounds what is held of everybody else (`outlasted`).
* A withdrawal rejected while its job is queued leaves the job QUEUED; it is picked as the oldest in
  every poll and nothing behind it is paid (`payout-worker.ts:118`). `payouts_liveness` with REJECTED
  in `AdminStatuses` violates `ApprovedIsResolved`.
* A correction of a sponsor does not walk his ancestry, so the sponsors may form a cycle (`network` reaches it); every
  purchase of its members then aborts in `place` (`binary.ts:24`), and none of them gets a place.
* After a late deposit was credited to the wallet its row keeps the package code, and the replacement
  invoice, paid in time, is refused as its duplicate (`server.ts:560`).
* Of two halves of a prize one is claimed and the other confirmed at the same time: the claim still sees
  the other as offered, and the hall stays AWAITING (`auctions.ts:153`). A cancelled hall whose award is
  claimed becomes CLOSED, and may open its successor (`auctions.ts:157`).
* Two overlapping purchases of one buyer may each pay his sponsor the first-purchase commission
  (`direct-referral.ts:25`).
* `settleDueInvestments` takes 5000 active packs without an order or a filter for those that are due
  (`investments.ts:225-228`): beyond that number nothing makes it reach them all.
* A pack that a cancellation closed may be set to COMPLETED by a commission that had read its bar before:
  `CancelBalances` speaks of the packs that stay CANCELLED.
* The period of a pack is 30 days in the settlement and a calendar month in the projection shown
  (`server.ts:4290`).
* A USDT prize of the lottery is reserved and never paid; a deletion that races an entry leaves that
  entry's GEN in the reserve.
* The page forgets its request keys when the member changes the tab, the shop's purchase has no request
  key, a failed first sign-in is not retried, and the lottery page does not renew an expired session.
* `FINANCIAL-READINESS.md` says MANUAL_REVIEW blocks further sends; the code lets an expired one through
  on purpose, with a comment that explains why. A signed payout that expired in MANUAL_REVIEW can only be
  confirmed by its proof: no operation lets an operator release it, so `ApprovedIsResolved` counts it as
  parked.

### Bounds, and why they are enough

* **Payouts.** `Withdrawals = {w1, w2}`: the hazards are about one withdrawal, or about
  one in the way of another (`OneLive`, the seqno, the queue). `Amounts` are 200 and 400
  with `Funds` 600, so both fit exactly, `AutoMax` 250 makes the first small and the
  second reviewed, and `FeeBps` 150 gives fees 3 and 6. `Minimum` is below both.
  `Validity = StaleAfter = 1`, `MaxTime = 2` (3 for liveness): a message can expire and be
  signed anew. One fault (`MaxFaults`) at any point, no later than the time `LastFault = 1`, after which a message
  may still expire: a crash, a lost or failing call, an unseen transfer. One hash `h1` for manual payments.
* **Payments.** Two invoices of one member for one package, so replacement, late payment and
  duplicates occur; `MaxDeposits = 2`, each in time or late, exact or not;
  `Life = 1`, `MaxTime = 2`: an invoice can expire and be paid late;
  `MaxAttempts = 2` instead of 3: one retry and one last failure; one fault. `Registering` is one invoice:
  its member registers any hash, also that of the other invoice's deposit. `Skew` (the
  chain's clock behind the server's) is 0. The page size of 100, the 10 pages of an iteration
  and the limit of 30 hashes are not modelled: a read sees all there is.
* **Auctions.** Bids of 1 and 2 cents, a prize of 3 whose halves are 1, so a bid may exceed its
  half. A first hall of two bids (a pair, two unique bids, or neither) with its
  successor of one; one member with the price of a pack, one with a credit. A room of four bids of three
  members gives every case of the selection, up to two pairs whose halves pass on. The constraint
  `RoomOrSeries` lets a behaviour open the room or the halls, which share only wallets. `ByHand` keeps admins from opening both halls. Offers of one hall
  lapse together: they differ in age only when one has passed on, and then the other is settled.
* **Investments.** A small plan (principal 3, profit 1, Max Profit 2, Max Cap 3, commission 1) and a large
  one (4, 2, 3, 5, 0); one member may buy both, one the small one; a token package with room 1. Rewards of
  1 and 19: one fits a bar; the other overflows, buys a pack in each of its two rounds (`Rounds`, 100 in the code) and
  may leave more than the principal of another. `MaxPacks = 3`: a bar, the next and the one that follows, of one
  member or two; the third is opened in the first month only (`ThreePacksEarly`). `MaxMonth = 2` is the whole
  cancellation window and both profits of the small plan;
  two rewards, one failed settlement. `CancelPeriods` is how many 30-day
  periods may end within the two calendar months of a cancellation. A reward that would buy a pack beyond
  `MaxPacks` is not given (`Fits`, `Book`).
* **Network.** Seven members: a root with two full lines, a buyer below an administrator who may be corrected
  to the root and then spills over, and a link back from him that would close a cycle. `Unit = 2` with purchases of 2, 4 and
  7, so matching leaves a rest; `VoucherEvery = 2`, `Limit = 1`: both bite in a day; a page of one
  and a first account that always fails; two days.
* **Store.** A shopper with two windows, and a member who only enters the lottery; a boost for GEN or a voucher, and a
  pass for GEN or USDT that gives GEN and a voucher back. `Patches`: an admin takes the boost out of the category and puts it back,
  and turns the pass into a dearer boost. Prices and balances of 1 and 2, so that two purchases, or a purchase and an
  entry, compete for one balance; at most two purchases and one voucher too many or too few (`MaxVouchers`); one
  round whose price may be edited, drawn, reopened, deleted, reset; one repeated credit. `ShopOrLottery`: a round is edited, drawn and
  deleted while the shop is at rest, and open and entered while it is not, since they share only the wallets.
* **Tasks.** Three ranks, the first of which may be made daily or lose its rank, which the second may take, and a task behind a
  link that may be edited once into a channel, metric or daily task; each also archived and published again; two windows, one noon, one
  reset, a pool that pays some claims. `MissionOrRanks`: a behaviour is about the mission and two ranks as they are, or about three
  ranks that are edited.
* **Accounts.** An administrator and a member, two requests at once out of three, two channels, two texts of the Terms, two
  wallets and two challenges. Slots, channels and challenges are symmetric: no property and no action
  tells them apart, and the run has no liveness property. While a member accepts the Terms only onboarding and requests
  of a super admin are under way (`AcceptsAside`): the others read neither; and none is while a wallet is challenged
  (`WalletsAside`), which shares only the sign-in with them.
* **Client.** One number to bid and two amounts, two keys, three panels, two calls of a kind at once, a session that
  expires twice, one change of the server, two answers given up.
* Deadlock is checked in the runs of payouts, payments and auctions, where a worker that polls or an admin always
  has a next step. The other worlds end at their bounds (months, purchases, requests, keys):
  their cfg says `CHECK_DEADLOCK FALSE`.

### Fairness

* Payouts: `WF(Worker)`, because `createWorker` polls for ever and goes on after a
  failed iteration; `SF(SubmitLock)` and `SF(ConfirmSettle)`, because they wait for an
  advisory lock that PostgreSQL hands out in the order of the queue, so admins cannot
  overtake for ever; `WF(ReviewCommit)`, a request does not hold its transaction for
  ever; `WF(Execute)`, a validator takes a message that may run; `WF(Tick)`.
* Payments: `WF(Worker)` as above and `WF(RejectWrite)`, a request ends. No fairness of
  members, admins or failures.
* Auctions: `WF(Worker)` as above, `WF(ClaimCommit)`, a request ends, and `WF(Tick)`.
* Investments: `WF(Poll)` and, for every pack, `WF(Settle \/ SettleFails)`: the pass takes every pack it
  listed and goes on after a failure, of which there are finitely many. `[]<>(credit idle)`: a confirmation
  that holds the member's row ends.
* Network: `WF(Poll)` and `WF(Skip \/ SettleBinary)`: the queue is polled for ever and goes through its page.
* Client: `WF(Refresh)`, because the page polls every 30 seconds, and weak fairness of the server taking and
  the page reading *some* refresh: a call may be lost, not all of them. `ShownCatchesUp` excepts what the
  code does not retry: a launch whose data has expired and a first sign-in that failed.

## 4. Proofs

TLC's instances are small. The theorems hold for every value of the constants that satisfies the named
assumptions of their module (`AmountAssumption`, `HallAssumption`, `NetworkAssumption` and so on), which
TLC evaluates in every run: any number of members, rows, requests, faults and any clock. Every invariant
a passing run checks is a theorem, and so are all its action properties, none of them with a premise of its own: where the code
breaks a rule in one case, the property has that case (section 3), and the theorem is that there is no other.

The assumptions are what the code fixes: sets are finite, prices and bounds are natural numbers, names of
nobody are not members. Two say more. `WindowAssumption` (`Investments`): what a plan may pay within the
cancellation window, and the commission of its purchase, do not exceed its principal, as for all the plans of
`domain/investments.ts:14-20`. `RanksAssumption` (`Tasks`): at first no two tasks have the same rank, a unique
column (`schema.prisma:203`); an edit to a rank that is taken fails.

`PayoutsProofs`: `TypeCorrect`, `PaidOnceHolds`, `OneLiveHolds`, `PaidIsProvedHolds`,
`ConfirmedAgreesHolds`, `NeverResignedHolds`, `HoldMatchesHolds`, `RejectedNeverPaidHolds`, `KeepsPromiseHolds`.

* The inductive invariant is `TypeOK /\ Inv`. "Paid once" says nothing about what has
  not yet happened, so it is not inductive. `MessageInv` is its reason: a message that ran is
  the one its job still stores, and a message its job has forgotten is past its
  deadline. To keep it, the worker's hands must be known: `RecoverInv` (what it read about expired messages is
  still true when it requeues, because a seqno never goes back and the deadline has
  passed), `SubmitInv` (a job being signed is SENDING and has no bytes), `ConfirmInv`
  (the proof in hand is a transfer of that job), `ControlInv` (which locals live where),
  `OneUnresolved` (a claim is made only when no other job is unresolved) and `PaidInv`.
* Types and invariant are proved together: the types of the ledger need that a
  proof in hand is one.
* `ReviewInv` carries the rest: a job that was claimed is of a withdrawal that is under review, approved or paid, or
  whose rejection was overtaken, and that one stays REJECTED. A review that takes the lock at once sees every claim
  before it, and no claim comes before its commit; `payouts_overlap` shows that the exception is needed.
* The refinement has one lemma per action that changes `wd`, `txHash` or
  `credited`; all others stutter.
* `HoldMatchesHolds`: a step changes the accounts of one member, and moves between them, and the status of one
  withdrawal, what it moves (`MovedStays`): one term of each sum changes, by the amount of the withdrawal.

`PaymentsProofs`: `TypeCorrect`, `WorkerProvesHolds`, `CreditedOnceHolds`, `OnePackageHolds`,
`CursorPassesSettledHolds`, `FinalIsFinalHolds`. The inductive invariant adds to the
properties that the worker is inside its page, that a transaction it is about to pass has been
dealt with (`WorkerInv`), that deposits name existing invoices, and that a payment a rejection wrote over
stays REJECTED, so it is not credited again (`RowInv`). `WorkerProvesHolds` has an invariant of its own: the deposit the worker
settles is exact (`ExactInv`), and every hash, in a row, in a request or in the worker's hands, is that of a
transaction of the treasury (`HashInv`).

`AuctionsProofs`: `PrizeWithinHallHolds`, `LowestFirstHolds`, `HistoryKeptHolds`, `WalletMatchesHolds`. "A hall owes no more than its prize" says
nothing of how many offers may still follow. `Shares` does: every award of a hall carries one and the same
share, `Prize \div n`, and at most `n` of them stand, so an advance must not add more offers than it
lets expire. It decides on what it read, so `Snapshot` is needed too: the rows an open
transaction has read are the rows still, with their prizes, and every offer that it saw lapsed is an open
lapsed offer yet, because a payment is confirmed only before its offer lapses; and the row a claim
pays is still offered, because its lock keeps payments out. `Stage` says that only halls that were advanced have awards.
The number of new offers is a matter of `Sorted`, which picks the element with k - 1 before it: that
there is one for each k (`RankExists`) is an induction over finite sets, done by taking a smallest
counterexample among the subsets, which needs no operator as a parameter.
`LowestFirst` needs `Order`: a hall with awards has the candidates of its bids, and every award went to a
candidate without one when every candidate before him had one (`Ordered`). That the candidates are the bids that
win, the lowest first, is `EligibleWins` and `LowerBefore`; that the first two of a hall without unique
amounts are two members is `FirstPair`; that an advance goes on in that order, also when it decides on rows it read
before, is `NextOffersOrdered`.
`WalletMatchesHolds` sums, for each member, the awards of a hall and then the halls (`Purse`). Its invariant
`WalletInv` adds what makes the booking of a claim right although it was computed from a snapshot: an offer is not yet
confirmed on chain (`Unconfirmed`), the bid that was read is the row's, and the wallet can pay it (`ClaimReads`). `EntryPaid`
is part of it: whoever has bid in a hall holds its pass or has given a credit for it.

`InvestmentsProofs`: `BarsNeverOverfilledHolds`, `LockedMatchesHolds`, `IncomeOnBarsHolds`, `CancelBalancesHolds`, from one
invariant. `BooksOK` says of the rows and accounts taken together what must hold of every intermediate state
of the pure operators too (a reward fills bars, the rest buys packs round after round, each of which consumes
capacity), so it is an operator on a record of all of them, and lemmas on `Filled`, `Opened`, `Round` and `Absorbed` keep it. `RowOK` is the
history of a row. `Reading` is the reason why a READ COMMITTED commission does no harm: what it read of a bar
is the room there is still, because only a cancellation and a withdrawal of profit get in between, and neither changes what
counts on a bar. `HeldOK`: the rounds of an overflow end for want of money, or its member is in `outlasted`; a round that buys
nothing leaves less than every principal, and a round that buys spends one, so as many rounds as the overflow has principals
are enough (`RoundsCover`).
`CancelBalances` needs `paid` to be at most the profit of the periods that ended inside the window.

`StoreProofs`: `OneBoostHolds`, `WithinMeansHolds`, `OnePrizeHolds`, `BooksMatchHolds`, `StoreInvHolds`. `Reads` is the reason
of the first two: what an open purchase that will not be aborted has read (no running boost, enough GEN, vouchers or USDT)
is still true when it commits, except for a balance marked `late`, because every commit that could change it marks the
request `stale`; `Sound` says so of one request, and each action keeps it. `Boosted` is the property in inductive form.
`BooksMatchHolds` has the sums (`WalletsMatch`, `ReserveMatches`): each purchase, entry,
credit, prize and refund changes one term of one member and one round. A round is created on a reserve nothing has touched
(`Untouched`), an edit or a deletion that was checked is of a round that exists (`Existing`), a refund is given once, with
the round deleted (`Unrefunded`), and who has entered paid the price the round still has, unless it was edited (`Priced`).

`EarningsProofs`, about `Network`: `DailyLimitHoldsAlways`, `MatchingConservesHolds`, `BelowSponsorHolds`, `PurchasesCountHolds`.

* `Lines` says that what a line holds and what was matched make its lifetime volume; `Credits` that no day exceeds
  the limit.
* The ancestors of a position are a recursion over parents, as in the code's loop; it means something only
  for a tree. `Grown` says that the recursion has exactly one solution, and is kept because a tree grows by roots
  and leaves (`NewLeaf`). `Ordered` follows: nobody is above himself, above is transitive, and
  whoever is below a member is below one of his children (or is one).
* Spillover takes a deepest position of the sponsor's lighter line: that it finds a free side is
  `DeepestHasNoChild` and `SpilloverFits`. A purchase places a whole chain of sponsors, the topmost first: the members to
  place are different (`ToPlace`), so the recursion of `WithPlace` adds one leaf at a time and keeps
  whoever is placed where he is (`WithPlaceKeeps`, by downward induction along the chain).
* `Anchored`, a placed member is below his sponsor, is kept because a late link is refused to a member with
  a place, and a correction moves only a member without one.
* `CountInv` is `LifetimeIsSubtree` and that some purchase of each buyer was paid to his sponsor. Whoever is placed keeps his line
  under every ancestor (`LineKept`), so a confirmed purchase adds its volume to the sums of the lines above it and to no other
  (`BoughtAfter`). Whichever purchase of a buyer is
  confirmed first finds no earlier one that is confirmed, whatever its date, and pays the commission.

`EarningsProofs`, about `Tasks`: `SettledAsCheckedHolds`, `PaidAsQuotedHolds`, `RanksInOrderHolds`.

* `Checked`: a request is not ahead of the version of its task, and one level with a channel task has asked Telegram.
* `PaidInv`: what was credited is the sum over the settled and the archived claims. A settlement adds a term and writes
  the quote it pays; a claim that only opens adds none; a reset moves terms from one sum to the other (`ResetTaskBooks`).
* `RanksInOrderHolds` is about the step that puts down a claim. The code counts settled claims of lower ranks; `RankCount`: if
  they are of different tasks, and no two tasks share a rank (`DistinctRanks`, kept by every edit), then as many claims as there are lower
  ranks are one of each, an injection into a set of the same size. The app shows the rank above the highest published one held,
  which is then at least the rank before (`ShownAtLeast`).

`MemberProofs`, about `Accounts`: `GateIsCurrentHolds`, `LinkedAsQuotedHolds`. What a request has found agrees with its history
(`Found`), and its history with the world (`World`); `Found` only grows with what a member was and did, so
steps of others keep it: a version of the Terms that a request or an acceptance has read was in force when it did, and
acceptances are not taken back. For wallets, an unused challenge has taken nothing and a used one what it quoted.

About `Client`: `RetryIsSafeHolds`. What was asked is on the wire or recorded; a key names one request (`KeyInv`), what
a panel asked and was not told of is in its refs (`RefInv`), and it waits for one answer at a time (`WaitInv`).

`Sums`: the sum of a function over a finite set (`SumFunctionOnSet`) is a recursion over subsets. That it defines one function is shown
once, by a smallest set for which it does not; then `SumAdd`, `SumChange`, `SumSame`, `SumPlus` and others, by smallest counterexamples: the
library's induction theorems take an operator as a parameter, which the provers cannot instantiate.

Only model-checked: liveness under fairness (`ApprovedIsResolved`, `PaidIsConfirmed`, `CursorCatchesUp`, `OffersResolve`,
`DueIsSettled`, `MatchedIsSettled`, `ShownCatchesUp`), which is out of the prover's reach.

## 5. Not modelled

* More than one API process: the deployment runs one. The recovery pass would race itself.
* A provider that lies: a seqno answered late, or a forged trace. A provider may fail,
  and may not show a transfer yet.
* Signatures of Telegram and of wallets, validation, rate limits: their outcome is an input.
* The CANCELLED status of a withdrawal, which no operation sets.
* GEN in auctions (the fee of a bid, bonuses, prizes), XP of auctions, and the reveal of a paid prize. A member
  always has the GEN a bid costs. How an AUCTION or INVESTMENT payment finds its transaction (as any
  invoice does).
* Deadlocks between row locks, which PostgreSQL resolves by aborting one transaction: the models let a
  transaction abort where a property depends on it.
* The GEN a monthly settlement of a pack also pays, and its cap of 1200 periods.
* Creation of tasks, their start and end times, the group chat a member names, other metrics than cycles and XP.
* The daily gift, cosmetics, hall credits that a shop pack gives.
* Package prices and pools, official tables, leaderboard, support messages, notifications, the admin report,
  the database reset at start, the admin pages and the deployment: queries, forms, formatting or single rows
  without interaction. `PROJECT.json` has the reason for each.

## 6. What is left

1. An abstract specification of the ledger (balanced, idempotent postings) that the money components implement, and
   the refinement proved as for `PayoutPromise`.
2. The safety core of the liveness properties: that a worker's variant decreases, as action properties.
3. The daily gift, and the hall credits of the shop with `Auctions`.
