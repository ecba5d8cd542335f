---------------------------- MODULE Investments ----------------------------
(***************************************************************************)
(* Investment packs and the reward crediting that fills their bars         *)
(* (services/investments.ts, services/rewards.ts, domain/investments.ts,   *)
(* domain/reward-allocation.ts).                                           *)
(*                                                                         *)
(* A pack pays a profit for every 30-day period into a locked account,     *)
(* stops at Max Profit, closes at Max Cap, and may be cancelled within     *)
(* two months.  Rewards fill the bars of a member's active packs, oldest   *)
(* first, then his token package; what exceeds every bar is held and buys  *)
(* packs by itself.                                                        *)
(*                                                                         *)
(* A settlement, a withdrawal, a cancellation and a reward of the binary   *)
(* queue or of a task are Serializable transactions: one step each.  The   *)
(* commission of a first purchase is credited inside confirmPayment, which *)
(* runs READ COMMITTED: it allocates by one reading of the bars (Allocate),*)
(* reads them again (ReadSlots), and only then updates the rows by id      *)
(* (FillSlots).  It holds the row of the pool and of the sponsor, which a  *)
(* settlement and another reward wait for and a cancellation does not.     *)
(***************************************************************************)
EXTENDS Integers, FiniteSets, Functions, FiniteSetsExt

CONSTANTS
    Members,
    Plan,          \* plan code -> its terms
    Allowed,       \* member -> the plans within 10x his token package
    PackageCap,    \* Max Cap of a member's token package
    Amounts,       \* the rewards asked for
    Funding,       \* what the purchase behind a commission adds to its pool
    NoOne,         \* no confirmation is crediting a sponsor
    CancelPeriods, \* a 30-day period that may still end inside the window
    Rounds,        \* packs that one overflow may buy; 100 in the code
    MaxPacks, MaxMonth, MaxRewards, MaxAborts    \* bounds

Terms == [principal : Nat, profit : Nat, maxProfit : Nat, maxCap : Nat,
          commission : Nat]
Plans == DOMAIN Plan

ASSUME PlanAssumption ==
    /\ IsFiniteSet(Plans) /\ Plan \in [Plans -> Terms]
    /\ \A p \in Plans : /\ Plan[p].commission <= Plan[p].principal
                        /\ 0 < Plan[p].maxProfit
                        /\ Plan[p].maxProfit <= Plan[p].maxCap
                        /\ 0 < Plan[p].principal
\* What can be paid inside the window, and the commissions, leave the principal
\* something: a refund is never cut off at 0.
ASSUME WindowAssumption ==
    \A p \in Plans : Plan[p].profit * CancelPeriods + Plan[p].commission
                       <= Plan[p].principal
ASSUME BoundAssumption ==
    /\ MaxPacks \in Nat /\ MaxMonth \in Nat /\ MaxRewards \in Nat
    /\ MaxAborts \in Nat /\ Rounds \in Nat /\ CancelPeriods \in Nat
    /\ PackageCap \in Nat /\ Funding \in Nat /\ Amounts \subseteq Nat
    /\ Allowed \in [Members -> SUBSET Plans] /\ NoOne \notin Members
    /\ Members # {} /\ Plans # {}

Packs == 1 .. MaxPacks     \* in the order they were opened

VARIABLES
    pack,      \* rows of Investment
    used,      \* User.capConsumed: what counts on the token package
    pool,      \* balances of SYSTEM:USDC:INVESTMENT and SYSTEM:USDC:BINARY
    locked,    \* balance of USER:..:USDC:INVESTMENT, profit not released
    held,      \* balance of USER:..:USDC:OVERFLOW
    income,    \* what rewards and overflow paid to USER:..:USDC:AVAILABLE
    outlasted, \* members an overflow of whom was too large for its rounds
    month,     \* 30-day periods gone by
    credit,    \* the commission a confirmation is crediting
    worker,    \* one pass of settleDueInvestments
    rewards, aborts      \* bounded counters

books == <<pack, used, pool, locked, held, income, outlasted>>
vars == <<books, month, credit, worker, rewards, aborts>>

Statuses == {"NONE", "ACTIVE", "COMPLETED", "CANCELLED"}
Idle == [stage |-> "idle", member |-> NoOne]
Waiting == [asOf |-> 0, todo |-> {}]
AtLeast0(n) == IF n > 0 THEN n ELSE 0
Least(a, b) == IF a < b THEN a ELSE b

----------------------------------------------------------------------------
(***************************************************************************)
(* The bars                                                                *)
(***************************************************************************)
ActiveOf(rows, u) ==
    {i \in Packs : rows[i].status = "ACTIVE" /\ rows[i].owner = u}

\* incomeCapacity: the room of every active pack, and of the token package.
Slots(rows, u) ==
    [i \in ActiveOf(rows, u) |->
        AtLeast0(Plan[rows[i].plan].maxCap - rows[i].consumed)]
PackageRoom(spent, u) == AtLeast0(PackageCap - spent[u])
Total(slots, n) ==     \* the room of the first n packs
    SumFunctionOnSet(slots, DOMAIN slots \cap 1 .. n)
Capacity(rows, spent, u) ==
    Total(Slots(rows, u), MaxPacks) + PackageRoom(spent, u)

\* Bug: the amount counts in full on every pack.
TakenByEach(slots, amount, i) == Least(slots[i], amount)

\* consumeCapacity: the oldest pack takes first; the slot that takes all its
\* room closes its pack, by id, whatever the row has become since the reading.
Taken(slots, amount, i) ==
    Least(slots[i], AtLeast0(amount - Total(slots, i - 1)))

Closes(slots, amount, i) == Taken(slots, amount, i) = slots[i]
Filled(rows, slots, amount) ==
    [i \in Packs |->
        IF i \in DOMAIN slots /\ Taken(slots, amount, i) > 0
        THEN [rows[i] EXCEPT
                !.consumed = @ + Taken(slots, amount, i),
                !.status = IF Closes(slots, amount, i)
                           THEN "COMPLETED" ELSE @]
        ELSE rows[i]]
Spent(spent, slots, u, amount) ==
    [spent EXCEPT ![u] = @ + AtLeast0(amount - Total(slots, MaxPacks))]

----------------------------------------------------------------------------
(***************************************************************************)
(* Opening a pack, by a confirmed payment or from what is held             *)
(***************************************************************************)
Free(rows) == {i \in Packs : rows[i].status = "NONE"}
Opened(rows, u, p) ==
    [rows EXCEPT ![Min(Free(rows))] =
        [status |-> "ACTIVE", owner |-> u, plan |-> p, start |-> month,
         settled |-> 0, paid |-> 0, locked |-> 0, consumed |-> 0,
         refund |-> 0]]
Funded(funds, p) ==
    [investment |-> funds.investment + Plan[p].principal
                                     - Plan[p].commission,
     binary |-> funds.binary + Plan[p].commission]

\* One round of absorbOverflow: the largest pack covered is bought, and the
\* rest paid up to the room there is now; without such a pack, or a row left for
\* it, nothing changes.
Affordable(b, u) == {p \in Allowed[u] : Plan[p].principal <= b.held[u]}
Round(b, u) ==
    IF Affordable(b, u) = {} \/ Free(b.pack) = {} THEN b ELSE
    LET p == CHOOSE q \in Affordable(b, u) : \A r \in Affordable(b, u) :
                 Plan[r].principal <= Plan[q].principal
        rows == Opened(b.pack, u, p)
        rest == b.held[u] - Plan[p].principal
        pay == Least(rest, Capacity(rows, b.used, u))
    IN  [pack |-> Filled(rows, Slots(rows, u), pay),
         used |-> Spent(b.used, Slots(rows, u), u, pay),
         pool |-> Funded(b.pool, p),
         held |-> [b.held EXCEPT ![u] = rest - pay],
         income |-> [b.income EXCEPT ![u] = @ + pay]]

Overflow(b, retained) == Least(retained, b.pool.binary)

Absorbed(b, u, retained) ==
    LET amount == Overflow(b, retained)
        start == IF Allowed[u] = {} \/ amount <= 0 THEN b
                 ELSE [b EXCEPT !.pool.binary = @ - amount,
                                !.held[u] = @ + amount]
        after[n \in 0 .. Rounds] ==
            IF n = 0 THEN start ELSE Round(after[n - 1], u)
    IN  after[Rounds]

\* The posting of a reward, the bars it fills, and what it could not credit.
Credited(funds, u, slots, credited, retained) ==
    Absorbed([pack |-> Filled(pack, slots, credited),
              used |-> Spent(used, slots, u, credited),
              pool |-> [funds EXCEPT !.binary = @ - credited],
              held |-> held,
              income |-> [income EXCEPT ![u] = @ + credited]], u, retained)
\* Rounds that each buy the smallest pack use up the overflow.
Covered(u, amount) == \A p \in Allowed[u] : amount <= Rounds * Plan[p].principal
Outlasting(funds, u, credited, retained) ==
    IF Covered(u, Least(retained, funds.binary - credited)) THEN outlasted
    ELSE outlasted \cup {u}
\* A bound: no overflow stops because the model has no row left for its pack.
Fits(b, u) == Free(b.pack) = {} => Affordable(b, u) = {}
Book(b) ==
    /\ pack' = b.pack /\ used' = b.used /\ pool' = b.pool
    /\ held' = b.held /\ income' = b.income

----------------------------------------------------------------------------
Init ==
    /\ pack = [i \in Packs |->
                 [status |-> "NONE", owner |-> CHOOSE u \in Members : TRUE,
                  plan |-> CHOOSE p \in Plans : TRUE, start |-> 0,
                  settled |-> 0, paid |-> 0, locked |-> 0, consumed |-> 0,
                  refund |-> 0]]
    /\ used = [u \in Members |-> 0]
    /\ pool = [investment |-> 0, binary |-> 0]
    /\ locked = [u \in Members |-> 0]
    /\ held = [u \in Members |-> 0]
    /\ income = [u \in Members |-> 0] /\ outlasted = {}
    /\ month = 0 /\ credit = Idle /\ worker = Waiting
    /\ rewards = 0 /\ aborts = 0

\* confirmInvestmentPayment of an invoice opened for an allowed plan.  Its
\* posting waits for the pool row a running commission holds.
Purchase(u, p) ==
    /\ credit = Idle /\ p \in Allowed[u] /\ Free(pack) # {}
    /\ pack' = Opened(pack, u, p)
    /\ pool' = Funded(pool, p)
    /\ UNCHANGED <<used, locked, held, income, outlasted, month, credit, worker,
                   rewards, aborts>>

\* A reward of the binary queue or of a task: creditRewardInTransaction in a
\* Serializable transaction.  It fails when the pool cannot pay.
Reward(u, amount) ==
    LET credited == Least(amount, Capacity(pack, used, u))
    IN  /\ credit = Idle /\ rewards < MaxRewards
        /\ credited <= pool.binary
        /\ \E b \in {Credited(pool, u, Slots(pack, u), credited,
                            amount - credited)} : Fits(b, u) /\ Book(b)
        /\ outlasted' = Outlasting(pool, u, credited, amount - credited)
        /\ rewards' = rewards + 1
        /\ UNCHANGED <<locked, month, credit, worker, aborts>>

\* The same code inside confirmPayment, for the sponsor u of a first purchase.
Allocate(u, amount) ==
    LET credited == Least(amount, Capacity(pack, used, u))
    IN  /\ credit = Idle /\ rewards < MaxRewards
        /\ credited <= pool.binary + Funding
        /\ credit' = [stage |-> "allocated", member |-> u,
                      credited |-> credited, retained |-> amount - credited]
        /\ rewards' = rewards + 1
        /\ UNCHANGED <<books, month, worker, aborts>>

ReadSlots ==
    /\ credit.stage = "allocated"
    /\ credit' = [stage |-> "slotted", member |-> credit.member,
                  credited |-> credit.credited, retained |-> credit.retained,
                  slots |-> Slots(pack, credit.member)]
    /\ UNCHANGED <<books, month, worker, rewards, aborts>>

FillSlots ==
    /\ credit.stage = "slotted"
    /\ LET funds == [pool EXCEPT !.binary = @ + Funding]
       IN  /\ \E b \in {Credited(funds, credit.member, credit.slots,
                                 credit.credited, credit.retained)} :
                  Fits(b, credit.member) /\ Book(b)
           /\ outlasted' = Outlasting(funds, credit.member, credit.credited,
                                      credit.retained)
    /\ credit' = Idle
    /\ UNCHANGED <<locked, month, worker, rewards, aborts>>

----------------------------------------------------------------------------
(***************************************************************************)
(* The member's and the worker's transactions                              *)
(***************************************************************************)
\* Bug: settledThrough is forgotten.
DueFromStart(row, now) == AtLeast0(now - row.start)

\* monthlyPayout over all the periods that have ended: the profit of each
\* until Max Profit, which is at most Max Cap.
Due(row, now) == AtLeast0(now - row.start - row.settled)
Payout(row, now) ==
    Least(Due(row, now) * Plan[row.plan].profit,
          AtLeast0(Plan[row.plan].maxProfit - row.consumed))
\* Bug: the profit is posted but not noted as locked.
SettledUnlocked(row, now) ==
    [row EXCEPT !.paid = @ + Payout(row, now),
                !.consumed = @ + Payout(row, now), !.settled = now - row.start]

Settled(row, now) ==
    LET profit == Payout(row, now)
    IN  [row EXCEPT !.paid = @ + profit, !.locked = @ + profit,
                    !.consumed = @ + profit, !.settled = @ + Due(row, now),
                    !.status = IF row.consumed + profit
                                     >= Plan[row.plan].maxCap
                               THEN "COMPLETED" ELSE @]

\* Bug: only the period that has just ended is looked for.
ListedLast == {i \in Packs : pack[i].status = "ACTIVE"
                             /\ Due(pack[i], month) = 1}

Listed == {i \in Packs : pack[i].status = "ACTIVE" /\ Due(pack[i], month) > 0}

Poll ==
    /\ worker.todo = {} /\ Listed # {}
    /\ worker' = [asOf |-> month, todo |-> Listed]
    /\ UNCHANGED <<books, month, credit, rewards, aborts>>

\* settleInvestment locks the owner, then the pack, and reads it again.
Settle(i) ==
    /\ i \in worker.todo
    /\ credit.member # pack[i].owner
    /\ worker' = [worker EXCEPT !.todo = @ \ {i}]
    /\ LET profit == IF pack[i].status = "ACTIVE"
                     THEN Payout(pack[i], worker.asOf) ELSE 0
       IN  /\ pack' = IF pack[i].status = "ACTIVE"
                      THEN [pack EXCEPT ![i] = Settled(@, worker.asOf)]
                      ELSE pack
           /\ pool' = [pool EXCEPT !.investment = @ - profit]
           /\ locked' = [locked EXCEPT ![pack[i].owner] = @ + profit]
    /\ UNCHANGED <<used, held, income, outlasted, month, credit, rewards, aborts>>

\* A settlement PostgreSQL rolls back is counted and tried in the next pass.
SettleFails(i) ==
    /\ i \in worker.todo /\ aborts < MaxAborts
    /\ aborts' = aborts + 1
    /\ worker' = [worker EXCEPT !.todo = @ \ {i}]
    /\ UNCHANGED <<books, month, credit, rewards>>

WithdrawProfit(i) ==
    /\ pack[i].status # "NONE"
    /\ pack[i].consumed >= Plan[pack[i].plan].maxProfit
    /\ pack[i].locked > 0
    /\ pack' = [pack EXCEPT ![i].locked = 0]
    /\ locked' = [locked EXCEPT ![pack[i].owner] = @ - pack[i].locked]
    /\ UNCHANGED <<used, pool, held, income, outlasted, month, credit, worker,
                   rewards, aborts>>

\* Bug: profits already received are not deducted.
RefundGross(row) == Plan[row.plan].principal - Plan[row.plan].commission

\* cancellationQuote and cancelInvestment; the row lock of the pack only.
Refund(row) ==
    AtLeast0(Plan[row.plan].principal - row.paid - Plan[row.plan].commission)
Cancel(i) ==
    /\ pack[i].status = "ACTIVE"
    /\ month - pack[i].start <= CancelPeriods
    /\ pack' = [pack EXCEPT ![i].status = "CANCELLED", ![i].locked = 0,
                            ![i].refund = Refund(pack[i])]
    /\ pool' = [pool EXCEPT !.investment = @ - Refund(pack[i])]
    /\ locked' = [locked EXCEPT ![pack[i].owner] = @ - pack[i].locked]
    /\ UNCHANGED <<used, held, income, outlasted, month, credit, worker, rewards,
                   aborts>>

PeriodEnds ==
    /\ month < MaxMonth
    /\ month' = month + 1
    /\ UNCHANGED <<books, credit, worker, rewards, aborts>>

Next ==
    \/ \E u \in Members, p \in Plans : Purchase(u, p)
    \/ \E u \in Members, a \in Amounts : Reward(u, a) \/ Allocate(u, a)
    \/ ReadSlots \/ FillSlots
    \/ Poll \/ PeriodEnds
    \/ \E i \in Packs : \/ Settle(i) \/ SettleFails(i)
                        \/ WithdrawProfit(i) \/ Cancel(i)

\* The worker polls every ten minutes and takes every pack it listed; a
\* confirmation that holds the member's row ends, which is weak fairness of
\* its two steps: nothing disables them once they are enabled.
Fairness ==
    /\ WF_vars(Poll)
    /\ \A i \in Packs : WF_vars(Settle(i) \/ SettleFails(i))
    /\ []<>(credit.stage = "idle")

Spec == Init /\ [][Next]_vars
FairSpec == Spec /\ Fairness

----------------------------------------------------------------------------
(***************************************************************************)
(* Properties                                                              *)
(***************************************************************************)
PackRow ==
    [status : Statuses, owner : Members, plan : Plans, start : Nat,
     settled : Nat, paid : Nat, locked : Nat, consumed : Nat, refund : Nat]

\* The rows and balances have the types of the schema.
TypeOK ==
    /\ pack \in [Packs -> PackRow]
    /\ used \in [Members -> Nat] /\ locked \in [Members -> Int]
    /\ held \in [Members -> Int] /\ income \in [Members -> Nat]
    /\ outlasted \in SUBSET Members
    /\ pool \in [investment : Int, binary : Int]
    /\ month \in 0 .. MaxMonth /\ rewards \in 0 .. MaxRewards
    /\ aborts \in 0 .. MaxAborts
    /\ worker \in [asOf : 0 .. MaxMonth, todo : SUBSET Packs]
    /\ credit.stage \in {"idle", "allocated", "slotted"}
    /\ credit.member \in Members \cup {NoOne}

\* A settlement and a commission never fill the same room twice: no pack
\* counts more than its Max Cap or pays more than its Max Profit, and it has
\* paid for no period before that period ended.  "A full Max Cap closes the
\* investment" (services/investments.ts:123), and only that completes one, so
\* profit still locked in it can be withdrawn.
BarsNeverOverfilled ==
    /\ TypeOK
    /\ \A i \in Packs :
        LET terms == Plan[pack[i].plan]
        IN  /\ pack[i].consumed <= terms.maxCap
            /\ pack[i].paid <= terms.maxProfit
            /\ pack[i].paid <= terms.profit * (month - pack[i].start)
            /\ pack[i].status = "ACTIVE" => pack[i].consumed < terms.maxCap
            /\ pack[i].status = "COMPLETED" => pack[i].consumed = terms.maxCap

PacksOf(u) == {i \in Packs : pack[i].owner = u}

\* The hold account of a member is the locked profit of his packs.
LockedMatches ==
    \A u \in Members :
        locked[u] = SumFunctionOnSet([i \in Packs |-> pack[i].locked], PacksOf(u))

\* Every USDT a reward or an overflow paid counts on exactly one bar of its
\* member and comes from the pool; what stays held is less than the smallest
\* pack he may buy, unless he had an overflow of more than the rounds can buy
\* (services/investments.ts:151 stops after 100, whatever is left).
IncomeOnBars ==
    /\ pool.binary >= 0
    /\ \A u \in Members :
        /\ income[u] = used[u] + SumFunctionOnSet(
                [i \in Packs |-> pack[i].consumed - pack[i].paid], PacksOf(u))
        /\ 0 <= held[u]
        /\ u \notin outlasted => \A p \in Allowed[u] : held[u] < Plan[p].principal

\* A cancellation gives back the principal less what was paid and less the
\* commissions, however the settlement of a period fell around it.
CancelBalances ==
    \A i \in Packs : pack[i].status = "CANCELLED" =>
        pack[i].refund + pack[i].paid + Plan[pack[i].plan].commission
            = Plan[pack[i].plan].principal

\* Every period that has ended is settled, or its pack is closed.
DueIsSettled ==
    \A i \in Packs :
        [](pack[i].status = "ACTIVE" /\ Due(pack[i], month) > 0
             => <>(pack[i].status # "ACTIVE" \/ Due(pack[i], month) = 0))
=============================================================================
