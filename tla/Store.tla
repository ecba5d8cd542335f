------------------------------- MODULE Store -------------------------------
(***************************************************************************)
(* The shop, the GEN lottery of the admin panel and the withdrawable       *)
(* credit of a finance admin (apps/api/src/server.ts).                     *)
(*                                                                         *)
(* A purchase reads the item (Begin), takes the snapshot of a Serializable *)
(* transaction (Look), reads the balance on another connection (Fund) and  *)
(* commits (Purchase).  An edit of a lottery checks the round and writes   *)
(* it by id without a transaction, and its deletion is READ COMMITTED: two *)
(* steps each.  Entry, draw, reset and credit are Serializable with every  *)
(* read inside, so they are one step.                                      *)
(***************************************************************************)
EXTENDS Integers, FiniteSets, Functions

CONSTANTS
    Members, Items, Rounds, Requests, Keys,
    None,
    FirstItem,      \* the items at the start
    Patches,        \* what an admin may enter for an item
    EntryPrices, Prizes,          \* what an admin may type for a round
    Amounts,        \* what an admin may credit
    Deltas, Adjusted,             \* vouchers he may give or take, and of whom
    StartGen, StartUsdt, StartVouchers, MaxCap,
    MaxVouchers, MaxBought      \* bounds on the vouchers and purchases of a member

VARIABLES
    gen, usdt, vouchers,    \* AVAILABLE balances and User.vouchers
    item,       \* rows of ShopItem
    moved,      \* items whose category was ever edited
    request,    \* purchases under way: the item as read, and what committed since
    bought, running,    \* rows of ShopPurchase, and those with activeUntil to come
    spent,      \* their columns genSpent, vouchersSpent and usdtSpent, added up
    given,      \* rewards of purchases, and vouchers of admins
    crossed,    \* wallets charged by a purchase after another debit it did not see
    round,      \* LotteryRound: status, entryGen, prizeGen, and its time
    paid,       \* postings lottery-entry of a round: what each member paid
    reserve,    \* SYSTEM:GEN:LOTTERY:<round>
    prize,      \* postings lottery-prize:<round>: winner and amount
    refund,     \* postings lottery-reset-refund
    repriced,   \* rounds whose price was edited after somebody had entered
    editing, deleting,      \* rounds an admin has checked, not written yet
    credit      \* postings admin-withdrawable-credit:<key>

purse == <<gen, usdt, vouchers>>
shop == <<item, moved, request, bought, running, spent, given, crossed>>
entries == <<paid, reserve, refund>>
lottery == <<round, entries, prize, repriced, editing, deleting>>
vars == <<purse, shop, lottery, credit>>

Methods == {"GEN", "VOUCHER", "USDT"}
\* boost: the category BOOST; timed: durationMinutes > 0.
ItemType == [status : {"active", "inactive", "deleted"}, boost : BOOLEAN, timed : BOOLEAN,
             price : [Methods -> Nat], rewardGen : Nat, rewardVouchers : Nat]
ASSUME StoreAssumption ==
    /\ IsFiniteSet(Members) /\ IsFiniteSet(Items) /\ IsFiniteSet(Rounds) /\ IsFiniteSet(Keys)
    /\ FirstItem \in [Items -> ItemType]
    /\ Patches \in [Items -> SUBSET {row \in ItemType : row.status # "deleted"}]
    /\ EntryPrices \subseteq Nat \ {0} /\ Prizes \subseteq Nat \ {0}
    /\ Amounts \subseteq Nat \ {0} /\ MaxBought \in [Members -> Nat]
    /\ Deltas \subseteq Int /\ Adjusted \subseteq Members
    /\ {StartGen, StartUsdt, StartVouchers, MaxCap, MaxVouchers} \subseteq Nat
    /\ None \notin [member : Members, amount : Amounts]

\* step: before the snapshot of the transaction, after it, the balance was enough.
\* stale: the commit will be aborted; late: a debit was committed after the balance
\* was read.
RequestType == [member : Members, item : Items, method : Methods, row : ItemType,
                step : {"read", "looked", "funded"}, stale : BOOLEAN, late : BOOLEAN]
Statuses == {"NONE", "DRAFT", "OPEN", "DRAWN", "DELETED"}
Removed == {"NONE", "DELETED"}
\* Before startsAt, until endsAt, after it.
Times == {"early", "now", "over"}
RoundType == [status : Statuses, entryGen : Nat, prizeGen : Nat, time : Times]
NoRound == [status |-> "NONE", entryGen |-> 0, prizeGen |-> 0, time |-> "early"]
CreditType == [member : Members, amount : Amounts]
\* The rows of LotteryEntry go with their round, their postings stay.
Entered(r) == {u \in Members : round[r].status \notin Removed /\ paid[r][u] > 0}
Enterable(r) == round[r].status = "OPEN" /\ round[r].time = "now"

----------------------------------------------------------------------------
(***************************************************************************)
(* The shop: POST /v1/shop/:id/purchase                                    *)
(***************************************************************************)
\* The item is read before the transaction.
Begin(s, u, i, method) ==
    /\ request[s] = None /\ item[i].status = "active" /\ item[i].price[method] > 0
    /\ request' = [request EXCEPT ![s] =
           [member |-> u, item |-> i, method |-> method, row |-> item[i],
            step |-> "read", stale |-> FALSE, late |-> FALSE]]
    /\ UNCHANGED <<purse, item, moved, bought, running, spent, given, crossed, lottery, credit>>

\* Bug: a running boost is not looked for.
FreeToBoostAlways(u) == TRUE

\* Purchases are joined with the items as they are now.
FreeToBoost(u) == \A i \in Items : item[i].boost => running[u][i] = 0
Price(q) == q.row.price[q.method]
\* The reads of the transaction.
Look(s) ==
    LET q == request[s]
    IN  /\ q # None /\ q.step = "read"
        /\ q.row.boost => (q.row.timed /\ FreeToBoost(q.member))
        /\ q.method = "VOUCHER" => vouchers[q.member] >= Price(q)
        /\ request' = [request EXCEPT ![s].step =
                            IF q.method = "VOUCHER" THEN "funded" ELSE "looked"]
        /\ UNCHANGED <<purse, item, moved, bought, running, spent, given, crossed,
                       lottery, credit>>
\* accountBalance asks the database on a connection of its own.
Fund(s) ==
    LET q == request[s]
    IN  /\ q # None /\ q.step = "looked"
        /\ (IF q.method = "GEN" THEN gen ELSE usdt)[q.member] >= Price(q)
        /\ request' = [request EXCEPT ![s].step = "funded"]
        /\ UNCHANGED <<purse, item, moved, bought, running, spent, given, crossed,
                       lottery, credit>>

\* Bug: a purchase with GEN does not write the member's row.
WritesUserLess(q) == q.method = "VOUCHER" \/ q.row.rewardVouchers > 0

WritesUser(q) == q.method # "USDT" \/ q.row.rewardVouchers > 0
\* Of two Serializable transactions at once that write the member's row, or that both
\* look for boosts and add one, the later to commit is aborted.
Conflicting(p, q) ==
    /\ p.member = q.member
    /\ \/ WritesUser(p) /\ WritesUser(q)
       \/ p.row.boost /\ q.row.boost
\* The requests after p has committed: late are those whose balance does not show
\* the debit of p.
After(p) ==
    [s \in Requests |->
        LET q == request[s]
        IN  IF q = None \/ q.step = "read" THEN q
            ELSE [q EXCEPT
                     !.stale = @ \/ Conflicting(p, q),
                     !.late = @ \/ /\ p.method = "USDT" /\ q.method = "USDT"
                                   /\ p.member = q.member /\ q.step = "funded"]]
\* The requests after the member's row was written by an admin.
Outdated(u) ==
    [s \in Requests |->
        LET q == request[s]
        IN  IF q # None /\ q.step # "read" /\ q.member = u /\ WritesUser(q)
            THEN [q EXCEPT !.stale = TRUE] ELSE q]
Paying(q, method) == IF q.method = method THEN Price(q) ELSE 0
Purchase(s) ==
    LET q == request[s]
        u == q.member
        i == q.item
    IN  /\ q # None /\ q.step = "funded" /\ ~q.stale
        /\ item[i].status # "deleted"
        /\ usdt' = [usdt EXCEPT ![u] = @ - Paying(q, "USDT")]
        /\ gen' = [gen EXCEPT ![u] = @ - Paying(q, "GEN") + q.row.rewardGen]
        /\ vouchers' = [vouchers EXCEPT ![u] =
                            @ - Paying(q, "VOUCHER") + q.row.rewardVouchers]
        /\ bought' = [bought EXCEPT ![u][i] = @ + 1]
        /\ running' = IF q.row.timed THEN [running EXCEPT ![u][i] = @ + 1] ELSE running
        /\ spent' = [spent EXCEPT ![u][q.method] = @ + Price(q)]
        /\ given' = [given EXCEPT ![u] = [gen |-> @.gen + q.row.rewardGen,
                                          vouchers |-> @.vouchers + q.row.rewardVouchers]]
        /\ crossed' = IF q.late THEN crossed \cup {<<u, q.method>>} ELSE crossed
        /\ request' = [After(q) EXCEPT ![s] = None]
        /\ UNCHANGED <<item, moved, lottery, credit>>

\* Refused, aborted or cut off: nothing of it is kept.
Refuse(s) ==
    /\ request[s] # None
    /\ request' = [request EXCEPT ![s] = None]
    /\ UNCHANGED <<purse, item, moved, bought, running, spent, given, crossed, lottery, credit>>

BoostEnds(u, i) ==
    /\ running[u][i] > 0
    /\ running' = [running EXCEPT ![u][i] = @ - 1]
    /\ UNCHANGED <<purse, item, moved, request, bought, spent, given, crossed, lottery, credit>>

PatchItem(i, row) ==
    /\ item[i].status # "deleted" /\ item[i] # row
    /\ item' = [item EXCEPT ![i] = row]
    /\ moved' = IF row.boost # item[i].boost THEN moved \cup {i} ELSE moved
    /\ UNCHANGED <<purse, request, bought, running, spent, given, crossed, lottery, credit>>

Kept(i) == \E u \in Members : bought[u][i] > 0
DeleteItem(i) ==
    /\ item[i].status # "deleted" /\ ~Kept(i)
    /\ item' = [item EXCEPT ![i].status = "deleted"]
    /\ UNCHANGED <<purse, moved, request, bought, running, spent, given, crossed,
                   lottery, credit>>

----------------------------------------------------------------------------
(***************************************************************************)
(* The lottery of the admin panel                                          *)
(***************************************************************************)
CreateRound(r, status, entryGen, prizeGen, time) ==
    /\ round[r].status = "NONE"
    /\ round' = [round EXCEPT ![r] =
           [status |-> status, entryGen |-> entryGen, prizeGen |-> prizeGen, time |-> time]]
    /\ UNCHANGED <<purse, shop, entries, prize, repriced, editing, deleting, credit>>

\* startsAt or endsAt passes.
TimePasses(r) ==
    /\ round[r].status \notin Removed /\ round[r].time # "over"
    /\ round' = [round EXCEPT ![r].time = IF @ = "early" THEN "now" ELSE "over"]
    /\ UNCHANGED <<purse, shop, entries, prize, repriced, editing, deleting, credit>>

EditRead(r) ==
    /\ round[r].status \notin Removed \cup {"DRAWN"}
    /\ editing' = editing \cup {r}
    /\ UNCHANGED <<purse, shop, round, entries, prize, repriced, deleting, credit>>
\* The update is by id, whatever the status is by now.
EditWrite(r, status, entryGen, prizeGen, time) ==
    /\ r \in editing /\ editing' = editing \ {r}
    /\ IF round[r].status = "DELETED" THEN UNCHANGED <<round, repriced>>
       ELSE /\ round' = [round EXCEPT ![r] =
                   [status |-> status, entryGen |-> entryGen, prizeGen |-> prizeGen,
                    time |-> time]]
            /\ repriced' = IF entryGen # round[r].entryGen /\ Entered(r) # {}
                           THEN repriced \cup {r} ELSE repriced
    /\ UNCHANGED <<purse, shop, entries, prize, deleting, credit>>

\* A purchase with GEN whose balance was read before the entry does not show it.
AfterEntry(u) ==
    [s \in Requests |->
        LET q == request[s]
        IN  IF q # None /\ q.step = "funded" /\ q.member = u /\ q.method = "GEN"
            THEN [q EXCEPT !.late = TRUE] ELSE q]
Collected(r) == [reserve EXCEPT ![r] = @ + round[r].entryGen]
Enter(u, r) ==
    /\ Enterable(r) /\ u \notin Entered(r) /\ gen[u] >= round[r].entryGen
    /\ paid' = [paid EXCEPT ![r][u] = round[r].entryGen]
    /\ gen' = [gen EXCEPT ![u] = @ - round[r].entryGen]
    /\ reserve' = Collected(r)
    /\ request' = AfterEntry(u)
    /\ UNCHANGED <<usdt, vouchers, item, moved, bought, running, spent, given, crossed,
                   round, prize, refund, repriced, editing, deleting, credit>>

\* postLedger under lottery-prize:<round>: an equal posting is the first one
\* again, another one is refused.
\* Bug: a reopened round has its prize posted again.
PostedAgain(r, posting) == prize[r] \cup {posting}

Posted(r, posting) == IF prize[r] = {} THEN {posting} ELSE prize[r]
Draw(r, u) ==
    LET posting == <<u, round[r].prizeGen>>
        won == prize'[r] # prize[r]
        amount == IF won THEN round[r].prizeGen ELSE 0
    IN  /\ round[r].status = "OPEN" /\ round[r].time = "over"
        /\ u \in Entered(r) /\ reserve[r] >= round[r].prizeGen
        /\ prize' = [prize EXCEPT ![r] = Posted(r, posting)]
        /\ posting \in prize'[r]
        /\ reserve' = [reserve EXCEPT ![r] = @ - amount]
        /\ gen' = [gen EXCEPT ![u] = @ + amount]
        /\ round' = [round EXCEPT ![r].status = "DRAWN"]
        /\ UNCHANGED <<usdt, vouchers, shop, paid, refund, repriced, editing, deleting, credit>>

\* A reserve account is there as soon as somebody has entered.
DeleteRead(r) ==
    /\ round[r].status \notin Removed \cup {"DRAWN"}
    /\ Entered(r) = {}
    /\ deleting' = deleting \cup {r}
    /\ UNCHANGED <<purse, shop, round, entries, prize, repriced, editing, credit>>
\* The entries go with the round.
DeleteWrite(r) ==
    /\ r \in deleting /\ deleting' = deleting \ {r}
    /\ round' = [round EXCEPT ![r].status = "DELETED"]
    /\ UNCHANGED <<purse, shop, entries, prize, repriced, editing, credit>>

Live == {r \in Rounds : round[r].status \notin Removed \cup {"DRAWN"}}
\* Bug: a reset pays an entry back twice.
BackTwice(r, u) == IF r \in Live /\ u \in Entered(r) THEN 2 * round[r].entryGen ELSE 0

\* The price of now is paid back, whatever the entry cost.
Back(r, u) == IF r \in Live /\ u \in Entered(r) THEN round[r].entryGen ELSE 0
ResetLottery ==
    /\ Live # {}
    /\ gen' = [u \in Members |->
                  gen[u] + SumFunctionOnSet([r \in Rounds |-> Back(r, u)], Rounds)]
    /\ reserve' = [r \in Rounds |->
                  reserve[r] - SumFunctionOnSet([u \in Members |-> Back(r, u)], Members)]
    /\ refund' = [r \in Rounds |-> [u \in Members |-> refund[r][u] + Back(r, u)]]
    /\ round' = [r \in Rounds |->
                  IF r \in Live THEN [round[r] EXCEPT !.status = "DELETED"]
                  ELSE round[r]]
    /\ UNCHANGED <<usdt, vouchers, shop, paid, prize, repriced, editing, deleting, credit>>

----------------------------------------------------------------------------
(***************************************************************************)
(* POST /v1/admin/users/:id/withdrawable-credit and /vouchers              *)
(***************************************************************************)
CreditOf(u) ==
    SumFunctionOnSet([k \in Keys |-> IF credit[k] # None /\ credit[k].member = u
                                     THEN credit[k].amount ELSE 0], Keys)

Replayed(k) == credit[k] # None
AdminCredit(u, k, amount) ==
    /\ ~Replayed(k)
    /\ amount <= MaxCap - CreditOf(u)
    /\ credit' = [credit EXCEPT ![k] = [member |-> u, amount |-> amount]]
    /\ usdt' = [usdt EXCEPT ![u] = @ + amount]
    /\ request' = Outdated(u)
    /\ UNCHANGED <<gen, vouchers, item, moved, bought, running, spent, given, crossed, lottery>>

\* The increment is undone when it leaves less than nothing.
AdminVouchers(u, delta) ==
    /\ u \in Adjusted /\ vouchers[u] + delta >= 0 /\ vouchers[u] + delta <= MaxVouchers
    /\ vouchers' = [vouchers EXCEPT ![u] = @ + delta]
    /\ given' = [given EXCEPT ![u] = [gen |-> @.gen, vouchers |-> @.vouchers + delta]]
    /\ request' = Outdated(u)
    /\ UNCHANGED <<gen, usdt, item, moved, bought, running, spent, crossed, lottery, credit>>

----------------------------------------------------------------------------
Init ==
    /\ gen = [u \in Members |-> StartGen] /\ usdt = [u \in Members |-> StartUsdt]
    /\ vouchers = [u \in Members |-> StartVouchers]
    /\ item = FirstItem /\ moved = {}
    /\ request = [s \in Requests |-> None]
    /\ bought = [u \in Members |-> [i \in Items |-> 0]] /\ running = bought
    /\ spent = [u \in Members |-> [m \in Methods |-> 0]]
    /\ given = [u \in Members |-> [gen |-> 0, vouchers |-> 0]] /\ crossed = {}
    /\ round = [r \in Rounds |-> NoRound]
    /\ paid = [r \in Rounds |-> [u \in Members |-> 0]] /\ refund = paid
    /\ reserve = [r \in Rounds |-> 0] /\ prize = [r \in Rounds |-> {}]
    /\ repriced = {} /\ editing = {} /\ deleting = {}
    /\ credit = [k \in Keys |-> None]

BoughtBy(u) == SumFunctionOnSet(bought[u], Items)
Shopping ==
    \/ \E s \in Requests, u \in Members, i \in Items, m \in Methods :
           BoughtBy(u) < MaxBought[u] /\ Begin(s, u, i, m)
    \/ \E s \in Requests : Look(s) \/ Fund(s) \/ Purchase(s) \/ Refuse(s)
    \/ \E u \in Members, i \in Items : BoostEnds(u, i)
    \/ \E i \in Items : \/ \E row \in Patches[i] : PatchItem(i, row)
                         \/ DeleteItem(i)
Drawing ==
    \/ \E r \in Rounds, status \in {"DRAFT", "OPEN"}, e \in EntryPrices,
          p \in Prizes, time \in Times :
           CreateRound(r, status, e, p, time) \/ EditWrite(r, status, e, p, time)
    \/ \E r \in Rounds : \/ TimePasses(r) \/ EditRead(r)
                         \/ DeleteRead(r) \/ DeleteWrite(r)
    \/ \E u \in Members, r \in Rounds : Enter(u, r) \/ Draw(r, u)
    \/ ResetLottery
Crediting ==
    \E u \in Members :
        \/ \E k \in Keys, a \in Amounts : AdminCredit(u, k, a)
        \/ \E delta \in Deltas : AdminVouchers(u, delta)

Next == Shopping \/ Drawing \/ Crediting
Spec == Init /\ [][Next]_vars

----------------------------------------------------------------------------
(***************************************************************************)
(* Properties                                                              *)
(***************************************************************************)
\* Every row has its type.  Vouchers are read and written in one transaction
\* and are never overdrawn; the ledger's balances have no such type.
TypeOK ==
    /\ gen \in [Members -> Int] /\ usdt \in [Members -> Int]
    /\ vouchers \in [Members -> Nat]
    /\ item \in [Items -> ItemType] /\ moved \in SUBSET Items
    /\ request \in [Requests -> {None} \cup RequestType]
    /\ bought \in [Members -> [Items -> Nat]] /\ running \in [Members -> [Items -> Nat]]
    /\ spent \in [Members -> [Methods -> Nat]]
    /\ given \in [Members -> [gen : Nat, vouchers : Int]]
    /\ crossed \in SUBSET (Members \X Methods)
    /\ round \in [Rounds -> RoundType]
    /\ paid \in [Rounds -> [Members -> Nat]] /\ refund \in [Rounds -> [Members -> Nat]]
    /\ reserve \in [Rounds -> Int] /\ prize \in [Rounds -> SUBSET (Members \X Nat)]
    /\ repriced \in SUBSET Rounds /\ editing \in SUBSET Rounds /\ deleting \in SUBSET Rounds
    /\ credit \in [Keys -> {None} \cup CreditType]

\* "An XP boost is already active" (server.ts:2071): however many purchases a member
\* sends at once, and whatever admins do to the items meanwhile, at most one of his
\* running boosts is of an item that has been a boost all along.  (An item that was
\* put into another category is not looked for while it is there, so with it and
\* back again two can run.)
OneBoost ==
    \A u \in Members :
        SumFunctionOnSet([i \in Items |-> IF item[i].boost /\ i \notin moved
                                         THEN running[u][i] ELSE 0], Items) <= 1

\* "Not enough GEN", "Not enough USDT" (server.ts:2103, 2124): the balance is read
\* outside the transaction, so two purchases with USDT at once, or one with GEN and a
\* lottery entry, may overdraw the wallet; nothing else does, two purchases with GEN
\* or an edit of the price meanwhile in particular.
WithinMeans ==
    \A u \in Members : /\ gen[u] < 0 => <<u, "GEN">> \in crossed
                       /\ usdt[u] < 0 => <<u, "USDT">> \in crossed

\* Wallets, vouchers and reserves are what the histories say: a member has what he
\* started with, was given, won, got back and was credited, less what the rows of
\* his purchases say he spent and what he paid to enter, although windows, edits of
\* prices and repeated requests of admins overlap; and a round's reserve, also after
\* it is deleted or reset, is what was paid in less its prize and refunds.
Won(r, u) ==
    SumFunctionOnSet([p \in prize[r] |-> IF p[1] = u THEN p[2] ELSE 0], prize[r])
WalletsMatch ==
    \A u \in Members :
        /\ usdt[u] = StartUsdt + CreditOf(u) - spent[u].USDT
        /\ vouchers[u] = StartVouchers + given[u].vouchers - spent[u].VOUCHER
        /\ gen[u] = StartGen + given[u].gen - spent[u].GEN
                    + SumFunctionOnSet([r \in Rounds |->
                          Won(r, u) + refund[r][u] - paid[r][u]], Rounds)
        /\ \A i \in Items : bought[u][i] > 0 => item[i].status # "deleted"
ReserveMatches ==
    \A r \in Rounds :
        reserve[r] = SumFunctionOnSet(paid[r], Members)
                     - SumFunctionOnSet([p \in prize[r] |-> p[2]], prize[r])
                     - SumFunctionOnSet(refund[r], Members)
\* A reset gives back what was paid unless an admin edited the price in between.
RefundsMatch ==
    \A r \in Rounds, u \in Members :
        refund[r][u] > 0 /\ r \notin repriced => refund[r][u] = paid[r][u]
BooksMatch == TypeOK /\ WalletsMatch /\ ReserveMatches /\ RefundsMatch

\* A round pays one prize to one member, although an edit that raced its draw
\* opens it again.
OnePrize == \A r \in Rounds : Cardinality(prize[r]) <= 1
=============================================================================
