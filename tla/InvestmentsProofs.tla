-------------------------- MODULE InvestmentsProofs --------------------------
(***************************************************************************)
(* The bars and the accounts of investment packs, for any plans, members,  *)
(* rewards and bounds: BarsNeverOverfilled, LockedMatches, IncomeOnBars    *)
(* and CancelBalances.                                                     *)
(*                                                                         *)
(* None of the four is inductive.  What they need is what a commission     *)
(* has read and not used yet: while it is under way only a cancellation or *)
(* a withdrawal of profit can touch the packs it read, and neither changes *)
(* what counts on a bar, so the room it read is still the room there is    *)
(* (Reading).  A row's own history is RowOK: it paid at most its profit    *)
(* for every period settled, no period before it ended.                    *)
(***************************************************************************)
EXTENDS Investments, Sums

Books == [pack : [Packs -> PackRow], used : [Members -> Nat],
          pool : [investment : Int, binary : Int],
          held : [Members -> Nat], income : [Members -> Nat]]

RowOK(r, now) ==
    LET t == Plan[r.plan]
    IN  /\ r.paid <= r.consumed /\ r.consumed <= t.maxCap
        /\ r.paid <= t.maxProfit /\ r.paid <= t.profit * r.settled
        /\ r.start + r.settled <= now
        /\ r.status = "NONE" => r.consumed = 0 /\ r.locked = 0
        /\ r.status = "ACTIVE" => r.consumed < t.maxCap
        /\ r.status = "COMPLETED" => r.consumed = t.maxCap
        /\ r.status = "CANCELLED" => r.refund + r.paid + t.commission = t.principal

\* What every pack counts for member v: the USDT on its bar, and its locked profit.
CountsFor(rows, v) ==
    [i \in Packs |-> IF rows[i].owner = v THEN rows[i].consumed - rows[i].paid ELSE 0]
LockedFor(rows, v) ==
    [i \in Packs |-> IF rows[i].owner = v THEN rows[i].locked ELSE 0]

BooksOK(b, lk, now) ==
    /\ b \in Books /\ b.pool.binary >= 0
    /\ \A i \in Packs : RowOK(b.pack[i], now)
    /\ \A v \in Members :
        /\ b.income[v] = b.used[v] + SumFunctionOnSet(CountsFor(b.pack, v), Packs)
        /\ lk[v] = SumFunctionOnSet(LockedFor(b.pack, v), Packs)

\* Less than the smallest pack stays held, but for members whose overflow was lost in
\* too few rounds.
HeldOK(b, lost) ==
    \A v \in Members \ lost : \A p \in Allowed[v] : b.held[v] < Plan[p].principal

\* The room read of the packs of u is the room there is, whoever cancelled since.
Reading(rows, slots, u) ==
    /\ DOMAIN slots \subseteq Packs
    /\ \A i \in DOMAIN slots :
        /\ rows[i].owner = u /\ rows[i].status \in {"ACTIVE", "CANCELLED"}
        /\ slots[i] \in Nat /\ slots[i] = Plan[rows[i].plan].maxCap - rows[i].consumed

CreditOK ==
    \/ credit = Idle
    \/ /\ credit.stage \in {"allocated", "slotted"}
       /\ credit.member \in Members /\ credit.credited \in Nat /\ credit.retained \in Nat
       /\ credit.credited <= pool.binary + Funding
       /\ credit.stage = "slotted" => Reading(pack, credit.slots, credit.member)

Now == [pack |-> pack, used |-> used, pool |-> pool, held |-> held, income |-> income]

Inv ==
    /\ BooksOK(Now, locked, month) /\ HeldOK(Now, outlasted) /\ CreditOK
    /\ locked \in [Members -> Int] /\ outlasted \in SUBSET Members
    /\ month \in 0 .. MaxMonth /\ rewards \in 0 .. MaxRewards /\ aborts \in 0 .. MaxAborts
    /\ worker \in [asOf : 0 .. MaxMonth, todo : SUBSET Packs] /\ worker.asOf <= month

----------------------------------------------------------------------------
(***************************************************************************)
(* Numbers, plans and the set of packs                                     *)
(***************************************************************************)
LEMMA LeastNat ==
    ASSUME NEW a \in Nat, NEW b \in Nat
    PROVE  Least(a, b) \in Nat /\ Least(a, b) <= a /\ Least(a, b) <= b
           /\ (Least(a, b) = a \/ Least(a, b) = b)
BY DEF Least

LEMMA AtLeast0Nat ==
    ASSUME NEW n \in Int
    PROVE  AtLeast0(n) \in Nat /\ AtLeast0(n) >= n /\ (AtLeast0(n) = n \/ AtLeast0(n) = 0)
           /\ (n >= 0 => AtLeast0(n) = n)
BY DEF AtLeast0

LEMMA PlanType ==
    ASSUME NEW p \in Plans
    PROVE  /\ Plan[p].principal \in Nat /\ Plan[p].profit \in Nat
           /\ Plan[p].maxProfit \in Nat /\ Plan[p].maxCap \in Nat
           /\ Plan[p].commission \in Nat
           /\ Plan[p].commission <= Plan[p].principal /\ 0 < Plan[p].principal
           /\ 0 < Plan[p].maxProfit /\ Plan[p].maxProfit <= Plan[p].maxCap
BY PlanAssumption DEF Terms, Plans

LEMMA PacksFinite == IsFiniteSet(Packs) /\ Packs \subseteq Nat \ {0}
<1>1. IsFiniteSet(1 .. MaxPacks)
    BY BoundAssumption, FS_Interval
<1> QED BY <1>1, BoundAssumption DEF Packs

LEMMA TimesMonotone ==
    ASSUME NEW a \in Nat, NEW m \in Nat, NEW n \in Nat, m <= n
    PROVE  a * m <= a * n
OBVIOUS

----------------------------------------------------------------------------
(***************************************************************************)
(* Filling the bars                                                        *)
(***************************************************************************)
\* What the first n packs of a reading take of an amount.
TakenOf(slots, amount) ==
    [i \in Packs |-> IF i \in DOMAIN slots THEN Taken(slots, amount, i) ELSE 0]

LEMMA TotalNat ==
    ASSUME NEW slots, DOMAIN slots \subseteq Packs,
           \A i \in DOMAIN slots : slots[i] \in Nat, NEW n \in Nat
    PROVE  Total(slots, n) \in Nat
<1>1. IsFiniteSet(DOMAIN slots \cap 1 .. n)
    BY PacksFinite, FS_Subset
<1> QED BY <1>1, SumNat DEF Total

LEMMA TotalStep ==
    ASSUME NEW slots, DOMAIN slots \subseteq Packs,
           \A i \in DOMAIN slots : slots[i] \in Nat, NEW n \in Nat \ {0}
    PROVE  Total(slots, n) =
               Total(slots, n - 1) + (IF n \in DOMAIN slots THEN slots[n] ELSE 0)
<1> DEFINE D == DOMAIN slots \cap 1 .. n - 1
<1>1. IsFiniteSet(D)
    BY PacksFinite, FS_Subset
<1>2. CASE n \in DOMAIN slots
    <2>1. DOMAIN slots \cap 1 .. n = D \cup {n} /\ n \notin D
        BY <1>2
    <2>2. \A x \in D \cup {n} : slots[x] \in Int
        BY <1>2
    <2>3. SumFunctionOnSet(slots, D \cup {n}) = SumFunctionOnSet(slots, D) + slots[n]
        <3> HIDE DEF D
        <3> QED BY <1>1, <2>1, <2>2, SumAdd
    <2> QED BY <1>2, <2>1, <2>3 DEF Total
<1>3. CASE n \notin DOMAIN slots
    <2>1. DOMAIN slots \cap 1 .. n = D
        BY <1>3
    <2>2. SumFunctionOnSet(slots, D) \in Int
        <3>1. \A x \in D : slots[x] \in Int
            OBVIOUS
        <3> HIDE DEF D
        <3> QED BY <1>1, <3>1, SumInt
    <2>3. Total(slots, n) = SumFunctionOnSet(slots, D) /\ Total(slots, n - 1) = SumFunctionOnSet(slots, D)
        BY <2>1 DEF Total
    <2> HIDE DEF D
    <2> QED BY <1>3, <2>2, <2>3
<1> QED BY <1>2, <1>3

LEMMA TakenType ==
    ASSUME NEW slots, DOMAIN slots \subseteq Packs,
           \A i \in DOMAIN slots : slots[i] \in Nat, NEW amount \in Nat,
           NEW i \in DOMAIN slots
    PROVE  Taken(slots, amount, i) \in Nat /\ Taken(slots, amount, i) <= slots[i]
<1>1. i \in Nat \ {0} /\ i - 1 \in Nat
    <2>1. i \in Nat \ {0}
        BY PacksFinite
    <2> QED BY <2>1
<1>2. Total(slots, i - 1) \in Nat
    BY <1>1, TotalNat
<1>3. AtLeast0(amount - Total(slots, i - 1)) \in Nat
    BY <1>2, AtLeast0Nat
<1> QED BY <1>3, LeastNat DEF Taken

\* The bars take the amount as far as there is room, the oldest pack first.
LEMMA TakenTotal ==
    ASSUME NEW slots, DOMAIN slots \subseteq Packs,
           \A i \in DOMAIN slots : slots[i] \in Nat, NEW amount \in Nat
    PROVE  SumFunctionOnSet(TakenOf(slots, amount), Packs)
               = Least(amount, Total(slots, MaxPacks))
<1> DEFINE g == TakenOf(slots, amount)
           wrong == {n \in 0 .. MaxPacks :
                        SumFunctionOnSet(g, 1 .. n) # Least(amount, Total(slots, n))}
<1>1. ASSUME NEW n \in 0 .. MaxPacks
      PROVE  n \in Nat /\ IsFiniteSet(1 .. n) /\ 1 .. n \subseteq Packs
    BY BoundAssumption, FS_Interval DEF Packs
<1>2. \A i \in Packs : g[i] \in Int
    BY TakenType DEF TakenOf
<1>3. SUFFICES ASSUME wrong # {} PROVE FALSE
    BY BoundAssumption DEF Packs
<1>4. PICK n \in wrong : \A m \in wrong : n <= m
    <2>1. wrong \subseteq Nat
        BY BoundAssumption
    <2> HIDE DEF wrong
    <2> QED BY <1>3, <2>1, SmallestNumber
<1>5. n \in 0 .. MaxPacks /\ SumFunctionOnSet(g, 1 .. n) # Least(amount, Total(slots, n))
    BY <1>4
<1>6. n # 0
    <2>1. SUFFICES ASSUME n = 0 PROVE FALSE
        OBVIOUS
    <2>2. 1 .. n = {} /\ DOMAIN slots \cap 1 .. n = {}
        BY <2>1
    <2>3. SumFunctionOnSet(g, 1 .. n) = 0 /\ Total(slots, n) = 0
        BY <2>2, SumEmpty DEF Total
    <2> QED BY <1>5, <2>3 DEF Least
<1> DEFINE t == Total(slots, n - 1)
<1>7. n \in Nat \ {0} /\ n - 1 \in 0 .. MaxPacks /\ n \in Packs
    BY <1>5, <1>6, BoundAssumption DEF Packs
<1>8. SumFunctionOnSet(g, 1 .. n - 1) = Least(amount, t)
    BY <1>4, <1>7, BoundAssumption
<1>9. SumFunctionOnSet(g, 1 .. n) = SumFunctionOnSet(g, 1 .. n - 1) + g[n]
    <2>1. 1 .. n = (1 .. n - 1) \cup {n} /\ n \notin 1 .. n - 1
        BY <1>7
    <2>2. IsFiniteSet(1 .. n - 1) /\ 1 .. n \subseteq Packs
        BY <1>1, <1>5, <1>7
    <2>3. \A x \in (1 .. n - 1) \cup {n} : g[x] \in Int
        BY <1>2, <2>1, <2>2
    <2> HIDE DEF g
    <2> QED BY <2>1, <2>2, <2>3, SumAdd
<1>10. t \in Nat
    <2>1. n - 1 \in Nat
        BY <1>7
    <2> QED BY <2>1, TotalNat
<1>11. Total(slots, n) = t + (IF n \in DOMAIN slots THEN slots[n] ELSE 0)
    BY <1>7, TotalStep
<1>12. g[n] = IF n \in DOMAIN slots THEN Least(slots[n], AtLeast0(amount - t)) ELSE 0
    BY <1>7 DEF TakenOf, Taken
<1> HIDE DEF g, t, wrong
<1>13. CASE n \in DOMAIN slots
    <2>1. slots[n] \in Nat
        BY <1>13
    <2> QED BY <1>5, <1>8, <1>9, <1>10, <1>11, <1>12, <1>13, <2>1 DEF Least, AtLeast0
<1>14. CASE n \notin DOMAIN slots
    BY <1>5, <1>8, <1>9, <1>10, <1>11, <1>12, <1>14 DEF Least
<1> QED BY <1>13, <1>14

LEMMA FilledRow ==
    ASSUME NEW rows \in [Packs -> PackRow], NEW now, \A i \in Packs : RowOK(rows[i], now),
           NEW slots, NEW u \in Members, Reading(rows, slots, u), NEW pay \in Nat,
           NEW i \in Packs
    PROVE  LET new == Filled(rows, slots, pay)[i]
           IN  /\ new \in PackRow /\ RowOK(new, now)
               /\ new.consumed = rows[i].consumed + TakenOf(slots, pay)[i]
               /\ new.owner = rows[i].owner /\ new.paid = rows[i].paid
               /\ new.locked = rows[i].locked /\ new.plan = rows[i].plan
               /\ new.status = "NONE" <=> rows[i].status = "NONE"
<1> DEFINE row == rows[i]
           new == Filled(rows, slots, pay)[i]
           taken == Taken(slots, pay, i)
           status == IF Closes(slots, pay, i) THEN "COMPLETED" ELSE row.status
<1>1. row \in PackRow /\ RowOK(row, now) /\ row.plan \in Plans
    BY DEF PackRow
<1>2. row.consumed \in Nat
    BY <1>1 DEF PackRow
<1>3. CASE i \in DOMAIN slots /\ taken > 0
    <2>1. /\ row.status \in {"ACTIVE", "CANCELLED"}
          /\ slots[i] \in Nat /\ slots[i] = Plan[row.plan].maxCap - row.consumed
        BY <1>3 DEF Reading
    <2>2. taken \in Nat /\ taken <= slots[i]
        BY <1>3, TakenType DEF Reading
    <2>3. new = [row EXCEPT !.consumed = @ + taken, !.status = status]
        BY <1>3 DEF Filled
    <2>4. row.consumed + taken \in Nat /\ status \in Statuses
        BY <1>1, <1>2, <2>2 DEF PackRow, Statuses
    <2>5. TakenOf(slots, pay)[i] = taken
        BY <1>3 DEF TakenOf
    <2>6. Plan[row.plan].maxCap \in Nat
        BY <1>1, PlanType
    <2>7. /\ status = "COMPLETED" => row.consumed + taken = Plan[row.plan].maxCap
          /\ row.consumed + taken <= Plan[row.plan].maxCap
          /\ status # "COMPLETED" => row.consumed + taken < Plan[row.plan].maxCap
          /\ status # "COMPLETED" => status = row.status
        BY <1>2, <2>1, <2>2, <2>6 DEF Closes
    <2> HIDE DEF taken, status
    <2>8. new \in PackRow
        <3> HIDE DEF row, new
        <3> QED BY <1>1, <2>3, <2>4 DEF PackRow
    <2>9. /\ new.consumed = row.consumed + taken /\ new.owner = row.owner
          /\ new.paid = row.paid /\ new.locked = row.locked /\ new.plan = row.plan
          /\ new.status = status /\ new.settled = row.settled /\ new.start = row.start
          /\ new.refund = row.refund
        <3> HIDE DEF row, new
        <3> QED BY <1>1, <2>3 DEF PackRow
    <2>10. row.paid \in Nat
        BY <1>1 DEF PackRow
    <2> HIDE DEF row, new
    <2>11. RowOK(new, now)
        BY <1>1, <1>2, <2>1, <2>2, <2>7, <2>9, <2>10 DEF RowOK
    <2>12. status # "NONE" /\ row.status # "NONE"
        BY <2>1, <2>7
    <2> QED BY <2>5, <2>8, <2>9, <2>11, <2>12 DEF row, new
<1>4. CASE ~(i \in DOMAIN slots /\ taken > 0)
    <2>1. new = row
        BY <1>4 DEF Filled
    <2>2. TakenOf(slots, pay)[i] = 0
        <3>1. i \in DOMAIN slots => taken \in Nat
            BY TakenType DEF Reading
        <3> QED BY <1>4, <3>1 DEF TakenOf
    <2> HIDE DEF row, new
    <2> QED BY <1>1, <1>2, <2>1, <2>2 DEF row, new
<1> QED BY <1>3, <1>4

\* What filling the bars of u with pay makes of the rows.
FillsTo(new, rows, slots, u, pay, now) ==
    /\ new \in [Packs -> PackRow] /\ \A i \in Packs : RowOK(new[i], now)
    /\ Free(new) = Free(rows)
    /\ \A v \in Members :
        /\ LockedFor(new, v) = LockedFor(rows, v)
        /\ SumFunctionOnSet(CountsFor(new, v), Packs)
               = SumFunctionOnSet(CountsFor(rows, v), Packs)
               + (IF v = u THEN Least(pay, Total(slots, MaxPacks)) ELSE 0)

\* Filling counts on the bars of u what there is room for, and on no other.
LEMMA FilledRows ==
    ASSUME NEW rows \in [Packs -> PackRow], NEW now, \A i \in Packs : RowOK(rows[i], now),
           NEW slots, NEW u \in Members, Reading(rows, slots, u), NEW pay \in Nat
    PROVE  FillsTo(Filled(rows, slots, pay), rows, slots, u, pay, now)
<1> DEFINE new == Filled(rows, slots, pay)
           g == TakenOf(slots, pay)
<1>1. \A i \in Packs :
          /\ new[i] \in PackRow /\ RowOK(new[i], now)
          /\ new[i].consumed = rows[i].consumed + g[i]
          /\ new[i].owner = rows[i].owner /\ new[i].paid = rows[i].paid
          /\ new[i].locked = rows[i].locked
          /\ new[i].status = "NONE" <=> rows[i].status = "NONE"
    BY FilledRow
<1>2. new = [i \in Packs |-> new[i]]
    BY DEF Filled
<1>3. \A i \in Packs : g[i] \in Int /\ rows[i].consumed \in Int /\ rows[i].paid \in Int
    BY TakenType DEF TakenOf, Reading, PackRow
<1>4. \A i \in Packs : rows[i].owner # u => g[i] = 0
    BY DEF TakenOf, Reading
<1>5. SumFunctionOnSet(g, Packs) = Least(pay, Total(slots, MaxPacks))
    BY TakenTotal DEF Reading
<1> HIDE DEF new, g
<1>6. new \in [Packs -> PackRow]
    BY <1>1, <1>2
<1>7. Free(new) = Free(rows)
    BY <1>1 DEF Free
<1>8. ASSUME NEW v \in Members PROVE LockedFor(new, v) = LockedFor(rows, v)
    BY <1>1 DEF LockedFor
<1>9. ASSUME NEW v \in Members
      PROVE  SumFunctionOnSet(CountsFor(new, v), Packs)
                 = SumFunctionOnSet(CountsFor(rows, v), Packs)
                 + (IF v = u THEN Least(pay, Total(slots, MaxPacks)) ELSE 0)
    <2>1. \A i \in Packs : CountsFor(rows, v)[i] \in Int
        BY <1>3 DEF CountsFor
    <2>2. SumFunctionOnSet(CountsFor(rows, v), Packs) \in Int
        BY <2>1, PacksFinite, SumInt
    <2>3. CASE v = u
        <3> DEFINE before == CountsFor(rows, v)
                   after == CountsFor(new, v)
        <3>1. \A i \in Packs : before[i] \in Int /\ g[i] \in Int /\ after[i] = before[i] + g[i]
            BY <1>1, <1>3, <1>4, <2>3 DEF CountsFor
        <3> HIDE DEF before, after
        <3>2. SumFunctionOnSet(after, Packs)
                  = SumFunctionOnSet(before, Packs) + SumFunctionOnSet(g, Packs)
            <4>1. IsFiniteSet(Packs)
                BY PacksFinite
            <4> HIDE DEF before, after, g
            <4> QED BY ONLY <3>1, <4>1, SumPlus
        <3> USE DEF before, after
        <3> QED BY <1>5, <2>3, <3>2
    <2>4. CASE v # u
        <3>1. \A i \in Packs : CountsFor(new, v)[i] = CountsFor(rows, v)[i]
            BY <1>1, <1>3, <1>4, <2>4 DEF CountsFor
        <3>2. SumFunctionOnSet(CountsFor(new, v), Packs)
                  = SumFunctionOnSet(CountsFor(rows, v), Packs)
            BY <3>1, PacksFinite, SumSame
        <3> QED BY <2>2, <2>4, <3>2
    <2> QED BY <2>3, <2>4
<1> QED BY <1>1, <1>6, <1>7, <1>8, <1>9 DEF new, FillsTo

\* What the bars do not take counts on the token package.
LEMMA SpentType ==
    ASSUME NEW spent \in [Members -> Nat], NEW slots, NEW u \in Members, NEW pay \in Nat,
           Total(slots, MaxPacks) \in Nat
    PROVE  /\ Spent(spent, slots, u, pay) \in [Members -> Nat]
           /\ \A v \in Members : Spent(spent, slots, u, pay)[v] = spent[v] +
                  (IF v = u THEN pay - Least(pay, Total(slots, MaxPacks)) ELSE 0)
BY DEF Spent, AtLeast0, Least

LEMMA ReadingNow ==
    ASSUME NEW rows \in [Packs -> PackRow], NEW now, \A i \in Packs : RowOK(rows[i], now),
           NEW u \in Members
    PROVE  Reading(rows, Slots(rows, u), u)
<1>1. ASSUME NEW i \in ActiveOf(rows, u)
      PROVE  /\ rows[i].owner = u /\ rows[i].status = "ACTIVE"
             /\ Slots(rows, u)[i] \in Nat
             /\ Slots(rows, u)[i] = Plan[rows[i].plan].maxCap - rows[i].consumed
    <2>1. i \in Packs /\ rows[i].owner = u /\ rows[i].status = "ACTIVE"
        BY DEF ActiveOf
    <2>2. rows[i].plan \in Plans /\ rows[i].consumed \in Nat /\ rows[i] \in PackRow
        BY <2>1 DEF PackRow
    <2>3. Plan[rows[i].plan].maxCap \in Nat /\ rows[i].consumed <= Plan[rows[i].plan].maxCap
        BY <2>1, <2>2, PlanType DEF RowOK
    <2> QED BY <2>1, <2>2, <2>3 DEF Slots, AtLeast0
<1>2. DOMAIN Slots(rows, u) = ActiveOf(rows, u) /\ ActiveOf(rows, u) \subseteq Packs
    BY DEF Slots, ActiveOf
<1> QED BY <1>1, <1>2 DEF Reading

LEMMA CapacityNat ==
    ASSUME NEW rows \in [Packs -> PackRow], NEW now, \A i \in Packs : RowOK(rows[i], now),
           NEW u \in Members, NEW spent \in [Members -> Nat]
    PROVE  Capacity(rows, spent, u) \in Nat
<1>1. Total(Slots(rows, u), MaxPacks) \in Nat
    BY ReadingNow, TotalNat, BoundAssumption DEF Reading
<1>2. PackageRoom(spent, u) \in Nat
    BY BoundAssumption, AtLeast0Nat DEF PackageRoom
<1> QED BY <1>1, <1>2 DEF Capacity

LEMMA CountsInt ==
    ASSUME NEW rows \in [Packs -> PackRow], NEW v
    PROVE  /\ SumFunctionOnSet(CountsFor(rows, v), Packs) \in Int
           /\ SumFunctionOnSet(LockedFor(rows, v), Packs) \in Int
<1>1. \A i \in Packs : CountsFor(rows, v)[i] \in Int /\ LockedFor(rows, v)[i] \in Int
    BY DEF CountsFor, LockedFor, PackRow
<1> QED BY <1>1, PacksFinite, SumInt

\* Among some plans one has the largest principal.
LEMMA LargestPlan ==
    ASSUME NEW S \in SUBSET Plans, S # {}
    PROVE  \E q \in S : \A r \in S : Plan[r].principal <= Plan[q].principal
<1> DEFINE top == {T \in FiniteSubsetsOf(Plans) : \E q \in S : T =
                      {r \in Plans : Plan[r].principal > Plan[q].principal}}
           above(q) == {r \in Plans : Plan[r].principal > Plan[q].principal}
<1>1. \A q \in S : above(q) \in top
    BY PlanAssumption, FS_Subset DEF FiniteSubsetsOf
<1>2. PICK T \in top : \A V \in top : V \subseteq T => V = T
    <2>1. top # {} /\ top \subseteq FiniteSubsetsOf(Plans)
        BY <1>1
    <2> HIDE DEF top
    <2> QED BY <2>1, SmallestFinite
<1>3. PICK q \in S : T = above(q)
    BY <1>2
<1>4. ASSUME NEW r \in S, ~(Plan[r].principal <= Plan[q].principal) PROVE FALSE
    <2>1. \A p \in Plans : Plan[p].principal \in Nat
        BY PlanType
    <2>2. r \in above(q) /\ r \notin above(r) /\ above(r) \subseteq above(q)
        BY <1>4, <2>1
    <2>3. above(r) = above(q)
        BY <1>1, <1>2, <1>3, <2>2
    <2> QED BY <2>2, <2>3
<1> QED BY <1>4

----------------------------------------------------------------------------
(***************************************************************************)
(* Opening a pack                                                          *)
(***************************************************************************)
LEMMA OpenedRows ==
    ASSUME NEW rows \in [Packs -> PackRow], \A i \in Packs : RowOK(rows[i], month),
           month \in Nat, NEW u \in Members, NEW p \in Plans, Free(rows) # {}
    PROVE  LET new == Opened(rows, u, p)
           IN  /\ new \in [Packs -> PackRow] /\ \A i \in Packs : RowOK(new[i], month)
               /\ Free(new) \subseteq Free(rows)
               /\ \A v \in Members :
                   /\ SumFunctionOnSet(CountsFor(new, v), Packs)
                          = SumFunctionOnSet(CountsFor(rows, v), Packs)
                   /\ SumFunctionOnSet(LockedFor(new, v), Packs)
                          = SumFunctionOnSet(LockedFor(rows, v), Packs)
<1> DEFINE j == Min(Free(rows))
           row == [status |-> "ACTIVE", owner |-> u, plan |-> p, start |-> month,
                   settled |-> 0, paid |-> 0, locked |-> 0, consumed |-> 0,
                   refund |-> 0]
           new == Opened(rows, u, p)
<1>1. j \in Free(rows)
    <2>1. Free(rows) \subseteq Nat
        BY PacksFinite DEF Free
    <2>2. \E n \in Free(rows) : \A m \in Free(rows) : n <= m
        BY <2>1, SmallestNumber
    <2> QED BY <2>2 DEF Min
<1>2. j \in Packs /\ rows[j].status = "NONE"
    BY <1>1 DEF Free
<1>3. row \in PackRow
    BY DEF PackRow, Statuses
<1>4. new = [rows EXCEPT ![j] = row]
    BY DEF Opened
<1>5. Plan[p].profit * 0 = 0 /\ 0 < Plan[p].maxCap /\ 0 <= Plan[p].maxProfit
    BY PlanType
<1>6. RowOK(row, month)
    <2>1. /\ row.status = "ACTIVE" /\ row.plan = p /\ row.start = month /\ row.settled = 0
          /\ row.paid = 0 /\ row.consumed = 0
        OBVIOUS
    <2>2. Plan[p].maxCap \in Nat /\ Plan[p].maxProfit \in Nat
        BY PlanType
    <2> HIDE DEF row
    <2> QED BY <1>5, <2>1, <2>2 DEF RowOK
<1>7. rows[j].consumed = 0 /\ rows[j].paid = 0 /\ rows[j].locked = 0
    BY <1>2 DEF RowOK, PackRow
<1>8. row.consumed = 0 /\ row.paid = 0 /\ row.locked = 0 /\ row.status = "ACTIVE"
    OBVIOUS
<1> HIDE DEF new, row, j
<1>9. new \in [Packs -> PackRow] /\ \A i \in Packs : RowOK(new[i], month)
    BY <1>2, <1>3, <1>4, <1>6
<1>10. Free(new) \subseteq Free(rows)
    BY <1>2, <1>4, <1>8 DEF Free
<1>11. ASSUME NEW v \in Members
       PROVE  /\ SumFunctionOnSet(CountsFor(new, v), Packs)
                     = SumFunctionOnSet(CountsFor(rows, v), Packs)
              /\ SumFunctionOnSet(LockedFor(new, v), Packs)
                     = SumFunctionOnSet(LockedFor(rows, v), Packs)
    <2>1. CountsFor(new, v) = CountsFor(rows, v) /\ LockedFor(new, v) = LockedFor(rows, v)
        BY <1>2, <1>4, <1>7, <1>8 DEF CountsFor, LockedFor
    <2> QED BY <2>1
<1> QED BY <1>9, <1>10, <1>11 DEF new

----------------------------------------------------------------------------
(***************************************************************************)
(* What exceeds every bar                                                  *)
(***************************************************************************)
\* One pack bought from what is held: the books stay in order, and at least the
\* price of every pack that was within reach is gone.
LEMMA RoundBuys ==
    ASSUME NEW b, BooksOK(b, locked, month), month \in Nat, NEW u \in Members,
           Affordable(b, u) # {}, Free(b.pack) # {}
    PROVE  LET r == Round(b, u)
           IN  /\ BooksOK(r, locked, month) /\ Free(r.pack) \subseteq Free(b.pack)
               /\ \A v \in Members \ {u} : r.held[v] = b.held[v]
               /\ \A p \in Affordable(b, u) : r.held[u] <= b.held[u] - Plan[p].principal
<1> DEFINE p == CHOOSE q \in Affordable(b, u) : \A r \in Affordable(b, u) :
                    Plan[r].principal <= Plan[q].principal
           rows == Opened(b.pack, u, p)
           slots == Slots(rows, u)
           rest == b.held[u] - Plan[p].principal
           pay == Least(rest, Capacity(rows, b.used, u))
           r == Round(b, u)
           pool2 == Funded(b.pool, p)
           held2 == [b.held EXCEPT ![u] = rest - pay]
           income2 == [b.income EXCEPT ![u] = @ + pay]
<1>1. /\ b.pack \in [Packs -> PackRow] /\ b.used \in [Members -> Nat]
      /\ b.pool \in [investment : Int, binary : Int] /\ b.pool.binary >= 0
      /\ b.held \in [Members -> Nat] /\ b.income \in [Members -> Nat]
      /\ \A i \in Packs : RowOK(b.pack[i], month)
    BY DEF BooksOK, Books
<1>2. Affordable(b, u) \subseteq Plans /\ IsFiniteSet(Affordable(b, u))
    <2>1. Affordable(b, u) \subseteq Plans
        BY BoundAssumption DEF Affordable
    <2> QED BY <2>1, PlanAssumption, FS_Subset
<1>3. \E q \in Affordable(b, u) : \A s \in Affordable(b, u) :
          Plan[s].principal <= Plan[q].principal
    BY <1>2, LargestPlan
<1>4. /\ p \in Affordable(b, u)
      /\ \A s \in Affordable(b, u) : Plan[s].principal <= Plan[p].principal
    BY <1>3
<1>5. r = [pack |-> Filled(rows, slots, pay), used |-> Spent(b.used, slots, u, pay),
           pool |-> pool2, held |-> held2, income |-> income2]
    BY DEF Round
<1> HIDE DEF p
<1>6. p \in Plans /\ Plan[p].principal <= b.held[u]
    BY <1>2, <1>4 DEF Affordable
<1>7. Plan[p].principal \in Nat /\ Plan[p].commission \in Nat
    BY <1>6, PlanType
<1>8. /\ rows \in [Packs -> PackRow] /\ \A i \in Packs : RowOK(rows[i], month)
      /\ Free(rows) \subseteq Free(b.pack)
      /\ \A v \in Members :
          /\ SumFunctionOnSet(CountsFor(rows, v), Packs)
                 = SumFunctionOnSet(CountsFor(b.pack, v), Packs)
          /\ SumFunctionOnSet(LockedFor(rows, v), Packs)
                 = SumFunctionOnSet(LockedFor(b.pack, v), Packs)
    BY <1>1, <1>6, OpenedRows
<1> HIDE DEF rows
<1>9. rest \in Nat /\ Capacity(rows, b.used, u) \in Nat
    BY <1>1, <1>6, <1>7, <1>8, CapacityNat
<1>10. pay \in Nat /\ pay <= rest
    BY <1>9, LeastNat
<1>11. Reading(rows, slots, u) /\ Total(slots, MaxPacks) \in Nat
    BY <1>8, ReadingNow, TotalNat, BoundAssumption DEF Reading
<1> HIDE DEF slots, pay
<1>12. /\ Filled(rows, slots, pay) \in [Packs -> PackRow]
       /\ \A i \in Packs : RowOK(Filled(rows, slots, pay)[i], month)
       /\ Free(Filled(rows, slots, pay)) = Free(rows)
       /\ \A v \in Members :
            /\ LockedFor(Filled(rows, slots, pay), v) = LockedFor(rows, v)
            /\ SumFunctionOnSet(CountsFor(Filled(rows, slots, pay), v), Packs)
                   = SumFunctionOnSet(CountsFor(rows, v), Packs)
                   + (IF v = u THEN Least(pay, Total(slots, MaxPacks)) ELSE 0)
    BY <1>8, <1>10, <1>11, FilledRows DEF FillsTo
<1>13. /\ Spent(b.used, slots, u, pay) \in [Members -> Nat]
       /\ \A v \in Members : Spent(b.used, slots, u, pay)[v] = b.used[v] +
              (IF v = u THEN pay - Least(pay, Total(slots, MaxPacks)) ELSE 0)
    <2> DEFINE spent == b.used
    <2>1. spent \in [Members -> Nat]
        BY <1>1
    <2> HIDE DEF spent
    <2>2. /\ Spent(spent, slots, u, pay) \in [Members -> Nat]
          /\ \A v \in Members : Spent(spent, slots, u, pay)[v] = spent[v] +
                 (IF v = u THEN pay - Least(pay, Total(slots, MaxPacks)) ELSE 0)
        BY <2>1, <1>10, <1>11, SpentType
    <2> QED BY <2>2 DEF spent
<1>14. pool2 \in [investment : Int, binary : Int] /\ pool2.binary >= 0
    BY <1>1, <1>7 DEF Funded
<1>15. held2 \in [Members -> Nat] /\ income2 \in [Members -> Nat]
    BY <1>1, <1>9, <1>10
<1>16. r \in Books /\ r.pool.binary >= 0
    BY <1>5, <1>12, <1>13, <1>14, <1>15 DEF Books
<1>17. ASSUME NEW v \in Members
       PROVE  r.income[v] = r.used[v] + SumFunctionOnSet(CountsFor(r.pack, v), Packs)
    <2>1. Least(pay, Total(slots, MaxPacks)) \in Nat
        BY <1>10, <1>11, LeastNat
    <2>2. SumFunctionOnSet(CountsFor(b.pack, v), Packs) \in Int
        BY <1>1, CountsInt
    <2>3. b.income[v] = b.used[v] + SumFunctionOnSet(CountsFor(b.pack, v), Packs)
        BY DEF BooksOK
    <2>4. /\ r.income[v] = IF v = u THEN b.income[v] + pay ELSE b.income[v]
          /\ r.used[v] = Spent(b.used, slots, u, pay)[v] /\ r.pack = Filled(rows, slots, pay)
        BY <1>1, <1>5
    <2>5. b.used[v] \in Nat /\ b.income[v] \in Nat
        BY <1>1
    <2> QED BY <1>8, <1>10, <1>12, <1>13, <2>1, <2>2, <2>3, <2>4, <2>5
<1>18. \A v \in Members :
           locked[v] = SumFunctionOnSet(LockedFor(r.pack, v), Packs)
    BY <1>5, <1>8, <1>12 DEF BooksOK
<1>19. BooksOK(r, locked, month)
    BY <1>5, <1>12, <1>16, <1>17, <1>18 DEF BooksOK
<1>20. Free(r.pack) \subseteq Free(b.pack) /\ r.held = held2
    BY <1>5, <1>8, <1>12
<1>21. ASSUME NEW q \in Affordable(b, u)
       PROVE  r.held[u] <= b.held[u] - Plan[q].principal
    <2>1. Plan[q].principal \in Nat /\ Plan[q].principal <= Plan[p].principal
        BY <1>2, <1>4, PlanType
    <2>2. r.held[u] = rest - pay
        BY <1>1, <1>20
    <2> QED BY <1>1, <1>7, <1>9, <1>10, <2>1, <2>2
<1>22. \A v \in Members \ {u} : r.held[v] = b.held[v]
    BY <1>1, <1>20
<1> QED BY <1>19, <1>20, <1>21, <1>22

\* The rounds of absorbOverflow, as the recursion that counts them.
RoundsFrom(start, u, n, after) ==
    after = [k \in 0 .. n |-> IF k = 0 THEN start ELSE Round(after[k - 1], u)]

LEMMA RoundsExist ==
    ASSUME NEW start, NEW u, NEW n \in Nat
    PROVE  \E after : RoundsFrom(start, u, n, after)
<1> DEFINE T == {k \in Nat : ~ \E after : RoundsFrom(start, u, k, after)}
<1>1. SUFFICES ASSUME T # {} PROVE FALSE
    OBVIOUS
<1>2. PICK k \in T : \A m \in T : k <= m
    <2>1. T \subseteq Nat
        OBVIOUS
    <2> HIDE DEF T
    <2> QED BY <1>1, <2>1, SmallestNumber
<1>3. k \in Nat /\ ~ \E after : RoundsFrom(start, u, k, after)
    BY <1>2
<1>4. CASE k = 0
    <2> DEFINE h == [j \in 0 .. 0 |-> start]
    <2>1. h = [j \in 0 .. 0 |-> IF j = 0 THEN start ELSE Round(h[j - 1], u)]
        OBVIOUS
    <2> HIDE DEF h
    <2>2. RoundsFrom(start, u, k, h)
        BY <1>4, <2>1 DEF RoundsFrom
    <2> QED BY <1>3, <2>2
<1>5. CASE k # 0
    <2>1. k - 1 \in Nat /\ k - 1 \notin T
        BY <1>2, <1>3, <1>5
    <2>2. PICK g : RoundsFrom(start, u, k - 1, g)
        BY <2>1
    <2> DEFINE h == [j \in 0 .. k |-> IF j = k THEN Round(g[k - 1], u) ELSE g[j]]
    <2>3. ASSUME NEW j \in 0 .. k
          PROVE  h[j] = IF j = 0 THEN start ELSE Round(h[j - 1], u)
        <3>1. CASE j = k
            <4>1. h[j - 1] = g[k - 1] /\ h[j] = Round(g[k - 1], u) /\ j # 0
                BY <1>3, <1>5, <3>1
            <4> QED BY <4>1
        <3>2. CASE j # k
            <4>1. j \in 0 .. k - 1 /\ (j # 0 => j - 1 \in 0 .. k - 1 /\ j - 1 # k)
                BY <1>3, <3>2
            <4>2. g[j] = IF j = 0 THEN start ELSE Round(g[j - 1], u)
                BY <2>2, <4>1 DEF RoundsFrom
            <4>3. h[j] = g[j] /\ (j # 0 => h[j - 1] = g[j - 1])
                BY <1>3, <3>2, <4>1
            <4> HIDE DEF h
            <4> QED BY <4>2, <4>3
        <3> QED BY <3>1, <3>2
    <2>4. h = [j \in 0 .. k |-> h[j]]
        OBVIOUS
    <2> HIDE DEF h
    <2>5. RoundsFrom(start, u, k, h)
        BY <2>3, <2>4 DEF RoundsFrom
    <2> QED BY <1>3, <2>5
<1> QED BY <1>4, <1>5

\* What an overflow starts from: the amount moved from the pool to the hold.
HeldBack(b, u, retained) ==
    IF Allowed[u] = {} \/ Overflow(b, retained) <= 0 THEN b
    ELSE [b EXCEPT !.pool.binary = @ - Overflow(b, retained),
                   !.held[u] = @ + Overflow(b, retained)]

LEMMA AbsorbedIsRounds ==
    ASSUME NEW b, NEW u, NEW retained
    PROVE  \E after : /\ RoundsFrom(HeldBack(b, u, retained), u, Rounds, after)
                      /\ Absorbed(b, u, retained) = after[Rounds]
<1> DEFINE g == CHOOSE after : RoundsFrom(HeldBack(b, u, retained), u, Rounds, after)
<1>1. Absorbed(b, u, retained) = g[Rounds]
    BY DEF Absorbed, RoundsFrom, HeldBack
<1>2. RoundsFrom(HeldBack(b, u, retained), u, Rounds, g)
    BY RoundsExist, BoundAssumption
<1> QED BY <1>1, <1>2

LEMMA HeldBackKeeps ==
    ASSUME NEW b, BooksOK(b, locked, month), NEW u \in Members, NEW retained \in Nat
    PROVE  LET s == HeldBack(b, u, retained)
           IN  /\ BooksOK(s, locked, month)
               /\ \A v \in Members \ {u} : s.held[v] = b.held[v]
               /\ b.held[u] <= s.held[u] /\ s.held[u] <= b.held[u] + Overflow(b, retained)
               /\ Overflow(b, retained) \in Nat
<1> DEFINE amount == Overflow(b, retained)
           s == HeldBack(b, u, retained)
<1>1. /\ b \in Books /\ b.pool \in [investment : Int, binary : Int]
      /\ b.pool.binary \in Nat /\ b.held \in [Members -> Nat]
    BY DEF BooksOK, Books
<1>2. amount \in Nat /\ amount <= retained /\ amount <= b.pool.binary
    BY <1>1, LeastNat DEF Overflow
<1>3. CASE Allowed[u] = {} \/ amount <= 0
    <2>1. s = b /\ b.held[u] \in Nat
        BY <1>1, <1>3 DEF HeldBack
    <2>2. amount \in Nat
        BY <1>2
    <2> HIDE DEF amount
    <2>3. b.held[u] <= b.held[u] + amount
        BY <2>1, <2>2
    <2> QED BY <2>1, <2>2, <2>3 DEF amount
<1>4. CASE ~(Allowed[u] = {} \/ amount <= 0)
    <2>1. s = [b EXCEPT !.pool.binary = @ - amount, !.held[u] = @ + amount]
        BY <1>4 DEF HeldBack
    <2> HIDE DEF s, amount
    <2> DEFINE pool2 == [b.pool EXCEPT !.binary = @ - amount]
               held2 == [b.held EXCEPT ![u] = @ + amount]
    <2>2. /\ s.pack = b.pack /\ s.used = b.used /\ s.income = b.income
          /\ s.pool = pool2 /\ s.held = held2
          /\ s = [pack |-> s.pack, used |-> s.used, pool |-> s.pool,
                  held |-> s.held, income |-> s.income]
        BY <1>1, <2>1 DEF Books
    <2>3. pool2 \in [investment : Int, binary : Int] /\ pool2.binary >= 0
        BY <1>1, <1>2
    <2>4. /\ held2 \in [Members -> Nat] /\ held2[u] = b.held[u] + amount
          /\ \A v \in Members \ {u} : held2[v] = b.held[v]
        BY <1>1, <1>2
    <2>5. b.pack \in [Packs -> PackRow] /\ b.used \in [Members -> Nat]
          /\ b.income \in [Members -> Nat]
        BY <1>1 DEF Books
    <2> HIDE DEF pool2, held2
    <2>6. s \in Books
        BY <2>2, <2>3, <2>4, <2>5 DEF Books
    <2>7. BooksOK(s, locked, month)
        BY <2>2, <2>3, <2>6 DEF BooksOK
    <2>8. b.held[u] \in Nat
        BY <1>1
    <2>9. /\ \A v \in Members \ {u} : s.held[v] = b.held[v]
          /\ b.held[u] <= s.held[u] /\ s.held[u] <= b.held[u] + amount
        BY <1>2, <2>2, <2>4, <2>8 DEF amount
    <2> QED BY <1>2, <2>7, <2>9 DEF s, amount
<1> QED BY <1>3, <1>4 DEF s

\* What stays held after k rounds from s: less than the price of any pack, if
\* the rounds cover it and there is a row to open the pack in.
LeftAfter(x, s, u, k) ==
    /\ BooksOK(x, locked, month) /\ Free(x.pack) \subseteq Free(s.pack)
    /\ \A v \in Members \ {u} : x.held[v] = s.held[v]
    /\ \A p \in Allowed[u] :
        \/ Free(x.pack) = {} \/ x.held[u] < Plan[p].principal
        \/ x.held[u] + k * Plan[p].principal <= s.held[u]

LEMMA RoundKeeps ==
    ASSUME NEW s, NEW u \in Members, NEW k \in Nat, NEW x, LeftAfter(x, s, u, k),
           BooksOK(s, locked, month), month \in Nat
    PROVE  LeftAfter(Round(x, u), s, u, k + 1)
<1> DEFINE y == Round(x, u)
<1>1. CASE Free(x.pack) = {}
    <2>1. y = x
        BY <1>1 DEF Round
    <2> QED BY <1>1, <2>1 DEF LeftAfter
<1>2. CASE Affordable(x, u) = {}
    <2>1. y = x
        BY <1>2 DEF Round
    <2>2. x.held[u] \in Nat
        BY DEF LeftAfter, BooksOK, Books
    <2>3. ASSUME NEW p \in Allowed[u] PROVE x.held[u] < Plan[p].principal
        <3>1. p \in Plans
            BY BoundAssumption
        <3> QED BY <1>2, <2>2, <3>1, PlanType DEF Affordable
    <2> QED BY <2>1, <2>3 DEF LeftAfter
<1>3. CASE Affordable(x, u) # {} /\ Free(x.pack) # {}
    <2>1. BooksOK(x, locked, month)
        BY DEF LeftAfter
    <2>2. /\ BooksOK(y, locked, month) /\ Free(y.pack) \subseteq Free(x.pack)
          /\ \A v \in Members \ {u} : y.held[v] = x.held[v]
          /\ \A p \in Affordable(x, u) : y.held[u] <= x.held[u] - Plan[p].principal
        BY <1>3, <2>1, RoundBuys
    <2>3. x.held[u] \in Nat /\ y.held[u] \in Nat /\ s.held[u] \in Nat
        BY <2>1, <2>2 DEF BooksOK, Books
    <2>4. ASSUME NEW p \in Allowed[u]
          PROVE  \/ Free(y.pack) = {} \/ y.held[u] < Plan[p].principal
                 \/ y.held[u] + (k + 1) * Plan[p].principal <= s.held[u]
        <3>1. p \in Plans
            BY BoundAssumption
        <3> DEFINE price == Plan[p].principal
        <3>2. price \in Nat
            BY <3>1, PlanType
        <3>3. CASE p \in Affordable(x, u)
            <4>1. price <= x.held[u] /\ y.held[u] <= x.held[u] - price
                BY <2>2, <3>3 DEF Affordable
            <4>2. x.held[u] + k * price <= s.held[u]
                BY <1>3, <2>3, <3>2, <4>1 DEF LeftAfter
            <4>3. k * price \in Nat /\ (k + 1) * price = k * price + price
                BY <3>2
            <4> HIDE DEF price, y
            <4>4. y.held[u] + (k + 1) * price <= s.held[u]
                BY <2>3, <3>2, <4>1, <4>2, <4>3
            <4> QED BY <4>4 DEF price
        <3>4. CASE p \notin Affordable(x, u)
            <4>1. PICK q \in Affordable(x, u) : TRUE
                BY <1>3
            <4>2. q \in Plans
                BY <4>1, BoundAssumption DEF Affordable
            <4>3. Plan[q].principal \in Nat
                BY <4>2, PlanType
            <4>4. y.held[u] <= x.held[u]
                BY <2>2, <2>3, <4>1, <4>3
            <4>5. x.held[u] < price
                BY <2>3, <3>2, <3>4 DEF Affordable
            <4> HIDE DEF price, y
            <4>6. y.held[u] < price
                BY <2>3, <3>2, <4>4, <4>5
            <4> QED BY <4>6 DEF price
        <3> QED BY <3>3, <3>4
    <2>5. /\ Free(y.pack) \subseteq Free(s.pack)
          /\ \A v \in Members \ {u} : y.held[v] = s.held[v]
        BY <2>2 DEF LeftAfter
    <2> QED BY <2>2, <2>4, <2>5 DEF LeftAfter
<1> QED BY <1>1, <1>2, <1>3

LEMMA RoundsKeep ==
    ASSUME NEW s, NEW u \in Members, BooksOK(s, locked, month), month \in Nat,
           NEW n \in Nat, NEW after, RoundsFrom(s, u, n, after)
    PROVE  LeftAfter(after[n], s, u, n)
<1> DEFINE T == {k \in 0 .. n : ~LeftAfter(after[k], s, u, k)}
<1>1. SUFFICES ASSUME T # {} PROVE FALSE
    OBVIOUS
<1>2. PICK k \in T : \A m \in T : k <= m
    <2>1. T \subseteq Nat
        OBVIOUS
    <2> HIDE DEF T
    <2> QED BY <1>1, <2>1, SmallestNumber
<1>3. k \in 0 .. n /\ ~LeftAfter(after[k], s, u, k)
    BY <1>2
<1>4. CASE k = 0
    <2>1. after[k] = s
        BY <1>4 DEF RoundsFrom
    <2>2. \A p \in Allowed[u] : Plan[p].principal \in Nat
        BY BoundAssumption, PlanType
    <2>3. s.held[u] \in Nat
        BY DEF BooksOK, Books
    <2>4. \A p \in Allowed[u] : s.held[u] + 0 * Plan[p].principal <= s.held[u]
        BY <2>2, <2>3
    <2> QED BY <1>3, <1>4, <2>1, <2>4 DEF LeftAfter
<1>5. CASE k # 0
    <2>1. k - 1 \in 0 .. n /\ k - 1 \notin T
        BY <1>2, <1>3, <1>5
    <2>2. LeftAfter(after[k - 1], s, u, k - 1)
        BY <2>1
    <2>3. after[k] = Round(after[k - 1], u)
        BY <1>3, <1>5 DEF RoundsFrom
    <2>4. k - 1 \in Nat /\ (k - 1) + 1 = k
        BY <1>3, <1>5
    <2>5. LeftAfter(Round(after[k - 1], u), s, u, (k - 1) + 1)
        BY <2>2, <2>4, RoundKeeps
    <2> QED BY <1>3, <2>3, <2>4, <2>5
<1> QED BY <1>4, <1>5

\* Who is lost after an overflow of u.
Lost(lost, u, amount) == IF Covered(u, amount) THEN lost ELSE lost \cup {u}

LEMMA AbsorbedKeeps ==
    ASSUME NEW b, BooksOK(b, locked, month), NEW lost, HeldOK(b, lost), month \in Nat,
           NEW u \in Members, NEW retained \in Nat,
           Fits(Absorbed(b, u, retained), u)
    PROVE  LET a == Absorbed(b, u, retained)
           IN  /\ BooksOK(a, locked, month)
               /\ HeldOK(a, Lost(lost, u, Overflow(b, retained)))
<1> DEFINE a == Absorbed(b, u, retained)
           s == HeldBack(b, u, retained)
           amount == Overflow(b, retained)
<1>1. /\ BooksOK(s, locked, month)
      /\ \A v \in Members \ {u} : s.held[v] = b.held[v]
      /\ b.held[u] <= s.held[u] /\ s.held[u] <= b.held[u] + amount /\ amount \in Nat
    BY HeldBackKeeps
<1>2. LeftAfter(a, s, u, Rounds)
    <2>1. PICK after : RoundsFrom(s, u, Rounds, after) /\ a = after[Rounds]
        BY AbsorbedIsRounds
    <2> HIDE DEF a, s
    <2> QED BY <1>1, <2>1, RoundsKeep, BoundAssumption
<1> HIDE DEF a, s, amount
<1>3. a.held[u] \in Nat /\ s.held[u] \in Nat /\ b.held[u] \in Nat
    BY <1>1, <1>2 DEF LeftAfter, BooksOK, Books
<1>4. ASSUME NEW p \in Allowed[u], u \notin lost, Covered(u, amount)
      PROVE  a.held[u] < Plan[p].principal
    <2> DEFINE price == Plan[p].principal
    <2>1. price \in Nat /\ Rounds * price \in Nat
        BY BoundAssumption, PlanType
    <2>2. amount <= Rounds * price
        BY <1>4 DEF Covered
    <2>3. b.held[u] < price
        BY <1>4 DEF HeldOK
    <2>4. CASE Free(a.pack) = {}
        <3>1. p \notin Affordable(a, u)
            BY <2>4 DEF Fits, a
        <3> QED BY <1>3, <2>1, <3>1 DEF Affordable
    <2>5. CASE a.held[u] + Rounds * price <= s.held[u]
        <3> DEFINE all == Rounds * price
        <3>1. all \in Nat /\ amount <= all /\ a.held[u] + all <= s.held[u]
            BY <2>1, <2>2, <2>5
        <3> HIDE DEF price, all
        <3>2. a.held[u] < price
            BY <1>1, <1>3, <2>1, <2>3, <3>1
        <3> QED BY <3>2 DEF price
    <2> QED BY <1>2, <2>4, <2>5 DEF LeftAfter
<1>5. ASSUME NEW v \in Members \ (lost \cup {u}), NEW p \in Allowed[v]
      PROVE  a.held[v] < Plan[p].principal
    BY <1>1, <1>2 DEF LeftAfter, HeldOK
<1>6. HeldOK(a, Lost(lost, u, amount))
    <2> SUFFICES ASSUME NEW v \in Members \ Lost(lost, u, amount), NEW p \in Allowed[v]
                 PROVE  a.held[v] < Plan[p].principal
        BY DEF HeldOK
    <2>1. CASE v = u
        <3>1. Covered(u, amount) /\ u \notin lost
            BY <2>1 DEF Lost
        <3> QED BY <1>4, <2>1, <3>1
    <2>2. CASE v # u
        BY <1>5, <2>2 DEF Lost
    <2> QED BY <2>1, <2>2
<1> QED BY <1>2, <1>6 DEF LeftAfter, a, amount

----------------------------------------------------------------------------
(***************************************************************************)
(* Crediting a reward                                                      *)
(***************************************************************************)
\* Whatever was cancelled since the bars were read, a reward counts in full.
LEMMA CreditedKeeps ==
    ASSUME BooksOK(Now, locked, month), HeldOK(Now, outlasted), month \in Nat,
           NEW funds \in [investment : Int, binary : Int], NEW u \in Members,
           NEW slots, Reading(pack, slots, u), NEW credited \in Nat,
           credited <= funds.binary, NEW retained \in Nat,
           Fits(Credited(funds, u, slots, credited, retained), u)
    PROVE  LET b == Credited(funds, u, slots, credited, retained)
           IN  /\ BooksOK(b, locked, month)
               /\ HeldOK(b, Outlasting(funds, u, credited, retained))
<1> DEFINE paid == [pack |-> Filled(pack, slots, credited),
                    used |-> Spent(used, slots, u, credited),
                    pool |-> [funds EXCEPT !.binary = @ - credited],
                    held |-> held,
                    income |-> [income EXCEPT ![u] = @ + credited]]
           pool2 == [funds EXCEPT !.binary = @ - credited]
           income2 == [income EXCEPT ![u] = @ + credited]
           b == Credited(funds, u, slots, credited, retained)
<1>1. /\ pack \in [Packs -> PackRow] /\ used \in [Members -> Nat]
      /\ held \in [Members -> Nat] /\ income \in [Members -> Nat]
      /\ \A i \in Packs : RowOK(pack[i], month)
    BY DEF BooksOK, Books, Now
<1>2. Total(slots, MaxPacks) \in Nat
    BY TotalNat, BoundAssumption DEF Reading
<1>3. /\ Filled(pack, slots, credited) \in [Packs -> PackRow]
      /\ \A i \in Packs : RowOK(Filled(pack, slots, credited)[i], month)
      /\ \A v \in Members :
            /\ LockedFor(Filled(pack, slots, credited), v) = LockedFor(pack, v)
            /\ SumFunctionOnSet(CountsFor(Filled(pack, slots, credited), v), Packs)
                   = SumFunctionOnSet(CountsFor(pack, v), Packs)
                   + (IF v = u THEN Least(credited, Total(slots, MaxPacks)) ELSE 0)
    <2>1. FillsTo(Filled(pack, slots, credited), pack, slots, u, credited, month)
        BY <1>1, FilledRows
    <2> QED BY <2>1 DEF FillsTo
<1>4. /\ Spent(used, slots, u, credited) \in [Members -> Nat]
      /\ \A v \in Members : Spent(used, slots, u, credited)[v] = used[v] +
             (IF v = u THEN credited - Least(credited, Total(slots, MaxPacks)) ELSE 0)
    <2> DEFINE spent == used
    <2>1. spent \in [Members -> Nat]
        BY <1>1
    <2> HIDE DEF spent
    <2>2. /\ Spent(spent, slots, u, credited) \in [Members -> Nat]
          /\ \A v \in Members : Spent(spent, slots, u, credited)[v] = spent[v] +
                 (IF v = u THEN credited - Least(credited, Total(slots, MaxPacks)) ELSE 0)
        BY <1>2, <2>1, SpentType
    <2> QED BY <2>2 DEF spent
<1>5. pool2 \in [investment : Int, binary : Int] /\ pool2.binary >= 0
    OBVIOUS
<1>6. income2 \in [Members -> Nat]
    BY <1>1
<1>7. /\ paid.pack = Filled(pack, slots, credited)
      /\ paid.used = Spent(used, slots, u, credited)
      /\ paid.pool = pool2 /\ paid.held = held /\ paid.income = income2
    OBVIOUS
<1>8. paid \in Books
    BY <1>1, <1>3, <1>4, <1>5, <1>6 DEF Books
<1>9. b = Absorbed(paid, u, retained)
    BY DEF Credited
<1> HIDE DEF paid, pool2, b
<1>10. ASSUME NEW v \in Members
       PROVE  paid.income[v] = paid.used[v] + SumFunctionOnSet(CountsFor(paid.pack, v), Packs)
    <2>1. Least(credited, Total(slots, MaxPacks)) \in Nat
        BY <1>2, LeastNat
    <2>2. SumFunctionOnSet(CountsFor(pack, v), Packs) \in Int
        BY <1>1, CountsInt
    <2>3. income[v] = used[v] + SumFunctionOnSet(CountsFor(pack, v), Packs)
        BY DEF BooksOK, Now
    <2>4. paid.income[v] = IF v = u THEN income[v] + credited ELSE income[v]
        BY <1>1, <1>7
    <2>5. used[v] \in Nat /\ income[v] \in Nat
        BY <1>1
    <2> QED BY <1>3, <1>4, <1>7, <2>1, <2>2, <2>3, <2>4, <2>5
<1>11. \A v \in Members : locked[v] = SumFunctionOnSet(LockedFor(paid.pack, v), Packs)
    BY <1>3, <1>7 DEF BooksOK, Now
<1>12. BooksOK(paid, locked, month)
    BY <1>3, <1>5, <1>7, <1>8, <1>10, <1>11 DEF BooksOK
<1>13. HeldOK(paid, outlasted)
    BY <1>7 DEF HeldOK, Now
<1>14. Fits(Absorbed(paid, u, retained), u)
    BY <1>9 DEF b
<1>15. BooksOK(Absorbed(paid, u, retained), locked, month)
       /\ HeldOK(Absorbed(paid, u, retained), Lost(outlasted, u, Overflow(paid, retained)))
    BY <1>12, <1>13, <1>14, AbsorbedKeeps
<1>16. Lost(outlasted, u, Overflow(paid, retained)) = Outlasting(funds, u, credited, retained)
    <2>1. paid.pool.binary = funds.binary - credited
        BY <1>7 DEF pool2
    <2> QED BY <2>1 DEF Lost, Overflow, Outlasting
<1> QED BY <1>9, <1>15, <1>16 DEF b

----------------------------------------------------------------------------
(***************************************************************************)
(* The invariant, one lemma for each action                                *)
(***************************************************************************)
LEMMA NowIs ==
    ASSUME Inv
    PROVE  /\ pack \in [Packs -> PackRow] /\ used \in [Members -> Nat]
           /\ pool \in [investment : Int, binary : Int] /\ pool.binary >= 0
           /\ held \in [Members -> Nat] /\ income \in [Members -> Nat]
           /\ \A i \in Packs : RowOK(pack[i], month)
           /\ month \in Nat /\ worker.asOf \in Nat /\ worker.asOf <= month
           /\ \A v \in Members :
                /\ income[v] = used[v] + SumFunctionOnSet(CountsFor(pack, v), Packs)
                /\ locked[v] = SumFunctionOnSet(LockedFor(pack, v), Packs)
BY BoundAssumption DEF Inv, BooksOK, Books, Now

LEMMA InitInv == Init => Inv
<1> SUFFICES ASSUME Init PROVE Inv
    OBVIOUS
<1> DEFINE row == [status |-> "NONE", owner |-> CHOOSE u \in Members : TRUE,
                   plan |-> CHOOSE p \in Plans : TRUE, start |-> 0,
                   settled |-> 0, paid |-> 0, locked |-> 0, consumed |-> 0,
                   refund |-> 0]
<1>1. pack = [i \in Packs |-> row]
    BY DEF Init
<1>2. row.owner \in Members /\ row.plan \in Plans
    BY BoundAssumption
<1>3. /\ row.status = "NONE" /\ row.start = 0 /\ row.settled = 0 /\ row.paid = 0
      /\ row.locked = 0 /\ row.consumed = 0 /\ row.refund = 0
    OBVIOUS
<1>4. row \in PackRow
    BY <1>2 DEF PackRow, Statuses
<1> HIDE DEF row
<1>5. Plan[row.plan].profit * 0 = 0
    BY <1>2, PlanType
<1>6. RowOK(row, 0)
    BY <1>2, <1>3, <1>5, PlanType DEF RowOK
<1>7. ASSUME NEW v \in Members
      PROVE  /\ SumFunctionOnSet(CountsFor(pack, v), Packs) = 0
             /\ SumFunctionOnSet(LockedFor(pack, v), Packs) = 0
    <2>1. \A i \in Packs : CountsFor(pack, v)[i] = 0 /\ LockedFor(pack, v)[i] = 0
        BY <1>1, <1>3 DEF CountsFor, LockedFor
    <2> QED BY <2>1, PacksFinite, SumOfZeros
<1>8. /\ used = [u \in Members |-> 0] /\ locked = [u \in Members |-> 0]
      /\ held = [u \in Members |-> 0] /\ income = [u \in Members |-> 0]
      /\ pool = [investment |-> 0, binary |-> 0] /\ month = 0
      /\ credit = Idle /\ worker = Waiting /\ rewards = 0 /\ aborts = 0
      /\ outlasted = {}
    BY DEF Init
<1>9. BooksOK(Now, locked, month)
    BY <1>1, <1>4, <1>6, <1>7, <1>8 DEF BooksOK, Books, Now
<1>10. HeldOK(Now, outlasted)
    <2>1. \A v \in Members : \A p \in Allowed[v] : 0 < Plan[p].principal
        BY BoundAssumption, PlanType
    <2> QED BY <1>8, <2>1 DEF HeldOK, Now
<1> QED BY <1>8, <1>9, <1>10, BoundAssumption DEF Inv, CreditOK, Waiting

LEMMA PurchaseKeeps ==
    ASSUME Inv, NEW u \in Members, NEW p \in Plans, Purchase(u, p)
    PROVE  Inv'
<1> DEFINE rows == Opened(pack, u, p)
           funds == Funded(pool, p)
<1>1. /\ pack' = rows /\ pool' = funds /\ Free(pack) # {} /\ credit = Idle
      /\ UNCHANGED <<used, locked, held, income, outlasted, month, credit, worker,
                     rewards, aborts>>
    BY DEF Purchase
<1>2. /\ rows \in [Packs -> PackRow] /\ \A i \in Packs : RowOK(rows[i], month)
      /\ \A v \in Members :
           /\ SumFunctionOnSet(CountsFor(rows, v), Packs)
                  = SumFunctionOnSet(CountsFor(pack, v), Packs)
           /\ SumFunctionOnSet(LockedFor(rows, v), Packs)
                  = SumFunctionOnSet(LockedFor(pack, v), Packs)
    BY <1>1, NowIs, OpenedRows
<1>3. funds \in [investment : Int, binary : Int] /\ funds.binary >= 0
    BY NowIs, PlanType DEF Funded
<1> HIDE DEF rows, funds
<1>4. BooksOK(Now, locked, month)'
    BY <1>1, <1>2, <1>3, NowIs DEF BooksOK, Books, Now
<1>5. HeldOK(Now, outlasted)'
    BY <1>1 DEF HeldOK, Now, Inv
<1> QED BY <1>1, <1>4, <1>5 DEF Inv, CreditOK

LEMMA RewardKeeps ==
    ASSUME Inv, NEW u \in Members, NEW amount \in Amounts, Reward(u, amount)
    PROVE  Inv'
<1> DEFINE room == Capacity(pack, used, u)
           credited == Least(amount, room)
<1>1. room \in Nat /\ amount \in Nat
    BY NowIs, CapacityNat, BoundAssumption
<1>2. credited \in Nat /\ amount - credited \in Nat /\ amount - credited <= amount
    <2>1. credited \in Nat /\ credited <= amount
        BY <1>1, LeastNat
    <2> HIDE DEF credited
    <2> QED BY <1>1, <2>1
<1>3. credited <= pool.binary /\ credit = Idle /\ rewards < MaxRewards
    BY DEF Reward
<1>4. PICK b \in {Credited(pool, u, Slots(pack, u), credited, amount - credited)} :
          Fits(b, u) /\ Book(b)
    BY DEF Reward
<1>5. /\ rewards' = rewards + 1
      /\ outlasted' = Outlasting(pool, u, credited, amount - credited)
      /\ UNCHANGED <<locked, month, credit, worker, aborts>>
    BY DEF Reward
<1> HIDE DEF credited, room
<1>7. Reading(pack, Slots(pack, u), u)
    BY NowIs, ReadingNow
<1>8. /\ BooksOK(b, locked, month)
      /\ HeldOK(b, Outlasting(pool, u, credited, amount - credited))
    <2>1. BooksOK(Now, locked, month) /\ HeldOK(Now, outlasted)
        BY DEF Inv
    <2>2. pool \in [investment : Int, binary : Int] /\ month \in Nat
        BY NowIs
    <2> QED BY <1>2, <1>3, <1>4, <1>7, <2>1, <2>2, CreditedKeeps
<1>9. BooksOK(Now, locked, month)' /\ HeldOK(Now, outlasted)'
    <2>1. b = [pack |-> b.pack, used |-> b.used, pool |-> b.pool, held |-> b.held,
               income |-> b.income]
        BY <1>8 DEF BooksOK, Books
    <2>2. Now' = b
        BY <1>4, <2>1 DEF Book, Now
    <2> QED BY <1>5, <1>8, <2>2
<1>10. outlasted' \in SUBSET Members
    BY <1>5 DEF Outlasting, Inv
<1> QED BY <1>3, <1>5, <1>9, <1>10, BoundAssumption DEF Inv, CreditOK

LEMMA AllocateKeeps ==
    ASSUME Inv, NEW u \in Members, NEW amount \in Amounts, Allocate(u, amount)
    PROVE  Inv'
<1> DEFINE room == Capacity(pack, used, u)
           credited == Least(amount, room)
<1>1. room \in Nat /\ amount \in Nat
    BY NowIs, CapacityNat, BoundAssumption
<1>2. credited \in Nat /\ amount - credited \in Nat /\ amount - credited <= amount
    <2>1. credited \in Nat /\ credited <= amount
        BY <1>1, LeastNat
    <2> HIDE DEF credited
    <2> QED BY <1>1, <2>1
<1>3. /\ credited <= pool.binary + Funding /\ rewards < MaxRewards
      /\ credit' = [stage |-> "allocated", member |-> u,
                    credited |-> credited, retained |-> amount - credited]
      /\ rewards' = rewards + 1
      /\ UNCHANGED <<books, month, worker, aborts>>
    BY DEF Allocate
<1> HIDE DEF credited, room
<1>5. CreditOK'
    BY <1>2, <1>3 DEF CreditOK, books
<1>6. Now' = Now /\ locked' = locked /\ month' = month /\ outlasted' = outlasted
    BY <1>3 DEF Now, books
<1> QED BY <1>3, <1>5, <1>6, BoundAssumption DEF Inv

LEMMA ReadSlotsKeeps == ASSUME Inv, ReadSlots PROVE Inv'
<1>1. /\ credit.stage = "allocated"
      /\ credit' = [stage |-> "slotted", member |-> credit.member,
                    credited |-> credit.credited, retained |-> credit.retained,
                    slots |-> Slots(pack, credit.member)]
      /\ UNCHANGED <<books, month, worker, rewards, aborts>>
    BY DEF ReadSlots
<1>2. /\ credit.member \in Members /\ credit.credited \in Nat /\ credit.retained \in Nat
      /\ credit.credited <= pool.binary + Funding
    BY <1>1 DEF Inv, CreditOK, Idle
<1>3. Reading(pack, Slots(pack, credit.member), credit.member)
    BY <1>2, NowIs, ReadingNow
<1>4. /\ Now' = Now /\ locked' = locked /\ pack' = pack /\ pool' = pool /\ month' = month
      /\ outlasted' = outlasted
    BY <1>1 DEF Now, books
<1>5. /\ credit'.stage = "slotted" /\ credit'.member = credit.member
      /\ credit'.credited = credit.credited /\ credit'.retained = credit.retained
      /\ credit'.slots = Slots(pack, credit.member)
    BY <1>1
<1>6. CreditOK'
    BY <1>2, <1>3, <1>4, <1>5 DEF CreditOK
<1> QED BY <1>1, <1>4, <1>6 DEF Inv

LEMMA FillSlotsKeeps == ASSUME Inv, FillSlots PROVE Inv'
<1> DEFINE u == credit.member
           funds == [pool EXCEPT !.binary = @ + Funding]
<1>1. credit.stage = "slotted" /\ credit' = Idle
      /\ UNCHANGED <<locked, month, worker, rewards, aborts>>
      /\ outlasted' = Outlasting(funds, u, credit.credited, credit.retained)
    BY DEF FillSlots
<1>2. PICK b \in {Credited(funds, u, credit.slots, credit.credited, credit.retained)} :
          Fits(b, u) /\ Book(b)
    BY DEF FillSlots
<1>3. /\ u \in Members /\ credit.credited \in Nat /\ credit.retained \in Nat
      /\ credit.credited <= pool.binary + Funding
      /\ Reading(pack, credit.slots, u)
    BY <1>1 DEF Inv, CreditOK, Idle
<1>4. funds \in [investment : Int, binary : Int] /\ credit.credited <= funds.binary
    BY <1>3, NowIs, BoundAssumption
<1> HIDE DEF u, funds
<1>5. /\ BooksOK(b, locked, month)
      /\ HeldOK(b, Outlasting(funds, u, credit.credited, credit.retained))
    <2>1. BooksOK(Now, locked, month) /\ HeldOK(Now, outlasted) /\ month \in Nat
        BY NowIs DEF Inv
    <2> QED BY <1>2, <1>3, <1>4, <2>1, CreditedKeeps
<1>6. BooksOK(Now, locked, month)' /\ HeldOK(Now, outlasted)'
    <2>1. b = [pack |-> b.pack, used |-> b.used, pool |-> b.pool, held |-> b.held,
               income |-> b.income]
        BY <1>5 DEF BooksOK, Books
    <2>2. Now' = b
        BY <1>2, <2>1 DEF Book, Now
    <2> QED BY <1>1, <1>5, <2>2
<1>7. outlasted' \in SUBSET Members
    BY <1>1, <1>3 DEF Outlasting, Inv
<1> QED BY <1>1, <1>6, <1>7 DEF Inv, CreditOK

\* One pack changes, and its owner's hold account with it; what it counts stays.
LEMMA RowChanges ==
    ASSUME Inv, NEW i \in Packs, NEW row \in PackRow, RowOK(row, month),
           row.owner = pack[i].owner,
           row.consumed - row.paid = pack[i].consumed - pack[i].paid
    PROVE  LET rows == [pack EXCEPT ![i] = row]
               lk == [locked EXCEPT ![row.owner] = @ + (row.locked - pack[i].locked)]
           IN  /\ rows \in [Packs -> PackRow] /\ \A j \in Packs : RowOK(rows[j], month)
               /\ lk \in [Members -> Int]
               /\ \A v \in Members :
                   /\ income[v] = used[v] + SumFunctionOnSet(CountsFor(rows, v), Packs)
                   /\ lk[v] = SumFunctionOnSet(LockedFor(rows, v), Packs)
<1> DEFINE rows == [pack EXCEPT ![i] = row]
           lk == [locked EXCEPT ![row.owner] = @ + (row.locked - pack[i].locked)]
           add == row.locked - pack[i].locked
<1>1. /\ pack \in [Packs -> PackRow] /\ locked \in [Members -> Int]
      /\ row.locked \in Int /\ pack[i].locked \in Int /\ row.owner \in Members
    <2>1. pack \in [Packs -> PackRow] /\ locked \in [Members -> Int]
        BY NowIs DEF Inv
    <2> QED BY <2>1 DEF PackRow
<1>2. rows \in [Packs -> PackRow] /\ rows[i] = row /\ \A j \in Packs \ {i} : rows[j] = pack[j]
    <2> HIDE DEF rows
    <2>1. rows = [pack EXCEPT ![i] = row]
        BY DEF rows
    <2> QED BY <1>1, <2>1
<1>3. add \in Int /\ lk = [locked EXCEPT ![row.owner] = @ + add]
    BY <1>1
<1> HIDE DEF rows, lk, add
<1>4. /\ lk \in [Members -> Int]
      /\ \A v \in Members : lk[v] = IF v = row.owner THEN locked[v] + add ELSE locked[v]
    BY <1>1, <1>3
<1>5. \A j \in Packs : RowOK(rows[j], month)
    BY <1>2, NowIs
<1>6. ASSUME NEW v \in Members
      PROVE  income[v] = used[v] + SumFunctionOnSet(CountsFor(rows, v), Packs)
    <2>1. CountsFor(rows, v) = CountsFor(pack, v)
        <3>1. ASSUME NEW j \in Packs
              PROVE  (IF rows[j].owner = v THEN rows[j].consumed - rows[j].paid ELSE 0)
                   = (IF pack[j].owner = v THEN pack[j].consumed - pack[j].paid ELSE 0)
            BY <1>2
        <3> QED BY <3>1 DEF CountsFor
    <2> QED BY <2>1, NowIs
<1>7. ASSUME NEW v \in Members
      PROVE  lk[v] = SumFunctionOnSet(LockedFor(rows, v), Packs)
    <2> DEFINE before == LockedFor(pack, v)
               after == LockedFor(rows, v)
    <2>1. /\ \A j \in Packs : before[j] \in Int
          /\ \A j \in Packs \ {i} : after[j] = before[j]
          /\ after[i] \in Int
          /\ after[i] - before[i] = IF v = row.owner THEN add ELSE 0
        BY <1>1, <1>2 DEF LockedFor, PackRow, add
    <2>2. IsFiniteSet(Packs)
        BY PacksFinite
    <2>3. locked[v] = SumFunctionOnSet(before, Packs) /\ locked[v] \in Int
        BY <1>1, NowIs
    <2> HIDE DEF before, after
    <2>4. SumFunctionOnSet(after, Packs) = SumFunctionOnSet(before, Packs) + (after[i] - before[i])
        BY <2>1, <2>2, SumChange
    <2>5. SumFunctionOnSet(after, Packs) = lk[v]
        BY <1>3, <1>4, <2>1, <2>3, <2>4
    <2> QED BY <2>5 DEF after
<1> QED BY <1>2, <1>4, <1>5, <1>6, <1>7 DEF rows, lk

\* A reading outlives a change that leaves the room of the pack as it was.
LEMMA ReadingKept ==
    ASSUME NEW rows \in [Packs -> PackRow], NEW slots, NEW u, Reading(rows, slots, u),
           NEW i \in Packs, NEW row \in PackRow,
           i \in DOMAIN slots =>
               /\ row.owner = rows[i].owner /\ row.status \in {"ACTIVE", "CANCELLED"}
               /\ row.plan = rows[i].plan /\ row.consumed = rows[i].consumed
    PROVE  Reading([rows EXCEPT ![i] = row], slots, u)
BY DEF Reading

LEMMA SettledRow ==
    ASSUME NEW row \in PackRow, NEW now \in Nat, RowOK(row, now), row.status = "ACTIVE",
           NEW asOf \in Nat, asOf <= now
    PROVE  LET new == Settled(row, asOf)
           IN  /\ new \in PackRow /\ RowOK(new, now) /\ new.owner = row.owner
               /\ new.consumed - new.paid = row.consumed - row.paid
               /\ new.locked - row.locked = Payout(row, asOf)
               /\ Payout(row, asOf) \in Nat
<1> DEFINE t == Plan[row.plan]
           due == Due(row, asOf)
           pay == Payout(row, asOf)
           status == IF row.consumed + pay >= t.maxCap THEN "COMPLETED" ELSE row.status
           new == Settled(row, asOf)
<1>1. /\ row.settled \in Nat /\ row.paid \in Nat /\ row.locked \in Nat
      /\ row.consumed \in Nat /\ row.start \in Nat /\ row.plan \in Plans
      /\ row.status \in Statuses
    BY DEF PackRow
<1>2. /\ t.maxProfit \in Nat /\ t.maxCap \in Nat /\ t.profit \in Nat
      /\ t.maxProfit <= t.maxCap
    BY <1>1, PlanType
<1>3. due \in Nat /\ row.start + row.settled + due <= now
    <2>1. asOf - row.start - row.settled \in Int
        BY <1>1
    <2>2. due \in Nat /\ (due = asOf - row.start - row.settled \/ due = 0)
        BY <2>1, AtLeast0Nat DEF Due
    <2>3. row.start + row.settled <= now
        BY DEF RowOK
    <2> HIDE DEF due
    <2> QED BY <1>1, <2>2, <2>3
<1>4. due * t.profit \in Nat /\ AtLeast0(t.maxProfit - row.consumed) \in Nat
      /\ (AtLeast0(t.maxProfit - row.consumed) = 0
            \/ AtLeast0(t.maxProfit - row.consumed) = t.maxProfit - row.consumed)
    <2>1. t.maxProfit - row.consumed \in Int
        BY <1>1, <1>2
    <2> HIDE DEF due
    <2> QED BY <1>2, <1>3, <2>1, AtLeast0Nat
<1>5. /\ pay \in Nat /\ pay <= due * t.profit
      /\ (pay = 0 \/ pay <= t.maxProfit - row.consumed)
    <2>1. pay = Least(due * t.profit, AtLeast0(t.maxProfit - row.consumed))
        BY DEF Payout
    <2>2. /\ pay \in Nat /\ pay <= due * t.profit
          /\ pay <= AtLeast0(t.maxProfit - row.consumed)
        <3> HIDE DEF pay, due
        <3> QED BY <1>4, <2>1, LeastNat
    <2> HIDE DEF pay, due
    <2> QED BY <1>1, <1>2, <1>4, <2>2
<1>6. new = [row EXCEPT !.paid = @ + pay, !.locked = @ + pay, !.consumed = @ + pay,
                       !.settled = @ + due, !.status = status]
    BY DEF Settled
<1>7. /\ row.paid <= row.consumed /\ row.consumed < t.maxCap
      /\ row.paid <= t.maxProfit /\ row.paid <= t.profit * row.settled
    BY DEF RowOK
<1>8. row.paid + pay <= t.profit * (row.settled + due)
    <2>1. t.profit * (row.settled + due) = t.profit * row.settled + due * t.profit
        BY <1>1, <1>2, <1>3
    <2>2. t.profit * row.settled \in Nat
        BY <1>1, <1>2
    <2> HIDE DEF pay, due, t
    <2> QED BY <1>1, <1>4, <1>5, <1>7, <2>1, <2>2
<1>9. /\ row.consumed + pay <= t.maxCap /\ row.paid + pay <= t.maxProfit
      /\ row.paid + pay <= row.consumed + pay
    <2> HIDE DEF pay, due, t
    <2> QED BY <1>1, <1>2, <1>5, <1>7
<1>10. /\ status \in {"ACTIVE", "COMPLETED"}
       /\ status = "ACTIVE" => row.consumed + pay < t.maxCap
       /\ status = "COMPLETED" => row.consumed + pay = t.maxCap
    <2> HIDE DEF pay, due, t
    <2> QED BY <1>1, <1>2, <1>5, <1>9
<1> HIDE DEF pay, due, status, t
<1>11. /\ new.paid = row.paid + pay /\ new.locked = row.locked + pay
       /\ new.consumed = row.consumed + pay /\ new.settled = row.settled + due
       /\ new.status = status /\ new.owner = row.owner /\ new.plan = row.plan
       /\ new.start = row.start /\ new.refund = row.refund
    BY <1>6 DEF PackRow
<1>12. new \in PackRow
    <2>1. /\ row.paid + pay \in Nat /\ row.locked + pay \in Nat
          /\ row.consumed + pay \in Nat /\ row.settled + due \in Nat /\ status \in Statuses
        BY <1>1, <1>3, <1>5, <1>10 DEF Statuses
    <2> HIDE DEF new
    <2> QED BY <1>6, <2>1 DEF PackRow
<1> HIDE DEF new
<1>13. RowOK(new, now)
    <2>1. new.start + new.settled <= now
        BY <1>1, <1>3, <1>11
    <2>2. Plan[new.plan] = t
        BY <1>11 DEF t
    <2> QED BY <1>8, <1>9, <1>10, <1>11, <2>1, <2>2 DEF RowOK
<1>14. new.consumed - new.paid = row.consumed - row.paid /\ new.locked - row.locked = pay
    BY <1>1, <1>5, <1>11
<1> QED BY <1>5, <1>11, <1>12, <1>13, <1>14 DEF new, pay

LEMMA SettleKeeps ==
    ASSUME Inv, NEW i \in Packs, Settle(i)
    PROVE  Inv'
<1> DEFINE row == pack[i]
           todo == [worker EXCEPT !.todo = @ \ {i}]
<1>1. /\ i \in worker.todo /\ credit.member # row.owner /\ worker' = todo
      /\ UNCHANGED <<used, held, income, outlasted, month, credit, rewards, aborts>>
    BY DEF Settle
<1>2. /\ row \in PackRow /\ RowOK(row, month) /\ month \in Nat
      /\ worker.asOf \in Nat /\ worker.asOf <= month
    BY NowIs
<1>3. todo \in [asOf : 0 .. MaxMonth, todo : SUBSET Packs] /\ todo.asOf = worker.asOf
    BY DEF Inv
<1> HIDE DEF row, todo
<1>4. CASE row.status # "ACTIVE"
    <2>1. /\ pack' = pack /\ pool' = [pool EXCEPT !.investment = @ - 0]
          /\ locked' = [locked EXCEPT ![row.owner] = @ + 0]
        BY <1>4 DEF Settle, row
    <2>2. pool' = pool /\ locked' = locked
        BY <2>1, NowIs DEF Inv
    <2>3. BooksOK(Now, locked, month)' /\ HeldOK(Now, outlasted)' /\ CreditOK'
        BY <1>1, <2>1, <2>2 DEF Inv, BooksOK, HeldOK, CreditOK, Now
    <2> QED BY <1>1, <1>3, <2>2, <2>3 DEF Inv
<1>5. CASE row.status = "ACTIVE"
    <2> DEFINE profit == Payout(row, worker.asOf)
               new == Settled(row, worker.asOf)
    <2>1. /\ new \in PackRow /\ RowOK(new, month) /\ new.owner = row.owner
          /\ new.consumed - new.paid = row.consumed - row.paid
          /\ new.locked - row.locked = profit /\ profit \in Nat
        BY <1>2, <1>5, SettledRow
    <2>2. /\ pack' = [pack EXCEPT ![i] = new] /\ pool' = [pool EXCEPT !.investment = @ - profit]
          /\ locked' = [locked EXCEPT ![row.owner] = @ + profit]
        BY <1>5 DEF Settle, row
    <2> HIDE DEF profit, new
    <2>3. locked' = [locked EXCEPT ![new.owner] = @ + (new.locked - pack[i].locked)]
        BY <2>1, <2>2 DEF row
    <2>4. /\ pack' \in [Packs -> PackRow] /\ \A j \in Packs : RowOK(pack'[j], month)
          /\ locked' \in [Members -> Int]
          /\ \A v \in Members :
               /\ income[v] = used[v] + SumFunctionOnSet(CountsFor(pack', v), Packs)
               /\ locked'[v] = SumFunctionOnSet(LockedFor(pack', v), Packs)
        <3>1. /\ new \in PackRow /\ RowOK(new, month) /\ new.owner = pack[i].owner
              /\ new.consumed - new.paid = pack[i].consumed - pack[i].paid
              /\ pack' = [pack EXCEPT ![i] = new]
            BY <2>1, <2>2 DEF row
        <3> QED BY ONLY Inv, i \in Packs, <2>3, <3>1, RowChanges
    <2>5. pool' \in [investment : Int, binary : Int] /\ pool'.binary = pool.binary
        BY <2>1, <2>2, NowIs
    <2>6. BooksOK(Now, locked, month)'
        BY <1>1, <2>4, <2>5, NowIs DEF BooksOK, Books, Now
    <2>7. HeldOK(Now, outlasted)'
        BY <1>1 DEF Inv, HeldOK, Now
    <2>8. CreditOK'
        <3>1. CASE credit = Idle
            BY <1>1, <3>1 DEF CreditOK
        <3>2. CASE credit # Idle
            <4>1. ASSUME credit.stage = "slotted"
                  PROVE  Reading(pack', credit.slots, credit.member)
                <5>1. Reading(pack, credit.slots, credit.member)
                    BY <3>2, <4>1 DEF Inv, CreditOK
                <5>2. i \notin DOMAIN credit.slots
                    BY <1>1, <5>1 DEF Reading, row
                <5>3. pack \in [Packs -> PackRow]
                    BY NowIs
                <5> QED BY <2>1, <2>2, <5>1, <5>2, <5>3, ReadingKept
            <4> QED BY <1>1, <2>5, <3>2, <4>1 DEF Inv, CreditOK
        <3> QED BY <3>1, <3>2
    <2> QED BY <1>1, <1>3, <2>4, <2>6, <2>7, <2>8 DEF Inv
<1> QED BY <1>4, <1>5

LEMMA WithdrawProfitKeeps ==
    ASSUME Inv, NEW i \in Packs, WithdrawProfit(i)
    PROVE  Inv'
<1> DEFINE row == pack[i]
           new == [row EXCEPT !.locked = 0]
<1>1. /\ row.status # "NONE" /\ pack' = [pack EXCEPT ![i].locked = 0]
      /\ locked' = [locked EXCEPT ![row.owner] = @ - row.locked]
      /\ UNCHANGED <<used, pool, held, income, outlasted, month, credit, worker, rewards,
                     aborts>>
    BY DEF WithdrawProfit
<1>2. /\ row \in PackRow /\ RowOK(row, month) /\ pack \in [Packs -> PackRow]
      /\ locked \in [Members -> Int]
    BY NowIs DEF Inv
<1>3. pack' = [pack EXCEPT ![i] = new]
    BY <1>1, <1>2
<1> HIDE DEF row
<1>4. /\ new \in PackRow /\ new.locked = 0 /\ new.owner = row.owner /\ new.paid = row.paid
      /\ new.consumed = row.consumed /\ new.status = row.status /\ new.plan = row.plan
      /\ new.settled = row.settled /\ new.start = row.start /\ new.refund = row.refund
    BY <1>2 DEF PackRow
<1> HIDE DEF new
<1>5. RowOK(new, month)
    BY <1>1, <1>2, <1>4 DEF RowOK
<1>6. locked' = [locked EXCEPT ![new.owner] = @ + (new.locked - pack[i].locked)]
    <2>1. row.owner \in Members /\ row.locked \in Int /\ row = pack[i]
        BY <1>2 DEF PackRow, row
    <2>2. locked[row.owner] - row.locked = locked[row.owner] + (0 - row.locked)
        BY <1>2, <2>1
    <2> QED BY <1>1, <1>2, <1>4, <2>1, <2>2
<1>7. /\ pack' \in [Packs -> PackRow] /\ \A j \in Packs : RowOK(pack'[j], month)
      /\ locked' \in [Members -> Int]
      /\ \A v \in Members :
           /\ income[v] = used[v] + SumFunctionOnSet(CountsFor(pack', v), Packs)
           /\ locked'[v] = SumFunctionOnSet(LockedFor(pack', v), Packs)
    BY <1>3, <1>4, <1>5, <1>6, RowChanges DEF row
<1>8. BooksOK(Now, locked, month)' /\ HeldOK(Now, outlasted)'
    BY <1>1, <1>7, NowIs DEF Inv, BooksOK, Books, HeldOK, Now
<1>9. CreditOK'
    <2>1. ASSUME credit # Idle, credit.stage = "slotted"
          PROVE  Reading(pack', credit.slots, credit.member)
        <3>1. Reading(pack, credit.slots, credit.member)
            BY <2>1 DEF Inv, CreditOK
        <3>2. i \in DOMAIN credit.slots => row.status \in {"ACTIVE", "CANCELLED"}
            BY <3>1 DEF Reading, row
        <3> QED BY <1>2, <1>3, <1>4, <3>1, <3>2, ReadingKept DEF row
    <2> QED BY <1>1, <2>1 DEF Inv, CreditOK
<1> QED BY <1>1, <1>7, <1>8, <1>9 DEF Inv

LEMMA RefundExact ==
    ASSUME NEW row \in PackRow, NEW now \in Nat, RowOK(row, now),
           now - row.start <= CancelPeriods
    PROVE  /\ Refund(row) \in Nat
           /\ Refund(row) + row.paid + Plan[row.plan].commission = Plan[row.plan].principal
<1> DEFINE t == Plan[row.plan]
<1>1. /\ row.paid \in Nat /\ row.settled \in Nat /\ row.start \in Nat
      /\ row.plan \in Plans /\ CancelPeriods \in Nat
    BY BoundAssumption DEF PackRow
<1>2. t.principal \in Nat /\ t.profit \in Nat /\ t.commission \in Nat
    BY <1>1, PlanType
<1>3. row.settled <= CancelPeriods /\ row.paid <= t.profit * row.settled
    BY <1>1 DEF RowOK
<1>4. t.profit * row.settled <= t.profit * CancelPeriods
    BY <1>1, <1>2, <1>3, TimesMonotone
<1>5. t.profit * CancelPeriods + t.commission <= t.principal
    BY <1>1, WindowAssumption
<1>6. t.profit * row.settled \in Nat /\ t.profit * CancelPeriods \in Nat
    BY <1>1, <1>2
<1>7. Refund(row) = AtLeast0(t.principal - row.paid - t.commission)
    BY DEF Refund
<1> HIDE DEF t
<1>8. t.principal - row.paid - t.commission \in Nat
    BY <1>1, <1>2, <1>3, <1>4, <1>5, <1>6
<1>9. Refund(row) = t.principal - row.paid - t.commission
    BY <1>7, <1>8, AtLeast0Nat
<1> QED BY <1>1, <1>2, <1>8, <1>9 DEF t

LEMMA CancelKeeps ==
    ASSUME Inv, NEW i \in Packs, Cancel(i)
    PROVE  Inv'
<1> DEFINE row == pack[i]
           new == [row EXCEPT !.status = "CANCELLED", !.locked = 0, !.refund = Refund(row)]
<1>1. /\ row.status = "ACTIVE" /\ month - row.start <= CancelPeriods
      /\ pack' = [pack EXCEPT ![i].status = "CANCELLED", ![i].locked = 0,
                              ![i].refund = Refund(row)]
      /\ pool' = [pool EXCEPT !.investment = @ - Refund(row)]
      /\ locked' = [locked EXCEPT ![row.owner] = @ - row.locked]
      /\ UNCHANGED <<used, held, income, outlasted, month, credit, worker, rewards, aborts>>
    BY DEF Cancel
<1>2. /\ row \in PackRow /\ RowOK(row, month) /\ pack \in [Packs -> PackRow]
      /\ locked \in [Members -> Int] /\ month \in Nat
    BY NowIs DEF Inv
<1>3. pack' = [pack EXCEPT ![i] = new]
    BY <1>1, <1>2
<1>4. Refund(row) \in Nat
      /\ Refund(row) + row.paid + Plan[row.plan].commission = Plan[row.plan].principal
    BY <1>1, <1>2, RefundExact
<1> HIDE DEF row
<1>5. /\ new \in PackRow /\ new.locked = 0 /\ new.owner = row.owner /\ new.paid = row.paid
      /\ new.consumed = row.consumed /\ new.status = "CANCELLED" /\ new.plan = row.plan
      /\ new.settled = row.settled /\ new.start = row.start /\ new.refund = Refund(row)
    BY <1>2, <1>4 DEF PackRow, Statuses
<1> HIDE DEF new
<1>6. RowOK(new, month)
    BY <1>2, <1>4, <1>5 DEF RowOK
<1>7. locked' = [locked EXCEPT ![new.owner] = @ + (new.locked - pack[i].locked)]
    <2>1. row.owner \in Members /\ row.locked \in Int /\ row = pack[i]
        BY <1>2 DEF PackRow, row
    <2>2. locked[row.owner] - row.locked = locked[row.owner] + (0 - row.locked)
        BY <1>2, <2>1
    <2> QED BY <1>1, <1>2, <1>5, <2>1, <2>2
<1>8. /\ pack' \in [Packs -> PackRow] /\ \A j \in Packs : RowOK(pack'[j], month)
      /\ locked' \in [Members -> Int]
      /\ \A v \in Members :
           /\ income[v] = used[v] + SumFunctionOnSet(CountsFor(pack', v), Packs)
           /\ locked'[v] = SumFunctionOnSet(LockedFor(pack', v), Packs)
    BY <1>3, <1>5, <1>6, <1>7, RowChanges DEF row
<1>9. pool' \in [investment : Int, binary : Int] /\ pool'.binary = pool.binary
    BY <1>1, <1>4, NowIs
<1>10. BooksOK(Now, locked, month)' /\ HeldOK(Now, outlasted)'
    BY <1>1, <1>8, <1>9, NowIs DEF Inv, BooksOK, Books, HeldOK, Now
<1>11. CreditOK'
    <2>1. ASSUME credit # Idle, credit.stage = "slotted"
          PROVE  Reading(pack', credit.slots, credit.member)
        <3>1. Reading(pack, credit.slots, credit.member)
            BY <2>1 DEF Inv, CreditOK
        <3> QED BY <1>2, <1>3, <1>5, <3>1, ReadingKept DEF row
    <2> QED BY <1>1, <1>9, <2>1 DEF Inv, CreditOK
<1> QED BY <1>1, <1>8, <1>10, <1>11 DEF Inv

\* The steps of the worker and of the clock that leave the books alone.
LEMMA OthersKeep ==
    ASSUME Inv, Poll \/ (\E i \in Packs : SettleFails(i)) \/ PeriodEnds \/ UNCHANGED vars
    PROVE  Inv'
<1>1. CASE Poll
    <2>1. worker' = [asOf |-> month, todo |-> Listed] /\ Listed \subseteq Packs
          /\ UNCHANGED <<books, month, credit, rewards, aborts>>
        BY <1>1 DEF Poll, Listed
    <2>2. Now' = Now /\ CreditOK'
        BY <2>1 DEF Inv, Now, books, CreditOK
    <2> QED BY <2>1, <2>2 DEF Inv, books
<1>2. CASE \E i \in Packs : SettleFails(i)
    <2>1. PICK i \in Packs : SettleFails(i)
        BY <1>2
    <2>2. /\ aborts < MaxAborts /\ aborts' = aborts + 1
          /\ worker' = [worker EXCEPT !.todo = @ \ {i}]
          /\ UNCHANGED <<books, month, credit, rewards>>
        BY <2>1 DEF SettleFails
    <2>3. Now' = Now /\ CreditOK'
        BY <2>2 DEF Inv, Now, books, CreditOK
    <2>4. /\ worker' \in [asOf : 0 .. MaxMonth, todo : SUBSET Packs]
          /\ worker'.asOf = worker.asOf /\ aborts' \in 0 .. MaxAborts
        BY <2>2, BoundAssumption DEF Inv
    <2> QED BY <2>2, <2>3, <2>4 DEF Inv, books
<1>3. CASE PeriodEnds
    <2>1. month' = month + 1 /\ month < MaxMonth
          /\ UNCHANGED <<books, credit, worker, rewards, aborts>>
        BY <1>3 DEF PeriodEnds
    <2>2. Now' = Now /\ CreditOK' /\ outlasted' = outlasted
        BY <2>1 DEF Inv, Now, books, CreditOK
    <2>3. \A i \in Packs : RowOK(pack[i], month + 1)
        <3>1. ASSUME NEW i \in Packs PROVE RowOK(pack[i], month + 1)
            <4>1. /\ RowOK(pack[i], month) /\ pack[i].start \in Nat
                  /\ pack[i].settled \in Nat /\ month \in Nat
                BY NowIs DEF PackRow
            <4>2. pack[i].start + pack[i].settled <= month + 1
                BY <4>1 DEF RowOK
            <4> QED BY <4>1, <4>2 DEF RowOK
        <3> QED BY <3>1
    <2>4. BooksOK(Now, locked, month)'
        BY <2>1, <2>2, <2>3 DEF Inv, BooksOK, Now, books
    <2>5. HeldOK(Now, outlasted)'
        BY <2>2 DEF Inv, HeldOK
    <2>6. month' \in 0 .. MaxMonth /\ worker'.asOf <= month' /\ locked' = locked
        BY <2>1, NowIs, BoundAssumption DEF books
    <2> QED BY <2>1, <2>2, <2>4, <2>5, <2>6 DEF Inv
<1>4. CASE UNCHANGED vars
    BY <1>4 DEF vars, books, Inv, Now, CreditOK
<1> QED BY <1>1, <1>2, <1>3, <1>4

LEMMA NextKeeps == Inv /\ [Next]_vars => Inv'
<1> SUFFICES ASSUME Inv, [Next]_vars PROVE Inv'
    OBVIOUS
<1>1. ASSUME NEW u \in Members, NEW p \in Plans, Purchase(u, p) PROVE Inv'
    BY <1>1, PurchaseKeeps
<1>2. ASSUME NEW u \in Members, NEW a \in Amounts, Reward(u, a) \/ Allocate(u, a)
      PROVE  Inv'
    BY <1>2, RewardKeeps, AllocateKeeps
<1>3. ASSUME NEW i \in Packs, Settle(i) \/ WithdrawProfit(i) \/ Cancel(i) PROVE Inv'
    BY <1>3, SettleKeeps, WithdrawProfitKeeps, CancelKeeps
<1> QED BY <1>1, <1>2, <1>3, ReadSlotsKeeps, FillSlotsKeeps, OthersKeep DEF Next

----------------------------------------------------------------------------
(***************************************************************************)
(* The theorems                                                            *)
(***************************************************************************)
\* The invariant holds in every reachable state: the books agree, the hold is
\* below the smallest pack, and a confirmation's reading is the room there is.
THEOREM InvHolds == Spec => []Inv
<1>1. Init => Inv
    BY InitInv
<1>2. Inv /\ [Next]_vars => Inv'
    BY NextKeeps
<1> QED BY <1>1, <1>2, PTL DEF Spec

\* No bar counts more than its room, however settlements, cancellations and
\* the commission of a confirmation interleave (services/rewards.ts).
THEOREM BarsNeverOverfilledHolds == Spec => []BarsNeverOverfilled
<1>1. Inv => BarsNeverOverfilled
    <2> SUFFICES ASSUME Inv PROVE BarsNeverOverfilled
        OBVIOUS
    <2>1. TypeOK
        <3>1. /\ credit.stage \in {"idle", "allocated", "slotted"}
              /\ credit.member \in Members \cup {NoOne}
            BY DEF Inv, CreditOK, Idle
        <3>2. held \in [Members -> Int]
            BY NowIs
        <3> QED BY <3>1, <3>2, NowIs DEF TypeOK, Inv
    <2>2. ASSUME NEW i \in Packs
          PROVE  LET terms == Plan[pack[i].plan]
                 IN  /\ pack[i].consumed <= terms.maxCap
                     /\ pack[i].paid <= terms.maxProfit
                     /\ pack[i].paid <= terms.profit * (month - pack[i].start)
                     /\ pack[i].status = "ACTIVE" => pack[i].consumed < terms.maxCap
                     /\ pack[i].status = "COMPLETED" => pack[i].consumed = terms.maxCap
        <3> DEFINE row == pack[i]
                   profit == Plan[row.plan].profit
                   settled == row.settled
                   due == month - row.start
        <3>1. RowOK(row, month) /\ row \in PackRow /\ month \in Nat
            BY NowIs
        <3> HIDE DEF row
        <3>2. /\ row.plan \in Plans /\ settled \in Nat /\ row.start \in Nat
              /\ row.paid \in Nat
            BY <3>1 DEF PackRow
        <3>3. profit \in Nat /\ row.paid <= profit * settled
            BY <3>1, <3>2, PlanType DEF RowOK
        <3>4. due \in Nat /\ settled <= due
            BY <3>1, <3>2 DEF RowOK
        <3> HIDE DEF profit, settled, due
        <3>5. profit * settled <= profit * due
            BY <3>2, <3>3, <3>4, TimesMonotone
        <3>6. row.paid <= profit * due
            <4>1. profit * settled \in Nat /\ profit * due \in Nat
                BY <3>2, <3>3, <3>4
            <4> QED BY <3>2, <3>3, <3>5, <4>1
        <3> QED BY <3>1, <3>6 DEF RowOK, row, profit, due
    <2> QED BY <2>1, <2>2 DEF BarsNeverOverfilled
<1> QED BY <1>1, InvHolds, PTL

\* The part of a total that one member's packs make.
LEMMA OwnPart ==
    ASSUME Inv, NEW u \in Members
    PROVE  /\ SumFunctionOnSet([i \in Packs |-> pack[i].locked], PacksOf(u))
                  = SumFunctionOnSet(LockedFor(pack, u), Packs)
           /\ SumFunctionOnSet([i \in Packs |-> pack[i].consumed - pack[i].paid], PacksOf(u))
                  = SumFunctionOnSet(CountsFor(pack, u), Packs)
<1> DEFINE lk == [i \in Packs |-> pack[i].locked]
           counts == [i \in Packs |-> pack[i].consumed - pack[i].paid]
           T == PacksOf(u)
<1>1. T \in SUBSET Packs /\ IsFiniteSet(Packs)
    BY PacksFinite DEF PacksOf
<1>2. /\ \A i \in T : lk[i] \in Int /\ counts[i] \in Int
      /\ [i \in Packs |-> IF i \in T THEN lk[i] ELSE 0] = LockedFor(pack, u)
      /\ [i \in Packs |-> IF i \in T THEN counts[i] ELSE 0] = CountsFor(pack, u)
    BY <1>1, NowIs DEF PacksOf, LockedFor, CountsFor, PackRow
<1> HIDE DEF lk, counts, T
<1>3. SumFunctionOnSet(lk, T)
          = SumFunctionOnSet([i \in Packs |-> IF i \in T THEN lk[i] ELSE 0], Packs)
    BY <1>1, <1>2, SumPart
<1>4. SumFunctionOnSet(counts, T)
          = SumFunctionOnSet([i \in Packs |-> IF i \in T THEN counts[i] ELSE 0], Packs)
    BY <1>1, <1>2, SumPart
<1> QED BY <1>2, <1>3, <1>4 DEF lk, counts, T

\* The hold account of a member is the locked profit of his packs: what
\* settlements post, withdrawals and cancellations take back in full.
THEOREM LockedMatchesHolds == Spec => []LockedMatches
<1>1. Inv => LockedMatches
    BY OwnPart, NowIs DEF LockedMatches
<1> QED BY <1>1, InvHolds, PTL

\* Every USDT a reward or an overflow paid counts on one bar of its member.
THEOREM IncomeOnBarsHolds == Spec => []IncomeOnBars
<1>1. ASSUME Inv PROVE IncomeOnBars
    <2>1. ASSUME NEW u \in Members, NEW p \in Allowed[u]
          PROVE  u \notin outlasted => held[u] < Plan[p].principal
        BY <1>1, NowIs DEF Inv, HeldOK, Now
    <2>2. \A u \in Members : 0 <= held[u]
        BY <1>1, NowIs
    <2> QED BY <1>1, <2>1, <2>2, OwnPart, NowIs DEF IncomeOnBars
<1> QED BY <1>1, InvHolds, PTL

\* A cancellation gives back exactly what neither a profit nor a commission took.
THEOREM CancelBalancesHolds == Spec => []CancelBalances
<1>1. Inv => CancelBalances
    BY NowIs DEF CancelBalances, RowOK
<1> QED BY <1>1, InvHolds, PTL
=============================================================================
