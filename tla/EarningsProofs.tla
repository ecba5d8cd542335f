--------------------------- MODULE EarningsProofs ---------------------------
(***************************************************************************)
(* What members earn: the tree, the volume and the commissions of Network, *)
(* for any members, purchases, links and limits; and the rewards and ranks *)
(* of Tasks, for any members, tasks, windows and edits.                    *)
(***************************************************************************)
EXTENDS Network, Tasks, Sums

(***************************************************************************)
(* Network: DailyLimitHolds and MatchingConserves; below, BelowSponsor     *)
(* from what a tree is (TreeInv) and PurchasesCount from what counts on    *)
(* its lines (CountInv).                                                   *)
(*                                                                         *)
(* A settlement takes the same number of cycles from both lines and leaves *)
(* no less than nothing (Lines); what it credits fits what the day's limit *)
(* still leaves, because what was credited before did (Credits).  Which    *)
(* line a purchase counts on is the tree's business: both sides of the     *)
(* equation rise together.                                                 *)
(***************************************************************************)
Volumes == [Sides -> Nat]
Lines ==
    /\ volume \in [Users -> Volumes] /\ lifetime \in [Users -> Volumes]
    /\ slots \in [Users -> Nat] /\ vouchers \in [Users -> Nat]
    /\ \A u \in Users : \A side \in Sides :
           volume[u][side] + slots[u] * Unit = lifetime[u][side]
    /\ \A u \in Users : vouchers[u] = slots[u] \div VoucherEvery
Credits ==
    /\ credited \in [Users -> [0 .. LastDay -> Int]] /\ today \in 0 .. LastDay
    /\ \A u \in Users, d \in 0 .. LastDay : credited[u][d] <= Limit
NetworkInv == Lines /\ Credits

LEMMA NetworkStart == NetworkInit => NetworkInv
<1> SUFFICES ASSUME NetworkInit PROVE NetworkInv
    OBVIOUS
<1>1. Unit \in Nat \ {0} /\ VoucherEvery \in Nat \ {0} /\ Limit \in Nat /\ LastDay \in Nat
    BY NetworkAssumption
<1>2. [LEFT |-> 0, RIGHT |-> 0] \in Volumes
    BY DEF Volumes, Sides
<1>3. 0 \div VoucherEvery = 0 /\ 0 * Unit = 0
    BY <1>1
<1>4. Lines
    BY <1>2, <1>3 DEF NetworkInit, Lines, Sides
<1>5. Credits
    BY <1>1 DEF NetworkInit, Credits
<1> QED BY <1>4, <1>5 DEF NetworkInv

LEMMA RaisedLine ==
    ASSUME NEW g \in Volumes, NEW side, NEW amount \in Nat
    PROVE  [g EXCEPT ![side] = @ + amount] \in Volumes
<1>1. \A s \in Sides : g[s] \in Nat /\ g[s] + amount \in Nat
    BY DEF Volumes
<1>2. DOMAIN g = Sides
    BY DEF Volumes
<1> DEFINE h == [g EXCEPT ![side] = @ + amount]
<1>3. DOMAIN h = Sides /\ h = [s \in Sides |-> h[s]]
    BY <1>2
<1>4. \A s \in Sides : h[s] = IF s = side THEN g[s] + amount ELSE g[s]
    BY <1>2
<1> HIDE DEF h
<1>5. h \in Volumes
    BY <1>1, <1>3, <1>4 DEF Volumes
<1> QED BY <1>5 DEF h

LEMMA RaisedType ==
    ASSUME NEW t, NEW u, NEW amount \in Nat, NEW v \in [Users -> Volumes]
    PROVE  Raised(v, t, u, amount) \in [Users -> Volumes]
<1>1. ASSUME NEW a \in Users PROVE Raised(v, t, u, amount)[a] \in Volumes
    <2>1. CASE a \in Above(t, u)
        <3> DEFINE line == Line(t, a, u)
        <3>1. Raised(v, t, u, amount)[a] = [v[a] EXCEPT ![line] = @ + amount]
            BY <2>1 DEF Raised
        <3>2. v[a] \in Volumes
            OBVIOUS
        <3> HIDE DEF line
        <3>3. [v[a] EXCEPT ![line] = @ + amount] \in Volumes
            BY <3>2, RaisedLine
        <3> QED BY <3>1, <3>3
    <2>2. CASE a \notin Above(t, u)
        BY <2>2 DEF Raised
    <2> QED BY <2>1, <2>2
<1> QED BY <1>1 DEF Raised

\* What Raised adds to one of two books it adds to the other.
LEMMA RaisedTogether ==
    ASSUME NEW t, NEW u, NEW amount \in Nat,
           NEW v \in [Users -> Volumes], NEW l \in [Users -> Volumes],
           NEW a \in Users, NEW side \in Sides
    PROVE  Raised(l, t, u, amount)[a][side] - Raised(v, t, u, amount)[a][side]
               = l[a][side] - v[a][side]
<1>1. l[a] \in Volumes /\ v[a] \in Volumes
    OBVIOUS
<1>2. l[a][side] \in Nat /\ v[a][side] \in Nat
    BY <1>1 DEF Volumes
<1>3. CASE a \in Above(t, u)
    <2> DEFINE line == Line(t, a, u)
    <2>1. /\ Raised(l, t, u, amount)[a] = [l[a] EXCEPT ![line] = @ + amount]
          /\ Raised(v, t, u, amount)[a] = [v[a] EXCEPT ![line] = @ + amount]
        BY <1>3 DEF Raised
    <2> HIDE DEF line
    <2>2. [l[a] EXCEPT ![line] = @ + amount][side]
              = IF side = line THEN l[a][side] + amount ELSE l[a][side]
        BY <1>1 DEF Volumes
    <2>3. [v[a] EXCEPT ![line] = @ + amount][side]
              = IF side = line THEN v[a][side] + amount ELSE v[a][side]
        BY <1>1 DEF Volumes
    <2> QED BY <1>2, <2>1, <2>2, <2>3
<1>4. CASE a \notin Above(t, u)
    <2>1. /\ Raised(l, t, u, amount)[a] = l[a]
          /\ Raised(v, t, u, amount)[a] = v[a]
        BY <1>4 DEF Raised
    <2> QED BY <2>1
<1> QED BY <1>3, <1>4

LEMMA ConfirmKeeps == ASSUME NetworkInv, NEW p \in Purchases, Confirm(p) PROVE NetworkInv'
<1>1. /\ volume' = Raised(volume, place', Buyer[p], Amount[p])
      /\ lifetime' = Raised(lifetime, place', Buyer[p], Amount[p])
      /\ UNCHANGED <<slots, vouchers, credited, today>>
    BY DEF Confirm
<1>2. Amount[p] \in Nat
    BY NetworkAssumption
<1>3. volume \in [Users -> Volumes] /\ lifetime \in [Users -> Volumes]
    BY DEF NetworkInv, Lines
<1>4. /\ volume' \in [Users -> Volumes] /\ lifetime' \in [Users -> Volumes]
      /\ \A a \in Users : \A side \in Sides :
             lifetime'[a][side] - volume'[a][side] = lifetime[a][side] - volume[a][side]
    <2>1. volume' \in [Users -> Volumes] /\ lifetime' \in [Users -> Volumes]
        BY <1>1, <1>2, <1>3, RaisedType
    <2>2. ASSUME NEW a \in Users, NEW side \in Sides
          PROVE  lifetime'[a][side] - volume'[a][side] = lifetime[a][side] - volume[a][side]
        BY <1>1, <1>2, <1>3, RaisedTogether
    <2> QED BY <2>1, <2>2
<1>5. ASSUME NEW a \in Users, NEW side \in Sides
      PROVE  volume'[a][side] + slots'[a] * Unit = lifetime'[a][side]
    <2>1. /\ volume'[a][side] \in Nat /\ lifetime'[a][side] \in Nat
          /\ volume[a][side] \in Nat /\ lifetime[a][side] \in Nat
        BY <1>3, <1>4 DEF Volumes
    <2>2. slots[a] * Unit \in Nat
        BY NetworkAssumption DEF NetworkInv, Lines
    <2>3. volume[a][side] + slots[a] * Unit = lifetime[a][side]
        BY DEF NetworkInv, Lines
    <2> QED BY <1>1, <1>4, <2>1, <2>2, <2>3
<1> QED BY <1>1, <1>4, <1>5 DEF NetworkInv, Lines, Credits

\* The reward of a settlement is within what the day's limit leaves.
LEMMA SettleKeepsCredits ==
    ASSUME NetworkInv, NEW u \in Users, SettleBinary(u)
    PROVE  Credits'
<1>1. PICK amount \in 0 .. Reward(u) : credited' = [credited EXCEPT ![u][today] = @ + amount]
    BY DEF SettleBinary
<1>2. credited[u][today] \in Int /\ Limit \in Nat /\ credited[u][today] <= Limit
    BY NetworkAssumption DEF NetworkInv, Credits
<1>3. Allowance(u) = Limit - credited[u][today]
    BY <1>2 DEF Allowance, AtLeast0
<1>4. Matched(volume[u]) \in Int /\ Vouchers(slots[u], Matched(volume[u])) \in Int
    <2>1. volume[u].LEFT \in Nat /\ volume[u].RIGHT \in Nat /\ slots[u] \in Nat
        BY DEF NetworkInv, Lines, Volumes, Sides
    <2>2. Unit \in Nat \ {0} /\ VoucherEvery \in Nat \ {0}
        BY NetworkAssumption
    <2>3. Matched(volume[u]) \in Int
        BY <2>1, <2>2 DEF Matched, Least
    <2>4. ASSUME NEW n \in Int PROVE n \div VoucherEvery \in Int
        BY <2>2
    <2> QED BY <2>1, <2>3, <2>4 DEF Vouchers
<1>5. (Matched(volume[u]) - Vouchers(slots[u], Matched(volume[u]))) * CycleReward \in Int
    BY <1>4, NetworkAssumption
<1>6. Reward(u) \in Int /\ Reward(u) <= Limit - credited[u][today]
    BY <1>2, <1>3, <1>5 DEF Reward, Least
<1>7. amount \in Int /\ credited[u][today] + amount <= Limit
    BY <1>1, <1>2, <1>6
<1>8. UNCHANGED today
    BY DEF SettleBinary
<1> QED BY <1>1, <1>2, <1>7, <1>8 DEF NetworkInv, Credits

LEMMA SettleKeepsLines ==
    ASSUME NetworkInv, NEW u \in Users, SettleBinary(u)
    PROVE  Lines'
<1> DEFINE n == Matched(volume[u])
           v == volume[u]
<1>1. /\ volume' = [volume EXCEPT ![u] = Carry(@, n)]
      /\ slots' = [slots EXCEPT ![u] = @ + n]
      /\ vouchers' = [vouchers EXCEPT ![u] = @ + Vouchers(slots[u], n)]
      /\ UNCHANGED lifetime /\ n > 0
    BY DEF SettleBinary
<1>2. Unit \in Nat \ {0} /\ VoucherEvery \in Nat \ {0}
    BY NetworkAssumption
<1>3. v.LEFT \in Nat /\ v.RIGHT \in Nat /\ slots[u] \in Nat /\ vouchers[u] \in Nat
    BY DEF NetworkInv, Lines, Volumes, Sides
<1>4. n \in Nat /\ n * Unit <= v.LEFT /\ n * Unit <= v.RIGHT
    <2>1. ASSUME NEW m \in Nat PROVE m \div Unit \in Nat /\ (m \div Unit) * Unit <= m
        BY <1>2, <2>1, Z3
    <2>2. Least(v.LEFT, v.RIGHT) \in Nat /\ Least(v.LEFT, v.RIGHT) <= v.LEFT
              /\ Least(v.LEFT, v.RIGHT) <= v.RIGHT
        BY <1>3 DEF Least
    <2>3. n = Least(v.LEFT, v.RIGHT) \div Unit
        BY DEF Matched
    <2>4. n \in Nat /\ n * Unit <= Least(v.LEFT, v.RIGHT)
        BY <2>1, <2>2, <2>3
    <2>5. n * Unit \in Nat
        BY <1>2, <2>4
    <2> QED BY <1>3, <2>2, <2>4, <2>5
<1> HIDE DEF n
<1>5. n * Unit \in Nat /\ (slots[u] + n) * Unit = slots[u] * Unit + n * Unit
      /\ slots[u] * Unit \in Nat
    BY <1>2, <1>3, <1>4
<1>6. /\ Carry(v, n) \in Volumes
      /\ \A side \in Sides : Carry(v, n)[side] = v[side] - n * Unit
    BY <1>3, <1>4, <1>5 DEF Carry, Volumes, Sides
<1>7. volume' \in [Users -> Volumes] /\ slots' \in [Users -> Nat]
    BY <1>1, <1>3, <1>4, <1>6 DEF NetworkInv, Lines
<1>8. vouchers[u] + Vouchers(slots[u], n) = (slots[u] + n) \div VoucherEvery
    <2>1. (slots[u] + n) \div VoucherEvery \in Nat /\ slots[u] \div VoucherEvery \in Nat
        BY <1>2, <1>3, <1>4, Z3
    <2>2. vouchers[u] = slots[u] \div VoucherEvery
        BY DEF NetworkInv, Lines
    <2> QED BY <2>1, <2>2 DEF Vouchers
<1>9. (slots[u] + n) \div VoucherEvery \in Nat
    BY <1>2, <1>3, <1>4, Z3
<1>10. vouchers' \in [Users -> Nat]
       /\ \A a \in Users : vouchers'[a] = slots'[a] \div VoucherEvery
    BY <1>1, <1>8, <1>9 DEF NetworkInv, Lines
<1>11. ASSUME NEW a \in Users, NEW side \in Sides
       PROVE  volume'[a][side] + slots'[a] * Unit = lifetime'[a][side]
    <2>1. volume[a][side] + slots[a] * Unit = lifetime[a][side]
        BY DEF NetworkInv, Lines
    <2>2. CASE a = u
        <3>1. volume[u] \in Volumes /\ volume[u][side] \in Nat
            BY DEF NetworkInv, Lines, Volumes
        <3>2. volume'[u][side] = volume[u][side] - n * Unit /\ slots'[u] = slots[u] + n
            BY <1>1, <1>6 DEF NetworkInv, Lines
        <3>3. volume[u][side] + slots[u] * Unit = lifetime'[u][side]
            BY <1>1, <2>1, <2>2
        <3> QED BY <1>5, <2>2, <3>1, <3>2, <3>3
    <2>3. CASE a # u
        BY <1>1, <2>1, <2>3 DEF NetworkInv, Lines
    <2> QED BY <2>2, <2>3
<1> QED BY <1>1, <1>7, <1>10, <1>11 DEF NetworkInv, Lines

\* What an edit writes: one row, with the ranks of the others as they were.
LEMMA EditedRow ==
    ASSUME task \in [TaskIds -> TaskType], NEW t \in TaskIds, NEW entry \in Edits[t],
           EditTask(t, entry)
    PROVE  /\ task' \in [TaskIds -> TaskType]
           /\ task'[t].version = task[t].version + 1 /\ task'[t].rank = entry.rank
           /\ \A u \in TaskIds : u # t => task'[u] = task[u]
<1>1. task' = [task EXCEPT
          ![t].kind = entry.kind, ![t].daily = entry.daily, ![t].reward = entry.reward,
          ![t].rank = entry.rank, ![t].version = @ + 1, ![t].status = "PUBLISHED"]
    BY DEF EditTask
<1>2. /\ entry.kind \in Kinds /\ entry.daily \in BOOLEAN
      /\ entry.reward \in Nat /\ entry.rank \in Nat
    BY TasksAssumption DEF Inputs
<1> QED BY <1>1, <1>2 DEF TaskType

LEMMA NextKeeps == NetworkInv /\ [NetworkNext]_networkVars => NetworkInv'
<1> SUFFICES ASSUME NetworkInv, [NetworkNext]_networkVars PROVE NetworkInv'
    OBVIOUS
<1>1. ASSUME UNCHANGED <<flows, today>> PROVE NetworkInv'
    BY <1>1 DEF NetworkInv, Lines, Credits, flows
<1>2. ASSUME NEW p \in Purchases, Confirm(p) PROVE NetworkInv'
    BY <1>2, ConfirmKeeps
<1>3. ASSUME NEW u \in Users, SettleBinary(u) PROVE NetworkInv'
    BY <1>3, SettleKeepsLines, SettleKeepsCredits DEF NetworkInv
<1>4. CASE NextNoon
    BY <1>4, NetworkAssumption DEF NextNoon, NetworkInv, Lines, Credits, flows
<1>5. ASSUME NEW l \in Codes, AssignSponsor(l[1], l[2]) \/ CorrectSponsor(l[1], l[2])
      PROVE  NetworkInv'
    BY <1>1, <1>5 DEF AssignSponsor, CorrectSponsor, Assign
<1>6. ASSUME NEW p \in Purchases, Stamp(p) \/ Abort(p) PROVE NetworkInv'
    BY <1>1, <1>6 DEF Stamp, Abort
<1>7. ASSUME NEW u \in Users, Skip(u) PROVE NetworkInv'
    BY <1>1, <1>7 DEF Skip
<1>8. CASE Poll
    BY <1>1, <1>8 DEF Poll
<1>9. CASE UNCHANGED networkVars
    BY <1>1, <1>9 DEF networkVars
<1> QED BY <1>2, <1>3, <1>4, <1>5, <1>6, <1>7, <1>8, <1>9 DEF NetworkNext

LEMMA SpecInv == NetworkSpec => []NetworkInv
BY NetworkStart, NextKeeps, PTL DEF NetworkSpec

\* However many settlements a day has and however volume arrives between
\* them, no member is credited more than his limit between two noons
\* (settleBinary).
THEOREM DailyLimitHoldsAlways == NetworkSpec => []DailyLimitHolds
<1>1. NetworkInv => DailyLimitHolds
    BY DEF NetworkInv, Credits, DailyLimitHolds
<1> QED BY <1>1, SpecInv, PTL

\* For any tree, purchases and unit, matching neither loses nor repeats volume
\* and gives the vouchers of the cycles matched (binarySettlement).
THEOREM MatchingConservesHolds == NetworkSpec => []MatchingConserves
<1>1. NetworkInv => MatchingConserves
    BY DEF NetworkInv, Lines, MatchingConserves
<1> QED BY <1>1, SpecInv, PTL

----------------------------------------------------------------------------
(* Binary trees.  A tree grows by leaves and roots, and the recursion of Above *)
(* has one solution for each.                                                  *)

Rows == [parent : Users \cup {Nobody}, side : Sides \cup {"NONE", "TOP"}]
Trees == [Users -> Rows]
UpOf(t, f, v) == IF t[v].parent = Nobody THEN {} ELSE {t[v].parent} \cup f[t[v].parent]
IsUp(t, f) == f = [v \in Users |-> UpOf(t, f, v)]
Grown(t) ==
    /\ t \in Trees
    /\ \E f : IsUp(t, f)
    /\ \A f, g : IsUp(t, f) /\ IsUp(t, g) => f = g
    /\ \A v \in Users :
          t[v].parent # Nobody => t[v].side \in Sides /\ t[t[v].parent] # Unplaced
    /\ \A v, w \in Users : v # w /\ t[v].parent # Nobody => t[v] # t[w]
Ordered(t) ==
    /\ \A v \in Users : v \notin Above(t, v) /\ Above(t, v) \subseteq Placed(t)
    /\ \A a, b, c \in Users : a \in Above(t, b) /\ b \in Above(t, c) => a \in Above(t, c)
    /\ \A a, v \in Users :
          a \in Above(t, v) => \E c \in Children(t, a) : c = v \/ c \in Above(t, v)

\* A root, or a leaf on a free side of a placed member.
Free(t, row) ==
    \/ row.parent = Nobody
    \/ /\ row.parent \in Placed(t) /\ row.side \in Sides
       /\ \A v \in Children(t, row.parent) : t[v].side # row.side

Put(t, u, row) == [t EXCEPT ![u] = row]

LEMMA UpPointwise ==
    ASSUME NEW t, NEW f
    PROVE  IsUp(t, f) <=> /\ f = [v \in Users |-> f[v]]
                          /\ \A v \in Users : f[v] = UpOf(t, f, v)
<1>1. ASSUME IsUp(t, f)
      PROVE  f = [v \in Users |-> f[v]] /\ \A v \in Users : f[v] = UpOf(t, f, v)
    <2> DEFINE g == [v \in Users |-> UpOf(t, f, v)]
    <2>1. f = g
        BY <1>1 DEF IsUp
    <2>2. \A v \in Users : g[v] = UpOf(t, f, v)
        OBVIOUS
    <2>3. g = [v \in Users |-> g[v]]
        OBVIOUS
    <2> HIDE DEF g
    <2> QED BY <2>1, <2>2, <2>3
<1>2. ASSUME f = [v \in Users |-> f[v]], \A v \in Users : f[v] = UpOf(t, f, v)
      PROVE  IsUp(t, f)
    <2>1. [v \in Users |-> f[v]] = [v \in Users |-> UpOf(t, f, v)]
        BY <1>2
    <2> QED BY <1>2, <2>1 DEF IsUp
<1> QED BY <1>1, <1>2

\* Above solves its recursion, and is the only solution.
LEMMA AboveIs ==
    ASSUME NEW t, Grown(t)
    PROVE  /\ \A v \in Users : Above(t, v) = IF t[v].parent = Nobody THEN {}
                                ELSE {t[v].parent} \cup Above(t, t[v].parent)
           /\ \A f : IsUp(t, f) => \A v \in Users : f[v] = Above(t, v)
<1> DEFINE above == CHOOSE f : IsUp(t, f)
<1>1. IsUp(t, above)
    BY DEF Grown
<1>2. \A v : Above(t, v) = above[v]
    BY DEF Above, IsUp, UpOf
<1> HIDE DEF above
<1>3. \A v \in Users : above[v] = UpOf(t, above, v)
    BY <1>1, UpPointwise
<1>4. \A f : IsUp(t, f) => f = above
    BY <1>1 DEF Grown
<1> QED BY <1>2, <1>3, <1>4 DEF UpOf

\* A new leaf or root: those that were there see what they saw.
LEMMA NewLeaf ==
    ASSUME NEW t, Grown(t), Ordered(t), NEW u \in Users, t[u] = Unplaced,
           NEW row \in Rows, row # Unplaced, Free(t, row),
           NEW d, d = Put(t, u, row)
    PROVE  /\ Grown(d)
           /\ Placed(d) = Placed(t) \cup {u}
           /\ \A v \in Users \ {u} : d[v] = t[v] /\ Above(d, v) = Above(t, v)
           /\ Above(d, u) = IF row.parent = Nobody THEN {}
                            ELSE {row.parent} \cup Above(t, row.parent)
<1> DEFINE p == row.parent
<1>1. /\ t \in Trees /\ d \in Trees /\ d[u] = row
      /\ \A v \in Users \ {u} : d[v] = t[v]
    BY DEF Grown, Trees, Put
<1>2. \A v \in Users : t[v].parent # u
    <2>1. u # Nobody
        BY NetworkAssumption
    <2> QED BY <2>1 DEF Grown
<1>3. p # u /\ (p = Nobody \/ p \in Users)
    BY NetworkAssumption DEF Placed, Free
<1>4. t[u].parent = Nobody
    BY DEF Unplaced
<1>5. PICK f : IsUp(t, f)
    BY DEF Grown
<1>6. f = [v \in Users |-> f[v]] /\ \A v \in Users : f[v] = UpOf(t, f, v)
    BY <1>5, UpPointwise
<1> DEFINE new == IF p = Nobody THEN {} ELSE {p} \cup f[p]
           h == [v \in Users |-> IF v = u THEN new ELSE f[v]]
<1>7. h[u] = new /\ \A v \in Users \ {u} : h[v] = f[v]
    OBVIOUS
<1>8. h = [v \in Users |-> h[v]]
    OBVIOUS
<1> HIDE DEF h
<1>9. IsUp(d, h)
    <2>1. h[u] = UpOf(d, h, u)
        BY <1>1, <1>3, <1>7 DEF UpOf
    <2>2. ASSUME NEW v \in Users \ {u} PROVE h[v] = UpOf(d, h, v)
        <3>1. d[v].parent = t[v].parent /\ t[v].parent # u
            BY <1>1, <1>2
        <3>2. t[v].parent = Nobody \/ t[v].parent \in Users
            BY <1>1 DEF Trees, Rows
        <3>3. UpOf(d, h, v) = UpOf(t, f, v)
            BY <1>7, <3>1, <3>2 DEF UpOf
        <3> QED BY <1>6, <1>7, <3>3
    <2> QED BY <1>8, <2>1, <2>2, UpPointwise
<1>10. ASSUME NEW g, IsUp(d, g) PROVE g = h
    <2>1. g = [v \in Users |-> g[v]] /\ \A v \in Users : g[v] = UpOf(d, g, v)
        BY <1>10, UpPointwise
    <2> DEFINE e == [v \in Users |-> IF v = u THEN {} ELSE g[v]]
    <2>2. e = [v \in Users |-> e[v]] /\ e[u] = {} /\ \A v \in Users \ {u} : e[v] = g[v]
        OBVIOUS
    <2> HIDE DEF e
    <2>3. ASSUME NEW v \in Users PROVE e[v] = UpOf(t, e, v)
        <3>1. CASE v = u
            BY <1>4, <2>2, <3>1 DEF UpOf
        <3>2. CASE v # u
            <4>1. d[v].parent = t[v].parent /\ t[v].parent # u
                BY <1>1, <1>2, <3>2
            <4>2. t[v].parent = Nobody \/ t[v].parent \in Users
                BY <1>1 DEF Trees, Rows
            <4>3. UpOf(d, g, v) = UpOf(t, e, v)
                BY <2>2, <4>1, <4>2 DEF UpOf
            <4> QED BY <2>1, <2>2, <3>2, <4>3
        <3> QED BY <3>1, <3>2
    <2>4. IsUp(t, e)
        BY <2>2, <2>3, UpPointwise
    <2>5. e = f
        BY <1>5, <2>4 DEF Grown
    <2>6. \A v \in Users \ {u} : g[v] = f[v]
        BY <2>2, <2>5
    <2>7. g[u] = new
        <3>1. g[u] = UpOf(d, g, u)
            BY <2>1
        <3> QED BY <1>1, <1>3, <2>6, <3>1 DEF UpOf
    <2> HIDE DEF new
    <2>8. \A v \in Users : g[v] = h[v]
        BY <1>7, <2>6, <2>7
    <2>9. [v \in Users |-> g[v]] = [v \in Users |-> h[v]]
        BY <2>8
    <2> QED BY <1>8, <2>1, <2>9
<1>11. \A v \in Users : v # u /\ d[v].parent # Nobody =>
           d[v].side \in Sides /\ d[d[v].parent] # Unplaced
    <2> TAKE v \in Users
    <2>1. CASE v # u /\ t[v].parent # Nobody
        <3>1. t[v].side \in Sides /\ t[t[v].parent] # Unplaced /\ t[v].parent \in Users \ {u}
            BY <1>1, <1>2, <2>1 DEF Grown, Trees, Rows
        <3> QED BY <1>1, <2>1, <3>1
    <2> QED BY <1>1, <2>1
<1>12. row.parent # Nobody => row.side \in Sides /\ d[row.parent] # Unplaced
    BY <1>1, <1>3 DEF Placed, Free
<1>13. ASSUME NEW v \in Users, NEW w \in Users, v # w, d[v].parent # Nobody PROVE d[v] # d[w]
    <2>1. CASE v # u /\ w # u
        BY <1>1, <1>13, <2>1 DEF Grown
    <2>2. CASE v = u
        <3>1. w \in Users \ {u} /\ d[w] = t[w]
            BY <1>1, <1>13, <2>2
        <3>2. p # Nobody /\ d[v] = row
            BY <1>1, <1>13, <2>2
        <3>3. t[w].parent = p => t[w].side # row.side
            BY <3>2 DEF Children, Free
        <3> QED BY <3>1, <3>2, <3>3
    <2>3. CASE w = u
        <3>1. v \in Users \ {u} /\ d[v] = t[v] /\ d[w] = row
            BY <1>1, <1>13, <2>3
        <3>2. t[v].parent = p => t[v].side # row.side
            BY <1>13, <3>1 DEF Children, Free
        <3> QED BY <3>1, <3>2
    <2> QED BY <2>1, <2>2, <2>3
<1>14. Grown(d)
    BY <1>1, <1>9, <1>10, <1>11, <1>12, <1>13 DEF Grown
<1>15. Placed(d) = Placed(t) \cup {u}
    BY <1>1 DEF Placed
<1>16. /\ \A v \in Users : Above(d, v) = h[v]
       /\ \A v \in Users : Above(t, v) = f[v]
    BY <1>5, <1>9, <1>14, AboveIs
<1>17. Above(d, u) = IF p = Nobody THEN {} ELSE {p} \cup Above(t, p)
    BY <1>3, <1>7, <1>16
<1> HIDE DEF new
<1>18. \A v \in Users \ {u} : d[v] = t[v] /\ Above(d, v) = Above(t, v)
    <2> TAKE v \in Users \ {u}
    <2>1. Above(d, v) = h[v] /\ h[v] = f[v] /\ f[v] = Above(t, v)
        BY <1>7, <1>16
    <2> QED BY <1>1, <2>1
<1> QED BY <1>14, <1>15, <1>17, <1>18

\* It has no child yet, so nothing above anybody changes its order.
LEMMA NewLeafOrdered ==
    ASSUME NEW t, Grown(t), Ordered(t), NEW u \in Users, t[u] = Unplaced,
           NEW d, Placed(d) = Placed(t) \cup {u},
           \A v \in Users \ {u} : d[v] = t[v] /\ Above(d, v) = Above(t, v),
           NEW p, p = Nobody \/ p \in Placed(t), d[u].parent = p,
           Above(d, u) = IF p = Nobody THEN {} ELSE {p} \cup Above(t, p)
    PROVE  Ordered(d)
<1>1. u \notin Placed(t) /\ Placed(t) \subseteq Users /\ u # Nobody /\ Nobody \notin Users
    BY NetworkAssumption DEF Placed
<1>2. \A v \in Users : v \notin Above(t, v) /\ Above(t, v) \subseteq Placed(t)
    BY DEF Ordered
<1>3. Above(d, u) \subseteq Placed(t)
    BY <1>1, <1>2
<1>4. \A v \in Users : v \notin Above(d, v) /\ Above(d, v) \subseteq Placed(t)
    <2> TAKE v \in Users
    <2>1. CASE v = u
        BY <1>1, <1>3, <2>1
    <2>2. CASE v # u
        BY <1>2, <2>2
    <2> QED BY <2>1, <2>2
<1>5. ASSUME NEW a \in Users, NEW b \in Users, NEW c \in Users,
             a \in Above(d, b), b \in Above(d, c)
      PROVE  a \in Above(d, c)
    <2>1. a \in Placed(t) /\ b \in Placed(t) /\ a # u /\ b # u
        BY <1>1, <1>4, <1>5
    <2>2. a \in Above(t, b)
        BY <1>5, <2>1
    <2>3. CASE c # u
        BY <1>5, <2>2, <2>3 DEF Ordered
    <2>4. CASE c = u
        <3>1. p # Nobody /\ p \in Users /\ (b = p \/ b \in Above(t, p))
            BY <1>1, <1>5, <2>4
        <3>2. a \in Above(t, p)
            BY <2>2, <3>1 DEF Ordered
        <3> QED BY <2>4, <3>1, <3>2
    <2> QED BY <2>3, <2>4
<1>6. \A a \in Users : Children(t, a) \subseteq Children(d, a)
    <2>1. \A a \in Users : u \notin Children(t, a)
        BY <1>1 DEF Children, Unplaced
    <2> QED BY <2>1 DEF Children
<1>7. ASSUME NEW a \in Users, NEW v \in Users, a \in Above(d, v)
      PROVE  \E c \in Children(d, a) : c = v \/ c \in Above(d, v)
    <2>1. CASE v # u
        <3>1. PICK c \in Children(t, a) : c = v \/ c \in Above(t, v)
            BY <1>7, <2>1 DEF Ordered
        <3> QED BY <1>6, <2>1, <3>1
    <2>2. CASE v = u /\ a = p
        BY <2>2 DEF Children
    <2>3. CASE v = u /\ a # p
        <3>1. p # Nobody /\ p \in Users /\ a \in Above(t, p)
            BY <1>1, <1>7, <2>3
        <3>2. PICK c \in Children(t, a) : c = p \/ c \in Above(t, p)
            BY <3>1 DEF Ordered
        <3> QED BY <1>6, <2>3, <3>1, <3>2
    <2> QED BY <2>1, <2>2, <2>3
<1> QED BY <1>1, <1>4, <1>5, <1>7 DEF Ordered

\* A finite set of two.
LEMMA TwoMembers ==
    ASSUME NEW S, IsFiniteSet(S), Cardinality(S) = 2
    PROVE  \E a, b \in S : a # b
<1>1. S # {}
    BY FS_EmptySet
<1>2. PICK a \in S : TRUE
    BY <1>1
<1>3. IsFiniteSet(S \ {a}) /\ Cardinality(S \ {a}) = 1
    BY FS_RemoveElement
<1>4. S \ {a} # {}
    BY <1>3, FS_EmptySet
<1> QED BY <1>2, <1>4

LEMMA ChildrenFinite ==
    ASSUME NEW t, NEW s
    PROVE  IsFiniteSet(Children(t, s)) /\ Children(t, s) \subseteq Users
<1>1. Children(t, s) \subseteq Users /\ IsFiniteSet(Users)
    BY NetworkAssumption DEF Children
<1> QED BY <1>1, FS_Subset

LEMMA MaxIsIn ==
    ASSUME NEW S, IsFiniteSet(S), S \subseteq Nat, S # {}
    PROVE  Max(S) \in S /\ \A n \in S : n <= Max(S)
<1>1. S \subseteq Int
    OBVIOUS
<1>2. PICK m \in S : \A n \in S : n <= m
    BY <1>1, LargestNumber
<1>3. \A n \in S : m >= n
    BY <1>1, <1>2
<1>4. Max(S) \in S /\ \A n \in S : Max(S) >= n
    BY <1>3 DEF Max
<1> QED BY <1>1, <1>4

\* Of the positions of a line the deepest have no child, and the last of them
\* by id is one of them.
LEMMA DeepestHasNoChild ==
    ASSUME NEW t, Grown(t), Ordered(t), NEW S, S \subseteq Placed(t), S # {},
           \A v \in S : Children(t, v) \subseteq S,
           NEW deepest,
           deepest = {v \in S : \A w \in S : Cardinality(Above(t, w)) <= Cardinality(Above(t, v))}
    PROVE  Max(deepest) \in S /\ Children(t, Max(deepest)) = {}
<1> DEFINE depth(v) == Cardinality(Above(t, v))
           D == {depth(v) : v \in S}
<1>1. Placed(t) \subseteq Users /\ S \subseteq Users /\ IsFiniteSet(Users) /\ Users \subseteq Nat
    BY NetworkAssumption DEF Placed
<1>2. \A v \in Users : IsFiniteSet(Above(t, v)) /\ Cardinality(Above(t, v)) \in Nat
    <2> TAKE v \in Users
    <2>1. Above(t, v) \subseteq Users
        BY <1>1 DEF Ordered
    <2>2. IsFiniteSet(Above(t, v))
        BY <1>1, <2>1, FS_Subset
    <2> QED BY <2>2, FS_CardinalityType
<1>3. D \subseteq Nat /\ D # {}
    BY <1>1, <1>2
<1>4. IsFiniteSet(D)
    <2>1. IsFiniteSet(S)
        BY <1>1, FS_Subset
    <2> DEFINE e == [v \in S |-> depth(v)]
    <2>2. e \in Surjection(S, D)
        BY DEF Surjection
    <2> HIDE DEF e, D
    <2> QED BY <2>1, <2>2, FS_Surjection
<1>5. PICK m \in D : \A n \in D : n <= m
    <2> HIDE DEF D
    <2>1. D \subseteq Int
        BY <1>3
    <2> QED BY <1>3, <1>4, <2>1, LargestNumber
<1>6. PICK v \in S : m = depth(v)
    BY <1>5
<1>7. v \in deepest
    <2>1. \A w \in S : depth(w) <= depth(v)
        BY <1>5, <1>6
    <2> QED BY <2>1
<1>8. deepest \subseteq S /\ IsFiniteSet(deepest)
    <2>1. deepest \subseteq S /\ deepest \subseteq Users
        BY <1>1
    <2> QED BY <1>1, <2>1, FS_Subset
<1>9. Max(deepest) \in deepest
    <2>1. IsFiniteSet(deepest) /\ deepest \subseteq Nat /\ deepest # {}
        BY <1>1, <1>7, <1>8, Zenon
    <2> QED BY <2>1, MaxIsIn
<1> DEFINE x == Max(deepest)
<1> HIDE DEF x
<1>10. x \in S /\ \A w \in S : depth(w) <= depth(x)
    BY <1>9 DEF x
<1>11. ASSUME NEW c \in Children(t, x) PROVE FALSE
    <2>1. c \in S /\ c \in Users /\ x \in Users /\ x # Nobody
        BY <1>1, <1>10, <1>11, NetworkAssumption
    <2>2. Above(t, c) = {x} \cup Above(t, x)
        BY <1>11, <2>1, AboveIs DEF Children
    <2>3. x \notin Above(t, x)
        BY <2>1 DEF Ordered
    <2>4. depth(c) = depth(x) + 1
        <3>1. Cardinality(Above(t, x) \cup {x}) = Cardinality(Above(t, x)) + 1
            BY <1>2, <2>1, <2>3, FS_AddElement
        <3>2. Above(t, x) \cup {x} = {x} \cup Above(t, x)
            OBVIOUS
        <3> QED BY <2>2, <3>1, <3>2
    <2>5. depth(c) <= depth(x) /\ depth(x) \in Nat
        BY <1>2, <1>10, <2>1
    <2> QED BY <2>4, <2>5
<1> QED BY <1>10, <1>11 DEF x

\* The two lines of a position are two sides.
LEMMA BothSides ==
    ASSUME NEW t, Grown(t), NEW s \in Users,
           NEW a \in Children(t, s), NEW b \in Children(t, s), a # b
    PROVE  /\ t[a].side \in Sides /\ t[b].side \in Sides /\ t[a].side # t[b].side
           /\ Children(t, s) = {a, b}
<1>1. s # Nobody
    BY NetworkAssumption
<1>2. \A v \in Children(t, s) : v \in Users /\ t[v] \in Rows /\ t[v].parent = s /\ t[v].side \in Sides
    BY <1>1 DEF Children, Grown, Trees
<1>3. \A v, w \in Children(t, s) : v # w => t[v].side # t[w].side
    <2> TAKE v, w \in Children(t, s)
    <2>1. v # w => t[v] # t[w]
        BY <1>1, <1>2 DEF Grown
    <2>2. t[v] = [parent |-> t[v].parent, side |-> t[v].side]
          /\ t[w] = [parent |-> t[w].parent, side |-> t[w].side]
        BY <1>2 DEF Rows
    <2> QED BY <1>2, <2>1, <2>2
<1>4. ASSUME NEW c \in Children(t, s), c # a, c # b PROVE FALSE
    BY <1>2, <1>3, <1>4 DEF Sides
<1> QED BY <1>2, <1>3, <1>4

\* Spillover stays below the sponsor and finds a position without a child.
LEMMA SpilloverFits ==
    ASSUME NEW t, Grown(t), Ordered(t), NEW s \in Placed(t), NEW life,
           Cardinality(Children(t, s)) = 2
    PROVE  LET w == Spillover(t, s, life)
           IN  w \in Placed(t) /\ s \in Above(t, w) /\ Children(t, w) = {}
<1> DEFINE line == IF life[s].LEFT <= life[s].RIGHT THEN "LEFT" ELSE "RIGHT"
           top == CHOOSE v \in Children(t, s) : t[v].side = line
           S == Below(t, top)
           deepest == {v \in S : \A w \in S :
                           Cardinality(Above(t, w)) <= Cardinality(Above(t, v))}
<1>1. Spillover(t, s, life) = Max(deepest)
    BY DEF Spillover
<1>2. s \in Users /\ s # Nobody /\ Placed(t) \subseteq Users
    BY NetworkAssumption DEF Placed
<1>3. top \in Children(t, s)
    <2>1. PICK a, b \in Children(t, s) : a # b
        BY ChildrenFinite, TwoMembers
    <2>2. t[a].side \in Sides /\ t[b].side \in Sides /\ t[a].side # t[b].side
        BY <1>2, <2>1, BothSides
    <2>3. line \in Sides
        BY DEF Sides
    <2> HIDE DEF line
    <2> QED BY <2>2, <2>3 DEF Sides
<1> HIDE DEF top
<1>4. top \in Users /\ top \in Placed(t) /\ Above(t, top) = {s} \cup Above(t, s)
    <2>1. top \in Users /\ t[top].parent = s
        BY <1>3 DEF Children
    <2> QED BY <1>2, <2>1, AboveIs DEF Placed, Unplaced
<1>5. S \subseteq Placed(t) /\ S # {}
    BY <1>4 DEF Below
<1>6. ASSUME NEW v \in S, NEW c \in Children(t, v) PROVE c \in S
    <2>1. v \in Users /\ v # Nobody /\ c \in Users /\ t[c].parent = v /\ c \in Placed(t)
        BY <1>2, <1>5, NetworkAssumption DEF Children, Placed, Unplaced
    <2>2. Above(t, c) = {v} \cup Above(t, v)
        BY <2>1, AboveIs
    <2> QED BY <2>1, <2>2 DEF Below
<1>7. \A w \in S : s \in Above(t, w)
    BY <1>2, <1>4, <1>5 DEF Below, Ordered
<1>8. Max(deepest) \in S /\ Children(t, Max(deepest)) = {}
    <2> HIDE DEF S
    <2> QED BY <1>5, <1>6, DeepestHasNoChild
<1> HIDE DEF deepest, S
<1> QED BY <1>1, <1>5, <1>7, <1>8

\* Where a member goes is free, and at or below his sponsor.
LEMMA ParentFits ==
    ASSUME NEW t, Grown(t), Ordered(t), NEW s \in Placed(t), NEW life
    PROVE  LET w == Parent(t, s, life)
           IN  /\ w \in Placed(t) /\ s \in {w} \cup Above(t, w)
               /\ Side(t, w) \in Sides
               /\ \A v \in Children(t, w) : t[v].side # Side(t, w)
<1>1. s \in Users /\ Placed(t) \subseteq Users
    BY DEF Placed
<1>2. \A w : Side(t, w) \in Sides
    BY DEF Side, Sides
<1>3. CASE Cardinality(Children(t, s)) = 2
    <2>1. Parent(t, s, life) = Spillover(t, s, life)
        BY <1>3 DEF Parent
    <2> QED BY <1>2, <1>3, <2>1, SpilloverFits
<1>4. CASE Cardinality(Children(t, s)) # 2
    <2>1. Parent(t, s, life) = s
        BY <1>4 DEF Parent
    <2>2. ASSUME NEW v \in Children(t, s), t[v].side = Side(t, s) PROVE FALSE
        <3>1. CASE \E a \in Children(t, s) : t[a].side = "LEFT"
            <4>1. PICK a \in Children(t, s) : t[a].side = "LEFT"
                BY <3>1
            <4>2. t[v].side = "RIGHT"
                BY <2>2, <3>1 DEF Side
            <4>3. a # v
                BY <4>1, <4>2
            <4>4. Children(t, s) = {a, v}
                BY <1>1, <4>3, BothSides
            <4>5. Cardinality({a, v}) = 2
                <5>1. {a, v} = {a} \cup {v} /\ v \notin {a}
                    BY <4>3
                <5>2. IsFiniteSet({a}) /\ Cardinality({a}) = 1
                    BY FS_Singleton
                <5> QED BY <5>1, <5>2, FS_AddElement
            <4> QED BY <1>4, <4>4, <4>5
        <3>2. CASE ~ \E a \in Children(t, s) : t[a].side = "LEFT"
            BY <2>2, <3>2 DEF Side
        <3> QED BY <3>1, <3>2
    <2> QED BY <1>1, <1>2, <2>1, <2>2
<1> QED BY <1>3, <1>4

----------------------------------------------------------------------------
(* Placing.  A tree is kept when what is placed stays where it is; a placement *)
(* adds one member below his sponsor.                                          *)

Anchored(t) == \A u \in Placed(t) : sponsor[u] # Nobody => sponsor[u] \in Above(t, u)
Sound(t) == Grown(t) /\ Ordered(t) /\ Anchored(t)
Stays(t, d) ==
    /\ Placed(t) \subseteq Placed(d)
    /\ \A v \in Placed(t) : d[v] = t[v] /\ Above(d, v) = Above(t, v)

LEMMA PlacedOne ==
    ASSUME NEW t, Sound(t), NEW u \in Users, u \notin Placed(t),
           sponsor[u] = Nobody \/ sponsor[u] \in Placed(t), NEW life
    PROVE  LET d == PlaceOne(t, u, life)
           IN  Sound(d) /\ Stays(t, d) /\ Placed(d) = Placed(t) \cup {u}
<1> DEFINE w == Parent(t, sponsor[u], life)
           row == IF sponsor[u] = Nobody THEN Root
                  ELSE [parent |-> w, side |-> Side(t, w)]
           d == [t EXCEPT ![u] = row]
<1>1. PlaceOne(t, u, life) = d
    BY DEF PlaceOne, PlaceUnder
<1>2. t[u] = Unplaced /\ Grown(t) /\ Ordered(t) /\ Anchored(t) /\ t \in Trees
    BY DEF Placed, Sound, Grown
<1>3. Nobody \notin Users /\ Placed(t) \subseteq Users
    BY NetworkAssumption DEF Placed
<1>4. /\ row \in Rows /\ row # Unplaced
      /\ \/ row.parent = Nobody
         \/ /\ row.parent \in Placed(t) /\ row.side \in Sides
            /\ \A v \in Children(t, row.parent) : t[v].side # row.side
      /\ sponsor[u] = Nobody => row.parent = Nobody
      /\ sponsor[u] # Nobody =>
            /\ row.parent \in Placed(t)
            /\ sponsor[u] \in {row.parent} \cup Above(t, row.parent)
    <2>1. CASE sponsor[u] = Nobody
        BY <2>1 DEF Root, Unplaced, Rows
    <2>2. CASE sponsor[u] # Nobody
        <3>1. /\ w \in Placed(t) /\ sponsor[u] \in {w} \cup Above(t, w)
              /\ Side(t, w) \in Sides
              /\ \A v \in Children(t, w) : t[v].side # Side(t, w)
            BY <1>2, <2>2, ParentFits
        <3>2. row = [parent |-> w, side |-> Side(t, w)]
            BY <2>2
        <3> HIDE DEF w, row
        <3>3. row.parent = w /\ row.side = Side(t, w)
            BY <3>2
        <3>4. row \in Rows /\ row # Unplaced
            BY <1>3, <3>1, <3>2 DEF Rows, Unplaced, Sides
        <3> QED BY <2>2, <3>1, <3>3, <3>4
    <2> QED BY <2>1, <2>2
<1>5. row.parent = Nobody \/ row.parent \in Placed(t)
    BY <1>4
<1>6. d[u] = row
    BY <1>2 DEF Trees
<1> HIDE DEF row
<1>7. /\ Grown(d)
      /\ Placed(d) = Placed(t) \cup {u}
      /\ \A v \in Users \ {u} : d[v] = t[v] /\ Above(d, v) = Above(t, v)
      /\ Above(d, u) = IF row.parent = Nobody THEN {}
                       ELSE {row.parent} \cup Above(t, row.parent)
    <2>1. row \in Rows /\ row # Unplaced /\ t[u] = Unplaced
        BY <1>2, <1>4
    <2>2. Free(t, row)
        BY <1>4 DEF Free
    <2>3. PICK e : e = Put(t, u, row)
        OBVIOUS
    <2>4. /\ Grown(e)
          /\ Placed(e) = Placed(t) \cup {u}
          /\ \A v \in Users \ {u} : e[v] = t[v] /\ Above(e, v) = Above(t, v)
          /\ Above(e, u) = IF row.parent = Nobody THEN {}
                           ELSE {row.parent} \cup Above(t, row.parent)
        BY <1>2, <2>1, <2>2, <2>3, NewLeaf
    <2>5. e = d
        BY <2>3 DEF Put
    <2> HIDE DEF d
    <2> QED BY <2>4, <2>5
<1> HIDE DEF d
<1>8. Ordered(d)
    <2>1. PICK p : p = row.parent
        OBVIOUS
    <2> QED BY <1>2, <1>5, <1>6, <1>7, <2>1, NewLeafOrdered
<1>9. Stays(t, d)
    BY <1>3, <1>7 DEF Stays, Placed
<1>10. Anchored(d)
    <2> SUFFICES ASSUME NEW v \in Placed(d), sponsor[v] # Nobody
                 PROVE  sponsor[v] \in Above(d, v)
        BY DEF Anchored
    <2>1. CASE v = u
        <3>1. row.parent # Nobody
            BY <1>3, <1>4, <2>1
        <3> QED BY <1>4, <1>7, <2>1, <3>1
    <2>2. CASE v # u
        <3>1. v \in Placed(t) /\ v \in Users \ {u}
            BY <1>3, <1>7, <2>2
        <3>2. sponsor[v] \in Above(t, v)
            BY <1>2, <3>1 DEF Anchored
        <3> QED BY <1>7, <3>1, <3>2
    <2> QED BY <2>1, <2>2
<1> QED BY <1>1, <1>7, <1>8, <1>9, <1>10 DEF Sound

LEMMA StaysAfter ==
    ASSUME NEW t, NEW d, NEW e, Stays(t, d), Stays(d, e) PROVE Stays(t, e)
BY DEF Stays

\* The sponsors above a member, one after the other.
IsChain(u, n, f) ==
    f = [k \in 0 .. n |-> IF k = 0 THEN u
                          ELSE IF f[k - 1] = Nobody THEN Nobody
                          ELSE sponsor[f[k - 1]]]

LEMMA ChainExists == ASSUME NEW u, NEW n \in Nat PROVE \E f : IsChain(u, n, f)
<1> DEFINE T == {m \in Nat : ~ \E f : IsChain(u, m, f)}
<1>1. SUFFICES ASSUME n \in T PROVE FALSE
    OBVIOUS
<1>2. PICK m \in T : \A k \in T : m <= k
    <2>1. T \subseteq Nat /\ T # {}
        BY <1>1
    <2> HIDE DEF T
    <2> QED BY <2>1, SmallestNumber
<1>3. CASE m = 0
    <2> DEFINE f == [k \in 0 .. 0 |-> u]
    <2>1. f = [k \in 0 .. 0 |-> IF k = 0 THEN u ELSE IF f[k - 1] = Nobody THEN Nobody
                                ELSE sponsor[f[k - 1]]]
        OBVIOUS
    <2>2. IsChain(u, m, f)
        BY <1>3, <2>1 DEF IsChain
    <2> QED BY <1>2, <2>2
<1>4. CASE m # 0
    <2>1. m - 1 \in Nat /\ m - 1 \notin T
        <3>1. m \in Nat /\ m - 1 \in Nat /\ ~(m <= m - 1)
            BY <1>2, <1>4
        <3> HIDE DEF T
        <3> QED BY <1>2, <3>1
    <2>2. PICK g : IsChain(u, m - 1, g)
        BY <2>1
    <2> DEFINE last == IF g[m - 1] = Nobody THEN Nobody ELSE sponsor[g[m - 1]]
               f == [k \in 0 .. m |-> IF k = m THEN last ELSE g[k]]
    <2>3. \A k \in 0 .. m - 1 : f[k] = g[k]
        OBVIOUS
    <2>4. f[m] = last /\ f = [k \in 0 .. m |-> f[k]]
        OBVIOUS
    <2> HIDE DEF f
    <2>5. \A k \in 0 .. m - 1 : g[k] = IF k = 0 THEN u
                                       ELSE IF g[k - 1] = Nobody THEN Nobody
                                       ELSE sponsor[g[k - 1]]
        BY <2>2 DEF IsChain
    <2>6. \A k \in 0 .. m : f[k] = IF k = 0 THEN u
                                   ELSE IF f[k - 1] = Nobody THEN Nobody
                                   ELSE sponsor[f[k - 1]]
        <3> TAKE k \in 0 .. m
        <3>1. CASE k = m
            <4>1. f[k - 1] = g[k - 1]
                BY <1>4, <2>3, <3>1
            <4> QED BY <1>4, <2>4, <3>1, <4>1
        <3>2. CASE k # m /\ k # 0
            <4>1. k \in 0 .. m - 1 /\ k - 1 \in 0 .. m - 1
                BY <3>2
            <4> QED BY <2>3, <2>5, <3>2, <4>1
        <3>3. CASE k # m /\ k = 0
            <4>1. k \in 0 .. m - 1
                BY <3>3
            <4> QED BY <2>3, <2>5, <3>3, <4>1
        <3> QED BY <3>1, <3>2, <3>3
    <2>7. IsChain(u, m, f)
        BY <2>4, <2>6 DEF IsChain
    <2> QED BY <1>2, <2>7
<1> QED BY <1>3, <1>4

LEMMA AncestorIs ==
    ASSUME sponsor \in [Users -> Users \cup {Nobody}], NEW u \in Users
    PROVE  LET a == Ancestor(u)
               n == Cardinality(Users)
           IN  /\ n \in Nat /\ DOMAIN a = 0 .. n /\ a[0] = u
               /\ \A k \in 0 .. n : a[k] \in Users \cup {Nobody}
               /\ \A k \in 0 .. n - 1 :
                     a[k + 1] = IF a[k] = Nobody THEN Nobody ELSE sponsor[a[k]]
<1> DEFINE n == Cardinality(Users)
           a == CHOOSE f : IsChain(u, n, f)
<1>1. n \in Nat
    BY NetworkAssumption, FS_CardinalityType
<1>2. Ancestor(u) = a
    BY DEF Ancestor, IsChain
<1>3. IsChain(u, n, a)
    BY <1>1, ChainExists
<1> HIDE DEF a, n
<1>4. DOMAIN a = 0 .. n /\ \A k \in 0 .. n : a[k] = IF k = 0 THEN u
                                   ELSE IF a[k - 1] = Nobody THEN Nobody
                                   ELSE sponsor[a[k - 1]]
    BY <1>3 DEF IsChain
<1>5. ASSUME NEW k \in 0 .. n - 1
      PROVE  a[k + 1] = IF a[k] = Nobody THEN Nobody ELSE sponsor[a[k]]
    <2>1. k + 1 \in 0 .. n /\ k + 1 # 0 /\ (k + 1) - 1 = k
        BY <1>1
    <2> QED BY <1>4, <2>1
<1> DEFINE T == {k \in 0 .. n : a[k] \notin Users \cup {Nobody}}
<1>6. ASSUME NEW j \in T PROVE FALSE
    <2>1. T \subseteq Nat /\ T # {}
        BY <1>1, <1>6
    <2> HIDE DEF T
    <2>2. PICK k \in T : \A i \in T : k <= i
        BY <2>1, SmallestNumber
    <2> USE DEF T
    <2>3. k \in 0 .. n /\ a[k] \notin Users \cup {Nobody}
        BY <2>2
    <2>4. k # 0
        BY <1>4, <2>3
    <2>5. k - 1 \in 0 .. n
        BY <1>1, <2>3, <2>4
    <2>6. k - 1 \notin T
        <3> HIDE DEF T
        <3>1. ~(k <= k - 1)
            BY <1>1, <2>3
        <3> QED BY <2>2, <3>1
    <2>7. a[k - 1] \in Users \cup {Nobody}
        BY <2>5, <2>6
    <2> QED BY <1>4, <2>3, <2>4, <2>7
<1>7. 0 \in 0 .. n
    BY <1>1
<1>8. a[0] = u /\ \A k \in 0 .. n : a[k] \in Users \cup {Nobody}
    BY <1>4, <1>6, <1>7
<1> QED BY <1>1, <1>2, <1>4, <1>5, <1>8 DEF n

\* The members to place are the first of the chain, and they are different:
\* a chain that came back would come back before its end.
LEMMA ToPlace ==
    ASSUME sponsor \in [Users -> Users \cup {Nobody}], NEW u \in Users, Ends(u) # {}
    PROVE  LET a == Ancestor(u)
               from == Min(Ends(u))
           IN  /\ from \in Nat /\ a[0] = u
               /\ a[from] = Nobody \/ a[from] \in Placed(place)
               /\ \A k \in 0 .. from - 1 :
                     a[k] \in Users \ Placed(place) /\ sponsor[a[k]] = a[k + 1]
               /\ \A i, j \in 0 .. from - 1 : i # j => a[i] # a[j]
<1> DEFINE a == Ancestor(u)
           n == Cardinality(Users)
           from == Min(Ends(u))
<1>1. /\ n \in Nat /\ DOMAIN a = 0 .. n /\ a[0] = u
      /\ \A k \in 0 .. n : a[k] \in Users \cup {Nobody}
      /\ \A k \in 0 .. n - 1 :
            a[k + 1] = IF a[k] = Nobody THEN Nobody ELSE sponsor[a[k]]
    BY AncestorIs
<1>2. \A k : k \in Ends(u) <=> k \in 0 .. n /\ (a[k] = Nobody \/ a[k] \in Placed(place))
    BY <1>1 DEF Ends
<1>3. from \in Ends(u) /\ \A k \in Ends(u) : from <= k
    <2>1. Ends(u) \subseteq Nat
        BY <1>1, <1>2
    <2>2. PICK m \in Ends(u) : \A k \in Ends(u) : m <= k
        BY <2>1, SmallestNumber
    <2> QED BY <2>2 DEF Min
<1> HIDE DEF a, n, from
<1>4. from \in 0 .. n /\ (a[from] = Nobody \/ a[from] \in Placed(place))
    BY <1>2, <1>3
<1>5. ASSUME NEW k \in 0 .. from - 1
      PROVE  /\ k \in 0 .. n - 1 /\ a[k] # Nobody /\ a[k] \notin Placed(place)
             /\ sponsor[a[k]] = a[k + 1]
    <2>1. k \in 0 .. n - 1 /\ k \in 0 .. n /\ ~(from <= k)
        BY <1>1, <1>4
    <2>2. k \notin Ends(u)
        BY <1>3, <2>1
    <2> QED BY <1>1, <1>2, <2>1, <2>2
<1>6. ASSUME NEW k \in 0 .. from - 1 PROVE a[k] \in Users
    <2>1. k \in 0 .. n /\ a[k] # Nobody
        BY <1>1, <1>4, <1>5
    <2> QED BY <1>1, <2>1
<1>7. ASSUME NEW i \in 0 .. from - 1, NEW j \in 0 .. from - 1, i < j, a[i] = a[j]
      PROVE  FALSE
    <2> DEFINE T == {m \in 0 .. from - j : a[i + m] # a[j + m]}
    <2>1. ASSUME T # {} PROVE FALSE
        <3>1. T \subseteq Nat
            BY <1>4, <1>1
        <3> HIDE DEF T
        <3>2. PICK m \in T : \A l \in T : m <= l
            BY <2>1, <3>1, SmallestNumber
        <3> USE DEF T
        <3>3. m \in 0 .. from - j /\ a[i + m] # a[j + m]
            BY <3>2
        <3>4. m # 0
            BY <1>1, <1>4, <1>7, <3>3
        <3>5. /\ m - 1 \in 0 .. from - j
              /\ i + (m - 1) \in 0 .. from - 1 /\ j + (m - 1) \in 0 .. from - 1
              /\ (i + (m - 1)) + 1 = i + m /\ (j + (m - 1)) + 1 = j + m
            BY <1>1, <1>4, <1>7, <3>3, <3>4
        <3>6. m - 1 \notin T
            <4> HIDE DEF T
            <4>1. ~(m <= m - 1)
                BY <1>1, <1>4, <3>3
            <4> QED BY <3>2, <4>1
        <3>7. a[i + (m - 1)] = a[j + (m - 1)]
            BY <3>5, <3>6
        <3>8. a[i + m] = sponsor[a[i + (m - 1)]] /\ a[j + m] = sponsor[a[j + (m - 1)]]
            BY <1>5, <3>5
        <3> QED BY <3>3, <3>7, <3>8
    <2>2. from - j \in 0 .. from - j /\ j + (from - j) = from /\ i + (from - j) \in 0 .. from - 1
        BY <1>1, <1>4, <1>7
    <2>3. a[i + (from - j)] = a[from]
        BY <2>1, <2>2
    <2> HIDE DEF T
    <2> QED BY <1>4, <1>5, <2>2, <2>3
<1>8. ASSUME NEW i \in 0 .. from - 1, NEW j \in 0 .. from - 1, i # j PROVE a[i] # a[j]
    <2>1. i < j \/ j < i
        BY <1>1, <1>4, <1>8
    <2> QED BY <1>7, <2>1
<1>9. from \in Nat
    BY <1>1, <1>4
<1> QED BY <1>1, <1>4, <1>5, <1>6, <1>8, <1>9 DEF a, from

\* The trees on the way, from the topmost member down to the m-th below.
IsAfter(u, first, from, f) ==
    f = [k \in first .. from |->
            IF k = from THEN place
            ELSE PlaceOne(f[k + 1], Ancestor(u)[k], lifetime)]

LEMMA AfterExists ==
    ASSUME NEW u, NEW from \in Nat
    PROVE  \E f : IsAfter(u, 0, from, f)
<1> DEFINE T == {m \in Nat : m <= from /\ ~ \E f : IsAfter(u, from - m, from, f)}
<1>1. SUFFICES T = {}
    <2>1. from - from = 0 /\ from <= from
        OBVIOUS
    <2> QED BY <2>1
<1>2. SUFFICES ASSUME T # {} PROVE FALSE
    OBVIOUS
<1>3. PICK m \in T : \A k \in T : m <= k
    <2>1. T \subseteq Nat
        OBVIOUS
    <2> HIDE DEF T
    <2> QED BY <1>2, <2>1, SmallestNumber
<1>4. m \in Nat /\ m <= from /\ ~ \E f : IsAfter(u, from - m, from, f)
    BY <1>3
<1>5. CASE m = 0
    <2> DEFINE f == [k \in from .. from |-> place]
    <2>1. f = [k \in from .. from |-> IF k = from THEN place
                  ELSE PlaceOne(f[k + 1], Ancestor(u)[k], lifetime)]
        OBVIOUS
    <2>2. from - m = from
        BY <1>5
    <2>3. IsAfter(u, from - m, from, f)
        BY <2>1, <2>2 DEF IsAfter
    <2> QED BY <1>4, <2>3
<1>6. CASE m # 0
    <2> DEFINE b == from - m
    <2>1. m - 1 \in Nat /\ m - 1 <= from /\ ~(m <= m - 1) /\ from - (m - 1) = b + 1
          /\ b \in Nat /\ b < from
        BY <1>4, <1>6
    <2>2. m - 1 \notin T
        <3> HIDE DEF T, b
        <3> QED BY <1>3, <2>1
    <2>3. PICK g : IsAfter(u, b + 1, from, g)
        BY <2>1, <2>2
    <2> DEFINE f == [k \in b .. from |-> IF k = b THEN PlaceOne(g[b + 1], Ancestor(u)[b], lifetime)
                                         ELSE g[k]]
    <2> HIDE DEF b, T
    <2>4. f[b] = PlaceOne(g[b + 1], Ancestor(u)[b], lifetime) /\ f = [k \in b .. from |-> f[k]]
        BY <2>1
    <2>5. \A k \in b + 1 .. from : f[k] = g[k]
        BY <2>1
    <2> HIDE DEF f
    <2>6. \A k \in b + 1 .. from : g[k] = IF k = from THEN place
                  ELSE PlaceOne(g[k + 1], Ancestor(u)[k], lifetime)
        BY <2>3 DEF IsAfter
    <2>7. \A k \in b .. from : f[k] = IF k = from THEN place
                  ELSE PlaceOne(f[k + 1], Ancestor(u)[k], lifetime)
        <3> TAKE k \in b .. from
        <3>1. CASE k = b
            <4>1. b # from /\ b + 1 \in b + 1 .. from
                BY <2>1
            <4> QED BY <2>4, <2>5, <3>1, <4>1
        <3>2. CASE k # b /\ k # from
            <4>1. k \in b + 1 .. from /\ k + 1 \in b + 1 .. from
                BY <2>1, <3>2
            <4> QED BY <2>5, <2>6, <3>2, <4>1
        <3>3. CASE k # b /\ k = from
            <4>1. k \in b + 1 .. from
                BY <2>1, <3>3
            <4> QED BY <2>5, <2>6, <3>3, <4>1
        <3> QED BY <3>1, <3>2, <3>3
    <2>8. IsAfter(u, b, from, f)
        BY <2>4, <2>7 DEF IsAfter
    <2> QED BY <1>4, <2>8 DEF b
<1> QED BY <1>5, <1>6

\* A confirmation places the buyer and those above him, and moves nobody.
LEMMA WithPlaceKeeps ==
    ASSUME sponsor \in [Users -> Users \cup {Nobody}], Sound(place),
           NEW u \in Users, Ends(u) # {}
    PROVE  /\ Sound(WithPlace(u)) /\ Stays(place, WithPlace(u))
           /\ u \in Placed(WithPlace(u))
<1> DEFINE a == Ancestor(u)
           from == Min(Ends(u))
           f == CHOOSE g : IsAfter(u, 0, from, g)
<1>1. /\ from \in Nat /\ a[0] = u
      /\ a[from] = Nobody \/ a[from] \in Placed(place)
      /\ \A k \in 0 .. from - 1 :
            a[k] \in Users \ Placed(place) /\ sponsor[a[k]] = a[k + 1]
      /\ \A i, j \in 0 .. from - 1 : i # j => a[i] # a[j]
    BY ToPlace
<1>2. WithPlace(u) = f[0]
    BY DEF WithPlace, IsAfter
<1>3. IsAfter(u, 0, from, f)
    BY <1>1, AfterExists
<1> HIDE DEF f, from
<1>4. \A k \in 0 .. from : f[k] = IF k = from THEN place
                  ELSE PlaceOne(f[k + 1], a[k], lifetime)
    BY <1>3 DEF IsAfter
<1> HIDE DEF a
<1> DEFINE Ok(k) == /\ Sound(f[k]) /\ Stays(place, f[k])
                    /\ Placed(f[k]) = Placed(place) \cup {a[j] : j \in k .. from - 1}
           T == {m \in Nat : m <= from /\ ~Ok(from - m)}
<1>5. ASSUME T # {} PROVE FALSE
    <2>1. PICK m \in T : \A k \in T : m <= k
        <3>1. T \subseteq Nat
            OBVIOUS
        <3> HIDE DEF T
        <3> QED BY <1>5, <3>1, SmallestNumber
    <2>2. m \in Nat /\ m <= from /\ ~Ok(from - m)
        BY <2>1
    <2>3. CASE m = 0
        <3>1. f[from] = place
            BY <1>1, <1>4
        <3>2. {a[j] : j \in from .. from - 1} = {}
            BY <1>1
        <3>3. Stays(place, place)
            BY DEF Stays
        <3>4. from - m = from
            BY <1>1, <2>3
        <3>5. Ok(from)
            BY <3>1, <3>2, <3>3
        <3> QED BY <2>2, <3>4, <3>5
    <2>4. CASE m # 0
        <3> DEFINE b == from - m
        <3>1. m - 1 \in Nat /\ m - 1 <= from /\ ~(m <= m - 1) /\ from - (m - 1) = b + 1
              /\ b \in Nat /\ b < from /\ b \in 0 .. from - 1 /\ b + 1 \in 0 .. from
            BY <1>1, <2>2, <2>4
        <3>2. m - 1 \notin T
            <4> HIDE DEF T, b
            <4> QED BY <2>1, <3>1
        <3>3. Ok(b + 1)
            BY <3>1, <3>2
        <3>4. ~Ok(b)
            BY <2>2
        <3> HIDE DEF T, b
        <3>5. f[b] = PlaceOne(f[b + 1], a[b], lifetime)
            <4>1. b \in 0 .. from /\ b # from
                BY <1>1, <3>1
            <4> HIDE DEF Ok
            <4> QED BY <1>4, <4>1
        <3>6. a[b] \in Users /\ a[b] \notin Placed(place) /\ sponsor[a[b]] = a[b + 1]
            BY <1>1, <3>1
        <3>7. a[b] \notin Placed(f[b + 1])
            <4>1. \A j \in b + 1 .. from - 1 : j \in 0 .. from - 1 /\ j # b
                BY <1>1, <3>1
            <4>2. \A j \in b + 1 .. from - 1 : a[j] # a[b]
                BY <1>1, <3>1, <4>1
            <4> QED BY <3>3, <3>6, <4>2
        <3>8. sponsor[a[b]] = Nobody \/ sponsor[a[b]] \in Placed(f[b + 1])
            <4>1. CASE b + 1 = from
                BY <1>1, <3>3, <3>6, <4>1
            <4>2. CASE b + 1 # from
                <5>1. b + 1 \in b + 1 .. from - 1
                    BY <1>1, <3>1, <4>2
                <5>2. a[b + 1] \in {a[j] : j \in b + 1 .. from - 1}
                    BY <5>1
                <5> QED BY <3>3, <3>6, <5>2
            <4> QED BY <4>1, <4>2
        <3>9. /\ Sound(f[b]) /\ Stays(f[b + 1], f[b])
              /\ Placed(f[b]) = Placed(f[b + 1]) \cup {a[b]}
            BY <3>3, <3>5, <3>6, <3>7, <3>8, PlacedOne
        <3>10. Stays(place, f[b])
            BY <3>3, <3>9, StaysAfter
        <3>11. {a[j] : j \in b .. from - 1} = {a[j] : j \in b + 1 .. from - 1} \cup {a[b]}
            <4>1. b .. from - 1 = (b + 1 .. from - 1) \cup {b}
                BY <1>1, <3>1
            <4> QED BY <4>1
        <3>12. Placed(f[b]) = Placed(place) \cup {a[j] : j \in b .. from - 1}
            BY <3>3, <3>9, <3>11
        <3> QED BY <3>4, <3>9, <3>10, <3>12
    <2> QED BY <2>3, <2>4
<1>6. Ok(0)
    <2>1. from \notin T
        <3> HIDE DEF T
        <3> QED BY <1>5
    <2>2. from \in Nat /\ from <= from /\ from - from = 0
        BY <1>1
    <2> HIDE DEF Ok
    <2> QED BY <2>1, <2>2
<1>7. u \in Placed(f[0])
    <2>1. CASE from = 0
        <3>1. a[0] # Nobody
            BY <1>1, NetworkAssumption
        <3> QED BY <1>1, <1>6, <2>1, <3>1
    <2>2. CASE from # 0
        <3>1. 0 \in 0 .. from - 1
            BY <1>1, <2>2
        <3>2. a[0] \in {a[j] : j \in 0 .. from - 1}
            BY <3>1
        <3> QED BY <1>1, <1>6, <3>2
    <2> QED BY <2>1, <2>2
<1> QED BY <1>2, <1>6, <1>7

----------------------------------------------------------------------------
(* BelowSponsor.  Beside the tree it has the types of the rows: what is        *)
(* credited is never less than nothing, since a cycle is at most one voucher.  *)

Belongs ==
    /\ sponsor \in [Users -> Users \cup {Nobody}]
    /\ Sound(place)
    /\ \A p \in Purchases : stage[p] = "confirmed" => Buyer[p] \in Placed(place)
PayTypes ==
    /\ stage \in [Purchases -> {"pending", "stamped", "confirmed"}]
    /\ dated \in [Purchases -> SUBSET Purchases]
    /\ direct \subseteq Purchases
QueueTypes ==
    /\ page \subseteq Users /\ lastPosition \in Nat
    /\ credited \in [Users -> [0 .. LastDay -> Nat]] /\ today \in 0 .. LastDay
TreeInv == Belongs /\ PayTypes /\ QueueTypes

\* Nobody placed.
LEMMA EmptyTree ==
    ASSUME NEW t, t = [u \in Users |-> Unplaced]
    PROVE  Grown(t) /\ Ordered(t) /\ Placed(t) = {} /\ \A u \in Users : Above(t, u) = {}
<1>1. t \in Trees /\ \A u \in Users : t[u] = Unplaced /\ t[u].parent = Nobody
    BY DEF Trees, Rows, Unplaced
<1> DEFINE none == [v \in Users |-> {}]
<1>2. \A f : IsUp(t, f) <=> f = none
    <2>1. \A f : [v \in Users |-> UpOf(t, f, v)] = none
        BY <1>1 DEF UpOf
    <2> HIDE DEF none
    <2> QED BY <2>1 DEF IsUp
<1>3. (\E f : IsUp(t, f)) /\ (\A f, g : IsUp(t, f) /\ IsUp(t, g) => f = g)
    <2> HIDE DEF none
    <2> QED BY <1>2
<1>4. Grown(t)
    BY <1>1, <1>3 DEF Grown
<1>5. \A u \in Users : Above(t, u) = {}
    BY <1>1, <1>4, AboveIs
<1>6. Placed(t) = {}
    BY <1>1 DEF Placed
<1>7. Ordered(t)
    BY <1>5, <1>6 DEF Ordered
<1> QED BY <1>4, <1>5, <1>6, <1>7

LEMMA TreeStart == NetworkInit => TreeInv
<1> SUFFICES ASSUME NetworkInit PROVE TreeInv
    OBVIOUS
<1>1. place = [u \in Users |-> Unplaced]
    BY DEF NetworkInit
<1>2. Grown(place) /\ Ordered(place) /\ Placed(place) = {}
    BY <1>1, EmptyTree
<1>3. Sound(place)
    BY <1>2 DEF Sound, Anchored
<1>4. Belongs
    BY <1>3, NetworkAssumption DEF NetworkInit, Belongs
<1>5. PayTypes
    BY DEF NetworkInit, PayTypes
<1>6. QueueTypes
    BY NetworkAssumption DEF NetworkInit, QueueTypes
<1> QED BY <1>4, <1>5, <1>6 DEF TreeInv

\* A link is only used by members without a place.
LEMMA AssignKeepsTree ==
    ASSUME TreeInv, NEW u \in Users, NEW s \in Users, place[u] = Unplaced, Assign(u, s)
    PROVE  TreeInv'
<1>1. /\ sponsor' = [sponsor EXCEPT ![u] = s] /\ place' = place
      /\ UNCHANGED <<stage, dated, direct, page, lastPosition, credited, today>>
    BY DEF Assign, flows, pays, queue
<1>2. u \notin Placed(place)
    BY DEF Placed
<1>3. sponsor' \in [Users -> Users \cup {Nobody}] /\ \A v \in Placed(place) : sponsor'[v] = sponsor[v]
    BY <1>1, <1>2 DEF TreeInv, Belongs
<1>4. Sound(place)'
    BY <1>1, <1>3 DEF TreeInv, Belongs, Sound, Anchored
<1> QED BY <1>1, <1>3, <1>4 DEF TreeInv, Belongs, PayTypes, QueueTypes

LEMMA ConfirmKeepsTree ==
    ASSUME TreeInv, NEW p \in Purchases, Confirm(p)
    PROVE  /\ TreeInv' /\ Stays(place, place') /\ Buyer[p] \in Placed(place')
<1>1. /\ Buyer[p] \in Users /\ Ends(Buyer[p]) # {} /\ place' = WithPlace(Buyer[p])
      /\ stage' = [stage EXCEPT ![p] = "confirmed"]
      /\ direct' \subseteq direct \cup {p}
      /\ UNCHANGED <<sponsor, credited, dated, today, page, lastPosition>>
    BY NetworkAssumption DEF Confirm, queue
<1>2. sponsor \in [Users -> Users \cup {Nobody}] /\ Sound(place)
    BY DEF TreeInv, Belongs
<1>3. /\ Sound(WithPlace(Buyer[p])) /\ Stays(place, WithPlace(Buyer[p]))
      /\ Buyer[p] \in Placed(WithPlace(Buyer[p]))
    BY <1>1, <1>2, WithPlaceKeeps
<1>4. PICK d : d = place'
    OBVIOUS
<1>5. Sound(d) /\ Stays(place, d) /\ Buyer[p] \in Placed(d)
    BY <1>1, <1>3, <1>4
<1>6. Sound(place)'
    <2>1. Sound(place)' <=> Grown(d) /\ Ordered(d) /\ Anchored(d)'
        BY <1>4 DEF Sound
    <2>2. Anchored(d)'
        BY <1>1, <1>5 DEF Anchored, Sound
    <2> QED BY <1>5, <2>1, <2>2 DEF Sound
<1>7. \A q \in Purchases : stage'[q] = "confirmed" => Buyer[q] \in Placed(place')
    <2>1. Placed(place) \subseteq Placed(d)
        BY <1>5 DEF Stays
    <2> QED BY <1>1, <1>4, <1>5, <2>1 DEF TreeInv, Belongs, PayTypes
<1>8. PayTypes' /\ QueueTypes'
    BY <1>1 DEF TreeInv, PayTypes, QueueTypes
<1> QED BY <1>1, <1>2, <1>4, <1>5, <1>6, <1>7, <1>8 DEF TreeInv, Belongs

\* n more cycles complete at most n vouchers.
LEMMA VouchersBounded ==
    ASSUME NEW b \in Nat, NEW n \in Nat
    PROVE  Vouchers(b, n) \in Nat /\ Vouchers(b, n) <= n
<1>1. VoucherEvery \in Nat /\ VoucherEvery >= 1
    BY NetworkAssumption
<1> DEFINE V == VoucherEvery
           q == b \div V
           r == (b + n) \div V
<1>2. q \in Nat /\ r \in Nat /\ q * V <= b /\ b < q * V + V
      /\ r * V <= b + n /\ b + n < r * V + V
    <2>1. \A m \in Nat : m \div V \in Nat /\ (m \div V) * V <= m /\ m < (m \div V) * V + V
        BY <1>1, Z3
    <2> QED BY <2>1
<1> HIDE DEF q, r
<1>3. r <= q + n
    <2> SUFFICES ASSUME r >= q + n + 1 PROVE FALSE
        BY <1>2
    <2>1. r * V >= (q + n + 1) * V
        BY <1>1, <1>2, Z3
    <2>2. (q + n + 1) * V = q * V + n * V + V
        BY <1>1, <1>2, Z3
    <2>3. n * V >= n /\ n * V \in Nat /\ q * V \in Nat /\ r * V \in Nat
        BY <1>1, <1>2, Z3
    <2> QED BY <1>1, <1>2, <2>1, <2>2, <2>3
<1>4. q <= r
    <2> SUFFICES ASSUME q >= r + 1 PROVE FALSE
        BY <1>2
    <2>1. q * V >= (r + 1) * V
        BY <1>1, <1>2, Z3
    <2>2. (r + 1) * V = r * V + V /\ q * V \in Nat /\ r * V \in Nat
        BY <1>1, <1>2, Z3
    <2> QED BY <1>1, <1>2, <2>1, <2>2
<1> QED BY <1>2, <1>3, <1>4 DEF Vouchers, q, r

LEMMA SettleKeepsTree ==
    ASSUME TreeInv, NetworkInv, NEW u \in Users, SettleBinary(u) PROVE TreeInv'
<1>1. /\ UNCHANGED <<sponsor, place, stage, dated, direct, today, lastPosition>>
      /\ page' = page \ {u} /\ Matched(volume[u]) > 0
    BY DEF SettleBinary, tree, pays
<1>2. PICK amount \in 0 .. Reward(u) : credited' = [credited EXCEPT ![u][today] = @ + amount]
    BY DEF SettleBinary
<1> DEFINE n == Matched(volume[u])
           v == Vouchers(slots[u], n)
<1>3. n \in Nat /\ slots[u] \in Nat
    <2>1. volume[u].LEFT \in Nat /\ volume[u].RIGHT \in Nat /\ slots[u] \in Nat
        BY DEF NetworkInv, Lines, Volumes, Sides
    <2>2. \A m \in Nat : m \div Unit \in Int
        BY NetworkAssumption
    <2> QED BY <1>1, <2>1, <2>2 DEF Matched, Least
<1> HIDE DEF n
<1>4. v \in Nat /\ v <= n
    BY <1>3, VouchersBounded
<1> HIDE DEF v
<1>5. (n - v) * CycleReward \in Nat
    BY <1>3, <1>4, NetworkAssumption
<1>6. Allowance(u) \in Nat
    BY NetworkAssumption DEF Allowance, AtLeast0, TreeInv, QueueTypes
<1>7. Reward(u) \in Nat
    BY <1>5, <1>6 DEF Reward, Least, n, v
<1>8. amount \in Nat
    BY <1>2, <1>7
<1>9. credited' \in [Users -> [0 .. LastDay -> Nat]]
    <2>1. credited \in [Users -> [0 .. LastDay -> Nat]] /\ today \in 0 .. LastDay
        BY DEF TreeInv, QueueTypes
    <2>2. credited[u] \in [0 .. LastDay -> Nat]
        BY <2>1
    <2>3. credited[u][today] \in Nat
        BY <2>1, <2>2
    <2>4. credited[u][today] + amount \in Nat
        BY <1>8, <2>3
    <2>5. [credited[u] EXCEPT ![today] = credited[u][today] + amount] \in [0 .. LastDay -> Nat]
        BY <2>2, <2>4
    <2>6. credited' = [credited EXCEPT ![u] = [credited[u] EXCEPT ![today] = credited[u][today] + amount]]
        BY <1>2, <2>1
    <2> QED BY <2>1, <2>5, <2>6
<1> QED BY <1>1, <1>9 DEF TreeInv, Belongs, PayTypes, QueueTypes, Sound, Anchored

LEMMA TreeSame ==
    ASSUME TreeInv, UNCHANGED <<sponsor, place>>,
           \A p \in Purchases : stage'[p] = "confirmed" => stage[p] = "confirmed"
    PROVE  Belongs'
BY DEF TreeInv, Belongs, Sound, Anchored

LEMMA PollKeepsQueue == ASSUME QueueTypes, Poll PROVE QueueTypes'
<1>1. /\ page' = FirstOf(Listed) /\ lastPosition' = Cursor(page')
      /\ UNCHANGED <<credited, today>>
    BY DEF Poll, flows
<1>2. page' \subseteq Users
    BY <1>1 DEF FirstOf, Listed, Matching
<1>3. Cursor(page') \in Nat
    <2>1. PICK S : S = page'
        OBVIOUS
    <2>2. S \subseteq Nat /\ IsFiniteSet(S)
        BY <1>2, <2>1, NetworkAssumption, FS_Subset
    <2>3. CASE Cardinality(S) = PageSize
        <3>1. S # {}
            BY <2>3, NetworkAssumption, FS_EmptySet
        <3> QED BY <2>1, <2>2, <2>3, <3>1, MaxIsIn DEF Cursor
    <2>4. CASE Cardinality(S) # PageSize
        BY <2>1, <2>4 DEF Cursor
    <2> QED BY <2>3, <2>4
<1> QED BY <1>1, <1>2, <1>3 DEF QueueTypes

LEMMA NextKeepsTree == TreeInv /\ NetworkInv /\ [NetworkNext]_networkVars => TreeInv'
<1> SUFFICES ASSUME TreeInv, NetworkInv, [NetworkNext]_networkVars PROVE TreeInv'
    OBVIOUS
<1>1. ASSUME NEW l \in Codes, AssignSponsor(l[1], l[2]) \/ CorrectSponsor(l[1], l[2])
      PROVE  TreeInv'
    <2>1. l[1] \in Users /\ l[2] \in Users
        BY NetworkAssumption
    <2>2. place[l[1]] = Unplaced /\ Assign(l[1], l[2])
        BY <1>1 DEF AssignSponsor, MayAssign, CorrectSponsor
    <2> QED BY <2>1, <2>2, AssignKeepsTree
<1>2. ASSUME NEW p \in Purchases, Confirm(p) PROVE TreeInv'
    BY <1>2, ConfirmKeepsTree
<1>3. ASSUME NEW p \in Purchases, Stamp(p) PROVE TreeInv'
    <2>1. /\ UNCHANGED <<sponsor, place, direct, page, lastPosition, credited, today>>
          /\ stage' = [stage EXCEPT ![p] = "stamped"]
        BY <1>3 DEF Stamp, tree, flows, queue
    <2>2. PICK S \in SUBSET Overlapping(p) :
              dated' = [q \in Purchases |-> IF q = p THEN Confirmed(Buyer[p]) \cup S
                                            ELSE dated[q] \ {p}]
        BY <1>3 DEF Stamp
    <2>3. dated' \in [Purchases -> SUBSET Purchases]
        BY <2>2 DEF TreeInv, PayTypes, Confirmed, Overlapping
    <2>4. Belongs'
        BY <2>1, TreeSame DEF TreeInv, PayTypes
    <2> QED BY <2>1, <2>3, <2>4 DEF TreeInv, PayTypes, QueueTypes
<1>4. ASSUME NEW p \in Purchases, Abort(p) PROVE TreeInv'
    <2>1. /\ UNCHANGED <<sponsor, place, direct, dated, page, lastPosition, credited, today>>
          /\ stage' = [stage EXCEPT ![p] = "pending"]
        BY <1>4 DEF Abort, tree, flows, queue
    <2>2. Belongs'
        BY <2>1, TreeSame DEF TreeInv, PayTypes
    <2> QED BY <2>1, <2>2 DEF TreeInv, PayTypes, QueueTypes
<1>5. ASSUME NEW u \in Users, SettleBinary(u) PROVE TreeInv'
    BY <1>5, SettleKeepsTree
<1>6. ASSUME UNCHANGED <<tree, pays>> PROVE Belongs' /\ PayTypes'
    BY <1>6, TreeSame DEF tree, pays, TreeInv, PayTypes
<1>7. ASSUME NEW u \in Users, Skip(u) PROVE TreeInv'
    BY <1>6, <1>7 DEF Skip, TreeInv, QueueTypes, flows
<1>8. CASE Poll
    BY <1>6, <1>8, PollKeepsQueue DEF Poll, TreeInv
<1>9. CASE NextNoon
    BY <1>6, <1>9, NetworkAssumption DEF NextNoon, TreeInv, QueueTypes, flows, queue
<1>10. CASE UNCHANGED networkVars
    BY <1>6, <1>10 DEF networkVars, TreeInv, QueueTypes, flows, queue
<1> QED BY <1>1, <1>2, <1>3, <1>4, <1>5, <1>7, <1>8, <1>9, <1>10 DEF NetworkNext

LEMMA SpecTree == NetworkSpec => []TreeInv
<1>1. NetworkSpec => [](TreeInv /\ NetworkInv)
    BY NetworkStart, TreeStart, NextKeeps, NextKeepsTree, PTL DEF NetworkSpec
<1> QED BY <1>1, PTL

\* Whoever signs up with whose link and whenever anybody buys, a placed member
\* stands below his sponsor, on a side of his own (placeMember, assignSponsor).
THEOREM BelowSponsorHolds == NetworkSpec => []BelowSponsor
<1>1. TreeInv /\ NetworkInv => BelowSponsor
    <2> SUFFICES ASSUME TreeInv, NetworkInv PROVE BelowSponsor
        OBVIOUS
    <2>1. Grown(place) /\ Anchored(place) /\ place \in Trees /\ Placed(place) \subseteq Users
        BY DEF TreeInv, Belongs, Sound, Grown, Placed
    <2>2. ASSUME NEW u \in Users
          PROVE  /\ place[u] \in [parent : Users \cup {Nobody},
                                  side : Sides \cup {"NONE", "TOP"}]
                 /\ place[u].parent # Nobody =>
                        place[u].side \in Sides /\ place[place[u].parent] # Unplaced
                 /\ volume[u] \in [Sides -> Nat] /\ lifetime[u] \in [Sides -> Nat]
                 /\ slots[u] \in Nat /\ vouchers[u] \in Nat
                 /\ credited[u] \in [0 .. LastDay -> Nat]
        BY <2>1 DEF Grown, Trees, Rows, NetworkInv, Lines, Volumes, TreeInv, QueueTypes
    <2>3. NetworkTypeOK
        BY <2>2 DEF NetworkTypeOK, TreeInv, Belongs, PayTypes, QueueTypes
    <2> QED BY <2>1, <2>3 DEF BelowSponsor, Anchored, Grown
<1> QED BY <1>1, SpecInv, SpecTree, PTL

----------------------------------------------------------------------------
(* PurchasesCount.  What stays where it is stays on its line, so a purchase    *)
(* adds itself to the sums of those above its buyer, and to no other.          *)

\* The confirmed purchases on a line.
Bought(a, side) ==
    {p \in Purchases : /\ stage[p] = "confirmed"
                       /\ a \in Above(place, Buyer[p])
                       /\ Line(place, a, Buyer[p]) = side}
Direct ==
    \A u \in Users :
        sponsor[u] # Nobody /\ Confirmed(u) # {} => direct \cap Confirmed(u) # {}
CountInv == LifetimeIsSubtree /\ Direct

LEMMA LineKept ==
    ASSUME NEW t, NEW d, Sound(t), Sound(d), Stays(t, d),
           NEW u \in Placed(t), NEW a \in Above(t, u)
    PROVE  Line(d, a, u) = Line(t, a, u)
<1>1. /\ Above(d, u) = Above(t, u) /\ u \in Users /\ Above(t, u) \subseteq Placed(t)
      /\ Placed(t) \subseteq Users /\ a \in Users
    BY DEF Stays, Sound, Ordered, Placed
<1>2. \A v \in Placed(t) : d[v] = t[v]
    BY DEF Stays
<1>3. Towards(d, a, u) = Towards(t, a, u)
    <2>1. \A v \in Users : v = u \/ v \in Above(t, u) => v \in Placed(t)
        BY <1>1
    <2> QED BY <1>1, <1>2, <2>1 DEF Towards, Children
<1>4. Towards(t, a, u) # {}
    <2>1. PICK c \in Children(t, a) : c = u \/ c \in Above(t, u)
        BY <1>1 DEF Sound, Ordered
    <2> QED BY <2>1 DEF Towards
<1> DEFINE c == CHOOSE v \in Towards(t, a, u) : TRUE
<1>5. c \in Towards(t, a, u)
    BY <1>4
<1>6. Line(t, a, u) = t[c].side /\ Line(d, a, u) = d[c].side
    BY <1>3 DEF Line
<1> HIDE DEF c
<1>7. c \in Placed(t)
    BY <1>1, <1>5 DEF Towards
<1> QED BY <1>2, <1>6, <1>7

LEMMA BoughtAfter ==
    ASSUME TreeInv, NEW p \in Purchases, Confirm(p), NEW a \in Users, NEW side
    PROVE  /\ p \notin Bought(a, side)
           /\ Bought(a, side)' =
                  IF a \in Above(place', Buyer[p]) /\ Line(place', a, Buyer[p]) = side
                  THEN Bought(a, side) \cup {p} ELSE Bought(a, side)
<1>1. Stays(place, place') /\ Sound(place) /\ Sound(place)'
    BY ConfirmKeepsTree DEF TreeInv, Belongs
<1>2. PICK d : d = place'
    OBVIOUS
<1>3. Stays(place, d) /\ Sound(d)
    <2>1. UNCHANGED sponsor
        BY DEF Confirm
    <2>2. Sound(place)' <=> Grown(d) /\ Ordered(d) /\ Anchored(place)'
        BY <1>2 DEF Sound
    <2>3. Anchored(place)' <=> Anchored(d)
        BY <1>2, <2>1 DEF Anchored
    <2> QED BY <1>1, <1>2, <2>2, <2>3 DEF Sound
<1>4. stage[p] = "stamped" /\ stage' = [stage EXCEPT ![p] = "confirmed"]
    BY DEF Confirm
<1>5. stage'[p] = "confirmed" /\ \A q \in Purchases : q # p => stage'[q] = stage[q]
    BY <1>4 DEF TreeInv, PayTypes
<1>6. ASSUME NEW q \in Purchases, stage[q] = "confirmed"
      PROVE  /\ Above(d, Buyer[q]) = Above(place, Buyer[q])
             /\ a \in Above(place, Buyer[q]) =>
                    Line(d, a, Buyer[q]) = Line(place, a, Buyer[q])
    <2>1. Buyer[q] \in Placed(place)
        BY <1>6 DEF TreeInv, Belongs
    <2>2. PICK u \in Placed(place) : u = Buyer[q]
        BY <2>1
    <2>3. Above(d, u) = Above(place, u)
        BY <1>3 DEF Stays
    <2>4. a \in Above(place, u) => Line(d, a, u) = Line(place, a, u)
        BY <1>1, <1>3, LineKept
    <2> QED BY <2>2, <2>3, <2>4
<1>7. Bought(a, side)' =
          {q \in Purchases : /\ stage'[q] = "confirmed"
                             /\ a \in Above(d, Buyer[q]) /\ Line(d, a, Buyer[q]) = side}
    BY <1>2 DEF Bought
<1>8. \A q \in Purchases : q # p => (q \in Bought(a, side)' <=> q \in Bought(a, side))
    BY <1>5, <1>6, <1>7 DEF Bought
<1>9. p \in Bought(a, side)' <=> a \in Above(d, Buyer[p]) /\ Line(d, a, Buyer[p]) = side
    BY <1>5, <1>7
<1>10. p \notin Bought(a, side)
    BY <1>4 DEF Bought
<1>11. Bought(a, side) \subseteq Purchases /\ Bought(a, side)' \subseteq Purchases
    BY <1>7 DEF Bought
<1>12. PICK B, C : B = Bought(a, side) /\ C = Bought(a, side)'
    OBVIOUS
<1> QED
    <2>1. /\ B \subseteq Purchases /\ C \subseteq Purchases /\ p \notin B
          /\ \A q \in Purchases : q # p => (q \in C <=> q \in B)
          /\ p \in C <=> a \in Above(d, Buyer[p]) /\ Line(d, a, Buyer[p]) = side
        BY <1>8, <1>9, <1>10, <1>11, <1>12
    <2>2. C = IF a \in Above(d, Buyer[p]) /\ Line(d, a, Buyer[p]) = side
              THEN B \cup {p} ELSE B
        BY <2>1
    <2> QED BY <1>2, <1>10, <1>12, <2>2

LEMMA BoughtFinite ==
    ASSUME NEW a, NEW side
    PROVE  /\ IsFiniteSet(Bought(a, side))
           /\ \A q \in Bought(a, side) : Amount[q] \in Int
           /\ \A q \in Purchases : Amount[q] \in Int
<1>1. IsFiniteSet(Purchases) /\ Bought(a, side) \subseteq Purchases
    BY NetworkAssumption DEF Bought
<1>2. \A q \in Purchases : Amount[q] \in Int
    BY NetworkAssumption
<1> QED BY <1>1, <1>2, FS_Subset

LEMMA ConfirmCounts ==
    ASSUME TreeInv, NetworkInv, CountInv, NEW p \in Purchases, Confirm(p)
    PROVE  CountInv'
<1>1. /\ stage[p] = "stamped" /\ stage' = [stage EXCEPT ![p] = "confirmed"]
      /\ lifetime' = Raised(lifetime, place', Buyer[p], Amount[p])
      /\ UNCHANGED sponsor
      /\ direct' = IF sponsor[Buyer[p]] # Nobody /\ Earlier(p) = {}
                   THEN direct \cup {p} ELSE direct
    BY DEF Confirm
<1>2. ASSUME NEW a \in Users, NEW side \in Sides
      PROVE  lifetime'[a][side] = SumFunctionOnSet(Amount, Bought(a, side)')
    <2> DEFINE on == a \in Above(place', Buyer[p]) /\ Line(place', a, Buyer[p]) = side
    <2>1. p \notin Bought(a, side)
          /\ Bought(a, side)' = IF on THEN Bought(a, side) \cup {p} ELSE Bought(a, side)
        BY BoughtAfter
    <2>2. lifetime[a][side] = SumFunctionOnSet(Amount, Bought(a, side))
        BY DEF CountInv, LifetimeIsSubtree, Bought
    <2>3. lifetime[a] \in Volumes
        BY DEF NetworkInv, Lines
    <2>4. lifetime'[a][side] = IF on THEN lifetime[a][side] + Amount[p] ELSE lifetime[a][side]
        <3>1. lifetime'[a] = IF a \in Above(place', Buyer[p])
                             THEN [lifetime[a] EXCEPT ![Line(place', a, Buyer[p])] = @ + Amount[p]]
                             ELSE lifetime[a]
            BY <1>1 DEF Raised
        <3> DEFINE line == Line(place', a, Buyer[p])
        <3> HIDE DEF line
        <3>2. DOMAIN lifetime[a] = Sides
            BY <2>3 DEF Volumes
        <3>3. [lifetime[a] EXCEPT ![line] = @ + Amount[p]][side]
                  = IF side = line THEN lifetime[a][side] + Amount[p] ELSE lifetime[a][side]
            BY <3>2
        <3> QED BY <3>1, <3>3 DEF line
    <2> HIDE DEF on
    <2>5. CASE on
        <3>1. PICK B : B = Bought(a, side)
            OBVIOUS
        <3>2. IsFiniteSet(B) /\ \A q \in B \cup {p} : Amount[q] \in Int
            BY <3>1, BoughtFinite
        <3>3. p \notin B
            BY <2>1, <3>1
        <3>4. SumFunctionOnSet(Amount, B \cup {p}) = SumFunctionOnSet(Amount, B) + Amount[p]
            BY <3>2, <3>3, SumAdd
        <3> QED BY <2>1, <2>2, <2>4, <2>5, <3>1, <3>4
    <2>6. CASE ~on
        BY <2>1, <2>2, <2>4, <2>6
    <2> QED BY <2>5, <2>6
<1>3. LifetimeIsSubtree'
    BY <1>2 DEF LifetimeIsSubtree, Bought
<1>4. Direct'
    <2> SUFFICES ASSUME NEW u \in Users, sponsor'[u] # Nobody, Confirmed(u)' # {}
                 PROVE  direct' \cap Confirmed(u)' # {}
        BY DEF Direct
    <2>1. direct \subseteq direct' /\ Confirmed(u) \subseteq Confirmed(u)'
        BY <1>1 DEF Confirmed, TreeInv, PayTypes
    <2>2. CASE Confirmed(u) # {}
        BY <1>1, <2>1, <2>2 DEF CountInv, Direct
    <2>3. CASE Confirmed(u) = {}
        <3>1. PICK q \in Confirmed(u)' : TRUE
            OBVIOUS
        <3>2. q \in Purchases /\ Buyer[q] = u /\ stage'[q] = "confirmed" /\ stage[q] # "confirmed"
            BY <2>3, <3>1 DEF Confirmed
        <3>3. q = p
            BY <1>1, <3>2 DEF TreeInv, PayTypes
        <3>4. Earlier(p) = {}
            BY <2>3, <3>2, <3>3 DEF Earlier
        <3>5. p \in direct'
            BY <1>1, <3>2, <3>3, <3>4
        <3> QED BY <3>1, <3>3, <3>5
    <2> QED BY <2>2, <2>3
<1> QED BY <1>3, <1>4 DEF CountInv

LEMMA CountSame ==
    ASSUME CountInv, UNCHANGED <<sponsor, place, lifetime, direct>>,
           \A q \in Purchases : stage'[q] = "confirmed" <=> stage[q] = "confirmed"
    PROVE  CountInv'
<1>1. \A a, side : Bought(a, side)' = Bought(a, side)
    BY DEF Bought
<1>2. LifetimeIsSubtree'
    <2>1. \A a \in Users : \A side \in Sides :
              lifetime'[a][side] = SumFunctionOnSet(Amount, Bought(a, side)')
        BY <1>1 DEF CountInv, LifetimeIsSubtree, Bought
    <2> QED BY <2>1 DEF LifetimeIsSubtree, Bought
<1>3. \A u \in Users : Confirmed(u)' = Confirmed(u)
    BY DEF Confirmed
<1>4. Direct'
    BY <1>3 DEF CountInv, Direct
<1> QED BY <1>2, <1>4 DEF CountInv

LEMMA CountStart == NetworkInit => CountInv
<1> SUFFICES ASSUME NetworkInit PROVE CountInv
    OBVIOUS
<1>1. \A q \in Purchases : stage[q] = "pending"
    BY DEF NetworkInit
<1>2. \A a, side : Bought(a, side) = {}
    BY <1>1 DEF Bought
<1>3. \A a \in Users : \A side \in Sides : lifetime[a][side] = 0
    BY DEF NetworkInit, Sides
<1>4. LifetimeIsSubtree
    <2>1. \A a \in Users : \A side \in Sides :
              lifetime[a][side] = SumFunctionOnSet(Amount, Bought(a, side))
        BY <1>2, <1>3, SumEmpty
    <2> QED BY <2>1 DEF LifetimeIsSubtree, Bought
<1>5. Direct
    BY <1>1 DEF Direct, Confirmed
<1> QED BY <1>4, <1>5 DEF CountInv

LEMMA AssignCounts ==
    ASSUME TreeInv, CountInv, NEW u \in Users, place[u] = Unplaced, NEW s \in Users, Assign(u, s)
    PROVE  CountInv'
<1>1. /\ sponsor' = [sponsor EXCEPT ![u] = s]
      /\ UNCHANGED <<place, lifetime, direct, stage>>
    BY DEF Assign, flows, pays
<1>2. \A a, side : Bought(a, side)' = Bought(a, side)
    BY <1>1 DEF Bought
<1>3. LifetimeIsSubtree'
    <2>1. \A a \in Users : \A side \in Sides :
              lifetime'[a][side] = SumFunctionOnSet(Amount, Bought(a, side)')
        BY <1>1, <1>2 DEF CountInv, LifetimeIsSubtree, Bought
    <2> QED BY <2>1 DEF LifetimeIsSubtree, Bought
<1>4. Confirmed(u) = {} /\ \A v \in Users : Confirmed(v)' = Confirmed(v)
    <2>1. u \notin Placed(place)
        BY DEF Placed
    <2> QED BY <1>1, <2>1 DEF Confirmed, TreeInv, Belongs
<1>5. Direct'
    BY <1>1, <1>4 DEF CountInv, Direct, TreeInv, Belongs
<1> QED BY <1>3, <1>5 DEF CountInv

LEMMA NextCounts ==
    TreeInv /\ NetworkInv /\ CountInv /\ [NetworkNext]_networkVars => CountInv'
<1> SUFFICES ASSUME TreeInv, NetworkInv, CountInv, [NetworkNext]_networkVars PROVE CountInv'
    OBVIOUS
<1>1. ASSUME NEW l \in Codes, AssignSponsor(l[1], l[2]) \/ CorrectSponsor(l[1], l[2])
      PROVE  CountInv'
    <2>1. l[1] \in Users /\ l[2] \in Users
        BY NetworkAssumption
    <2>2. place[l[1]] = Unplaced /\ Assign(l[1], l[2])
        BY <1>1 DEF AssignSponsor, MayAssign, CorrectSponsor
    <2> QED BY <2>1, <2>2, AssignCounts
<1>2. ASSUME NEW p \in Purchases, Confirm(p) PROVE CountInv'
    BY <1>2, ConfirmCounts
<1>3. ASSUME NEW p \in Purchases, Stamp(p) PROVE CountInv'
    <2>1. /\ UNCHANGED <<sponsor, place, lifetime, direct>>
          /\ stage[p] = "pending" /\ stage' = [stage EXCEPT ![p] = "stamped"]
        BY <1>3 DEF Stamp, tree, flows
    <2> QED BY <2>1, CountSame DEF TreeInv, PayTypes
<1>4. ASSUME NEW p \in Purchases, Abort(p) PROVE CountInv'
    <2>1. /\ UNCHANGED <<sponsor, place, lifetime, direct>>
          /\ stage[p] = "stamped" /\ stage' = [stage EXCEPT ![p] = "pending"]
        BY <1>4 DEF Abort, tree, flows
    <2> QED BY <2>1, CountSame DEF TreeInv, PayTypes
<1>5. ASSUME UNCHANGED <<tree, pays, lifetime>> PROVE CountInv'
    BY <1>5, CountSame DEF tree, pays
<1>6. ASSUME NEW u \in Users, SettleBinary(u) PROVE CountInv'
    BY <1>5, <1>6 DEF SettleBinary
<1>7. ASSUME NEW u \in Users, Skip(u) PROVE CountInv'
    BY <1>5, <1>7 DEF Skip, flows
<1>8. CASE Poll \/ NextNoon
    BY <1>5, <1>8 DEF Poll, NextNoon, flows
<1>9. CASE UNCHANGED networkVars
    BY <1>5, <1>9 DEF networkVars, flows
<1> QED BY <1>1, <1>2, <1>3, <1>4, <1>6, <1>7, <1>8, <1>9 DEF NetworkNext

\* For any members, purchases and links, each purchase counts once on the line
\* of everybody above its buyer and through every matching, and one purchase of
\* a member who has bought has paid his sponsor (recordBinaryVolume,
\* settleBinary, payDirectReferralCommission).
THEOREM PurchasesCountHolds == NetworkSpec => []PurchasesCount
<1>1. TreeInv /\ NetworkInv /\ CountInv => PurchasesCount
    BY DEF NetworkInv, Lines, MatchingConserves, CountInv, Direct, PurchasesCount
<1>2. NetworkSpec => [](TreeInv /\ NetworkInv /\ CountInv)
    BY NetworkStart, TreeStart, CountStart, NextKeeps, NextKeepsTree, NextCounts, PTL
       DEF NetworkSpec
<1> QED BY <1>1, <1>2, PTL

----------------------------------------------------------------------------
(***************************************************************************)
(* Tasks: SettledAsChecked; below, PaidAsQuoted from the rows it sums over *)
(* (PaidInv) and RanksInOrder from the order of the claims (RankInv).      *)
(*                                                                         *)
(* What a request was told by Telegram is about a version of its task that *)
(* is not newer than the row (Checked), and every edit makes a new one; so *)
(* a request whose version is the row's was checked as the row is now.     *)
(***************************************************************************)
Requests == [member : Members, task : TaskIds, version : Nat, day : Nat, found : BOOLEAN]

\* A request is not ahead of its task, and one that is level with it asked
\* Telegram if the task is about the channel.
Checked(q) ==
    /\ q.version <= task[q.task].version
    /\ q.version = task[q.task].version /\ task[q.task].kind = "CHANNEL" => q.found
Inv ==
    /\ task \in [TaskIds -> TaskType] /\ day \in Nat
    /\ request \in [Windows -> Requests \cup {None}]
    /\ \A s \in Windows : request[s] # None => Checked(request[s])

Settles(s) ==
    LET q == request[s] IN task[q.task].kind = "CHANNEL" /\ claim' # claim => q.found

LEMMA InitInv == Init => Inv
BY TasksAssumption DEF Init, Inv

\* A new version outdates every check of the task.
LEMMA NewVersion ==
    ASSUME Inv, NEW t \in TaskIds, task' \in [TaskIds -> TaskType],
           task'[t].version = task[t].version + 1,
           \A u \in TaskIds : u # t => task'[u] = task[u],
           UNCHANGED <<request, day>>
    PROVE  Inv'
<1>1. \A u \in TaskIds : task[u].version \in Nat
    BY DEF Inv, TaskType
<1>2. ASSUME NEW s \in Windows, request[s] # None
      PROVE  Checked(request[s])'
    <2>1. request[s] \in Requests /\ Checked(request[s])
        BY <1>2 DEF Inv
    <2>2. request[s].version \in Nat /\ request[s].task \in TaskIds
        BY <2>1 DEF Requests
    <2>3. CASE request[s].task = t
        BY <1>1, <2>1, <2>2, <2>3 DEF Checked
    <2>4. CASE request[s].task # t
        BY <2>1, <2>2, <2>4 DEF Checked
    <2> QED BY <2>3, <2>4
<1> QED BY <1>2 DEF Inv

LEMMA CheckKeeps ==
    ASSUME Inv, NEW s \in Windows, NEW u \in Members, NEW t \in TaskIds, Check(s, u, t)
    PROVE  Inv'
<1>1. UNCHANGED <<task, day>>
    BY DEF Check, world
<1>2. PICK q : /\ q = [member |-> u, task |-> t, version |-> task[t].version, day |-> day,
                       found |-> task[t].kind = "CHANNEL"]
               /\ request' = [request EXCEPT ![s] = q]
    BY DEF Check
<1>3. task[t].version \in Nat /\ day \in Nat /\ (task[t].kind = "CHANNEL") \in BOOLEAN
    BY DEF Inv, TaskType
<1>4. q \in Requests
    BY <1>2, <1>3 DEF Requests
<1>5. q.task = t /\ q.version = task[t].version
    BY <1>2
<1>6. task[t].kind = "CHANNEL" => q.found
    BY <1>2
<1>7. Checked(q)
    BY <1>3, <1>5, <1>6 DEF Checked
<1>8. ASSUME NEW r \in Windows, request'[r] # None PROVE Checked(request'[r])
    BY <1>2, <1>7, <1>8 DEF Inv
<1>9. request' \in [Windows -> Requests \cup {None}]
    BY <1>2, <1>4 DEF Inv
<1> QED BY <1>1, <1>8, <1>9 DEF Inv, Checked

LEMMA EndKeeps ==
    ASSUME Inv, NEW s \in Windows, request' = [request EXCEPT ![s] = None],
           UNCHANGED <<task, day>>
    PROVE  Inv'
BY DEF Inv, Checked

LEMMA NextKeep == Inv /\ [Next]_vars => Inv'
<1> SUFFICES ASSUME Inv, [Next]_vars PROVE Inv'
    OBVIOUS
<1>1. ASSUME UNCHANGED <<task, request>>, day' \in Nat PROVE Inv'
    BY <1>1 DEF Inv, Checked
<1>2. CASE \E s \in Windows, u \in Members, t \in TaskIds : Check(s, u, t)
    BY <1>2, CheckKeeps
<1>3. CASE \E s \in Windows : ClaimTask(s)
    BY <1>3, EndKeeps DEF ClaimTask, world
<1>4. CASE \E s \in Windows : Refuse(s)
    BY <1>4, EndKeeps DEF Refuse, world
<1>5. CASE \E u \in Members, t \in TaskIds :
               OpenLink(u, t) \/ \E key \in ClaimKeys : ApproveTaskClaim(u, t, key)
    BY <1>1, <1>5 DEF OpenLink, ApproveTaskClaim, world, Inv
<1>6. CASE \E t \in TaskIds : \E entry \in Edits[t] : EditTask(t, entry)
    <2>1. PICK t \in TaskIds : \E entry \in Edits[t] : EditTask(t, entry)
        BY <1>6
    <2>2. UNCHANGED <<request, day>>
        BY <2>1 DEF EditTask, world
    <2>3. task' \in [TaskIds -> TaskType] /\ task'[t].version = task[t].version + 1
          /\ \A u \in TaskIds : u # t => task'[u] = task[u]
        BY <2>1, EditedRow DEF Inv
    <2> QED BY <2>2, <2>3, NewVersion
<1>7. CASE \E t \in TaskIds : ArchiveTask(t)
    <2>1. PICK t \in TaskIds : ArchiveTask(t)
        BY <1>7
    <2>2. /\ task' = [task EXCEPT ![t].status = "ARCHIVED", ![t].version = @ + 1]
          /\ UNCHANGED <<request, day>>
        BY <2>1 DEF ArchiveTask, world
    <2>3. task' \in [TaskIds -> TaskType] /\ task'[t].version = task[t].version + 1
          /\ \A u \in TaskIds : u # t => task'[u] = task[u]
        BY <2>2 DEF Inv, TaskType
    <2> QED BY <2>2, <2>3, NewVersion
<1>8. CASE ResetProgress
    BY <1>1, <1>8 DEF ResetProgress, world, Inv
<1>9. CASE World
    BY <1>1, <1>9 DEF World, Noon, JoinOrLeave, Cycle, BoostChanges, Inv
<1>10. CASE UNCHANGED vars
    BY <1>1, <1>10 DEF vars, world, Inv
<1> QED BY <1>2, <1>3, <1>4, <1>5, <1>6, <1>7, <1>8, <1>9, <1>10
        DEF Next, Claiming, Administration

LEMMA StepSettles ==
    ASSUME Inv, Next, NEW s \in Windows, request[s] # None, request'[s] = None
    PROVE  Settles(s)
<1>1. ASSUME NEW r \in Windows, ClaimTask(r) PROVE Settles(s)
    <2>1. request' = [request EXCEPT ![r] = None] /\ SameTask(request[r])
        BY <1>1 DEF ClaimTask
    <2>2. r = s
        BY <2>1 DEF Inv
    <2> QED BY <2>1, <2>2 DEF Settles, SameTask, Inv, Checked
<1>2. ASSUME NEW r \in Windows, Refuse(r) PROVE Settles(s)
    BY <1>2 DEF Refuse, Settles
<1>3. ASSUME NEW r \in Windows, NEW u \in Members, NEW t \in TaskIds, Check(r, u, t)
      PROVE  Settles(s)
    BY <1>3 DEF Check, Settles
<1>4. request' = request => FALSE
    OBVIOUS
<1>5. ASSUME NEW t \in TaskIds, NEW entry, EditTask(t, entry)
      PROVE  FALSE
    BY <1>4, <1>5 DEF EditTask
<1>6. ASSUME NEW u \in Members, NEW t \in TaskIds,
             OpenLink(u, t) \/ \E key \in ClaimKeys : ApproveTaskClaim(u, t, key)
      PROVE  FALSE
    BY <1>4, <1>6 DEF OpenLink, ApproveTaskClaim
<1>8. ASSUME NEW t \in TaskIds, ArchiveTask(t) PROVE FALSE
    BY <1>4, <1>8 DEF ArchiveTask
<1>9. ResetProgress \/ World => FALSE
    BY <1>4 DEF ResetProgress, World, Noon, JoinOrLeave, Cycle, BoostChanges
<1> QED BY <1>1, <1>2, <1>3, <1>5, <1>6, <1>8, <1>9 DEF Next, Claiming, Administration

\* Whatever admins edit between the call to Telegram and the transaction, a channel
\* task is settled by a member's call only if that call found him in the channel
\* (task-rewards.ts:124).
THEOREM SettledAsCheckedHolds == Spec => SettledAsChecked
<1>1. Init => Inv
    BY InitInv
<1>2. Inv /\ [Next]_vars => Inv'
    BY NextKeep
<1>3. Inv /\ [Next]_vars =>
        [\A s \in Windows : request[s] # None /\ request'[s] = None => Settles(s)]_vars
    BY StepSettles
<1>4. (\A s \in Windows : request[s] # None /\ request'[s] = None => Settles(s)) <=>
      (\A s \in Windows : request[s] # None /\ request'[s] = None =>
           LET q == request[s]
           IN  task[q.task].kind = "CHANNEL" /\ claim' # claim => q.found)
    BY DEF Settles
<1>5. Inv /\ [Next]_vars =>
        [\A s \in Windows : request[s] # None /\ request'[s] = None =>
           LET q == request[s]
           IN  task[q.task].kind = "CHANNEL" /\ claim' # claim => q.found]_vars
    BY <1>3, <1>4
<1> QED BY <1>1, <1>2, <1>5, PTL DEF Spec, SettledAsChecked

----------------------------------------------------------------------------
(* Settled claims and what they were quoted: a settlement adds one term to a sum, *)
(* a reset moves the claims it archives from one sum into another.                *)

Pairs == TaskIds \X ClaimKeys
ClaimRows == [Members -> [TaskIds -> [ClaimKeys -> Quotes \cup {None}]]]
SettledIn(c, u) ==
    {x \in Pairs : c[u][x[1]][x[2]] # None /\ c[u][x[1]][x[2]].settled}
QuotedIn(c, u, X, f) == SumFunctionOnSet([x \in X |-> c[u][x[1]][x[2]][f]], X)
Fields == {"usdt", "xp"}

\* A sum over some claims, as a sum over the keys of all claims.
Worth(c, u, X, f) == [x \in Pairs |-> IF x \in X THEN c[u][x[1]][x[2]][f] ELSE 0]

LEMMA PairsFinite == IsFiniteSet(Pairs)
<1>1. MaxDay \in Nat /\ IsFiniteSet(TaskIds)
    BY TasksAssumption
<1>2. ClaimKeys = 0 .. MaxDay + 1
    BY <1>1 DEF ClaimKeys
<1>3. IsFiniteSet(ClaimKeys)
    BY <1>1, <1>2, FS_Interval
<1> QED BY <1>1, <1>3, FS_Product DEF Pairs

LEMMA SettledNat ==
    ASSUME NEW c \in ClaimRows, NEW u \in Members, NEW x \in SettledIn(c, u), NEW f \in Fields
    PROVE  c[u][x[1]][x[2]][f] \in Nat
<1>1. x[1] \in TaskIds /\ x[2] \in ClaimKeys
    BY DEF SettledIn, Pairs
<1>2. c[u][x[1]][x[2]] \in Quotes
    <2>1. c[u] \in [TaskIds -> [ClaimKeys -> Quotes \cup {None}]]
        BY DEF ClaimRows
    <2>2. c[u][x[1]] \in [ClaimKeys -> Quotes \cup {None}]
        BY <1>1, <2>1
    <2>3. c[u][x[1]][x[2]] \in Quotes \cup {None}
        BY <1>1, <2>2
    <2> QED BY <2>3 DEF SettledIn
<1> QED BY <1>2 DEF Quotes, Fields

LEMMA WorthNat ==
    ASSUME NEW c \in ClaimRows, NEW u \in Members, NEW X \in SUBSET SettledIn(c, u),
           NEW f \in Fields
    PROVE  \A x \in Pairs : Worth(c, u, X, f)[x] \in Nat
<1> TAKE x \in Pairs
<1>1. CASE x \in X
    BY <1>1, SettledNat DEF Worth
<1>2. CASE x \notin X
    BY <1>2 DEF Worth
<1> QED BY <1>1, <1>2

LEMMA QuotedAsWorth ==
    ASSUME NEW c \in ClaimRows, NEW u \in Members, NEW X \in SUBSET SettledIn(c, u),
           NEW f \in Fields
    PROVE  /\ QuotedIn(c, u, X, f) = SumFunctionOnSet(Worth(c, u, X, f), Pairs)
           /\ QuotedIn(c, u, X, f) \in Nat
<1> DEFINE g == [x \in X |-> c[u][x[1]][x[2]][f]]
           h == [x \in Pairs |-> IF x \in X THEN g[x] ELSE 0]
           w == Worth(c, u, X, f)
<1>1. X \in SUBSET Pairs
    BY DEF SettledIn
<1>2. \A x \in X : g[x] \in Int
    BY SettledNat
<1>3. h = w
    BY DEF Worth
<1>4. \A x \in Pairs : w[x] \in Nat
    BY WorthNat
<1>5. QuotedIn(c, u, X, f) = SumFunctionOnSet(g, X)
    BY DEF QuotedIn
<1> HIDE DEF g, w
<1>6. SumFunctionOnSet(g, X) = SumFunctionOnSet(h, Pairs)
    BY <1>1, <1>2, PairsFinite, SumPart
<1>7. SumFunctionOnSet(w, Pairs) \in Nat
    BY <1>4, PairsFinite, SumNat
<1> QED BY <1>3, <1>5, <1>6, <1>7 DEF w

\* d is c with q as the claim of member u under a key of task t.
Written(c, d, u, t, key, q) ==
    /\ d \in ClaimRows /\ d[u][t][key] = q
    /\ \A v \in Members \ {u} : d[v] = c[v]
    /\ \A x \in Pairs : x # <<t, key>> => d[u][x[1]][x[2]] = c[u][x[1]][x[2]]

LEMMA ClaimWritten ==
    ASSUME claim \in ClaimRows, NEW u \in Members, NEW t \in TaskIds, NEW key \in ClaimKeys,
           NEW q \in Quotes, claim' = [claim EXCEPT ![u][t][key] = q]
    PROVE  Written(claim, claim', u, t, key, q)
BY DEF Written, ClaimRows, Pairs

\* One more claim is settled.
LEMMA SettledMore ==
    ASSUME NEW c \in ClaimRows, NEW u \in Members, NEW t \in TaskIds, NEW key \in ClaimKeys,
           c[u][t][key] = None \/ ~c[u][t][key].settled,
           NEW q \in Quotes, q.settled,
           NEW d, Written(c, d, u, t, key, q)
    PROVE  /\ SettledIn(d, u) = SettledIn(c, u) \cup {<<t, key>>}
           /\ \A f \in Fields : QuotedIn(d, u, SettledIn(d, u), f)
                                = QuotedIn(c, u, SettledIn(c, u), f) + q[f]
<1> DEFINE pair == <<t, key>>
           old == SettledIn(c, u)
           new == SettledIn(d, u)
<1>1. d \in ClaimRows
    BY DEF Written
<1>2. d[u][t][key] = q
    BY DEF Written
<1>3. \A x \in Pairs : x # pair => d[u][x[1]][x[2]] = c[u][x[1]][x[2]]
    BY DEF Written
<1>4. pair \in Pairs /\ pair \notin old /\ pair[1] = t /\ pair[2] = key
    BY DEF Pairs, SettledIn
<1>5. q # None
    BY TasksAssumption
<1>6. new = old \cup {pair}
    <2>1. pair \in new
        BY <1>2, <1>4, <1>5 DEF SettledIn
    <2>2. \A x \in Pairs : x # pair => (x \in new <=> x \in old)
        BY <1>3 DEF SettledIn
    <2>3. new \subseteq Pairs /\ old \subseteq Pairs
        BY DEF SettledIn
    <2> HIDE DEF new, old, pair
    <2> QED BY <2>1, <2>2, <2>3
<1>7. ASSUME NEW f \in Fields
      PROVE  QuotedIn(d, u, new, f) = QuotedIn(c, u, old, f) + q[f]
    <2> DEFINE g == Worth(c, u, old, f)
               h == Worth(d, u, new, f)
    <2>1. \A x \in Pairs : g[x] \in Int /\ h[x] \in Int
        <3>1. \A x \in Pairs : g[x] \in Nat
            BY WorthNat
        <3>2. \A x \in Pairs : h[x] \in Nat
            BY <1>1, WorthNat
        <3> HIDE DEF g, h
        <3> QED BY <3>1, <3>2
    <2>2. h[pair] = q[f] /\ g[pair] = 0
        BY <1>2, <1>4, <1>6 DEF Worth
    <2>3. \A x \in Pairs \ {pair} : h[x] = g[x]
        <3> TAKE x \in Pairs \ {pair}
        <3>1. x \in Pairs /\ (x \in new <=> x \in old)
            BY <1>6
        <3>2. d[u][x[1]][x[2]] = c[u][x[1]][x[2]]
            BY <1>3
        <3> HIDE DEF pair, old, new
        <3> QED BY <3>1, <3>2 DEF Worth
    <2>4. QuotedIn(c, u, old, f) = SumFunctionOnSet(g, Pairs)
        BY QuotedAsWorth
    <2>5. QuotedIn(d, u, new, f) = SumFunctionOnSet(h, Pairs)
        BY <1>1, QuotedAsWorth
    <2> HIDE DEF g, h, pair, old, new
    <2>6. SumFunctionOnSet(h, Pairs) = SumFunctionOnSet(g, Pairs) + (h[pair] - g[pair])
        BY <1>4, <2>1, <2>3, PairsFinite, SumChange
    <2>7. h[pair] - g[pair] = h[pair] /\ h[pair] = q[f]
        BY <1>4, <2>1, <2>2
    <2> QED BY <2>4, <2>5, <2>6, <2>7
<1> QED BY <1>6, <1>7

\* A claim that is written unsettled changes no sum.
LEMMA SettledSame ==
    ASSUME NEW c \in ClaimRows, NEW u \in Members, NEW t \in TaskIds, NEW key \in ClaimKeys,
           c[u][t][key] = None \/ ~c[u][t][key].settled,
           NEW q \in Quotes, ~q.settled,
           NEW d, Written(c, d, u, t, key, q)
    PROVE  \A v \in Members :
               /\ SettledIn(d, v) = SettledIn(c, v)
               /\ \A f \in Fields : QuotedIn(d, v, SettledIn(d, v), f)
                                    = QuotedIn(c, v, SettledIn(c, v), f)
<1>1. d[u][t][key] = q
    BY DEF Written
<1>2. \A v \in Members, x \in Pairs :
          d[v][x[1]][x[2]] = c[v][x[1]][x[2]] \/ (v = u /\ x[1] = t /\ x[2] = key)
    <2> TAKE v \in Members, x \in Pairs
    <2>1. x = <<x[1], x[2]>>
        BY DEF Pairs
    <2> QED BY <2>1 DEF Written
<1>3. ASSUME NEW v \in Members PROVE SettledIn(d, v) = SettledIn(c, v)
    BY <1>1, <1>2 DEF SettledIn
<1>4. ASSUME NEW v \in Members, NEW f \in Fields
      PROVE  QuotedIn(d, v, SettledIn(d, v), f) = QuotedIn(c, v, SettledIn(c, v), f)
    <2>1. \A x \in SettledIn(c, v) : d[v][x[1]][x[2]] = c[v][x[1]][x[2]]
        BY <1>2 DEF SettledIn
    <2>2. [x \in SettledIn(c, v) |-> d[v][x[1]][x[2]][f]]
              = [x \in SettledIn(c, v) |-> c[v][x[1]][x[2]][f]]
        BY <2>1
    <2> QED BY <1>3, <2>2 DEF QuotedIn
<1> QED BY <1>3, <1>4

\* d is c without the claims of tasks outside K, of which gone were settled.
Thinned(c, d, u, K, gone) ==
    /\ gone = {x \in SettledIn(c, u) : x[1] \notin K}
    /\ \A x \in Pairs : d[u][x[1]][x[2]] = IF x[1] \in K THEN c[u][x[1]][x[2]] ELSE None

\* A reset takes some claims away.
LEMMA SettledLess ==
    ASSUME NEW c \in ClaimRows, NEW d \in ClaimRows, NEW u \in Members, NEW K, NEW gone,
           Thinned(c, d, u, K, gone)
    PROVE  /\ SettledIn(d, u) = SettledIn(c, u) \ gone
           /\ \A f \in Fields :
                 /\ QuotedIn(c, u, gone, f) \in Nat
                 /\ QuotedIn(c, u, SettledIn(c, u), f)
                        = QuotedIn(c, u, gone, f) + QuotedIn(d, u, SettledIn(d, u), f)
<1> DEFINE old == SettledIn(c, u)
           new == SettledIn(d, u)
<1>3. new = old \ gone
    BY DEF SettledIn, Thinned
<1>4. gone \in SUBSET old
    BY DEF Thinned
<1>5. \A x \in new : d[u][x[1]][x[2]] = c[u][x[1]][x[2]]
    BY DEF SettledIn, Thinned
<1>6. ASSUME NEW f \in Fields
      PROVE  /\ QuotedIn(c, u, gone, f) \in Nat
             /\ QuotedIn(c, u, old, f) = QuotedIn(c, u, gone, f) + QuotedIn(d, u, new, f)
    <2> DEFINE all == Worth(c, u, old, f)
               part == Worth(c, u, gone, f)
               rest == Worth(d, u, new, f)
    <2>1. /\ \A x \in Pairs : part[x] \in Nat
          /\ \A x \in Pairs : rest[x] \in Nat
          /\ \A x \in Pairs : all[x] \in Nat
        BY <1>4, WorthNat
    <2>2. /\ QuotedIn(c, u, old, f) = SumFunctionOnSet(all, Pairs)
          /\ QuotedIn(c, u, gone, f) = SumFunctionOnSet(part, Pairs)
          /\ QuotedIn(d, u, new, f) = SumFunctionOnSet(rest, Pairs)
          /\ QuotedIn(c, u, gone, f) \in Nat
        BY <1>4, QuotedAsWorth
    <2>3. \A x \in Pairs : all[x] = part[x] + rest[x]
        <3> TAKE x \in Pairs
        <3>1. CASE x \in gone
            <4>1. all[x] = part[x] /\ rest[x] = 0
                BY <1>3, <1>4, <3>1 DEF Worth
            <4> HIDE DEF all, part, rest
            <4> QED BY <2>1, <4>1
        <3>2. CASE x \notin gone
            <4>1. all[x] = rest[x] /\ part[x] = 0
                BY <1>3, <1>5, <3>2 DEF Worth
            <4> HIDE DEF all, part, rest
            <4> QED BY <2>1, <4>1
        <3> QED BY <3>1, <3>2
    <2> HIDE DEF all, part, rest
    <2>4. SumFunctionOnSet(all, Pairs)
              = SumFunctionOnSet(part, Pairs) + SumFunctionOnSet(rest, Pairs)
        BY <2>1, <2>3, PairsFinite, SumPlus
    <2> QED BY <2>2, <2>4
<1> QED BY <1>3, <1>6

----------------------------------------------------------------------------
(* PaidAsQuoted. *)

PaidTypes ==
    /\ claim \in ClaimRows
    /\ \A s \in Windows : request[s] # None => request[s].day \in 0 .. MaxDay
    /\ opened \subseteq Members \X TaskIds \X (0 .. MaxDay)
    /\ joined \subseteq Members /\ boosted \subseteq Members
    /\ cycles \in [Members -> Nat] /\ xp \in [Members -> Nat]
    /\ usdt \in [Members -> Nat] /\ pool \in Nat /\ day \in 0 .. MaxDay
    /\ archived \in [Members -> [usdt : Nat, xp : Nat]] /\ resets \in 0 .. MaxResets
SumOf(u, f) == QuotedIn(claim, u, SettledIn(claim, u), f)
Paid ==
    \A u \in Members : /\ usdt[u] = archived[u].usdt + SumOf(u, "usdt")
                       /\ xp[u] = archived[u].xp + SumOf(u, "xp")
PaidInv == PaidTypes /\ Paid

LEMMA PaidParts ==
    \A u : /\ SettledOf(u) = SettledIn(claim, u)
           /\ \A X : /\ Quoted(u, X).usdt = QuotedIn(claim, u, X, "usdt")
                     /\ Quoted(u, X).xp = QuotedIn(claim, u, X, "xp")
BY DEF SettledOf, SettledIn, Pairs, Quoted, QuotedIn

LEMMA SettleBooks ==
    ASSUME PaidInv, NEW u \in Members, NEW t \in TaskIds, NEW key \in ClaimKeys,
           claim[u][t][key] = None \/ ~claim[u][t][key].settled,
           NEW c \in Quotes, Settle(u, t, key, c), UNCHANGED archived
    PROVE  /\ claim' \in ClaimRows /\ Paid'
           /\ xp' \in [Members -> Nat] /\ usdt' \in [Members -> Nat] /\ pool' \in Nat
<1> DEFINE q == [c EXCEPT !.verified = TRUE, !.settled = TRUE]
<1>1. /\ pool >= c.usdt /\ pool' = pool - c.usdt
      /\ claim' = [claim EXCEPT ![u][t][key] = q]
      /\ usdt' = [usdt EXCEPT ![u] = @ + c.usdt] /\ xp' = [xp EXCEPT ![u] = @ + c.xp]
    BY DEF Settle, Funded
<1>2. q \in Quotes /\ q.settled /\ q["usdt"] = c.usdt /\ q["xp"] = c.xp
      /\ c.usdt \in Nat /\ c.xp \in Nat
    BY DEF Quotes
<1>3. /\ claim \in ClaimRows /\ xp \in [Members -> Nat] /\ usdt \in [Members -> Nat]
      /\ pool \in Nat /\ archived \in [Members -> [usdt : Nat, xp : Nat]]
    BY DEF PaidInv, PaidTypes
<1> HIDE DEF q
<1>4. /\ claim' \in ClaimRows
      /\ \A v \in Members \ {u} : claim'[v] = claim[v]
      /\ \A f \in Fields : QuotedIn(claim', u, SettledIn(claim', u), f)
                           = QuotedIn(claim, u, SettledIn(claim, u), f) + q[f]
    <2>1. PICK b, d : b = claim /\ d = claim'
        OBVIOUS
    <2>2. Written(claim, claim', u, t, key, q)
        BY <1>1, <1>2, <1>3, ClaimWritten
    <2>3. /\ b \in ClaimRows /\ Written(b, d, u, t, key, q)
          /\ b[u][t][key] = None \/ ~b[u][t][key].settled
        BY <1>3, <2>1, <2>2
    <2>4. \A f \in Fields : QuotedIn(d, u, SettledIn(d, u), f)
                            = QuotedIn(b, u, SettledIn(b, u), f) + q[f]
        BY <1>2, <2>3, SettledMore
    <2> QED BY <2>1, <2>3, <2>4 DEF Written
<1>5. SumOf(u, "usdt")' = SumOf(u, "usdt") + c.usdt /\ SumOf(u, "xp")' = SumOf(u, "xp") + c.xp
    BY <1>2, <1>4 DEF Fields, SumOf
<1>6. SumOf(u, "usdt") \in Nat /\ SumOf(u, "xp") \in Nat
    <2>1. "usdt" \in Fields /\ "xp" \in Fields
        BY DEF Fields
    <2>2. SettledIn(claim, u) \in SUBSET SettledIn(claim, u)
        OBVIOUS
    <2> QED BY <1>3, <2>1, <2>2, QuotedAsWorth DEF SumOf
<1>7. xp' \in [Members -> Nat] /\ usdt' \in [Members -> Nat] /\ pool' \in Nat
    BY <1>1, <1>2, <1>3
<1>8. ASSUME NEW v \in Members
      PROVE  /\ usdt'[v] = archived'[v].usdt + SumOf(v, "usdt")'
             /\ xp'[v] = archived'[v].xp + SumOf(v, "xp")'
    <2>1. /\ usdt[v] = archived[v].usdt + SumOf(v, "usdt")
          /\ xp[v] = archived[v].xp + SumOf(v, "xp")
        BY DEF PaidInv, Paid
    <2>2. archived[v].usdt \in Nat /\ archived[v].xp \in Nat
        BY <1>3
    <2>3. CASE v # u
        <3>1. SumOf(v, "usdt")' = SumOf(v, "usdt") /\ SumOf(v, "xp")' = SumOf(v, "xp")
            BY <1>4, <2>3 DEF SumOf, SettledIn, QuotedIn
        <3>2. usdt'[v] = usdt[v] /\ xp'[v] = xp[v]
            BY <1>1, <1>3, <2>3
        <3> QED BY <2>1, <3>1, <3>2
    <2>4. CASE v = u
        <3>1. usdt'[u] = usdt[u] + c.usdt /\ xp'[u] = xp[u] + c.xp
            BY <1>1, <1>3
        <3> QED BY <1>2, <1>5, <1>6, <2>1, <2>2, <2>4, <3>1
    <2> QED BY <2>3, <2>4
<1>9. Paid'
    BY <1>8 DEF Paid
<1> QED BY <1>4, <1>7, <1>9

LEMMA ClaimBooks ==
    ASSUME Inv, PaidInv, NEW s \in Windows, ClaimTask(s)
    PROVE  PaidInv'
<1> DEFINE r == request[s]
           u == r.member
           t == r.task
           key == KeyOf(t, r.day)
           earlier == claim[u][t][key]
           c == IF earlier = None THEN Quote(u, t) ELSE earlier
<1>1. /\ r # None /\ (earlier # None => ~earlier.settled)
      /\ request' = [request EXCEPT ![s] = None]
      /\ \/ Settle(u, t, key, c)
         \/ claim' = [claim EXCEPT ![u][t][key] = c] /\ UNCHANGED rewards
      /\ UNCHANGED <<world, history>>
    BY DEF ClaimTask
<1>2. u \in Members /\ t \in TaskIds /\ r.day \in 0 .. MaxDay
    <2>1. r \in Requests
        BY <1>1 DEF Inv
    <2> QED BY <1>1, <2>1 DEF Requests, PaidInv, PaidTypes
<1>3. key \in ClaimKeys
    BY <1>2 DEF KeyOf, ClaimKeys, Once
<1>4. claim \in ClaimRows /\ task[t].reward \in Nat
    BY <1>2 DEF PaidInv, PaidTypes, Inv, TaskType
<1>5. earlier = None \/ ~earlier.settled
    BY <1>1
<1>6. c \in Quotes /\ ~c.settled
    <2>1. Quote(u, t) \in Quotes /\ ~Quote(u, t).settled
        BY <1>4 DEF Quote, Quotes
    <2>2. earlier \in Quotes \cup {None}
        BY <1>2, <1>3, <1>4 DEF ClaimRows
    <2> HIDE DEF earlier, r, u, t, key
    <2> QED BY <1>5, <2>1, <2>2
<1> HIDE DEF c
<1>7. /\ claim' \in ClaimRows /\ Paid'
      /\ xp' \in [Members -> Nat] /\ usdt' \in [Members -> Nat] /\ pool' \in Nat
    <2>1. CASE Settle(u, t, key, c)
        <3>1. UNCHANGED archived
            BY <1>1 DEF history
        <3> HIDE DEF r, u, t, key
        <3> QED BY <1>2, <1>3, <1>5, <1>6, <2>1, <3>1, SettleBooks
    <2>2. CASE claim' = [claim EXCEPT ![u][t][key] = c] /\ UNCHANGED rewards
        <3>1. UNCHANGED <<archived, xp, usdt, pool>>
            BY <1>1, <2>2 DEF history, rewards
        <3> HIDE DEF r, u, t, key
        <3>2. Written(claim, claim', u, t, key, c)
            BY <1>2, <1>3, <1>4, <1>6, <2>2, ClaimWritten
        <3>3. PICK b, d : b = claim /\ d = claim'
            OBVIOUS
        <3>4. /\ b \in ClaimRows /\ Written(b, d, u, t, key, c)
              /\ b[u][t][key] = None \/ ~b[u][t][key].settled
            BY <1>4, <1>5, <3>2, <3>3 DEF earlier
        <3>5. \A v \in Members : \A f \in Fields :
                  QuotedIn(d, v, SettledIn(d, v), f) = QuotedIn(b, v, SettledIn(b, v), f)
            BY <1>2, <1>3, <1>6, <3>4, SettledSame
        <3>6. \A v \in Members : /\ SumOf(v, "usdt")' = SumOf(v, "usdt")
                                 /\ SumOf(v, "xp")' = SumOf(v, "xp")
            BY <3>3, <3>5 DEF SumOf, Fields
        <3>7. Paid'
            BY <3>1, <3>6 DEF PaidInv, Paid
        <3> QED BY <3>1, <3>2, <3>7 DEF Written, PaidInv, PaidTypes
    <2> QED BY <1>1, <2>1, <2>2
<1>8. \A w \in Windows : request'[w] # None => request'[w].day \in 0 .. MaxDay
    BY <1>1 DEF PaidInv, PaidTypes, Inv
<1>9. UNCHANGED <<opened, joined, boosted, cycles, day, archived, resets>>
    BY <1>1 DEF world, history
<1> QED BY <1>7, <1>8, <1>9 DEF PaidInv, PaidTypes

LEMMA ApproveBooks ==
    ASSUME PaidInv, NEW u \in Members, NEW t \in TaskIds, NEW key \in ClaimKeys,
           ApproveTaskClaim(u, t, key)
    PROVE  PaidInv'
<1>1. /\ claim[u][t][key] # None /\ ~claim[u][t][key].settled
      /\ Settle(u, t, key, claim[u][t][key])
      /\ UNCHANGED <<request, world, history>>
    BY DEF ApproveTaskClaim, Approvable
<1>2. claim[u][t][key] \in Quotes
    BY <1>1 DEF PaidInv, PaidTypes, ClaimRows
<1>3. UNCHANGED archived
    BY <1>1 DEF history
<1>4. /\ claim' \in ClaimRows /\ Paid'
      /\ xp' \in [Members -> Nat] /\ usdt' \in [Members -> Nat] /\ pool' \in Nat
    BY <1>1, <1>2, <1>3, SettleBooks
<1> QED BY <1>1, <1>4 DEF world, history, PaidInv, PaidTypes

LEMMA ResetTaskBooks ==
    ASSUME PaidInv, ResetProgress
    PROVE  PaidInv'
<1> DEFINE K == {t \in TaskIds : task[t].rank > 0}
           gone(u) == {x \in SettledIn(claim, u) : x[1] \notin K}
           lost(u, f) == QuotedIn(claim, u, gone(u), f)
<1>1. \A u \in Members : {x \in SettledOf(u) : ~Kept(x[1])} = gone(u)
    BY PaidParts DEF Kept, SettledIn, Pairs
<1>2. claim' = [u \in Members |-> [t \in TaskIds |->
                   IF t \in K THEN claim[u][t] ELSE [k \in ClaimKeys |-> None]]]
    BY DEF ResetProgress, Kept
<1>3. archived' = [u \in Members |-> [usdt |-> archived[u].usdt + lost(u, "usdt"),
                                      xp |-> archived[u].xp + lost(u, "xp")]]
    <2>1. archived' = [u \in Members |->
              [usdt |-> archived[u].usdt + Quoted(u, {x \in SettledOf(u) : ~Kept(x[1])}).usdt,
               xp |-> archived[u].xp + Quoted(u, {x \in SettledOf(u) : ~Kept(x[1])}).xp]]
        BY DEF ResetProgress
    <2>2. \A u \in Members :
              /\ Quoted(u, {x \in SettledOf(u) : ~Kept(x[1])}).usdt = lost(u, "usdt")
              /\ Quoted(u, {x \in SettledOf(u) : ~Kept(x[1])}).xp = lost(u, "xp")
        BY <1>1, PaidParts
    <2> HIDE DEF lost
    <2> QED BY <2>1, <2>2
<1>4. /\ claim \in ClaimRows /\ xp \in [Members -> Nat] /\ usdt \in [Members -> Nat]
      /\ archived \in [Members -> [usdt : Nat, xp : Nat]]
    BY DEF PaidInv, PaidTypes
<1>5. claim' \in ClaimRows
    BY <1>2, <1>4 DEF ClaimRows
<1>6. ASSUME NEW u \in Members, NEW f \in Fields
      PROVE  lost(u, f) \in Nat /\ SumOf(u, f) = lost(u, f) + SumOf(u, f)'
    <2> DEFINE k == K
               g == gone(u)
    <2>1. PICK b, d : b = claim /\ d = claim'
        OBVIOUS
    <2>2. b \in ClaimRows /\ d \in ClaimRows /\ Thinned(b, d, u, k, g)
        BY <1>2, <1>4, <1>5, <2>1 DEF Pairs, Thinned
    <2> HIDE DEF k, g
    <2>3. /\ QuotedIn(b, u, g, f) \in Nat
          /\ QuotedIn(b, u, SettledIn(b, u), f)
                 = QuotedIn(b, u, g, f) + QuotedIn(d, u, SettledIn(d, u), f)
        BY <2>2, SettledLess
    <2> QED BY <2>1, <2>3 DEF SumOf, g
<1>7. \A u \in Members, f \in Fields : SumOf(u, f)' \in Nat
    <2> TAKE u \in Members, f \in Fields
    <2>1. PICK d : d = claim'
        OBVIOUS
    <2>2. d \in ClaimRows /\ SettledIn(d, u) \in SUBSET SettledIn(d, u)
        BY <1>5, <2>1
    <2>3. QuotedIn(d, u, SettledIn(d, u), f) \in Nat
        BY <2>2, QuotedAsWorth
    <2> QED BY <2>1, <2>3 DEF SumOf
<1> HIDE DEF lost
<1>8. "usdt" \in Fields /\ "xp" \in Fields
    BY DEF Fields
<1>9. archived' \in [Members -> [usdt : Nat, xp : Nat]]
    <2>1. \A u \in Members : lost(u, "usdt") \in Nat /\ lost(u, "xp") \in Nat
        BY <1>6, <1>8
    <2> QED BY <1>3, <1>4, <2>1
<1>10. Paid'
    <2> SUFFICES ASSUME NEW u \in Members
                 PROVE  /\ usdt'[u] = archived'[u].usdt + SumOf(u, "usdt")'
                        /\ xp'[u] = archived'[u].xp + SumOf(u, "xp")'
        BY DEF Paid
    <2>1. /\ usdt[u] = archived[u].usdt + SumOf(u, "usdt")
          /\ xp[u] = archived[u].xp + SumOf(u, "xp")
          /\ usdt' = usdt /\ xp' = xp
        BY DEF PaidInv, Paid, ResetProgress, rewards
    <2>2. /\ archived'[u].usdt = archived[u].usdt + lost(u, "usdt")
          /\ archived'[u].xp = archived[u].xp + lost(u, "xp")
        BY <1>3
    <2>3. archived[u].usdt \in Nat /\ archived[u].xp \in Nat
        BY <1>4
    <2>4. /\ lost(u, "usdt") \in Nat /\ SumOf(u, "usdt") = lost(u, "usdt") + SumOf(u, "usdt")'
          /\ lost(u, "xp") \in Nat /\ SumOf(u, "xp") = lost(u, "xp") + SumOf(u, "xp")'
          /\ SumOf(u, "usdt")' \in Nat /\ SumOf(u, "xp")' \in Nat
        BY <1>6, <1>7, <1>8
    <2> QED BY <2>1, <2>2, <2>3, <2>4
<1>11. resets' \in 0 .. MaxResets
    BY TasksAssumption DEF ResetProgress, PaidInv, PaidTypes
<1> QED BY <1>5, <1>9, <1>10, <1>11 DEF ResetProgress, world, rewards, PaidInv, PaidTypes

\* Every other step: no claim is written and nobody is credited.
LEMMA OtherBooks ==
    ASSUME PaidInv, PaidTypes', UNCHANGED <<claim, xp, usdt, archived>>
    PROVE  PaidInv'
BY DEF PaidInv, Paid, SumOf, QuotedIn, SettledIn

LEMMA PaidStep == Inv /\ PaidInv /\ [Next]_vars => PaidInv'
<1> SUFFICES ASSUME Inv, PaidInv, [Next]_vars PROVE PaidInv'
    OBVIOUS
<1> USE DEF PaidInv, PaidTypes, world, history, rewards
<1>1. ASSUME NEW s \in Windows, NEW u \in Members, NEW t \in TaskIds, Check(s, u, t)
      PROVE  PaidInv'
    <2>1. \A w \in Windows : request'[w] # None => request'[w].day \in 0 .. MaxDay
        BY <1>1 DEF Check, Inv
    <2> QED BY <1>1, <2>1, OtherBooks DEF Check
<1>2. ASSUME NEW s \in Windows, Refuse(s) PROVE PaidInv'
    <2>1. \A w \in Windows : request'[w] # None => request'[w].day \in 0 .. MaxDay
        BY <1>2 DEF Refuse, Inv
    <2> QED BY <1>2, <2>1, OtherBooks DEF Refuse
<1>3. ASSUME NEW u \in Members, NEW t \in TaskIds, OpenLink(u, t) PROVE PaidInv'
    <2>1. opened' \subseteq Members \X TaskIds \X (0 .. MaxDay)
        BY <1>3 DEF OpenLink
    <2> QED BY <1>3, <2>1, OtherBooks DEF OpenLink
<1>4. ASSUME NEW t \in TaskIds, NEW entry, EditTask(t, entry) \/ ArchiveTask(t)
      PROVE  PaidInv'
    BY <1>4, OtherBooks DEF EditTask, ArchiveTask
<1>5. ASSUME World PROVE PaidInv'
    <2>1. CASE Noon
        <3>1. day' \in 0 .. MaxDay
            BY <2>1, TasksAssumption DEF Noon
        <3> QED BY <2>1, <3>1, OtherBooks DEF Noon
    <2>2. ASSUME NEW u \in Members, JoinOrLeave(u) PROVE PaidInv'
        BY <2>2, OtherBooks DEF JoinOrLeave
    <2>3. ASSUME NEW u \in Members, Cycle(u) PROVE PaidInv'
        <3>1. cycles' \in [Members -> Nat]
            BY <2>3 DEF Cycle
        <3> QED BY <2>3, <3>1, OtherBooks DEF Cycle
    <2>4. ASSUME NEW u \in Members, BoostChanges(u) PROVE PaidInv'
        BY <2>4, OtherBooks DEF BoostChanges
    <2> QED BY <1>5, <2>1, <2>2, <2>3, <2>4 DEF World
<1>6. CASE UNCHANGED vars
    BY <1>6, OtherBooks DEF vars
<1> QED BY <1>1, <1>2, <1>3, <1>4, <1>5, <1>6, ClaimBooks, ApproveBooks, ResetTaskBooks
        DEF Next, Claiming, Administration

LEMMA PaidInit == Init => PaidInv
<1> SUFFICES ASSUME Init PROVE PaidInv
    OBVIOUS
<1>1. PaidTypes
    BY TasksAssumption DEF Init, PaidTypes, ClaimRows
<1>2. ASSUME NEW u \in Members, NEW f PROVE SumOf(u, f) = 0
    <2>1. SettledIn(claim, u) = {}
        BY DEF Init, SettledIn, Pairs
    <2> QED BY <2>1, SumEmpty DEF SumOf, QuotedIn
<1>3. Paid
    BY <1>2 DEF Init, Paid
<1> QED BY <1>1, <1>3 DEF PaidInv

\* Through overlapping windows, approvals, edits of the reward and resets, a member
\* has been credited what his settled claims were quoted, each once (task-rewards.ts).
THEOREM PaidAsQuotedHolds == Spec => []PaidAsQuoted
<1>1. Inv /\ PaidInv => PaidAsQuoted
    <2> SUFFICES ASSUME Inv, PaidInv PROVE PaidAsQuoted
        OBVIOUS
    <2>1. \A u \in Members, t \in TaskIds, k \in ClaimKeys :
              claim[u][t][k] = None \/ claim[u][t][k] \in Quotes
        BY DEF PaidInv, PaidTypes, ClaimRows
    <2>2. TypeOK
        BY <2>1 DEF Inv, Requests, PaidInv, PaidTypes, TypeOK
    <2> QED BY <2>2, PaidParts DEF PaidInv, Paid, SumOf, PaidAsQuoted
<1> QED BY <1>1, InitInv, NextKeep, PaidInit, PaidStep, PTL DEF Spec

----------------------------------------------------------------------------
(* RanksInOrder.  A claim counts settled claims of lower ranks; if no task is    *)
(* counted twice, the count is right only if each lower rank is among them,      *)
(* because no two tasks share a rank.                                            *)

DistinctRanks ==
    \A t, other \in TaskIds :
        task[t].rank > 0 /\ task[other].rank = task[t].rank => other = t

LEMMA DistinctInit == Init => DistinctRanks
BY RanksAssumption DEF Init, DistinctRanks

LEMMA DistinctStep == Inv /\ DistinctRanks /\ [Next]_vars => DistinctRanks'
<1> SUFFICES ASSUME Inv, DistinctRanks, [Next]_vars PROVE DistinctRanks'
    OBVIOUS
<1>1. UNCHANGED task => DistinctRanks'
    BY DEF DistinctRanks
<1>2. ASSUME NEW t \in TaskIds, NEW entry \in Edits[t], EditTask(t, entry) PROVE DistinctRanks'
    <2>1. /\ task'[t].rank = entry.rank
          /\ \A u \in TaskIds : u # t => task'[u] = task[u]
        BY <1>2, EditedRow DEF Inv
    <2>2. entry.rank > 0 => \A other \in TaskIds \ {t} : task[other].rank # entry.rank
        BY <1>2 DEF EditTask, RankFree
    <2> QED BY <2>1, <2>2 DEF DistinctRanks
<1>3. ASSUME NEW t \in TaskIds, ArchiveTask(t) PROVE DistinctRanks'
    <2>1. task' = [task EXCEPT ![t].status = "ARCHIVED", ![t].version = @ + 1]
        BY <1>3 DEF ArchiveTask
    <2>2. \A u \in TaskIds : task'[u].rank = task[u].rank
        BY <2>1 DEF Inv, TaskType
    <2> QED BY <2>2 DEF DistinctRanks
<1>4. CASE Claiming
    BY <1>1, <1>4 DEF Claiming, Check, ClaimTask, Refuse, OpenLink, ApproveTaskClaim
<1>5. CASE ResetProgress \/ World
    BY <1>1, <1>5 DEF ResetProgress, World, Noon, JoinOrLeave, Cycle, BoostChanges
<1>6. CASE UNCHANGED vars
    BY <1>1, <1>6 DEF vars
<1> QED BY <1>2, <1>3, <1>4, <1>5, <1>6 DEF Next, Administration

\* Lower claims of distinct tasks, as many as there are lower ranks, are of every
\* lower rank.
LEMMA RankCount ==
    ASSUME Inv, PaidInv, DistinctRanks, NEW u \in Members, NEW n \in Nat, n > 0,
           EachOnce(LowerHeld(u, n)), Cardinality(LowerHeld(u, n)) = n - 1
    PROVE  \A k \in 1 .. n - 1 : \E x \in LowerHeld(u, n) : task[x[1]].rank = k
<1> DEFINE S == LowerHeld(u, n)
           m == n - 1
           f == [x \in S |-> task[x[1]].rank]
<1>1. \A x \in S : x[1] \in TaskIds /\ task[x[1]].rank \in 1 .. m
    BY DEF LowerHeld, SettledOf
<1>2. \A x, y \in S : task[x[1]].rank = task[y[1]].rank => x = y
    <2> SUFFICES ASSUME NEW x \in S, NEW y \in S, task[x[1]].rank = task[y[1]].rank
                 PROVE  x = y
        OBVIOUS
    <2>1. x[1] \in TaskIds /\ y[1] \in TaskIds /\ task[x[1]].rank > 0
        BY <1>1
    <2>2. x[1] = y[1]
        BY <2>1 DEF DistinctRanks
    <2> QED BY <2>2 DEF EachOnce
<1>3. m \in Nat /\ Cardinality(S) = m
    OBVIOUS
<1> HIDE DEF S, m
<1>4. f \in [S -> 1 .. m]
    BY <1>1
<1>5. f \in Injection(S, 1 .. m)
    BY <1>2, <1>4 DEF Injection, IsInjective
<1>6. IsFiniteSet(1 .. m) /\ Cardinality(1 .. m) = m
    BY <1>3, FS_Interval
<1>7. f \in Surjection(S, 1 .. m)
    BY <1>3, <1>5, <1>6, FS_Injection
<1>8. \A k \in 1 .. m : \E x \in S : task[x[1]].rank = k
    BY <1>7 DEF Surjection
<1> QED BY <1>8 DEF S, m

\* The highest rank the app counts is at least any published rank held.
LEMMA ShownAtLeast ==
    ASSUME Inv, NEW u \in Members
    PROVE  /\ CompletedRank(u) \in Nat
           /\ \A x \in SettledOf(u) :
                  task[x[1]].status = "PUBLISHED" => task[x[1]].rank <= CompletedRank(u)
<1> DEFINE S == {y \in SettledOf(u) : task[y[1]].status = "PUBLISHED"}
           f == [x \in S |-> task[x[1]].rank]
           R == {task[x[1]].rank : x \in S}
           L == R \cup {0}
<1>1. \A x \in S : x[1] \in TaskIds /\ task[x[1]].rank \in Nat
    BY DEF SettledOf, Inv, TaskType
<1>2. L \subseteq Nat /\ L # {} /\ 0 \in L
    BY <1>1
<1>3. IsFiniteSet(S)
    <2>1. S \in SUBSET Pairs
        BY DEF SettledOf, Pairs
    <2> HIDE DEF S
    <2> QED BY <2>1, PairsFinite, FS_Subset
<1>4. IsFiniteSet(R)
    <2>1. f \in Surjection(S, R)
        BY DEF Surjection
    <2> HIDE DEF f, S, R
    <2> QED BY <1>3, <2>1, FS_Surjection
<1>5. IsFiniteSet(L)
    <2> HIDE DEF R
    <2> QED BY <1>4, FS_AddElement
<1>6. \E m \in L : \A n \in L : m >= n
    <2> HIDE DEF L
    <2>1. L \subseteq Int
        BY <1>2
    <2>2. \E m \in L : \A n \in L : n <= m
        BY <1>2, <1>5, <2>1, LargestNumber
    <2> QED BY <1>2, <2>2
<1>7. CompletedRank(u) \in L /\ \A n \in L : CompletedRank(u) >= n
    <2>1. CompletedRank(u) = Max(L)
        BY DEF CompletedRank
    <2> HIDE DEF L
    <2> QED BY <1>6, <2>1 DEF Max
<1>8. \A x \in S : task[x[1]].rank \in L
    OBVIOUS
<1> HIDE DEF L
<1> QED BY <1>2, <1>7, <1>8

\* What a claim put down by a member's call says of the ranks.
InOrder(s) ==
    LET u == request[s].member
        t == request[s].task
        held == LowerHeld(u, task[t].rank)
    IN  EachOnce(held) =>
            /\ \A n \in 1 .. task[t].rank - 1 : \E x \in held : task[x[1]].rank = n
            /\ (\A x \in held : task[x[1]].status = "PUBLISHED") => ~ShownLocked(u, t)

LEMMA ClaimInOrder ==
    ASSUME Inv, PaidInv, DistinctRanks, NEW s \in Windows, ClaimTask(s)
    PROVE  InOrder(s)
<1> DEFINE u == request[s].member
           t == request[s].task
           n == task[t].rank
           held == LowerHeld(u, n)
<1>1. u \in Members /\ t \in TaskIds
    BY DEF ClaimTask, Inv, Requests
<1>2. n \in Nat
    BY <1>1 DEF Inv, TaskType
<1>3. n > 0 => Cardinality(held) = n - 1
    BY DEF ClaimTask, RankOpen, LowerHeld
<1>4. /\ CompletedRank(u) \in Nat
      /\ \A x \in SettledOf(u) :
             task[x[1]].status = "PUBLISHED" => task[x[1]].rank <= CompletedRank(u)
    BY <1>1, ShownAtLeast
<1>5. ShownLocked(u, t) <=> n > CompletedRank(u) + 1
    BY DEF ShownLocked, NextRank
<1>6. held \subseteq SettledOf(u)
    BY DEF LowerHeld
<1> SUFFICES ASSUME EachOnce(held)
             PROVE  /\ \A k \in 1 .. n - 1 : \E x \in held : task[x[1]].rank = k
                    /\ (\A x \in held : task[x[1]].status = "PUBLISHED")
                           => ~ShownLocked(u, t)
    BY DEF InOrder
<1> HIDE DEF u, t, n
<1>7. \A k \in 1 .. n - 1 : \E x \in held : task[x[1]].rank = k
    <2>1. CASE n > 0
        BY <1>1, <1>2, <1>3, <2>1, RankCount
    <2>2. CASE n = 0
        BY <2>2
    <2> QED BY <1>2, <2>1, <2>2
<1> HIDE DEF held
<1>8. ASSUME \A x \in held : task[x[1]].status = "PUBLISHED" PROVE ~ShownLocked(u, t)
    <2>1. CASE n <= 1
        BY <1>2, <1>4, <1>5, <2>1
    <2>2. CASE n > 1
        <3>1. PICK x \in held : task[x[1]].rank = n - 1
            BY <1>2, <1>7, <2>2
        <3>2. n - 1 <= CompletedRank(u)
            BY <1>4, <1>6, <1>8, <3>1
        <3> QED BY <1>2, <1>4, <1>5, <3>2
    <2> QED BY <1>2, <2>1, <2>2
<1> QED BY <1>7, <1>8

LEMMA StepInOrder ==
    ASSUME Inv, PaidInv, DistinctRanks, Next, NEW s \in Windows,
           request[s] # None, request'[s] = None, claim' # claim
    PROVE  InOrder(s)
<1>1. ASSUME NEW r \in Windows, ClaimTask(r) PROVE InOrder(s)
    <2>1. request' = [request EXCEPT ![r] = None]
        BY <1>1 DEF ClaimTask
    <2>2. r = s
        BY <2>1 DEF Inv
    <2> QED BY <1>1, <2>2, ClaimInOrder
<1>2. request' = request => FALSE
    OBVIOUS
<1>3. ASSUME NEW r \in Windows, Refuse(r) \/ \E u \in Members, t \in TaskIds : Check(r, u, t)
      PROVE  FALSE
    BY <1>3 DEF Refuse, Check
<1>4. ASSUME NEW u \in Members, NEW t \in TaskIds,
             OpenLink(u, t) \/ \E key \in ClaimKeys : ApproveTaskClaim(u, t, key)
      PROVE  FALSE
    BY <1>2, <1>4 DEF OpenLink, ApproveTaskClaim
<1>5. ASSUME NEW t \in TaskIds, ArchiveTask(t) \/ \E entry \in Edits[t] : EditTask(t, entry)
      PROVE  FALSE
    BY <1>2, <1>5 DEF ArchiveTask, EditTask
<1>6. ResetProgress \/ World => FALSE
    BY <1>2 DEF ResetProgress, World, Noon, JoinOrLeave, Cycle, BoostChanges
<1> QED BY <1>1, <1>3, <1>4, <1>5, <1>6 DEF Next, Claiming, Administration

\* Through overlapping windows, approvals, resets and edits that move, remove, archive
\* and restore ranks, a member's call puts down a claim of a rank only if he holds every
\* rank below it, and the app showed it unlocked (task-rewards.ts:134-142), unless one
\* task of a lower rank has two settled claims of his.
THEOREM RanksInOrderHolds == Spec => RanksInOrder
<1>1. Inv /\ PaidInv /\ DistinctRanks /\ [Next]_vars =>
        [\A s \in Windows : request[s] # None /\ request'[s] = None /\ claim' # claim =>
             InOrder(s)]_vars
    BY StepInOrder
<1>2. Inv /\ PaidInv /\ DistinctRanks /\ [Next]_vars =>
        [\A s \in Windows : request[s] # None /\ request'[s] = None /\ claim' # claim =>
           LET u == request[s].member
               t == request[s].task
               held == LowerHeld(u, task[t].rank)
           IN  EachOnce(held) =>
                   /\ \A n \in 1 .. task[t].rank - 1 :
                          \E x \in held : task[x[1]].rank = n
                   /\ (\A x \in held : task[x[1]].status = "PUBLISHED")
                          => ~ShownLocked(u, t)]_vars
    BY <1>1 DEF InOrder
<1> QED BY <1>2, InitInv, NextKeep, PaidInit, PaidStep, DistinctInit, DistinctStep, PTL
        DEF Spec, RanksInOrder
=============================================================================
