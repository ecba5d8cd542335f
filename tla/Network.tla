------------------------------ MODULE Network ------------------------------
(***************************************************************************)
(* The referral tree, the binary network and the commissions on it         *)
(* (services/referral-tree.ts, services/binary.ts,                         *)
(* services/direct-referral.ts, domain/economics-v2.ts, domain/ranks.ts).  *)
(*                                                                         *)
(* A confirmed purchase places its buyer, with every sponsor above him     *)
(* that has no place yet, in a binary tree; its volume is added to every   *)
(* position above; and the sponsor of a buyer's first purchase is paid.    *)
(* A worker matches the two lines of a position, page by page.             *)
(*                                                                         *)
(* A confirmation is a READ COMMITTED transaction.  It dates its payment   *)
(* (Stamp) and goes on to the advisory lock 718292, under which it does    *)
(* everything else up to its commit (Confirm); assigning a sponsor takes   *)
(* the same lock, and a settlement the row of its position: one step each. *)
(***************************************************************************)
EXTENDS Integers, FiniteSets, FiniteSetsExt, Functions

CONSTANTS
    Users,          \* a set of numbers, in the order of their ids
    Admins,         \* members with the role SUPER_ADMIN
    Nobody,
    FirstSponsor,   \* who the members registered with
    Codes,          \* the <<member, sponsor>> links that members open later
    Purchases, Buyer, Amount,     \* quotedBinary + quotedReward
    SoldOnce,       \* purchases of a package that is sold once
    Unit, CycleReward, VoucherEvery, Limit, PageSize,
    Broken,         \* members whose settlement always throws
    LastDay         \* bound

VARIABLES
    sponsor,    \* User.referredById
    place,      \* rows of BinaryPosition: parent and side, once placed
    volume,     \* leftVolume, rightVolume: volume not matched yet
    lifetime,   \* leftLifetime, rightLifetime
    slots,      \* matched cycles of a position
    vouchers,   \* User.vouchers
    credited,   \* what the receipts of a member credit, day by day
    stage,      \* a purchase: "pending", "stamped" (not committed), "confirmed"
    dated,      \* its confirmedAt: the buyer's purchases dated before it
    direct,     \* purchases with a direct-referral receipt
    today,
    page, lastPosition     \* one pass of processBinaryQueue, and its cursor

tree == <<sponsor, place>>
flows == <<volume, lifetime, slots, vouchers, credited>>
pays == <<stage, dated, direct>>
queue == <<page, lastPosition>>
networkVars == <<tree, flows, pays, today, queue>>

ASSUME NetworkAssumption ==
    /\ Users \subseteq Nat \ {0} /\ IsFiniteSet(Users)
    /\ Nobody \notin Users /\ Admins \subseteq Users
    /\ FirstSponsor \in [Users -> Users \cup {Nobody}]
    /\ Codes \subseteq Users \X Users
    /\ IsFiniteSet(Purchases)
    /\ Buyer \in [Purchases -> Users] /\ Amount \in [Purchases -> Nat]
    /\ SoldOnce \subseteq Purchases
    /\ Unit \in Nat \ {0} /\ VoucherEvery \in Nat \ {0} /\ Limit \in Nat
    /\ CycleReward \in Nat /\ PageSize \in Nat \ {0} /\ LastDay \in Nat
    /\ Broken \subseteq Users

Sides == {"LEFT", "RIGHT"}
Unplaced == [parent |-> Nobody, side |-> "NONE"]
Root == [parent |-> Nobody, side |-> "TOP"]
Least(a, b) == IF a < b THEN a ELSE b
AtLeast0(n) == IF n > 0 THEN n ELSE 0

----------------------------------------------------------------------------
(***************************************************************************)
(* Placement                                                               *)
(***************************************************************************)
Placed(t) == {u \in Users : t[u] # Unplaced}
Children(t, u) == {v \in Users : t[v].parent = u}

\* The members above a position; the tree has no cycle.
Above(t, u) ==
    LET above[v \in Users] ==
            IF t[v].parent = Nobody THEN {}
            ELSE {t[v].parent} \cup above[t[v].parent]
    IN  above[u]
Below(t, u) == {u} \cup {v \in Placed(t) : u \in Above(t, v)}

\* The deepest position of the lighter line, the last one by id: it has no
\* child, so the new member goes to its left.
Spillover(t, u, life) ==
    LET line == IF life[u].LEFT <= life[u].RIGHT THEN "LEFT" ELSE "RIGHT"
        top == CHOOSE v \in Children(t, u) : t[v].side = line
        depth(v) == Cardinality(Above(t, v))
        deepest == {v \in Below(t, top) :
                       \A w \in Below(t, top) : depth(w) <= depth(v)}
    IN  Max(deepest)

Side(t, u) ==
    IF \E v \in Children(t, u) : t[v].side = "LEFT" THEN "RIGHT" ELSE "LEFT"
Parent(t, s, life) ==
    IF Cardinality(Children(t, s)) = 2 THEN Spillover(t, s, life) ELSE s
PlaceUnder(t, u, s, life) ==
    LET parent == Parent(t, s, life)
    IN  [t EXCEPT ![u] = [parent |-> parent, side |-> Side(t, parent)]]
PlaceOne(t, u, life) ==
    IF sponsor[u] = Nobody THEN [t EXCEPT ![u] = Root]
    ELSE PlaceUnder(t, u, sponsor[u], life)

\* The sponsors above u, himself first, up to one that has a place.
Ancestor(u) ==
    LET ancestor[k \in 0 .. Cardinality(Users)] ==
            IF k = 0 THEN u
            ELSE IF ancestor[k - 1] = Nobody THEN Nobody
            ELSE sponsor[ancestor[k - 1]]
    IN  ancestor
Ends(u) == {k \in DOMAIN Ancestor(u) : \/ Ancestor(u)[k] = Nobody
                                       \/ Ancestor(u)[k] \in Placed(place)}
\* place(): the topmost first; an ancestry without an end throws.
WithPlace(u) ==
    LET from == Min(Ends(u))
        after[k \in 0 .. from] ==
            IF k = from THEN place
            ELSE PlaceOne(after[k + 1], Ancestor(u)[k], lifetime)
    IN  after[0]

----------------------------------------------------------------------------
(***************************************************************************)
(* Volume and matching                                                     *)
(***************************************************************************)
\* The line of a that u's volume belongs to.
Towards(t, a, u) == {v \in Children(t, a) : v = u \/ v \in Above(t, u)}
Line(t, a, u) == t[CHOOSE v \in Towards(t, a, u) : TRUE].side
Raised(lines, t, u, amount) ==
    [a \in Users |->
        IF a \in Above(t, u)
        THEN [lines[a] EXCEPT ![Line(t, a, u)] = @ + amount] ELSE lines[a]]

\* Bug: the volume of the weaker line is used up on both sides.
CarryNothing(v, n) == [LEFT |-> 0, RIGHT |-> 0]

Carry(v, n) == [LEFT |-> v.LEFT - n * Unit, RIGHT |-> v.RIGHT - n * Unit]
\* binarySettlement: the cycles matched, a voucher for every sixth of them,
\* and the reward of the others as far as the day's limit allows.
Matched(v) == Least(v.LEFT, v.RIGHT) \div Unit
Vouchers(before, n) ==
    (before + n) \div VoucherEvery - before \div VoucherEvery
\* Bug: the limit holds for each settlement, not for the day.
AllowanceEach(u) == Limit

Allowance(u) == AtLeast0(Limit - credited[u][today])
Reward(u) ==
    LET n == Matched(volume[u])
    IN  Least((n - Vouchers(slots[u], n)) * CycleReward, Allowance(u))

----------------------------------------------------------------------------
(***************************************************************************)
(* Registration: assignSponsor                                             *)
(***************************************************************************)
Confirmed(u) == {p \in Purchases : Buyer[p] = u /\ stage[p] = "confirmed"}
Assign(u, s) ==
    /\ sponsor' = [sponsor EXCEPT ![u] = s]
    /\ UNCHANGED <<place, flows, pays, today, queue>>

\* Bug: a member that has a place may still get a sponsor.
MayAssignLate(u, s) ==
    sponsor[u] = Nobody /\ \A k \in DOMAIN Ancestor(s) : Ancestor(s)[k] # u

MayAssign(u, s) ==
    /\ sponsor[u] = Nobody /\ place[u] = Unplaced
    /\ \A k \in DOMAIN Ancestor(s) : Ancestor(s)[k] # u
AssignSponsor(u, s) ==
    /\ u \notin Admins /\ s # u
    /\ MayAssign(u, s)
    /\ Assign(u, s)

\* A referral below an administrator may be corrected before a purchase.
CorrectSponsor(u, s) ==
    /\ u \notin Admins /\ s # u /\ s # sponsor[u]
    /\ sponsor[u] \in Admins
    /\ Confirmed(u) = {} /\ place[u] = Unplaced
    /\ Assign(u, s)

----------------------------------------------------------------------------
(***************************************************************************)
(* Confirmation: recordBinaryVolume and payDirectReferralCommission        *)
(***************************************************************************)
Overlapping(p) ==
    {q \in Purchases : Buyer[q] = Buyer[p] /\ q # p /\ stage[q] = "stamped"}
\* The payment is dated before the advisory lock is waited for.  Packages sold
\* once have locked their buyer by then and overlap no other one of his; of
\* two that overlap the first may be dated before, or in the same millisecond.
Stamp(p) ==
    /\ stage[p] = "pending"
    /\ p \in SoldOnce => Overlapping(p) \cap SoldOnce = {}
    /\ stage' = [stage EXCEPT ![p] = "stamped"]
    /\ \E S \in SUBSET Overlapping(p) :
           dated' = [q \in Purchases |-> IF q = p THEN Confirmed(Buyer[p]) \cup S
                                         ELSE dated[q] \ {p}]
    /\ UNCHANGED <<tree, flows, direct, today, queue>>

Earlier(p) == Confirmed(Buyer[p]) \cap dated[p]

Confirm(p) ==
    LET u == Buyer[p]
        amount == Amount[p]
    IN  /\ stage[p] = "stamped"
        /\ Ends(u) # {}
        /\ place' = WithPlace(u)
        /\ volume' = Raised(volume, place', u, amount)
        /\ lifetime' = Raised(lifetime, place', u, amount)
        /\ stage' = [stage EXCEPT ![p] = "confirmed"]
        /\ direct' = IF sponsor[u] # Nobody /\ Earlier(p) = {}
                     THEN direct \cup {p} ELSE direct
        /\ UNCHANGED <<sponsor, slots, vouchers, credited, dated, today, queue>>

\* The ancestry never ends, or the process stops: nothing is committed, and
\* the confirmation is begun again later.
Abort(p) ==
    /\ stage[p] = "stamped"
    /\ stage' = [stage EXCEPT ![p] = "pending"]
    /\ UNCHANGED <<tree, flows, dated, direct, today, queue>>

----------------------------------------------------------------------------
(***************************************************************************)
(* The settlement queue                                                    *)
(***************************************************************************)
Matching == {u \in Users : /\ volume[u].LEFT >= Unit
                             /\ volume[u].RIGHT >= Unit}
Listed == {u \in Matching : u > lastPosition}
FirstOf(S) == {u \in S : Cardinality({v \in S : v < u}) < PageSize}
\* Bug: every pass begins with the first page.
CursorRestarts(S) == 0

Cursor(S) == IF Cardinality(S) = PageSize THEN Max(S) ELSE 0
Poll ==
    /\ page = {}
    /\ page' = FirstOf(Listed)
    /\ lastPosition' = Cursor(page')
    /\ UNCHANGED <<tree, flows, pays, today>>

Skip(u) ==
    /\ page # {} /\ u = Min(page)
    /\ page' = page \ {u}
    /\ \/ u \in Broken \/ Confirmed(u) = {} \/ u \notin Matching
    /\ UNCHANGED <<tree, flows, pays, today, lastPosition>>

\* The capacity of the member's bars may leave less than the reward.
SettleBinary(u) ==
    LET n == Matched(volume[u])
        new == Vouchers(slots[u], n)
    IN  /\ page # {} /\ u = Min(page)
        /\ page' = page \ {u}
        /\ u \notin Broken /\ Confirmed(u) # {} /\ n > 0
        /\ \E amount \in 0 .. Reward(u) :
               credited' = [credited EXCEPT ![u][today] = @ + amount]
        /\ volume' = [volume EXCEPT ![u] = Carry(@, n)]
        /\ slots' = [slots EXCEPT ![u] = @ + n]
        /\ vouchers' = [vouchers EXCEPT ![u] = @ + new]
        /\ UNCHANGED <<tree, lifetime, pays, today, lastPosition>>

NextNoon == today < LastDay /\ today' = today + 1 /\ UNCHANGED <<tree, flows, pays, queue>>

----------------------------------------------------------------------------
NetworkInit ==
    LET zero == [LEFT |-> 0, RIGHT |-> 0]
    IN  /\ sponsor = FirstSponsor
        /\ place = [u \in Users |-> Unplaced]
        /\ volume = [u \in Users |-> zero]
        /\ lifetime = [u \in Users |-> zero]
        /\ slots = [u \in Users |-> 0] /\ vouchers = [u \in Users |-> 0]
        /\ credited = [u \in Users |-> [d \in 0 .. LastDay |-> 0]]
        /\ stage = [p \in Purchases |-> "pending"]
        /\ dated = [p \in Purchases |-> {}]
        /\ direct = {} /\ today = 0
        /\ page = {} /\ lastPosition = 0

NetworkNext ==
    \/ \E l \in Codes : \/ AssignSponsor(l[1], l[2])
                        \/ CorrectSponsor(l[1], l[2])
    \/ \E p \in Purchases : Stamp(p) \/ Confirm(p) \/ Abort(p)
    \/ Poll \/ NextNoon
    \/ \E u \in Users : Skip(u) \/ SettleBinary(u)

NetworkSpec == NetworkInit /\ [][NetworkNext]_networkVars

\* The worker polls every 30 seconds and goes through its page.
Fairness == WF_networkVars(Poll) /\ WF_networkVars(\E u \in Users : Skip(u) \/ SettleBinary(u))
FairSpec == NetworkSpec /\ Fairness

----------------------------------------------------------------------------
(***************************************************************************)
(* Properties                                                              *)
(***************************************************************************)
\* Every row has its type, and nothing is matched that was not recorded
\* (the columns of BinaryPosition are never negative).
NetworkTypeOK ==
    /\ sponsor \in [Users -> Users \cup {Nobody}]
    /\ \A u \in Users :
        /\ place[u] \in [parent : Users \cup {Nobody},
                         side : Sides \cup {"NONE", "TOP"}]
        /\ place[u].parent # Nobody =>
               place[u].side \in Sides /\ place[place[u].parent] # Unplaced
        /\ volume[u] \in [Sides -> Nat] /\ lifetime[u] \in [Sides -> Nat]
        /\ slots[u] \in Nat /\ vouchers[u] \in Nat
        /\ credited[u] \in [0 .. LastDay -> Nat]
    /\ stage \in [Purchases -> {"pending", "stamped", "confirmed"}]
    /\ dated \in [Purchases -> SUBSET Purchases]
    /\ direct \subseteq Purchases /\ today \in 0 .. LastDay
    /\ page \subseteq Users /\ lastPosition \in Nat

\* A member stands below his sponsor in the binary tree, on a side of its own:
\* his volume counts for the one who brought him, however spillover and late
\* links place him.
BelowSponsor ==
    /\ NetworkTypeOK
    /\ \A u \in Placed(place) :
        /\ sponsor[u] # Nobody => sponsor[u] \in Above(place, u)
        /\ \A v \in Placed(place) :
            u # v /\ place[u].parent # Nobody => place[u] # place[v]

\* The lifetime volume of a line is what the members below it have bought, to
\* the unit: no purchase is missed or counted twice by a position above it,
\* also when the buyer's ancestors are placed by the purchase itself.
LifetimeIsSubtree ==
    \A a \in Users, side \in Sides :
        lifetime[a][side] =
            SumFunctionOnSet(Amount,
                {p \in Purchases : /\ stage[p] = "confirmed"
                                   /\ a \in Above(place, Buyer[p])
                                   /\ Line(place, a, Buyer[p]) = side})

\* Matching loses and repeats none of that volume: what a line holds and what
\* its matched cycles took make its lifetime volume, and one cycle in every
\* VoucherEvery is a voucher, however the cycles fall into settlements.
MatchingConserves ==
    \A u \in Users :
        /\ \A side \in Sides :
            volume[u][side] + slots[u] * Unit = lifetime[u][side]
        /\ vouchers[u] = slots[u] \div VoucherEvery

\* Every purchase counts for those above its buyer: its volume on their lines,
\* through every matching, and for his sponsor, who has been paid for one
\* purchase of a member who has bought.
PurchasesCount ==
    /\ LifetimeIsSubtree /\ MatchingConserves
    /\ \A u \in Users :
        sponsor[u] # Nobody /\ Confirmed(u) # {} => direct \cap Confirmed(u) # {}

\* A member is credited no more than his limit between two noons.
DailyLimitHolds ==
    \A u \in Users, d \in 0 .. LastDay : credited[u][d] <= Limit

\* "Failed/inactive accounts must not starve later pages": what an active
\* member can match is settled, whoever fails before him in the queue.
MatchedIsSettled ==
    \A u \in Users \ Broken :
        u \in Matching /\ Confirmed(u) # {} ~> u \notin Matching
=============================================================================
