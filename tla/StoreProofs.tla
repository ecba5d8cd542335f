----------------------------- MODULE StoreProofs -----------------------------
(***************************************************************************)
(* OneBoost, WithinMeans, OnePrize and BooksMatch, for any members, items, *)
(* edits, rounds and admins.                                               *)
(*                                                                         *)
(* What a purchase has read is still so when it commits (Sound): unless it *)
(* is to be aborted, no boost runs that it did not see, and unless another *)
(* debit went past it, the balance covers its price.  A draw posts its     *)
(* prize under the name of its round, so that a round has one or none.     *)
(*                                                                         *)
(* The books are sums over what was bought, entered, won, refunded and     *)
(* credited.  A round is created on accounts that nothing has touched      *)
(* (Untouched), what an admin has checked and not written is of a round    *)
(* that exists (Existing), only a deleted round has refunds, and an entry  *)
(* cost the price of the round unless that was edited (Priced).            *)
(***************************************************************************)
EXTENDS Store, Sums

AtMostOne(S) == S = {} \/ \E x \in S : S = {x}

\* The items that have been boosts all along.
Fixed == {i \in Items : item[i].boost /\ i \notin moved}
Sound(q) ==
    /\ q.item \notin moved => (q.row.boost <=> item[q.item].boost)
    /\ q.step # "read" /\ ~q.stale =>
        /\ q.row.boost => \A i \in Fixed : running[q.member][i] = 0
        /\ q.method = "VOUCHER" => vouchers[q.member] >= Price(q)
    /\ q.step = "funded" /\ ~q.stale /\ ~q.late =>
        /\ q.method = "GEN" => gen[q.member] >= Price(q)
        /\ q.method = "USDT" => usdt[q.member] >= Price(q)
Reads == \A s \in Requests : \A q : q = request[s] /\ q # None => Sound(q)
Boosted ==
    \A u \in Members : \A i \in Fixed :
        /\ running[u][i] <= 1
        /\ running[u][i] > 0 => \A j \in Fixed \ {i} : running[u][j] = 0
Drawn == \A r \in Rounds : AtMostOne(prize[r])
ItemsKept ==
    \A u \in Members, i \in Items : bought[u][i] > 0 => item[i].status # "deleted"
Inv == TypeOK /\ Reads /\ Boosted /\ WithinMeans /\ Drawn /\ ItemsKept

LEMMA Few == ASSUME NEW S, AtMostOne(S) PROVE Cardinality(S) <= 1
<1>1. CASE S = {}
    BY <1>1, FS_EmptySet
<1>2. ASSUME NEW x, S = {x} PROVE Cardinality(S) <= 1
    <2>1. Cardinality({x}) = 1
        BY FS_Singleton
    <2> QED BY <1>2, <2>1
<1>3. S = {} \/ \E x : S = {x}
    BY DEF AtMostOne
<1> QED BY <1>1, <1>2, <1>3

LEMMA Prices ==
    ASSUME NEW q \in RequestType
    PROVE  /\ Price(q) \in Nat /\ q.row.rewardGen \in Nat /\ q.row.rewardVouchers \in Nat
           /\ q.member \in Members /\ q.item \in Items /\ q.method \in Methods
           /\ q.row \in ItemType
<1>1. q.row \in ItemType /\ q.method \in Methods
    BY DEF RequestType
<1>2. q.row.price \in [Methods -> Nat]
    BY <1>1 DEF ItemType
<1> QED BY <1>1, <1>2 DEF RequestType, ItemType, Price

LEMMA InvInit == Init => Inv
<1> SUFFICES ASSUME Init PROVE Inv
    OBVIOUS
<1>1. TypeOK
    <2>1. NoRound \in RoundType
        BY DEF NoRound, RoundType, Statuses, Times
    <2>2. /\ StartGen \in Nat /\ StartUsdt \in Nat /\ StartVouchers \in Nat
          /\ FirstItem \in [Items -> ItemType]
        BY StoreAssumption
    <2>3. round \in [Rounds -> RoundType]
        BY <2>1 DEF Init
    <2>4. given \in [Members -> [gen : Nat, vouchers : Int]]
        BY DEF Init
    <2>5. bought \in [Members -> [Items -> Nat]] /\ spent \in [Members -> [Methods -> Nat]]
          /\ paid \in [Rounds -> [Members -> Nat]]
        BY DEF Init
    <2>6. /\ gen \in [Members -> Int] /\ usdt \in [Members -> Int]
          /\ vouchers \in [Members -> Nat]
        BY <2>2 DEF Init
    <2> QED BY <2>2, <2>3, <2>4, <2>5, <2>6 DEF Init, TypeOK
<1>2. Reads
    BY DEF Init, Reads
<1>3. Boosted
    BY DEF Init, Boosted, Fixed
<1>4. WithinMeans
    <2>1. StartGen \in Nat /\ StartUsdt \in Nat
        BY StoreAssumption
    <2> QED BY <2>1 DEF Init, WithinMeans
<1>5. Drawn /\ ItemsKept
    BY DEF Init, Drawn, ItemsKept, AtMostOne
<1> QED BY <1>1, <1>2, <1>3, <1>4, <1>5 DEF Inv

----------------------------------------------------------------------------
(* What the steps do to the requests under way. *)

\* p is q, whose commit may have become impossible, or which another debit passed.
Passed(q, p) ==
    /\ p \in RequestType /\ p.member = q.member /\ p.item = q.item
    /\ p.method = q.method /\ p.row = q.row /\ p.step = q.step
    /\ q.stale => p.stale
    /\ q.late => p.late

LEMMA AfterPasses ==
    ASSUME TypeOK, NEW p \in RequestType
    PROVE  /\ After(p) \in [Requests -> {None} \cup RequestType]
           /\ \A s \in Requests : After(p)[s] # None =>
                 /\ request[s] # None /\ Passed(request[s], After(p)[s])
                 /\ request[s].step # "read" /\ p.member = request[s].member =>
                       /\ Conflicting(p, request[s]) => After(p)[s].stale
                       /\ /\ p.method = "USDT" /\ request[s].method = "USDT"
                          /\ request[s].step = "funded"
                          => After(p)[s].late
<1> SUFFICES ASSUME NEW s \in Requests
             PROVE  /\ After(p)[s] \in {None} \cup RequestType
                    /\ After(p)[s] # None =>
                         /\ request[s] # None /\ Passed(request[s], After(p)[s])
                         /\ request[s].step # "read" /\ p.member = request[s].member =>
                               /\ Conflicting(p, request[s]) => After(p)[s].stale
                               /\ /\ p.method = "USDT" /\ request[s].method = "USDT"
                                  /\ request[s].step = "funded"
                                  => After(p)[s].late
    BY DEF After
<1> DEFINE q == request[s]
<1>1. q = None \/ q \in RequestType
    BY DEF TypeOK
<1>2. CASE q = None
    BY <1>2 DEF After
<1>3. CASE q # None /\ q.step = "read"
    <2>1. After(p)[s] = q /\ q \in RequestType
        BY <1>1, <1>3 DEF After
    <2> QED BY <1>3, <2>1 DEF Passed
<1>4. CASE q # None /\ q.step # "read"
    <2> DEFINE x == q.stale \/ Conflicting(p, q)
               y == \/ q.late
                    \/ /\ p.method = "USDT" /\ q.method = "USDT"
                       /\ p.member = q.member /\ q.step = "funded"
               n == [q EXCEPT !.stale = x, !.late = y]
    <2>1. After(p)[s] = n /\ q \in RequestType
        BY <1>1, <1>4 DEF After
    <2>2. x \in BOOLEAN /\ y \in BOOLEAN
        BY <2>1 DEF Conflicting, WritesUser, RequestType, ItemType
    <2> HIDE DEF x, y
    <2>3. /\ n \in RequestType /\ n.member = q.member /\ n.item = q.item
          /\ n.method = q.method /\ n.row = q.row /\ n.step = q.step
          /\ n.stale = x /\ n.late = y
        BY <2>1, <2>2 DEF RequestType
    <2> HIDE DEF n
    <2> QED BY <1>4, <2>1, <2>3 DEF x, y, Passed
<1> QED BY <1>2, <1>3, <1>4

LEMMA OutdatedPasses ==
    ASSUME TypeOK, NEW u
    PROVE  /\ Outdated(u) \in [Requests -> {None} \cup RequestType]
           /\ \A s \in Requests : Outdated(u)[s] # None =>
                 /\ request[s] # None /\ Passed(request[s], Outdated(u)[s])
                 /\ request[s].step # "read" /\ request[s].member = u
                    /\ WritesUser(request[s]) => Outdated(u)[s].stale
<1> SUFFICES ASSUME NEW s \in Requests
             PROVE  /\ Outdated(u)[s] \in {None} \cup RequestType
                    /\ Outdated(u)[s] # None =>
                         /\ request[s] # None /\ Passed(request[s], Outdated(u)[s])
                         /\ request[s].step # "read" /\ request[s].member = u
                            /\ WritesUser(request[s]) => Outdated(u)[s].stale
    BY DEF Outdated
<1> DEFINE q == request[s]
           n == [q EXCEPT !.stale = TRUE]
<1>1. q = None \/ q \in RequestType
    BY DEF TypeOK
<1>2. CASE q # None /\ q.step # "read" /\ q.member = u /\ WritesUser(q)
    <2>1. Outdated(u)[s] = n /\ q \in RequestType
        BY <1>1, <1>2 DEF Outdated
    <2>2. /\ n \in RequestType /\ n.member = q.member /\ n.item = q.item
          /\ n.method = q.method /\ n.row = q.row /\ n.step = q.step
          /\ n.stale /\ n.late = q.late
        BY <2>1 DEF RequestType
    <2> HIDE DEF n
    <2> QED BY <1>2, <2>1, <2>2 DEF Passed
<1>3. CASE ~(q # None /\ q.step # "read" /\ q.member = u /\ WritesUser(q))
    <2>1. Outdated(u)[s] = q
        BY <1>3 DEF Outdated
    <2> QED BY <1>1, <1>3, <2>1 DEF Passed
<1> QED BY <1>2, <1>3

LEMMA EntryPasses ==
    ASSUME TypeOK, NEW u
    PROVE  /\ AfterEntry(u) \in [Requests -> {None} \cup RequestType]
           /\ \A s \in Requests : AfterEntry(u)[s] # None =>
                 /\ request[s] # None /\ Passed(request[s], AfterEntry(u)[s])
                 /\ request[s].step = "funded" /\ request[s].member = u
                    /\ request[s].method = "GEN" => AfterEntry(u)[s].late
<1> SUFFICES ASSUME NEW s \in Requests
             PROVE  /\ AfterEntry(u)[s] \in {None} \cup RequestType
                    /\ AfterEntry(u)[s] # None =>
                         /\ request[s] # None /\ Passed(request[s], AfterEntry(u)[s])
                         /\ request[s].step = "funded" /\ request[s].member = u
                            /\ request[s].method = "GEN" => AfterEntry(u)[s].late
    BY DEF AfterEntry
<1> DEFINE q == request[s]
           n == [q EXCEPT !.late = TRUE]
<1>1. q = None \/ q \in RequestType
    BY DEF TypeOK
<1>2. CASE q # None /\ q.step = "funded" /\ q.member = u /\ q.method = "GEN"
    <2>1. AfterEntry(u)[s] = n /\ q \in RequestType
        BY <1>1, <1>2 DEF AfterEntry
    <2>2. /\ n \in RequestType /\ n.member = q.member /\ n.item = q.item
          /\ n.method = q.method /\ n.row = q.row /\ n.step = q.step
          /\ n.late /\ n.stale = q.stale
        BY <2>1 DEF RequestType
    <2> HIDE DEF n
    <2> QED BY <1>2, <2>1, <2>2 DEF Passed
<1>3. CASE ~(q # None /\ q.step = "funded" /\ q.member = u /\ q.method = "GEN")
    <2>1. AfterEntry(u)[s] = q
        BY <1>3 DEF AfterEntry
    <2> QED BY <1>1, <1>3, <2>1 DEF Passed
<1> QED BY <1>2, <1>3

\* What a purchase has read stays sound when no item becomes a boost all along and
\* the purchase is passed by whatever lowers a balance or starts a boost.
LEMMA SoundStays ==
    ASSUME TypeOK, TypeOK', NEW q \in RequestType, NEW p \in RequestType,
           Sound(q), Passed(q, p),
           moved \subseteq moved',
           \A i \in Items \ moved' : item'[i].boost = item[i].boost,
           p.step # "read" /\ ~p.stale =>
             /\ p.row.boost =>
                    \A i \in Fixed : running'[p.member][i] <= running[p.member][i]
             /\ p.method = "VOUCHER" => vouchers'[p.member] >= vouchers[p.member],
           p.step = "funded" /\ ~p.stale /\ ~p.late =>
             /\ p.method = "GEN" => gen'[p.member] >= gen[p.member]
             /\ p.method = "USDT" => usdt'[p.member] >= usdt[p.member]
    PROVE  Sound(p)'
<1>1. /\ p.member \in Members /\ p.item \in Items /\ Price(p) \in Nat /\ Price(p) = Price(q)
      /\ q.member = p.member /\ q.item = p.item /\ q.method = p.method /\ q.row = p.row
      /\ q.step = p.step /\ (q.stale => p.stale) /\ (q.late => p.late)
    BY Prices DEF Passed, Price
<1>2. /\ vouchers[p.member] \in Nat /\ vouchers'[p.member] \in Nat
      /\ gen[p.member] \in Int /\ gen'[p.member] \in Int
      /\ usdt[p.member] \in Int /\ usdt'[p.member] \in Int
      /\ \A i \in Items : running[p.member][i] \in Nat /\ running'[p.member][i] \in Nat
    BY <1>1 DEF TypeOK
<1>3. Fixed' \subseteq Fixed /\ Fixed \subseteq Items
    BY DEF Fixed
<1>4. p.item \notin moved' => (p.row.boost <=> item'[p.item].boost)
    BY <1>1 DEF Sound
<1>5. p.step # "read" /\ ~p.stale /\ p.row.boost => \A i \in Fixed' : running'[p.member][i] = 0
    BY <1>1, <1>2, <1>3 DEF Sound
<1>6. p.step # "read" /\ ~p.stale /\ p.method = "VOUCHER" => vouchers'[p.member] >= Price(p)
    BY <1>1, <1>2 DEF Sound
<1>7. p.step = "funded" /\ ~p.stale /\ ~p.late =>
             /\ p.method = "GEN" => gen'[p.member] >= Price(p)
             /\ p.method = "USDT" => usdt'[p.member] >= Price(p)
    BY <1>1, <1>2 DEF Sound
<1>8. Price(p)' = Price(p)
    BY DEF Price
<1> QED BY <1>4, <1>5, <1>6, <1>7, <1>8 DEF Sound
----------------------------------------------------------------------------
(* The shop. *)

\* A request other than s is as it was.
LEMMA OneRequest ==
    ASSUME TypeOK, NEW s \in Requests, NEW n \in {None} \cup RequestType,
           request' = [request EXCEPT ![s] = n]
    PROVE  /\ request' \in [Requests -> {None} \cup RequestType]
           /\ request'[s] = n
           /\ \A t \in Requests \ {s} : request'[t] = request[t]
BY DEF TypeOK

LEMMA Itself == \A q \in RequestType : Passed(q, q)
BY DEF Passed

\* Only the request s changes, and is sound afterwards.
LEMMA RequestStep ==
    ASSUME Inv, NEW s \in Requests, NEW n \in {None} \cup RequestType,
           request' = [request EXCEPT ![s] = n], n # None => Sound(n),
           UNCHANGED <<gen, usdt, vouchers, item, moved, bought, running, spent, given,
                       crossed, lottery, credit>>
    PROVE  Inv'
<1>1. TypeOK'
    <2>1. TypeOK /\ request' \in [Requests -> {None} \cup RequestType]
        BY OneRequest DEF Inv
    <2> QED BY <2>1 DEF TypeOK, lottery, entries
<1>2. \A q : Sound(q)' <=> Sound(q)
    BY DEF Sound, Fixed, Price
<1>3. Reads'
    <2>1. request'[s] = n /\ \A t \in Requests \ {s} : request'[t] = request[t]
        BY OneRequest DEF Inv
    <2>2. \A t \in Requests : \A q : q = request'[t] /\ q # None => Sound(q)
        BY <2>1 DEF Inv, Reads
    <2> SUFFICES ASSUME NEW t \in Requests, NEW q, q = request'[t], q # None
                 PROVE  Sound(q)'
        BY DEF Reads
    <2>3. Sound(q)
        BY <2>2
    <2> QED BY <1>2, <2>3
<1>4. Boosted' /\ WithinMeans' /\ Drawn' /\ ItemsKept'
    BY DEF Inv, Boosted, Fixed, WithinMeans, Drawn, ItemsKept, lottery
<1> QED BY <1>1, <1>3, <1>4 DEF Inv

LEMMA BeginStep ==
    ASSUME Inv, NEW s \in Requests, NEW u \in Members, NEW i \in Items,
           NEW m \in Methods, Begin(s, u, i, m)
    PROVE  Inv'
<1> DEFINE n == [member |-> u, item |-> i, method |-> m, row |-> item[i],
                 step |-> "read", stale |-> FALSE, late |-> FALSE]
<1>1. item[i] \in ItemType
    BY DEF Inv, TypeOK
<1>2. n \in RequestType
    BY <1>1 DEF RequestType
<1>3. /\ n.item = i /\ n.row = item[i] /\ n.step = "read"
    OBVIOUS
<1>4. request' = [request EXCEPT ![s] = n]
    BY DEF Begin
<1>5. UNCHANGED <<gen, usdt, vouchers, item, moved, bought, running, spent, given,
                  crossed, lottery, credit>>
    BY DEF Begin, purse
<1> HIDE DEF n
<1>6. Sound(n)
    BY <1>3 DEF Sound
<1> QED BY <1>2, <1>4, <1>5, <1>6, RequestStep

LEMMA LookStep ==
    ASSUME Inv, NEW s \in Requests, Look(s) \/ Fund(s) \/ Refuse(s)
    PROVE  Inv'
<1> DEFINE q == request[s]
<1>1. UNCHANGED <<gen, usdt, vouchers, item, moved, bought, running, spent, given,
                  crossed, lottery, credit>>
    BY DEF Look, Fund, Refuse, purse
<1>2. q # None /\ q \in RequestType /\ Sound(q)
    BY DEF Look, Fund, Refuse, Inv, TypeOK, Reads
<1>3. ASSUME NEW step \in {"looked", "funded"},
             request' = [request EXCEPT ![s].step = step],
             q.step = "read" =>
               /\ q.row.boost => FreeToBoost(q.member)
               /\ q.method = "VOUCHER" => vouchers[q.member] >= Price(q)
               /\ step = "funded" => q.method = "VOUCHER",
             step = "funded" =>
               /\ q.method = "GEN" => gen[q.member] >= Price(q)
               /\ q.method = "USDT" => usdt[q.member] >= Price(q)
      PROVE  Inv'
    <2> DEFINE n == [q EXCEPT !.step = step]
    <2>1. /\ n \in RequestType /\ n.step = step /\ n.member = q.member /\ n.item = q.item
          /\ n.method = q.method /\ n.row = q.row /\ n.stale = q.stale /\ n.late = q.late
        BY <1>2 DEF RequestType
    <2>2. request' = [request EXCEPT ![s] = n]
        BY <1>3
    <2> HIDE DEF n
    <2>3. Price(n) = Price(q)
        BY <2>1 DEF Price
    <2>4. FreeToBoost(q.member) => \A i \in Fixed : running[q.member][i] = 0
        BY DEF FreeToBoost, Fixed
    <2>5. Sound(n)
        BY <1>2, <1>3, <2>1, <2>3, <2>4 DEF Sound
    <2> QED BY <1>1, <2>1, <2>2, <2>5, RequestStep
<1>4. CASE Look(s)
    <2> DEFINE step == IF q.method = "VOUCHER" THEN "funded" ELSE "looked"
    <2>1. step \in {"looked", "funded"} /\ (step = "funded" => q.method = "VOUCHER")
        OBVIOUS
    <2>2. /\ request' = [request EXCEPT ![s].step = step]
          /\ q.row.boost => FreeToBoost(q.member)
          /\ q.method = "VOUCHER" => vouchers[q.member] >= Price(q)
        BY <1>4 DEF Look
    <2> HIDE DEF step
    <2> QED BY <1>3, <2>1, <2>2
<1>5. CASE Fund(s)
    <2>1. /\ request' = [request EXCEPT ![s].step = "funded"] /\ q.step = "looked"
          /\ q.method = "GEN" => gen[q.member] >= Price(q)
          /\ q.method = "USDT" => usdt[q.member] >= Price(q)
        BY <1>5 DEF Fund
    <2> QED BY <1>3, <2>1
<1>6. CASE Refuse(s)
    BY <1>1, <1>6, RequestStep DEF Refuse
<1> QED BY <1>4, <1>5, <1>6

\* What a purchase writes, member by member.
LEMMA PurchaseWrites ==
    ASSUME TypeOK, NEW s \in Requests, Purchase(s),
           NEW q, q = request[s]
    PROVE  /\ q \in RequestType /\ q # None /\ q.step = "funded" /\ ~q.stale
           /\ item[q.item].status # "deleted"
           /\ \A u \in Members :
                /\ usdt'[u] = usdt[u] - (IF u = q.member /\ q.method = "USDT"
                                         THEN Price(q) ELSE 0)
                /\ gen'[u] = gen[u] - (IF u = q.member /\ q.method = "GEN"
                                       THEN Price(q) ELSE 0)
                                    + (IF u = q.member THEN q.row.rewardGen ELSE 0)
                /\ vouchers'[u] = vouchers[u] - (IF u = q.member /\ q.method = "VOUCHER"
                                                 THEN Price(q) ELSE 0)
                                  + (IF u = q.member THEN q.row.rewardVouchers ELSE 0)
                /\ given'[u].gen = given[u].gen
                                   + (IF u = q.member THEN q.row.rewardGen ELSE 0)
                /\ given'[u].vouchers = given[u].vouchers
                                   + (IF u = q.member THEN q.row.rewardVouchers ELSE 0)
                /\ \A i \in Items :
                     /\ bought'[u][i] = IF u = q.member /\ i = q.item
                                        THEN bought[u][i] + 1 ELSE bought[u][i]
                     /\ running'[u][i] = IF u = q.member /\ i = q.item /\ q.row.timed
                                         THEN running[u][i] + 1 ELSE running[u][i]
                /\ \A m \in Methods :
                     spent'[u][m] = IF u = q.member /\ m = q.method
                                    THEN spent[u][m] + Price(q) ELSE spent[u][m]
           /\ crossed' = IF q.late THEN crossed \cup {<<q.member, q.method>>} ELSE crossed
           /\ request' = [After(q) EXCEPT ![s] = None]
           /\ UNCHANGED <<item, moved, lottery, credit>>
<1>1. /\ q # None /\ q.step = "funded" /\ ~q.stale /\ item[q.item].status # "deleted"
      /\ crossed' = IF q.late THEN crossed \cup {<<q.member, q.method>>} ELSE crossed
      /\ request' = [After(q) EXCEPT ![s] = None]
      /\ UNCHANGED <<item, moved, lottery, credit>>
    BY DEF Purchase
<1>2. q \in RequestType
    BY <1>1 DEF TypeOK
<1> DEFINE u == q.member
           i == q.item
           m == q.method
           price == Price(q)
           rg == q.row.rewardGen
           rv == q.row.rewardVouchers
<1>3. u \in Members /\ i \in Items /\ m \in Methods /\ price \in Nat /\ rg \in Nat /\ rv \in Nat
    BY <1>2, Prices
<1>4. /\ Paying(q, "USDT") = IF m = "USDT" THEN price ELSE 0
      /\ Paying(q, "GEN") = IF m = "GEN" THEN price ELSE 0
      /\ Paying(q, "VOUCHER") = IF m = "VOUCHER" THEN price ELSE 0
    BY DEF Paying
<1>5. /\ usdt' = [usdt EXCEPT ![u] = @ - Paying(q, "USDT")]
      /\ gen' = [gen EXCEPT ![u] = @ - Paying(q, "GEN") + rg]
      /\ vouchers' = [vouchers EXCEPT ![u] = @ - Paying(q, "VOUCHER") + rv]
      /\ bought' = [bought EXCEPT ![u] = [bought[u] EXCEPT ![i] = @ + 1]]
      /\ running' = IF q.row.timed THEN [running EXCEPT ![u] = [running[u] EXCEPT ![i] = @ + 1]]
                    ELSE running
      /\ spent' = [spent EXCEPT ![u] = [spent[u] EXCEPT ![m] = @ + price]]
      /\ given' = [given EXCEPT ![u] = [gen |-> given[u].gen + rg,
                                        vouchers |-> given[u].vouchers + rv]]
    BY DEF Purchase
<1> HIDE DEF u, i, m, price, rg, rv
<1>6. /\ gen \in [Members -> Int] /\ usdt \in [Members -> Int] /\ vouchers \in [Members -> Nat]
      /\ bought \in [Members -> [Items -> Nat]] /\ running \in [Members -> [Items -> Nat]]
      /\ spent \in [Members -> [Methods -> Nat]] /\ given \in [Members -> [gen : Nat, vouchers : Int]]
    BY DEF TypeOK
<1>7. ASSUME NEW v \in Members
      PROVE  /\ usdt'[v] = usdt[v] - (IF v = u /\ m = "USDT" THEN price ELSE 0)
             /\ gen'[v] = gen[v] - (IF v = u /\ m = "GEN" THEN price ELSE 0)
                                 + (IF v = u THEN rg ELSE 0)
             /\ vouchers'[v] = vouchers[v] - (IF v = u /\ m = "VOUCHER" THEN price ELSE 0)
                               + (IF v = u THEN rv ELSE 0)
    BY <1>3, <1>4, <1>5, <1>6
<1>8. ASSUME NEW v \in Members
      PROVE  /\ given'[v].gen = given[v].gen + (IF v = u THEN rg ELSE 0)
             /\ given'[v].vouchers = given[v].vouchers + (IF v = u THEN rv ELSE 0)
    BY <1>3, <1>5, <1>6
<1>9. ASSUME NEW v \in Members, NEW j \in Items
      PROVE  bought'[v][j] = IF v = u /\ j = i THEN bought[v][j] + 1 ELSE bought[v][j]
    BY <1>3, <1>5, <1>6
<1>10. ASSUME NEW v \in Members, NEW j \in Items
       PROVE  running'[v][j] = IF v = u /\ j = i /\ q.row.timed
                               THEN running[v][j] + 1 ELSE running[v][j]
    BY <1>3, <1>5, <1>6
<1>11. ASSUME NEW v \in Members, NEW k \in Methods
       PROVE  spent'[v][k] = IF v = u /\ k = m THEN spent[v][k] + price ELSE spent[v][k]
    BY <1>3, <1>5, <1>6
<1> QED BY <1>1, <1>2, <1>7, <1>8, <1>9, <1>10, <1>11 DEF u, i, m, price, rg, rv

LEMMA PurchaseTypes ==
    ASSUME Inv, NEW s \in Requests, Purchase(s)
    PROVE  TypeOK'
<1> DEFINE q == request[s]
           u == q.member
           price == Price(q)
           rg == q.row.rewardGen
           rv == q.row.rewardVouchers
<1>1. /\ q \in RequestType /\ q # None /\ q.step = "funded" /\ ~q.stale
      /\ crossed' = IF q.late THEN crossed \cup {<<q.member, q.method>>} ELSE crossed
      /\ request' = [After(q) EXCEPT ![s] = None]
      /\ UNCHANGED <<item, moved, lottery, credit>>
    BY PurchaseWrites DEF Inv
<1>2. u \in Members /\ q.item \in Items /\ q.method \in Methods
      /\ price \in Nat /\ rg \in Nat /\ rv \in Nat
    BY <1>1, Prices
<1>3. /\ usdt' = [usdt EXCEPT ![u] = @ - Paying(q, "USDT")]
      /\ gen' = [gen EXCEPT ![u] = @ - Paying(q, "GEN") + rg]
      /\ vouchers' = [vouchers EXCEPT ![u] = @ - Paying(q, "VOUCHER") + rv]
      /\ bought' = [bought EXCEPT ![u] = [bought[u] EXCEPT ![q.item] = @ + 1]]
      /\ running' = IF q.row.timed
                    THEN [running EXCEPT ![u] = [running[u] EXCEPT ![q.item] = @ + 1]]
                    ELSE running
      /\ spent' = [spent EXCEPT ![u] = [spent[u] EXCEPT ![q.method] = @ + price]]
      /\ given' = [given EXCEPT ![u] = [gen |-> given[u].gen + rg,
                                        vouchers |-> given[u].vouchers + rv]]
    BY DEF Purchase
<1>4. /\ Paying(q, "USDT") \in Nat /\ Paying(q, "GEN") \in Nat
      /\ Paying(q, "VOUCHER") \in Nat
      /\ Paying(q, "VOUCHER") = IF q.method = "VOUCHER" THEN price ELSE 0
    BY <1>2 DEF Paying
<1>5. q.method = "VOUCHER" => vouchers[u] >= price
    BY <1>1 DEF Inv, Reads, Sound
<1>6. request' \in [Requests -> {None} \cup RequestType]
    BY <1>1, AfterPasses DEF Inv
<1> HIDE DEF u, price, rg, rv
<1>7. TypeOK
    BY DEF Inv
<1>8. vouchers' \in [Members -> Nat]
    <2>1. vouchers[u] \in Nat
        BY <1>2, <1>7 DEF TypeOK
    <2>2. vouchers[u] - Paying(q, "VOUCHER") + rv \in Nat
        BY <1>2, <1>4, <1>5, <2>1
    <2> QED BY <1>2, <1>3, <1>7, <2>2 DEF TypeOK
<1>9. gen' \in [Members -> Int] /\ usdt' \in [Members -> Int]
    BY <1>2, <1>3, <1>4, <1>7 DEF TypeOK
<1>10. bought' \in [Members -> [Items -> Nat]] /\ running' \in [Members -> [Items -> Nat]]
    <2> DEFINE b == [bought[u] EXCEPT ![q.item] = @ + 1]
               r == [running[u] EXCEPT ![q.item] = @ + 1]
    <2>1. b \in [Items -> Nat] /\ r \in [Items -> Nat]
        BY <1>2, <1>7 DEF TypeOK
    <2> HIDE DEF b, r
    <2>2. bought' = [bought EXCEPT ![u] = b]
        BY <1>3 DEF b
    <2>3. running' = IF q.row.timed THEN [running EXCEPT ![u] = r] ELSE running
        BY <1>3 DEF r
    <2> QED BY <1>2, <1>7, <2>1, <2>2, <2>3 DEF TypeOK
<1>11. spent' \in [Members -> [Methods -> Nat]]
    <2> DEFINE b == [spent[u] EXCEPT ![q.method] = @ + price]
    <2>1. b \in [Methods -> Nat]
        BY <1>2, <1>7 DEF TypeOK
    <2>2. spent' = [spent EXCEPT ![u] = b]
        BY <1>3
    <2> HIDE DEF b
    <2> QED BY <1>2, <1>7, <2>1, <2>2 DEF TypeOK
<1>12. given' \in [Members -> [gen : Nat, vouchers : Int]]
    <2> DEFINE b == [gen |-> given[u].gen + rg, vouchers |-> given[u].vouchers + rv]
    <2>1. b \in [gen : Nat, vouchers : Int]
        BY <1>2, <1>7 DEF TypeOK
    <2>2. given' = [given EXCEPT ![u] = b]
        BY <1>3
    <2> HIDE DEF b
    <2> QED BY <1>2, <1>7, <2>1, <2>2 DEF TypeOK
<1>13. crossed' \in SUBSET (Members \X Methods)
    <2>1. <<q.member, q.method>> \in Members \X Methods
        BY <1>2 DEF u
    <2> QED BY <1>1, <1>7, <2>1 DEF TypeOK
<1> QED BY <1>1, <1>6, <1>7, <1>8, <1>9, <1>10, <1>11, <1>12, <1>13
        DEF TypeOK, lottery, entries

LEMMA PurchaseStep ==
    ASSUME Inv, NEW s \in Requests, Purchase(s)
    PROVE  Inv'
<1> DEFINE q == request[s]
<1>1. TypeOK /\ TypeOK'
    BY PurchaseTypes DEF Inv
<1>2. /\ q \in RequestType /\ q # None /\ q.step = "funded" /\ ~q.stale
      /\ item[q.item].status # "deleted"
      /\ crossed' = IF q.late THEN crossed \cup {<<q.member, q.method>>} ELSE crossed
      /\ request' = [After(q) EXCEPT ![s] = None]
      /\ UNCHANGED <<item, moved, lottery, credit>>
    BY <1>1, PurchaseWrites
<1>3. ASSUME NEW u \in Members
      PROVE  /\ usdt'[u] = usdt[u] - (IF u = q.member /\ q.method = "USDT"
                                      THEN Price(q) ELSE 0)
             /\ gen'[u] = gen[u] - (IF u = q.member /\ q.method = "GEN"
                                    THEN Price(q) ELSE 0)
                                 + (IF u = q.member THEN q.row.rewardGen ELSE 0)
             /\ vouchers'[u] = vouchers[u] - (IF u = q.member /\ q.method = "VOUCHER"
                                              THEN Price(q) ELSE 0)
                               + (IF u = q.member THEN q.row.rewardVouchers ELSE 0)
             /\ \A i \in Items :
                  /\ bought'[u][i] = IF u = q.member /\ i = q.item
                                     THEN bought[u][i] + 1 ELSE bought[u][i]
                  /\ running'[u][i] = IF u = q.member /\ i = q.item /\ q.row.timed
                                      THEN running[u][i] + 1 ELSE running[u][i]
    BY <1>1, PurchaseWrites
<1>4. Sound(q)
    BY <1>2 DEF Inv, Reads
<1>5. /\ Price(q) \in Nat /\ q.row.rewardGen \in Nat /\ q.row.rewardVouchers \in Nat
      /\ q.member \in Members /\ q.item \in Items
    BY <1>2, Prices
<1>6. /\ \A u \in Members : vouchers[u] \in Nat /\ gen[u] \in Int /\ usdt[u] \in Int
      /\ \A u \in Members : \A i \in Items : running[u][i] \in Nat
    BY <1>1 DEF TypeOK
<1>7. Fixed' = Fixed /\ Fixed \subseteq Items
    BY <1>2 DEF Fixed
<1>8. q.item \in Fixed => q.row.boost
    BY <1>4 DEF Sound, Fixed
<1>9. Reads'
    <2> SUFFICES ASSUME NEW t \in Requests, NEW p, p = request'[t], p # None
                 PROVE  Sound(p)'
        BY DEF Reads
    <2>0. PICK o : o = request[t]
        OBVIOUS
    <2>1. t # s /\ p = After(q)[t]
        BY <1>1, <1>2, AfterPasses
    <2>2. /\ o # None /\ Passed(o, p) /\ p # None
          /\ o.step # "read" /\ q.member = o.member =>
               /\ Conflicting(q, o) => p.stale
               /\ q.method = "USDT" /\ o.method = "USDT" /\ o.step = "funded" => p.late
        BY <1>1, <1>2, <2>0, <2>1, AfterPasses
    <2>3. o \in RequestType /\ p \in RequestType /\ Sound(o)
        BY <1>1, <2>0, <2>2 DEF TypeOK, Inv, Reads
    <2>4. p.member \in Members /\ p.member = o.member /\ p.method = o.method
          /\ p.row = o.row /\ p.step = o.step
        BY <2>2, <2>3, Prices DEF Passed
    <2>5. ASSUME p.step # "read", ~p.stale, p.row.boost, NEW i \in Fixed
          PROVE  running'[p.member][i] <= running[p.member][i]
        <3>1. CASE p.member = q.member
            <4>1. ~q.row.boost
                BY <2>2, <2>4, <2>5, <3>1 DEF Conflicting
            <4>2. i # q.item
                BY <1>8, <4>1
            <4> QED BY <1>3, <1>6, <1>7, <2>4, <4>2
        <3>2. CASE p.member # q.member
            BY <1>3, <1>6, <1>7, <2>4, <3>2
        <3> QED BY <3>1, <3>2
    <2>6. ASSUME p.step # "read", ~p.stale, p.method = "VOUCHER"
          PROVE  vouchers'[p.member] >= vouchers[p.member]
        <3>1. p.member = q.member => q.method = "USDT"
            BY <2>2, <2>4, <2>6 DEF Conflicting, WritesUser
        <3> QED BY <1>3, <1>5, <1>6, <2>4, <3>1
    <2>7. ASSUME p.step = "funded", ~p.stale, ~p.late
          PROVE  /\ p.method = "GEN" => gen'[p.member] >= gen[p.member]
                 /\ p.method = "USDT" => usdt'[p.member] >= usdt[p.member]
        <3>1. p.method = "GEN" /\ p.member = q.member => q.method = "USDT"
            BY <2>2, <2>4, <2>7 DEF Conflicting, WritesUser
        <3>2. p.method = "USDT" /\ p.member = q.member => q.method # "USDT"
            BY <2>2, <2>4, <2>7
        <3> QED BY <1>3, <1>5, <1>6, <2>4, <3>1, <3>2
    <2>8. moved \subseteq moved' /\ \A i \in Items \ moved' : item'[i].boost = item[i].boost
        BY <1>2
    <2> QED BY <1>1, <2>2, <2>3, <2>5, <2>6, <2>7, <2>8, SoundStays
<1>10. Boosted'
    <2> SUFFICES ASSUME NEW u \in Members, NEW i \in Fixed
                 PROVE  /\ running'[u][i] <= 1
                        /\ running'[u][i] > 0 => \A j \in Fixed \ {i} : running'[u][j] = 0
        BY <1>7 DEF Boosted
    <2>1. /\ running[u][i] <= 1
          /\ running[u][i] > 0 => \A j \in Fixed \ {i} : running[u][j] = 0
        BY DEF Inv, Boosted
    <2>2. CASE u = q.member /\ q.item \in Fixed
        <3>1. \A j \in Fixed : running[u][j] = 0
            BY <1>2, <1>4, <1>8, <2>2 DEF Sound
        <3> QED BY <1>3, <1>7, <2>2, <3>1
    <2>3. CASE ~(u = q.member /\ q.item \in Fixed)
        <3>1. \A j \in Fixed : running'[u][j] = running[u][j]
            BY <1>3, <1>7, <2>3
        <3> QED BY <2>1, <3>1
    <2> QED BY <2>2, <2>3
<1>11. WithinMeans'
    <2> SUFFICES ASSUME NEW u \in Members
                 PROVE  /\ gen'[u] < 0 => <<u, "GEN">> \in crossed'
                        /\ usdt'[u] < 0 => <<u, "USDT">> \in crossed'
        BY DEF WithinMeans
    <2>1. /\ gen[u] < 0 => <<u, "GEN">> \in crossed
          /\ usdt[u] < 0 => <<u, "USDT">> \in crossed
        BY DEF Inv, WithinMeans
    <2>2. crossed \subseteq crossed'
        BY <1>2
    <2>3. gen'[u] < 0 => <<u, "GEN">> \in crossed'
        <3>1. CASE u = q.member /\ q.method = "GEN"
            <4>1. ~q.late => gen[u] >= Price(q)
                BY <1>2, <1>4, <3>1 DEF Sound
            <4>2. gen'[u] = gen[u] - Price(q) + q.row.rewardGen
                BY <1>3, <3>1
            <4>3. q.late => <<u, "GEN">> \in crossed'
                BY <1>2, <3>1
            <4> QED BY <1>5, <1>6, <4>1, <4>2, <4>3
        <3>2. CASE ~(u = q.member /\ q.method = "GEN")
            <4>1. gen'[u] >= gen[u]
                BY <1>3, <1>5, <1>6, <3>2
            <4>2. gen'[u] \in Int /\ gen[u] \in Int
                BY <1>1 DEF TypeOK
            <4> QED BY <2>1, <2>2, <4>1, <4>2
        <3> QED BY <3>1, <3>2
    <2>4. usdt'[u] < 0 => <<u, "USDT">> \in crossed'
        <3>1. CASE u = q.member /\ q.method = "USDT"
            <4>1. ~q.late => usdt[u] >= Price(q)
                BY <1>2, <1>4, <3>1 DEF Sound
            <4>2. usdt'[u] = usdt[u] - Price(q)
                BY <1>3, <3>1
            <4>3. q.late => <<u, "USDT">> \in crossed'
                BY <1>2, <3>1
            <4> QED BY <1>5, <1>6, <4>1, <4>2, <4>3
        <3>2. CASE ~(u = q.member /\ q.method = "USDT")
            <4>1. usdt'[u] = usdt[u]
                BY <1>3, <1>5, <1>6, <3>2
            <4> QED BY <2>1, <2>2, <4>1
        <3> QED BY <3>1, <3>2
    <2> QED BY <2>3, <2>4
<1>12. Drawn'
    BY <1>2 DEF Inv, Drawn, lottery
<1>13. ItemsKept'
    <2> SUFFICES ASSUME NEW u \in Members, NEW i \in Items, bought'[u][i] > 0
                 PROVE  item[i].status # "deleted"
        BY <1>2 DEF ItemsKept
    <2>1. CASE i = q.item
        BY <1>2, <2>1
    <2>2. CASE i # q.item
        BY <1>3, <2>2 DEF Inv, ItemsKept
    <2> QED BY <2>1, <2>2
<1> QED BY <1>1, <1>9, <1>10, <1>11, <1>12, <1>13 DEF Inv

\* Time and admins take boosts away and change what is sold.
LEMMA ShelfStep ==
    ASSUME Inv,
           \/ \E u \in Members, i \in Items : BoostEnds(u, i)
           \/ \E i \in Items : \/ \E row \in Patches[i] : PatchItem(i, row)
                               \/ DeleteItem(i)
    PROVE  Inv'
<1>1. TypeOK /\ Reads /\ Boosted /\ ItemsKept
    BY DEF Inv
<1>2. ASSUME TypeOK', UNCHANGED <<request, gen, usdt, vouchers, bought, crossed, prize>>,
             moved \subseteq moved',
             \A i \in Items \ moved' : item'[i].boost = item[i].boost,
             \A u \in Members : \A i \in Fixed : running'[u][i] <= running[u][i],
             \A u \in Members, i \in Items :
                 bought[u][i] > 0 => item'[i].status # "deleted"
      PROVE  Inv'
    <2>1. Reads'
        <3> SUFFICES ASSUME NEW s \in Requests, NEW q, q = request[s], q # None
                     PROVE  Sound(q)'
            BY <1>2 DEF Reads
        <3>1. q \in RequestType /\ Sound(q)
            BY <1>1 DEF TypeOK, Reads
        <3>2. q.member \in Members /\ Passed(q, q)
            BY <3>1, Prices, Itself
        <3>4. /\ gen[q.member] \in Int /\ usdt[q.member] \in Int
              /\ vouchers[q.member] \in Nat
            BY <1>1, <3>2 DEF TypeOK
        <3>5. /\ vouchers'[q.member] >= vouchers[q.member]
              /\ gen'[q.member] >= gen[q.member] /\ usdt'[q.member] >= usdt[q.member]
            BY <1>2, <3>4
        <3>6. \A i \in Fixed : running'[q.member][i] <= running[q.member][i]
            BY <1>2, <3>2
        <3> QED BY <1>1, <1>2, <3>1, <3>2, <3>5, <3>6, SoundStays
    <2>2. Boosted'
        <3>1. Fixed' \subseteq Fixed /\ Fixed \subseteq Items
            BY <1>2 DEF Fixed
        <3>2. \A u \in Members : \A i \in Items : running[u][i] \in Nat /\ running'[u][i] \in Nat
            BY <1>1, <1>2 DEF TypeOK
        <3> SUFFICES ASSUME NEW u \in Members, NEW i \in Fixed'
                     PROVE  /\ running'[u][i] <= 1
                            /\ running'[u][i] > 0 =>
                                   \A j \in Fixed' \ {i} : running'[u][j] = 0
            BY DEF Boosted
        <3>3. /\ running[u][i] <= 1
              /\ running[u][i] > 0 => \A j \in Fixed \ {i} : running[u][j] = 0
            BY <1>1, <3>1 DEF Boosted
        <3> QED BY <1>2, <3>1, <3>2, <3>3
    <2>3. WithinMeans' /\ Drawn' /\ ItemsKept'
        BY <1>2 DEF Inv, WithinMeans, Drawn, ItemsKept
    <2> QED BY <1>2, <2>1, <2>2, <2>3 DEF Inv
<1>3. ASSUME NEW u \in Members, NEW i \in Items, BoostEnds(u, i) PROVE Inv'
    <2>1. /\ running[u][i] > 0 /\ running' = [running EXCEPT ![u] = [running[u] EXCEPT ![i] = @ - 1]]
          /\ UNCHANGED <<purse, item, moved, request, bought, spent, given, crossed,
                         lottery, credit>>
        BY <1>3 DEF BoostEnds
    <2> DEFINE r == [running[u] EXCEPT ![i] = @ - 1]
    <2>2. running[u] \in [Items -> Nat] /\ running \in [Members -> [Items -> Nat]]
        BY <1>1 DEF TypeOK
    <2>3. r \in [Items -> Nat] /\ \A j \in Items : r[j] <= running[u][j]
        BY <2>1, <2>2
    <2>4. running' = [running EXCEPT ![u] = r]
        BY <2>1
    <2> HIDE DEF r
    <2>5. running' \in [Members -> [Items -> Nat]]
        BY <2>2, <2>3, <2>4
    <2>6. \A v \in Members : \A j \in Items : running'[v][j] <= running[v][j]
        BY <2>2, <2>3, <2>4
    <2>7. TypeOK'
        BY <1>1, <2>1, <2>5 DEF TypeOK, purse, lottery, entries
    <2> QED BY <1>1, <1>2, <2>1, <2>6, <2>7 DEF Fixed, ItemsKept, purse, lottery
<1>4. ASSUME NEW i \in Items, NEW row \in ItemType, item' = [item EXCEPT ![i] = row],
             moved' = IF row.boost # item[i].boost THEN moved \cup {i} ELSE moved,
             (\E u \in Members : bought[u][i] > 0) => row.status # "deleted",
             UNCHANGED <<purse, request, bought, running, spent, given, crossed,
                         lottery, credit>>
      PROVE  Inv'
    <2>1. item' \in [Items -> ItemType] /\ moved' \in SUBSET Items
        BY <1>1, <1>4 DEF TypeOK
    <2>2. TypeOK'
        BY <1>1, <1>4, <2>1 DEF TypeOK, purse, lottery, entries
    <2>3. item'[i] = row /\ \A j \in Items \ {i} : item'[j] = item[j]
        BY <1>1, <1>4 DEF TypeOK
    <2>4. moved \subseteq moved' /\ \A j \in Items \ moved' : item'[j].boost = item[j].boost
        BY <1>4, <2>3
    <2>5. \A u \in Members, j \in Items : bought[u][j] > 0 => item'[j].status # "deleted"
        BY <1>1, <1>4, <2>3 DEF ItemsKept
    <2>6. \A u \in Members : \A j \in Fixed : running'[u][j] <= running[u][j]
        BY <1>1, <1>4 DEF TypeOK, Fixed
    <2> QED BY <1>2, <1>4, <2>2, <2>4, <2>5, <2>6 DEF purse, lottery
<1>5. ASSUME NEW i \in Items, NEW row \in Patches[i], PatchItem(i, row) PROVE Inv'
    <2>1. row \in ItemType /\ row.status # "deleted"
        BY StoreAssumption
    <2> QED BY <1>4, <1>5, <2>1 DEF PatchItem
<1>6. ASSUME NEW i \in Items, DeleteItem(i) PROVE Inv'
    <2> DEFINE row == [item[i] EXCEPT !.status = "deleted"]
    <2>1. row \in ItemType /\ row.boost = item[i].boost
        <3>1. item[i] \in ItemType
            BY <1>1 DEF TypeOK
        <3> QED BY <3>1 DEF ItemType
    <2>2. /\ item' = [item EXCEPT ![i] = row]
          /\ ~ \E u \in Members : bought[u][i] > 0
          /\ UNCHANGED <<purse, moved, request, bought, running, spent, given, crossed,
                         lottery, credit>>
        BY <1>6 DEF DeleteItem, Kept
    <2> HIDE DEF row
    <2> QED BY <1>4, <2>1, <2>2
<1> QED BY <1>3, <1>5, <1>6

----------------------------------------------------------------------------
(* The lottery and the admins. *)

\* A step that touches neither the shop nor the wallets it spends from.
LEMMA QuietStep ==
    ASSUME Inv, TypeOK', UNCHANGED <<usdt, vouchers, shop>>,
           \A u \in Members : gen'[u] >= gen[u], Drawn'
    PROVE  Inv'
<1>1. TypeOK /\ Reads
    BY DEF Inv
<1>2. \A u \in Members : /\ gen[u] \in Int /\ gen'[u] \in Int /\ usdt[u] \in Int
                         /\ vouchers[u] \in Nat
    BY <1>1 DEF TypeOK
<1>3. /\ request' = request /\ item' = item /\ moved' = moved /\ running' = running
      /\ bought' = bought /\ crossed' = crossed
    BY DEF shop
<1>4. Reads'
    <2> SUFFICES ASSUME NEW s \in Requests, NEW q, q = request[s], q # None
                 PROVE  Sound(q)'
        BY <1>3 DEF Reads
    <2>1. q \in RequestType /\ Sound(q)
        BY <1>1 DEF TypeOK, Reads
    <2>2. q.member \in Members /\ Passed(q, q)
        BY <2>1, Prices, Itself
    <2>4. \A i \in Fixed : running'[q.member][i] <= running[q.member][i]
        BY <1>1, <1>3, <2>2 DEF TypeOK, Fixed
    <2>5. vouchers'[q.member] >= vouchers[q.member] /\ usdt'[q.member] >= usdt[q.member]
        BY <1>2, <2>2
    <2> QED BY <1>1, <1>3, <2>1, <2>2, <2>4, <2>5, SoundStays
<1>5. Boosted' /\ ItemsKept'
    BY <1>3 DEF Inv, Boosted, Fixed, ItemsKept
<1>6. WithinMeans'
    <2> SUFFICES ASSUME NEW u \in Members
                 PROVE  /\ gen'[u] < 0 => <<u, "GEN">> \in crossed
                        /\ usdt'[u] < 0 => <<u, "USDT">> \in crossed
        BY <1>3 DEF WithinMeans
    <2>1. /\ gen[u] < 0 => <<u, "GEN">> \in crossed
          /\ usdt[u] < 0 => <<u, "USDT">> \in crossed
        BY DEF Inv, WithinMeans
    <2>2. gen'[u] < 0 => gen[u] < 0
        BY <1>2
    <2> QED BY <2>1, <2>2
<1> QED BY <1>4, <1>5, <1>6 DEF Inv

\* What the admins do to a round moves no money and posts no prize.
LEMMA RoundTypes ==
    ASSUME TypeOK, NEW r \in Rounds
    PROVE  /\ \A status \in {"DRAFT", "OPEN"}, e \in EntryPrices, p \in Prizes, time \in Times :
                CreateRound(r, status, e, p, time) \/ EditWrite(r, status, e, p, time) =>
                    TypeOK'
           /\ TimePasses(r) \/ EditRead(r) \/ DeleteRead(r) \/ DeleteWrite(r) => TypeOK'
<1>1. round[r] \in RoundType
    BY DEF TypeOK
<1>2. ASSUME NEW row \in RoundType, round' = [round EXCEPT ![r] = row] \/ round' = round,
             repriced' \subseteq repriced \cup {r}, editing' \subseteq editing \cup {r},
             deleting' \subseteq deleting \cup {r},
             UNCHANGED <<purse, shop, entries, prize, credit>>
      PROVE  TypeOK'
    <2>1. round' \in [Rounds -> RoundType]
        BY <1>2 DEF TypeOK
    <2>2. repriced' \in SUBSET Rounds /\ editing' \in SUBSET Rounds /\ deleting' \in SUBSET Rounds
        BY <1>2 DEF TypeOK
    <2> QED BY <1>2, <2>1, <2>2 DEF TypeOK, purse, shop, entries
<1>3. ASSUME NEW status \in {"DRAFT", "OPEN"}, NEW e \in EntryPrices, NEW p \in Prizes,
             NEW time \in Times,
             CreateRound(r, status, e, p, time) \/ EditWrite(r, status, e, p, time)
      PROVE  TypeOK'
    <2> DEFINE row == [status |-> status, entryGen |-> e, prizeGen |-> p, time |-> time]
    <2>1. row \in RoundType
        <3>1. e \in Nat /\ p \in Nat
            BY StoreAssumption
        <3> QED BY <3>1 DEF RoundType, Statuses
    <2>2. /\ round' = [round EXCEPT ![r] = row] \/ round' = round
          /\ repriced' \subseteq repriced \cup {r} /\ editing' \subseteq editing
          /\ UNCHANGED <<purse, shop, entries, prize, deleting, credit>>
        BY <1>3 DEF CreateRound, EditWrite
    <2> HIDE DEF row
    <2> QED BY <1>2, <2>1, <2>2
<1>4. ASSUME TimePasses(r) PROVE TypeOK'
    <2> DEFINE time == IF round[r].time = "early" THEN "now" ELSE "over"
               row == [round[r] EXCEPT !.time = time]
    <2>1. row \in RoundType
        BY <1>1 DEF RoundType, Times
    <2>2. round' = [round EXCEPT ![r] = row]
          /\ UNCHANGED <<purse, shop, entries, prize, repriced, editing, deleting, credit>>
        BY <1>4 DEF TimePasses
    <2> HIDE DEF row
    <2> QED BY <1>2, <2>1, <2>2
<1>5. ASSUME DeleteWrite(r) PROVE TypeOK'
    <2> DEFINE row == [round[r] EXCEPT !.status = "DELETED"]
    <2>1. row \in RoundType
        BY <1>1 DEF RoundType, Statuses
    <2>2. round' = [round EXCEPT ![r] = row] /\ deleting' \subseteq deleting
          /\ UNCHANGED <<purse, shop, entries, prize, repriced, editing, credit>>
        BY <1>5 DEF DeleteWrite
    <2> HIDE DEF row
    <2> QED BY <1>2, <2>1, <2>2
<1>6. ASSUME EditRead(r) \/ DeleteRead(r) PROVE TypeOK'
    BY <1>1, <1>2, <1>6 DEF EditRead, DeleteRead
<1> QED BY <1>3, <1>4, <1>5, <1>6

LEMMA RoundStep ==
    ASSUME Inv, NEW r \in Rounds,
           \/ \E status \in {"DRAFT", "OPEN"}, e \in EntryPrices, p \in Prizes, time \in Times :
                  CreateRound(r, status, e, p, time) \/ EditWrite(r, status, e, p, time)
           \/ TimePasses(r) \/ EditRead(r) \/ DeleteRead(r) \/ DeleteWrite(r)
    PROVE  Inv'
<1>1. TypeOK'
    BY RoundTypes DEF Inv
<1>2. UNCHANGED <<purse, shop, prize>>
    BY DEF CreateRound, EditWrite, TimePasses, EditRead, DeleteRead, DeleteWrite
<1>3. Drawn'
    BY <1>2 DEF Inv, Drawn
<1>4. \A u \in Members : gen'[u] >= gen[u]
    BY <1>2 DEF Inv, TypeOK, purse
<1> QED BY <1>1, <1>2, <1>3, <1>4, QuietStep DEF purse

LEMMA EnterStep ==
    ASSUME Inv, NEW u \in Members, NEW r \in Rounds, Enter(u, r)
    PROVE  Inv'
<1> DEFINE e == round[r].entryGen
           new == [paid[r] EXCEPT ![u] = e]
<1>1. /\ gen[u] >= e /\ paid' = [paid EXCEPT ![r] = new] /\ gen' = [gen EXCEPT ![u] = @ - e]
      /\ reserve' = [reserve EXCEPT ![r] = @ + e] /\ request' = AfterEntry(u)
      /\ UNCHANGED <<usdt, vouchers, item, moved, bought, running, spent, given, crossed,
                     round, prize, refund, repriced, editing, deleting, credit>>
    BY DEF Enter, Collected
<1>2. TypeOK /\ Reads /\ e \in Nat
    BY DEF Inv, TypeOK, RoundType
<1>3. /\ request' \in [Requests -> {None} \cup RequestType]
      /\ \A s \in Requests : request'[s] # None =>
            /\ request[s] # None /\ Passed(request[s], request'[s])
            /\ request[s].step = "funded" /\ request[s].member = u
               /\ request[s].method = "GEN" => request'[s].late
    BY <1>1, <1>2, EntryPasses
<1>4. TypeOK'
    <2>1. new \in [Members -> Nat]
        BY <1>2 DEF TypeOK
    <2> HIDE DEF e, new
    <2>2. paid' \in [Rounds -> [Members -> Nat]]
        BY <1>1, <1>2, <2>1 DEF TypeOK
    <2>3. gen' \in [Members -> Int] /\ reserve' \in [Rounds -> Int]
        BY <1>1, <1>2 DEF TypeOK
    <2> QED BY <1>1, <1>2, <1>3, <2>2, <2>3 DEF TypeOK
<1> HIDE DEF e, new
<1>5. /\ gen'[u] = gen[u] - e /\ \A v \in Members \ {u} : gen'[v] = gen[v]
      /\ \A v \in Members : gen[v] \in Int /\ usdt[v] \in Int /\ vouchers[v] \in Nat
    BY <1>1, <1>2 DEF TypeOK
<1>6. Reads'
    <2> SUFFICES ASSUME NEW s \in Requests, NEW p, p = request'[s], p # None
                 PROVE  Sound(p)'
        BY DEF Reads
    <2>0. PICK o : o = request[s]
        OBVIOUS
    <2>1. /\ o # None /\ Passed(o, p) /\ p # None
          /\ o.step = "funded" /\ o.member = u /\ o.method = "GEN" => p.late
        BY <1>3, <2>0
    <2>2. o \in RequestType /\ p \in RequestType /\ Sound(o)
        BY <1>2, <1>3, <2>0, <2>1 DEF TypeOK, Reads
    <2>3. /\ p.member \in Members /\ p.member = o.member /\ p.method = o.method
          /\ p.step = o.step
        BY <2>1, <2>2, Prices DEF Passed
    <2>4. \A i \in Fixed : running'[p.member][i] <= running[p.member][i]
        BY <1>1, <1>2, <2>3 DEF TypeOK, Fixed
    <2>5. vouchers'[p.member] >= vouchers[p.member] /\ usdt'[p.member] >= usdt[p.member]
        BY <1>1, <1>5, <2>3
    <2>6. p.step = "funded" /\ ~p.late /\ p.method = "GEN" => gen'[p.member] >= gen[p.member]
        BY <1>5, <2>1, <2>3
    <2>7. moved \subseteq moved' /\ \A i \in Items \ moved' : item'[i].boost = item[i].boost
        BY <1>1
    <2> QED BY <1>2, <1>4, <2>1, <2>2, <2>4, <2>5, <2>6, <2>7, SoundStays
<1>7. Boosted' /\ Drawn' /\ ItemsKept'
    BY <1>1 DEF Inv, Boosted, Fixed, Drawn, ItemsKept
<1>8. WithinMeans'
    <2> SUFFICES ASSUME NEW v \in Members
                 PROVE  /\ gen'[v] < 0 => <<v, "GEN">> \in crossed
                        /\ usdt'[v] < 0 => <<v, "USDT">> \in crossed
        BY <1>1 DEF WithinMeans
    <2>1. /\ gen[v] < 0 => <<v, "GEN">> \in crossed
          /\ usdt[v] < 0 => <<v, "USDT">> \in crossed
        BY DEF Inv, WithinMeans
    <2>2. usdt'[v] = usdt[v]
        BY <1>1
    <2>3. gen'[v] < 0 => gen[v] < 0
        BY <1>1, <1>2, <1>5
    <2> QED BY <2>1, <2>2, <2>3
<1> QED BY <1>4, <1>6, <1>7, <1>8 DEF Inv

LEMMA DrawStep ==
    ASSUME Inv, NEW r \in Rounds, NEW u \in Members, Draw(r, u)
    PROVE  Inv'
<1> DEFINE posting == <<u, round[r].prizeGen>>
           amount == IF prize'[r] # prize[r] THEN round[r].prizeGen ELSE 0
           row == [round[r] EXCEPT !.status = "DRAWN"]
<1>1. /\ prize' = [prize EXCEPT ![r] = Posted(r, posting)]
      /\ reserve' = [reserve EXCEPT ![r] = @ - amount] /\ gen' = [gen EXCEPT ![u] = @ + amount]
      /\ round' = [round EXCEPT ![r] = row]
      /\ UNCHANGED <<usdt, vouchers, shop, paid, refund, repriced, editing, deleting, credit>>
    BY DEF Draw
<1>2. TypeOK /\ round[r] \in RoundType /\ round[r].prizeGen \in Nat /\ amount \in Nat
    BY DEF Inv, TypeOK, RoundType
<1>3. row \in RoundType /\ posting \in Members \X Nat
    BY <1>2 DEF RoundType, Statuses
<1> HIDE DEF row, posting, amount
<1>4. Posted(r, posting) \in SUBSET (Members \X Nat)
    BY <1>2, <1>3 DEF Posted, TypeOK
<1>5. TypeOK'
    <2>1. prize' \in [Rounds -> SUBSET (Members \X Nat)]
        BY <1>1, <1>2, <1>4 DEF TypeOK
    <2>2. /\ round' \in [Rounds -> RoundType] /\ reserve' \in [Rounds -> Int]
          /\ gen' \in [Members -> Int]
        BY <1>1, <1>2, <1>3 DEF TypeOK
    <2> QED BY <1>1, <1>2, <2>1, <2>2 DEF TypeOK, shop
<1>6. Drawn'
    BY <1>1, <1>2 DEF Posted, Inv, TypeOK, Drawn, AtMostOne
<1>7. \A v \in Members : gen'[v] >= gen[v]
    BY <1>1, <1>2 DEF TypeOK
<1> QED BY <1>1, <1>5, <1>6, <1>7, QuietStep

LEMMA BackInt ==
    ASSUME TypeOK
    PROVE  /\ \A r \in Rounds, u \in Members : Back(r, u) \in Nat
           /\ \A u \in Members :
                SumFunctionOnSet([r \in Rounds |-> Back(r, u)], Rounds) \in Nat
           /\ \A r \in Rounds :
                SumFunctionOnSet([u \in Members |-> Back(r, u)], Members) \in Nat
<1>1. IsFiniteSet(Members) /\ IsFiniteSet(Rounds)
    BY StoreAssumption
<1>2. \A r \in Rounds, u \in Members : Back(r, u) \in Nat
    BY DEF Back, TypeOK, RoundType
<1>3. ASSUME NEW u \in Members
      PROVE  SumFunctionOnSet([r \in Rounds |-> Back(r, u)], Rounds) \in Nat
    <2> DEFINE f == [r \in Rounds |-> Back(r, u)]
    <2>1. \A r \in Rounds : f[r] \in Nat
        BY <1>2
    <2> HIDE DEF f
    <2>2. SumFunctionOnSet(f, Rounds) \in Nat
        BY <1>1, <2>1, SumNat
    <2> QED BY <2>2 DEF f
<1>4. ASSUME NEW r \in Rounds
      PROVE  SumFunctionOnSet([u \in Members |-> Back(r, u)], Members) \in Nat
    <2> DEFINE f == [u \in Members |-> Back(r, u)]
    <2>1. \A u \in Members : f[u] \in Nat
        BY <1>2
    <2> HIDE DEF f
    <2>2. SumFunctionOnSet(f, Members) \in Nat
        BY <1>1, <2>1, SumNat
    <2> QED BY <2>2 DEF f
<1> QED BY <1>2, <1>3, <1>4

LEMMA ResetStep ==
    ASSUME Inv, ResetLottery
    PROVE  Inv'
<1> DEFINE toMember(u) == SumFunctionOnSet([r \in Rounds |-> Back(r, u)], Rounds)
           ofRound(r) == SumFunctionOnSet([u \in Members |-> Back(r, u)], Members)
<1>1. /\ gen' = [u \in Members |-> gen[u] + toMember(u)]
      /\ reserve' = [r \in Rounds |-> reserve[r] - ofRound(r)]
      /\ refund' = [r \in Rounds |-> [u \in Members |-> refund[r][u] + Back(r, u)]]
      /\ round' = [r \in Rounds |->
                    IF r \in Live THEN [round[r] EXCEPT !.status = "DELETED"] ELSE round[r]]
      /\ UNCHANGED <<usdt, vouchers, shop, paid, prize, repriced, editing, deleting, credit>>
    BY DEF ResetLottery
<1>2. TypeOK
    BY DEF Inv
<1>3. /\ \A u \in Members : toMember(u) \in Nat
      /\ \A r \in Rounds : ofRound(r) \in Nat
      /\ \A r \in Rounds, u \in Members : Back(r, u) \in Nat
    BY <1>2, BackInt
<1> HIDE DEF toMember, ofRound
<1>4. TypeOK'
    <2>1. gen' \in [Members -> Int] /\ reserve' \in [Rounds -> Int]
        BY <1>1, <1>2, <1>3 DEF TypeOK
    <2>2. refund' \in [Rounds -> [Members -> Nat]]
        BY <1>1, <1>2, <1>3 DEF TypeOK
    <2>3. \A r \in Rounds : [round[r] EXCEPT !.status = "DELETED"] \in RoundType
        BY <1>2 DEF TypeOK, RoundType, Statuses
    <2>4. round' \in [Rounds -> RoundType]
        BY <1>1, <1>2, <2>3 DEF TypeOK
    <2> QED BY <1>1, <1>2, <2>1, <2>2, <2>4 DEF TypeOK, shop
<1>5. \A u \in Members : gen'[u] >= gen[u]
    BY <1>1, <1>2, <1>3 DEF TypeOK
<1>6. Drawn'
    BY <1>1 DEF Inv, Drawn
<1> QED BY <1>1, <1>4, <1>5, <1>6, QuietStep

LEMMA CreditStep ==
    ASSUME Inv, NEW u \in Members,
           \/ \E k \in Keys, a \in Amounts : AdminCredit(u, k, a)
           \/ \E delta \in Deltas : AdminVouchers(u, delta)
    PROVE  Inv'
<1>1. TypeOK /\ Reads
    BY DEF Inv
<1>2. /\ request' = Outdated(u)
      /\ UNCHANGED <<gen, item, moved, bought, running, spent, crossed, lottery>>
    BY DEF AdminCredit, AdminVouchers
<1>3. /\ request' \in [Requests -> {None} \cup RequestType]
      /\ \A s \in Requests : request'[s] # None =>
            /\ request[s] # None /\ Passed(request[s], request'[s])
            /\ request[s].step # "read" /\ request[s].member = u
               /\ WritesUser(request[s]) => request'[s].stale
    BY <1>1, <1>2, OutdatedPasses
<1>4. /\ TypeOK'
      /\ \A v \in Members : usdt'[v] >= usdt[v]
      /\ \A v \in Members \ {u} : vouchers'[v] = vouchers[v]
    <2>1. ASSUME NEW k \in Keys, NEW a \in Amounts, AdminCredit(u, k, a)
          PROVE  /\ TypeOK'
                 /\ \A v \in Members : usdt'[v] >= usdt[v]
                 /\ \A v \in Members \ {u} : vouchers'[v] = vouchers[v]
        <3> DEFINE row == [member |-> u, amount |-> a]
        <3>1. /\ credit' = [credit EXCEPT ![k] = row] /\ usdt' = [usdt EXCEPT ![u] = @ + a]
              /\ UNCHANGED <<vouchers, given>> /\ a \in Nat
            BY <2>1, StoreAssumption DEF AdminCredit
        <3>2. row \in CreditType
            BY DEF CreditType
        <3> HIDE DEF row
        <3>3. credit' \in [Keys -> {None} \cup CreditType] /\ usdt' \in [Members -> Int]
            BY <1>1, <3>1, <3>2 DEF TypeOK
        <3>4. TypeOK'
            BY <1>1, <1>2, <1>3, <3>1, <3>3 DEF TypeOK, lottery, entries
        <3> QED BY <1>1, <3>1, <3>4 DEF TypeOK
    <2>2. ASSUME NEW delta \in Deltas, AdminVouchers(u, delta)
          PROVE  /\ TypeOK'
                 /\ \A v \in Members : usdt'[v] >= usdt[v]
                 /\ \A v \in Members \ {u} : vouchers'[v] = vouchers[v]
        <3> DEFINE row == [gen |-> given[u].gen, vouchers |-> given[u].vouchers + delta]
        <3>1. /\ vouchers[u] + delta >= 0 /\ vouchers' = [vouchers EXCEPT ![u] = @ + delta]
              /\ given' = [given EXCEPT ![u] = row] /\ UNCHANGED <<usdt, credit>>
              /\ delta \in Int
            BY <2>2, StoreAssumption DEF AdminVouchers
        <3>2. row \in [gen : Nat, vouchers : Int]
            BY <1>1, <3>1 DEF TypeOK
        <3> HIDE DEF row
        <3>3. /\ vouchers' \in [Members -> Nat]
              /\ given' \in [Members -> [gen : Nat, vouchers : Int]]
            BY <1>1, <3>1, <3>2 DEF TypeOK
        <3>4. TypeOK'
            BY <1>1, <1>2, <1>3, <3>1, <3>3 DEF TypeOK, lottery, entries
        <3> QED BY <1>1, <3>1, <3>4 DEF TypeOK
    <2> QED BY <2>1, <2>2
<1>5. Reads'
    <2> SUFFICES ASSUME NEW s \in Requests, NEW p, p = request'[s], p # None
                 PROVE  Sound(p)'
        BY DEF Reads
    <2>0. PICK o : o = request[s]
        OBVIOUS
    <2>1. /\ o # None /\ Passed(o, p) /\ p # None
          /\ o.step # "read" /\ o.member = u /\ WritesUser(o) => p.stale
        BY <1>3, <2>0
    <2>2. o \in RequestType /\ p \in RequestType /\ Sound(o)
        BY <1>1, <1>3, <2>0, <2>1 DEF TypeOK, Reads
    <2>3. /\ p.member \in Members /\ p.member = o.member /\ p.method = o.method
          /\ p.step = o.step
        BY <2>1, <2>2, Prices DEF Passed
    <2>4. \A i \in Fixed : running'[p.member][i] <= running[p.member][i]
        BY <1>1, <1>2, <2>3 DEF TypeOK, Fixed
    <2>5. usdt'[p.member] >= usdt[p.member] /\ gen'[p.member] >= gen[p.member]
        BY <1>1, <1>2, <1>4, <2>3 DEF TypeOK
    <2>6. p.step # "read" /\ ~p.stale /\ p.method = "VOUCHER"
              => vouchers'[p.member] >= vouchers[p.member]
        BY <1>1, <1>4, <2>1, <2>3 DEF WritesUser, TypeOK
    <2>7. moved \subseteq moved' /\ \A i \in Items \ moved' : item'[i].boost = item[i].boost
        BY <1>2
    <2> QED BY <1>1, <1>4, <2>1, <2>2, <2>4, <2>5, <2>6, <2>7, SoundStays
<1>6. Boosted' /\ Drawn' /\ ItemsKept'
    BY <1>2 DEF Inv, Boosted, Fixed, Drawn, ItemsKept, lottery
<1>7. WithinMeans'
    <2> SUFFICES ASSUME NEW v \in Members
                 PROVE  /\ gen[v] < 0 => <<v, "GEN">> \in crossed
                        /\ usdt'[v] < 0 => <<v, "USDT">> \in crossed
        BY <1>2 DEF WithinMeans
    <2>1. /\ gen[v] < 0 => <<v, "GEN">> \in crossed
          /\ usdt[v] < 0 => <<v, "USDT">> \in crossed
        BY DEF Inv, WithinMeans
    <2>2. usdt[v] \in Int /\ usdt'[v] \in Int
        BY <1>1, <1>4 DEF TypeOK
    <2>3. usdt'[v] < 0 => usdt[v] < 0
        BY <1>4, <2>2
    <2> QED BY <2>1, <2>3
<1> QED BY <1>4, <1>5, <1>6, <1>7 DEF Inv

----------------------------------------------------------------------------
LEMMA InvStep == Inv /\ [Next]_vars => Inv'
<1> SUFFICES ASSUME Inv, [Next]_vars PROVE Inv'
    OBVIOUS
<1>1. CASE Shopping
    <2>1. \/ \E s \in Requests, u \in Members, i \in Items, m \in Methods : Begin(s, u, i, m)
          \/ \E s \in Requests : Look(s) \/ Fund(s) \/ Purchase(s) \/ Refuse(s)
          \/ \E u \in Members, i \in Items : BoostEnds(u, i)
          \/ \E i \in Items : \/ \E row \in Patches[i] : PatchItem(i, row)
                              \/ DeleteItem(i)
        BY <1>1 DEF Shopping
    <2> QED BY <2>1, BeginStep, LookStep, PurchaseStep, ShelfStep
<1>2. CASE Drawing
    BY <1>2, RoundStep, EnterStep, DrawStep, ResetStep DEF Drawing
<1>3. CASE Crediting
    BY <1>3, CreditStep DEF Crediting
<1>4. CASE UNCHANGED vars
    <2>1. TypeOK'
        BY <1>4 DEF vars, purse, shop, lottery, entries, Inv, TypeOK
    <2>2. \A u \in Members : gen'[u] >= gen[u]
        BY <1>4 DEF vars, purse, Inv, TypeOK
    <2>3. Drawn'
        BY <1>4 DEF vars, lottery, Inv, Drawn
    <2> QED BY <1>4, <2>1, <2>2, <2>3, QuietStep DEF vars, purse, lottery
<1> QED BY <1>1, <1>2, <1>3, <1>4 DEF Next

\* Purchases, edits, admins and draws in any order keep the parts of the invariant:
\* types (vouchers are never negative), what the purchases under way have read, and
\* that an item that was bought stays.
THEOREM StoreInvHolds == Spec => []Inv
BY InvInit, InvStep, PTL DEF Spec

\* However many purchases a member sends at once, and whatever is edited meanwhile, one
\* boost runs of those that have been boosts all along.
THEOREM OneBoostHolds == Spec => []OneBoost
<1>1. ASSUME Inv PROVE OneBoost
    <2> SUFFICES ASSUME NEW u \in Members
                 PROVE  SumFunctionOnSet([i \in Items |-> IF item[i].boost /\ i \notin moved
                                              THEN running[u][i] ELSE 0], Items) <= 1
        BY DEF OneBoost
    <2> DEFINE f == [i \in Items |-> IF item[i].boost /\ i \notin moved
                                     THEN running[u][i] ELSE 0]
               z == [i \in Items |-> 0]
    <2>1. /\ \A i \in Items : running[u][i] \in Nat
          /\ \A i \in Fixed : /\ running[u][i] <= 1
                              /\ running[u][i] > 0 => \A j \in Fixed \ {i} : running[u][j] = 0
        BY <1>1 DEF Inv, TypeOK, Boosted
    <2>2. /\ \A i \in Items : f[i] \in Nat /\ f[i] <= 1
          /\ \A i \in Items : f[i] > 0 => \A j \in Items \ {i} : f[j] = 0
        BY <2>1 DEF Fixed
    <2>3. IsFiniteSet(Items) /\ \A i \in Items : z[i] = 0
        BY StoreAssumption
    <2> HIDE DEF f, z
    <2>4. CASE \A i \in Items : f[i] = 0
        BY <2>3, <2>4, SumOfZeros DEF f
    <2>5. ASSUME NEW a \in Items, f[a] > 0 PROVE SumFunctionOnSet(f, Items) <= 1
        <3>1. f[a] = 1 /\ \A j \in Items \ {a} : f[j] = z[j]
            BY <2>2, <2>3, <2>5
        <3>2. f[a] \in Int /\ \A i \in Items : z[i] \in Int
            BY <2>3, <3>1
        <3>3. SumFunctionOnSet(f, Items) = SumFunctionOnSet(z, Items) + (f[a] - z[a])
            BY <2>3, <3>1, <3>2, SumChange
        <3>4. SumFunctionOnSet(z, Items) = 0
            BY <2>3, SumOfZeros
        <3> QED BY <2>3, <3>1, <3>3, <3>4
    <2>6. SumFunctionOnSet(f, Items) <= 1
        BY <2>2, <2>4, <2>5 DEF f
    <2> QED BY <2>6 DEF f
<1> QED BY <1>1, StoreInvHolds, PTL

\* A wallet is overdrawn by a purchase that did not see another debit, and in no
\* other way.
THEOREM WithinMeansHolds == Spec => []WithinMeans
<1>1. Inv => WithinMeans
    BY DEF Inv
<1> QED BY <1>1, StoreInvHolds, PTL

\* However often an edit reopens a drawn round, one prize is posted for it.
THEOREM OnePrizeHolds == Spec => []OnePrize
<1>1. Inv => OnePrize
    BY Few DEF Inv, Drawn, OnePrize
<1> QED BY <1>1, StoreInvHolds, PTL

----------------------------------------------------------------------------
(* The books. *)

\* A round that is not created yet was not entered, and what an admin has read of a
\* round is not written before it is created.
Untouched ==
    \A r \in Rounds : round[r].status = "NONE" => \A u \in Members : paid[r][u] = 0
Existing == \A r \in editing \cup deleting : round[r].status # "NONE"
Unrefunded ==
    \A r \in Rounds : round[r].status # "DELETED" => \A u \in Members : refund[r][u] = 0
Priced ==
    \A r \in Rounds \ repriced : round[r].status \notin Removed =>
        \A u \in Members : paid[r][u] > 0 => paid[r][u] = round[r].entryGen
BookInv == /\ Untouched /\ Existing /\ Unrefunded /\ Priced
           /\ WalletsMatch /\ ReserveMatches /\ RefundsMatch

\* The sums of WalletsMatch and ReserveMatches.
CreditTo(c, u) ==
    [k \in Keys |-> IF c[k] # None /\ c[k].member = u THEN c[k].amount ELSE 0]
PrizeOf(S) == SumFunctionOnSet([p \in S |-> p[2]], S)
WonOf(S, u) == SumFunctionOnSet([p \in S |-> IF p[1] = u THEN p[2] ELSE 0], S)
Flow(z, f, d, u) == [r \in Rounds |-> WonOf(z[r], u) + f[r][u] - d[r][u]]

LEMMA BookParts ==
    /\ \A u : CreditOf(u) = SumFunctionOnSet(CreditTo(credit, u), Keys)
    /\ WalletsMatch <=>
        \A u \in Members :
            /\ usdt[u] = StartUsdt + CreditOf(u) - spent[u].USDT
            /\ vouchers[u] = StartVouchers + given[u].vouchers - spent[u].VOUCHER
            /\ gen[u] = StartGen + given[u].gen - spent[u].GEN
                        + SumFunctionOnSet(Flow(prize, refund, paid, u), Rounds)
            /\ \A i \in Items : bought[u][i] > 0 => item[i].status # "deleted"
    /\ ReserveMatches <=>
        \A r \in Rounds :
            reserve[r] = SumFunctionOnSet(paid[r], Members) - PrizeOf(prize[r])
                         - SumFunctionOnSet(refund[r], Members)
BY DEF CreditOf, CreditTo, WalletsMatch, Won, WonOf, Flow, ReserveMatches, PrizeOf

\* The same after a step.
LEMMA PartsFollow ==
    ASSUME ItemsKept',
           \A u \in Members :
              /\ usdt'[u] = StartUsdt + CreditOf(u)' - spent'[u].USDT
              /\ vouchers'[u] = StartVouchers + given'[u].vouchers - spent'[u].VOUCHER
              /\ gen'[u] = StartGen + given'[u].gen - spent'[u].GEN
                        + SumFunctionOnSet(Flow(prize', refund', paid', u), Rounds)
    PROVE  WalletsMatch'
<1> SUFFICES ASSUME NEW u \in Members
             PROVE  (/\ usdt[u] = StartUsdt + CreditOf(u) - spent[u].USDT
                     /\ vouchers[u] = StartVouchers + given[u].vouchers - spent[u].VOUCHER
                     /\ gen[u] = StartGen + given[u].gen - spent[u].GEN
                           + SumFunctionOnSet([r \in Rounds |->
                                 Won(r, u) + refund[r][u] - paid[r][u]], Rounds)
                     /\ \A i \in Items : bought[u][i] > 0 => item[i].status # "deleted")'
    BY DEF WalletsMatch
<1>1. [r \in Rounds |-> Won(r, u) + refund[r][u] - paid[r][u]]'
          = Flow(prize', refund', paid', u)
    BY DEF Won, WonOf, Flow
<1> QED BY <1>1 DEF ItemsKept

LEMMA CreditInt ==
    ASSUME NEW c \in [Keys -> {None} \cup CreditType], NEW u
    PROVE  /\ \A k \in Keys : CreditTo(c, u)[k] \in Int
           /\ SumFunctionOnSet(CreditTo(c, u), Keys) \in Int
<1>1. \A k \in Keys : CreditTo(c, u)[k] \in Int
    <2>1. \A k \in Keys : c[k] # None => c[k].amount \in Amounts
        BY DEF CreditType
    <2>2. Amounts \subseteq Int
        BY StoreAssumption
    <2> TAKE k \in Keys
    <2>3. CASE c[k] # None /\ c[k].member = u
        <3>1. CreditTo(c, u)[k] = c[k].amount
            BY <2>3 DEF CreditTo
        <3> QED BY <2>1, <2>2, <2>3, <3>1
    <2>4. CASE ~(c[k] # None /\ c[k].member = u)
        <3>1. CreditTo(c, u)[k] = 0
            BY <2>4 DEF CreditTo
        <3> QED BY <3>1
    <2> QED BY <2>3, <2>4
<1> DEFINE f == CreditTo(c, u)
<1>2. IsFiniteSet(Keys)
    BY StoreAssumption
<1>3. \A k \in Keys : f[k] \in Int
    BY <1>1
<1> HIDE DEF f
<1>4. SumFunctionOnSet(f, Keys) \in Int
    BY <1>2, <1>3, SumInt
<1> QED BY <1>1, <1>4 DEF f

LEMMA EntriesInt ==
    ASSUME NEW f \in [Members -> Nat]
    PROVE  SumFunctionOnSet(f, Members) \in Int
<1>1. IsFiniteSet(Members) /\ \A u \in Members : f[u] \in Int
    BY StoreAssumption
<1> QED BY <1>1, SumInt

\* The sum over no prize, and over one.
LEMMA SumOfFew ==
    /\ \A u : PrizeOf({}) = 0 /\ WonOf({}, u) = 0
    /\ \A p, u : p[2] \in Int =>
           PrizeOf({p}) = p[2] /\ WonOf({p}, u) = IF p[1] = u THEN p[2] ELSE 0
<1>1. \A u : PrizeOf({}) = 0 /\ WonOf({}, u) = 0
    BY SumEmpty DEF PrizeOf, WonOf
<1>2. ASSUME NEW f, NEW p, f[p] \in Int PROVE SumFunctionOnSet(f, {p}) = f[p]
    <2>1. IsFiniteSet({}) /\ {} \cup {p} = {p} /\ p \notin {}
        BY FS_EmptySet
    <2>2. \A x \in {} \cup {p} : f[x] \in Int
        BY <1>2
    <2>3. SumFunctionOnSet(f, {} \cup {p}) = SumFunctionOnSet(f, {}) + f[p]
        BY <2>1, <2>2, SumAdd
    <2>4. SumFunctionOnSet(f, {}) = 0
        BY SumEmpty
    <2> QED BY <1>2, <2>1, <2>3, <2>4
<1>3. ASSUME NEW p, NEW u, p[2] \in Int
      PROVE  PrizeOf({p}) = p[2] /\ WonOf({p}, u) = IF p[1] = u THEN p[2] ELSE 0
    <2> DEFINE f == [x \in {p} |-> x[2]]
               g == [x \in {p} |-> IF x[1] = u THEN x[2] ELSE 0]
    <2>1. f[p] = p[2] /\ g[p] = (IF p[1] = u THEN p[2] ELSE 0)
        OBVIOUS
    <2>2. f[p] \in Int /\ g[p] \in Int
        BY <1>3, <2>1
    <2>3. PrizeOf({p}) = SumFunctionOnSet(f, {p}) /\ WonOf({p}, u) = SumFunctionOnSet(g, {p})
        BY DEF PrizeOf, WonOf
    <2> HIDE DEF f, g
    <2> QED BY <1>2, <2>1, <2>2, <2>3
<1> QED BY <1>1, <1>3

LEMMA FewInt ==
    ASSUME NEW S \in SUBSET (Members \X Nat), AtMostOne(S), NEW u
    PROVE  PrizeOf(S) \in Int /\ WonOf(S, u) \in Int
<1>1. \A p \in S : p[2] \in Int
    OBVIOUS
<1>2. CASE S = {}
    BY <1>2, SumOfFew
<1>3. ASSUME NEW p \in S, S = {p} PROVE PrizeOf(S) \in Int /\ WonOf(S, u) \in Int
    <2>1. p[2] \in Int
        BY <1>1
    <2> QED BY <1>3, <2>1, SumOfFew
<1> QED BY <1>2, <1>3 DEF AtMostOne

\* What flows to a member from each round, and from all of them.
LEMMA FlowInt ==
    ASSUME Inv, NEW u \in Members
    PROVE  /\ \A r \in Rounds : Flow(prize, refund, paid, u)[r] \in Int
           /\ SumFunctionOnSet(Flow(prize, refund, paid, u), Rounds) \in Int
<1> DEFINE f == Flow(prize, refund, paid, u)
<1>1. ASSUME NEW r \in Rounds PROVE f[r] \in Int
    <2>1. /\ prize[r] \in SUBSET (Members \X Nat) /\ AtMostOne(prize[r])
          /\ refund[r][u] \in Nat /\ paid[r][u] \in Nat
        BY DEF Inv, TypeOK, Drawn
    <2>2. WonOf(prize[r], u) \in Int
        BY <2>1, FewInt
    <2>3. f[r] = WonOf(prize[r], u) + refund[r][u] - paid[r][u]
        BY DEF Flow
    <2> QED BY <2>1, <2>2, <2>3
<1>2. IsFiniteSet(Rounds)
    BY StoreAssumption
<1> HIDE DEF f
<1>3. SumFunctionOnSet(f, Rounds) \in Int
    BY <1>1, <1>2, SumInt
<1> QED BY <1>1, <1>3 DEF f

\* A step that leaves the lottery alone.
LEMMA LotteryKept ==
    ASSUME BookInv, UNCHANGED lottery
    PROVE  /\ Untouched' /\ Existing' /\ Unrefunded' /\ Priced'
           /\ ReserveMatches' /\ RefundsMatch'
BY DEF BookInv, lottery, entries, Untouched, Existing, Unrefunded, Priced, ReserveMatches,
       RefundsMatch

\* A step that moves no money.
LEMMA WalletsKept ==
    ASSUME BookInv, ItemsKept',
           UNCHANGED <<gen, usdt, vouchers, spent, given, prize, refund, paid, credit>>
    PROVE  WalletsMatch'
<1>1. /\ WalletsMatch /\ \A u \in Members : CreditOf(u)' = CreditOf(u)
      /\ \A u \in Members, r \in Rounds : Won(r, u)' = Won(r, u)
    BY DEF BookInv, CreditOf, Won
<1> QED BY <1>1 DEF WalletsMatch, ItemsKept, CreditOf, Won

LEMMA PurchaseBooks ==
    ASSUME Inv, Inv', BookInv, NEW s \in Requests, Purchase(s)
    PROVE  BookInv'
<1> DEFINE q == request[s]
<1>1. /\ q \in RequestType /\ UNCHANGED <<lottery, credit>>
      /\ \A u \in Members :
           /\ usdt'[u] = usdt[u] - (IF u = q.member /\ q.method = "USDT"
                                    THEN Price(q) ELSE 0)
           /\ gen'[u] = gen[u] - (IF u = q.member /\ q.method = "GEN"
                                  THEN Price(q) ELSE 0)
                               + (IF u = q.member THEN q.row.rewardGen ELSE 0)
           /\ vouchers'[u] = vouchers[u] - (IF u = q.member /\ q.method = "VOUCHER"
                                            THEN Price(q) ELSE 0)
                             + (IF u = q.member THEN q.row.rewardVouchers ELSE 0)
           /\ given'[u].gen = given[u].gen
                              + (IF u = q.member THEN q.row.rewardGen ELSE 0)
           /\ given'[u].vouchers = given[u].vouchers
                              + (IF u = q.member THEN q.row.rewardVouchers ELSE 0)
           /\ \A m \in Methods :
                spent'[u][m] = IF u = q.member /\ m = q.method
                               THEN spent[u][m] + Price(q) ELSE spent[u][m]
    BY PurchaseWrites DEF Inv
<1>2. /\ Price(q) \in Nat /\ q.row.rewardGen \in Nat /\ q.row.rewardVouchers \in Nat
    BY <1>1, Prices
<1>3. ASSUME NEW u \in Members
      PROVE  /\ usdt'[u] = StartUsdt + CreditOf(u) - spent'[u].USDT
             /\ vouchers'[u] = StartVouchers + given'[u].vouchers - spent'[u].VOUCHER
             /\ gen'[u] = StartGen + given'[u].gen - spent'[u].GEN
                          + SumFunctionOnSet(Flow(prize, refund, paid, u), Rounds)
    <2> DEFINE flow == SumFunctionOnSet(Flow(prize, refund, paid, u), Rounds)
               paidIn == CreditOf(u)
    <2>1. /\ usdt[u] = StartUsdt + paidIn - spent[u].USDT
          /\ vouchers[u] = StartVouchers + given[u].vouchers - spent[u].VOUCHER
          /\ gen[u] = StartGen + given[u].gen - spent[u].GEN + flow
        BY BookParts DEF BookInv
    <2>2. flow \in Int /\ paidIn \in Int
        <3>1. credit \in [Keys -> {None} \cup CreditType]
            BY DEF Inv, TypeOK
        <3> QED BY <3>1, FlowInt, CreditInt, BookParts
    <2> HIDE DEF flow, paidIn
    <2>3. /\ StartUsdt \in Int /\ StartVouchers \in Int /\ StartGen \in Int
          /\ spent[u] \in [Methods -> Nat] /\ given[u] \in [gen : Nat, vouchers : Int]
        BY StoreAssumption DEF Inv, TypeOK
    <2>4. /\ spent[u].USDT \in Int /\ spent[u].VOUCHER \in Int /\ spent[u].GEN \in Int
          /\ given[u].gen \in Int /\ given[u].vouchers \in Int
        BY <2>3 DEF Methods
    <2>5. \A m \in Methods : spent'[u][m] = IF u = q.member /\ m = q.method
                                            THEN spent[u][m] + Price(q) ELSE spent[u][m]
        BY <1>1
    <2>6. /\ spent'[u].USDT = spent[u].USDT + (IF u = q.member /\ q.method = "USDT"
                                               THEN Price(q) ELSE 0)
          /\ spent'[u].VOUCHER = spent[u].VOUCHER + (IF u = q.member /\ q.method = "VOUCHER"
                                                     THEN Price(q) ELSE 0)
          /\ spent'[u].GEN = spent[u].GEN + (IF u = q.member /\ q.method = "GEN"
                                             THEN Price(q) ELSE 0)
        BY <1>2, <2>4, <2>5 DEF Methods
    <2> HIDE DEF q
    <2>7. usdt'[u] = StartUsdt + paidIn - spent'[u].USDT
        BY <1>1, <1>2, <2>1, <2>2, <2>3, <2>4, <2>6
    <2>8. vouchers'[u] = StartVouchers + given'[u].vouchers - spent'[u].VOUCHER
        BY <1>1, <1>2, <2>1, <2>2, <2>3, <2>4, <2>6
    <2>9. gen'[u] = StartGen + given'[u].gen - spent'[u].GEN + flow
        BY <1>1, <1>2, <2>1, <2>2, <2>3, <2>4, <2>6
    <2> QED BY <2>7, <2>8, <2>9 DEF flow, paidIn
<1>4. WalletsMatch'
    <2>1. /\ \A u : CreditOf(u)' = CreditOf(u) /\ ItemsKept'
          /\ \A u : Flow(prize, refund, paid, u)' = Flow(prize, refund, paid, u)
        BY <1>1 DEF Inv, CreditOf, Flow, lottery, entries
    <2>2. UNCHANGED <<prize, refund, paid>>
        BY <1>1 DEF lottery, entries
    <2> QED BY <1>3, <2>1, <2>2, PartsFollow
<1> QED BY <1>1, <1>4, LotteryKept DEF BookInv

LEMMA ShopBooks ==
    ASSUME Inv, Inv', BookInv, Shopping
    PROVE  BookInv'
<1>1. ASSUME UNCHANGED <<gen, usdt, vouchers, spent, given, lottery, credit>> PROVE BookInv'
    <2>1. ItemsKept'
        BY DEF Inv
    <2> QED BY <1>1, <2>1, LotteryKept, WalletsKept DEF BookInv, lottery, entries
<1>2. ASSUME NEW s \in Requests, NEW u \in Members, NEW i \in Items, NEW m \in Methods,
             Begin(s, u, i, m)
      PROVE  BookInv'
    BY <1>1, <1>2 DEF Begin, purse
<1>3. ASSUME NEW s \in Requests, Look(s) \/ Fund(s) \/ Refuse(s) PROVE BookInv'
    BY <1>1, <1>3 DEF Look, Fund, Refuse, purse
<1>4. ASSUME NEW i \in Items,
             \/ \E u \in Members : BoostEnds(u, i)
             \/ \E row \in Patches[i] : PatchItem(i, row)
             \/ DeleteItem(i)
      PROVE  BookInv'
    BY <1>1, <1>4 DEF BoostEnds, PatchItem, DeleteItem, purse
<1>5. \/ \E s \in Requests, u \in Members, i \in Items, m \in Methods : Begin(s, u, i, m)
      \/ \E s \in Requests : Look(s) \/ Fund(s) \/ Purchase(s) \/ Refuse(s)
      \/ \E u \in Members, i \in Items : BoostEnds(u, i)
      \/ \E i \in Items : \/ \E row \in Patches[i] : PatchItem(i, row)
                          \/ DeleteItem(i)
    BY DEF Shopping
<1> QED BY <1>2, <1>3, <1>4, <1>5, PurchaseBooks

LEMMA CreditBooks ==
    ASSUME Inv, Inv', BookInv, NEW u \in Members,
           \/ \E k \in Keys, a \in Amounts : AdminCredit(u, k, a)
           \/ \E delta \in Deltas : AdminVouchers(u, delta)
    PROVE  BookInv'
<1>1. /\ UNCHANGED <<gen, spent, lottery, item, bought>> /\ ItemsKept'
      /\ \A v : Flow(prize', refund', paid', v) = Flow(prize, refund, paid, v)
    BY DEF AdminCredit, AdminVouchers, Inv, Flow, lottery, entries
<1>2. /\ credit \in [Keys -> {None} \cup CreditType]
      /\ gen \in [Members -> Int] /\ usdt \in [Members -> Int]
      /\ vouchers \in [Members -> Nat] /\ given \in [Members -> [gen : Nat, vouchers : Int]]
      /\ spent \in [Members -> [Methods -> Nat]]
      /\ StartUsdt \in Int /\ StartVouchers \in Int /\ StartGen \in Int
    BY StoreAssumption DEF Inv, TypeOK
<1>3. \A v \in Members :
          /\ usdt[v] = StartUsdt + CreditOf(v) - spent[v].USDT
          /\ vouchers[v] = StartVouchers + given[v].vouchers - spent[v].VOUCHER
          /\ gen[v] = StartGen + given[v].gen - spent[v].GEN
                      + SumFunctionOnSet(Flow(prize, refund, paid, v), Rounds)
    BY BookParts DEF BookInv
<1>4. \A v \in Members : spent[v].USDT \in Int /\ spent[v].VOUCHER \in Int
    BY <1>2 DEF Methods
<1>5. WalletsMatch'
    <2>1. ASSUME NEW delta \in Deltas, AdminVouchers(u, delta) PROVE WalletsMatch'
        <3> DEFINE row == [gen |-> given[u].gen, vouchers |-> given[u].vouchers + delta]
        <3>1. /\ vouchers' = [vouchers EXCEPT ![u] = @ + delta] /\ delta \in Int
              /\ given' = [given EXCEPT ![u] = row]
              /\ UNCHANGED <<usdt, credit>>
            BY <2>1, StoreAssumption DEF AdminVouchers
        <3>2. row.gen = given[u].gen /\ row.vouchers = given[u].vouchers + delta
            OBVIOUS
        <3> HIDE DEF row
        <3>3. \A v \in Members :
                  /\ given'[v].gen = given[v].gen
                  /\ given'[v].vouchers = given[v].vouchers + (IF v = u THEN delta ELSE 0)
                  /\ vouchers'[v] = vouchers[v] + (IF v = u THEN delta ELSE 0)
            BY <1>2, <3>1, <3>2
        <3>4. \A v : CreditOf(v)' = CreditOf(v)
            BY <3>1 DEF CreditOf
        <3>5. \A v \in Members :
                  vouchers'[v] = StartVouchers + given'[v].vouchers - spent[v].VOUCHER
            BY <1>2, <1>3, <1>4, <3>1, <3>3
        <3>6. \A v \in Members :
                  /\ usdt'[v] = StartUsdt + CreditOf(v)' - spent'[v].USDT
                  /\ vouchers'[v] = StartVouchers + given'[v].vouchers - spent'[v].VOUCHER
                  /\ gen'[v] = StartGen + given'[v].gen - spent'[v].GEN
                      + SumFunctionOnSet(Flow(prize', refund', paid', v), Rounds)
            BY <1>1, <1>3, <3>1, <3>3, <3>4, <3>5
        <3> QED BY <1>1, <3>6, PartsFollow
    <2>2. ASSUME NEW k \in Keys, NEW a \in Amounts, AdminCredit(u, k, a)
          PROVE  WalletsMatch'
        <3> DEFINE row == [member |-> u, amount |-> a]
        <3>1. /\ credit[k] = None /\ credit' = [credit EXCEPT ![k] = row]
              /\ usdt' = [usdt EXCEPT ![u] = @ + a]
              /\ UNCHANGED <<vouchers, given>>
            BY <2>2 DEF AdminCredit, Replayed
        <3>2. row.member = u /\ row.amount = a /\ a \in Nat /\ row # None
            BY StoreAssumption DEF CreditType
        <3> HIDE DEF row
        <3>3. ASSUME NEW v \in Members
              PROVE  usdt'[v] = StartUsdt + CreditOf(v)' - spent[v].USDT
            <4> DEFINE f == CreditTo(credit, v)
                       g == CreditTo(credit', v)
                       sum == SumFunctionOnSet(f, Keys)
                       d == IF v = u THEN a ELSE 0
            <4>1. (\A x \in Keys : f[x] \in Int) /\ IsFiniteSet(Keys) /\ sum \in Int
                BY <1>2, CreditInt, StoreAssumption
            <4>2. \A x \in Keys \ {k} : g[x] = f[x]
                BY <1>2, <3>1 DEF CreditTo
            <4>3. f[k] = 0 /\ g[k] = d /\ d \in Int
                BY <1>2, <3>1, <3>2 DEF CreditTo
            <4>4. usdt[v] = StartUsdt + sum - spent[v].USDT
                BY <1>3, BookParts
            <4>5. usdt'[v] = usdt[v] + d
                BY <1>2, <3>1, <3>2
            <4>6. CreditOf(v)' = SumFunctionOnSet(g, Keys)
                BY DEF CreditOf, CreditTo
            <4> HIDE DEF f, g, d
            <4>7. SumFunctionOnSet(g, Keys) = SumFunctionOnSet(f, Keys) + (g[k] - f[k])
                BY <4>1, <4>2, <4>3, SumChange
            <4>8. SumFunctionOnSet(g, Keys) = sum + d
                BY <4>1, <4>3, <4>7
            <4> HIDE DEF sum
            <4> QED BY <1>2, <1>4, <4>1, <4>3, <4>4, <4>5, <4>6, <4>8
        <3>4. \A v \in Members :
                  /\ usdt'[v] = StartUsdt + CreditOf(v)' - spent'[v].USDT
                  /\ vouchers'[v] = StartVouchers + given'[v].vouchers - spent'[v].VOUCHER
                  /\ gen'[v] = StartGen + given'[v].gen - spent'[v].GEN
                      + SumFunctionOnSet(Flow(prize', refund', paid', v), Rounds)
            BY <1>1, <1>3, <3>1, <3>3
        <3> QED BY <1>1, <3>4, PartsFollow
    <2> QED BY <2>1, <2>2
<1> QED BY <1>1, <1>5, LotteryKept DEF BookInv
----------------------------------------------------------------------------
(* The books and the lottery. *)

\* A step that moves no money, brings no round back and keeps the price of a round
\* that was entered, or remembers that it was edited.
LEMMA RoundFrame ==
    ASSUME Inv, Inv', BookInv, UNCHANGED <<purse, shop, entries, prize, credit>>,
           repriced \subseteq repriced',
           \A r \in Rounds :
              /\ round'[r].status = "NONE" => round[r].status = "NONE"
              /\ round[r].status = "DELETED" => round'[r].status = "DELETED"
              /\ \/ round'[r].entryGen = round[r].entryGen \/ r \in repriced'
                 \/ \A u \in Members : paid[r][u] = 0,
           \A r \in editing' \cup deleting' : round[r].status # "NONE"
    PROVE  BookInv'
<1>1. Untouched' /\ Existing' /\ Unrefunded'
    BY DEF BookInv, Untouched, Existing, Unrefunded, entries, Inv, TypeOK
<1>2. Priced'
    <2> SUFFICES ASSUME NEW r \in Rounds, r \notin repriced', round'[r].status \notin Removed,
                        NEW u \in Members, paid[r][u] > 0
                 PROVE  paid[r][u] = round'[r].entryGen
        BY DEF Priced, entries
    <2>1. round[r].status \notin Removed
        BY DEF Removed, BookInv, Untouched
    <2>2. round'[r].entryGen = round[r].entryGen /\ r \notin repriced
        OBVIOUS
    <2> QED BY <2>1, <2>2 DEF BookInv, Priced
<1>3. ReserveMatches' /\ RefundsMatch'
    BY DEF BookInv, ReserveMatches, RefundsMatch, entries
<1>4. WalletsMatch'
    <2>1. ItemsKept'
        BY DEF Inv
    <2> QED BY <2>1, WalletsKept DEF purse, shop, entries
<1> QED BY <1>1, <1>2, <1>3, <1>4 DEF BookInv

LEMMA AdminBooks ==
    ASSUME Inv, Inv', BookInv, NEW r \in Rounds,
           \/ \E status \in {"DRAFT", "OPEN"}, e \in EntryPrices, p \in Prizes, time \in Times :
                  CreateRound(r, status, e, p, time) \/ EditWrite(r, status, e, p, time)
           \/ TimePasses(r) \/ EditRead(r) \/ DeleteRead(r) \/ DeleteWrite(r)
    PROVE  BookInv'
<1>1. /\ round \in [Rounds -> RoundType] /\ round[r] \in RoundType
      /\ editing \subseteq Rounds /\ deleting \subseteq Rounds
      /\ paid \in [Rounds -> [Members -> Nat]]
      /\ \A x \in editing \cup deleting : round[x].status # "NONE"
    BY DEF Inv, TypeOK, BookInv, Existing
<1>2. ASSUME NEW row, round' = [round EXCEPT ![r] = row],
             row.status = "NONE" => round[r].status = "NONE",
             round[r].status = "DELETED" => row.status = "DELETED",
             \/ row.entryGen = round[r].entryGen \/ r \in repriced'
             \/ \A u \in Members : paid[r][u] = 0,
             repriced \subseteq repriced', editing' \subseteq editing,
             deleting' \subseteq deleting,
             UNCHANGED <<purse, shop, entries, prize, credit>>
      PROVE  BookInv'
    <2>1. round'[r] = row /\ \A x \in Rounds \ {r} : round'[x] = round[x]
        BY <1>1, <1>2
    <2>2. \A x \in Rounds :
              /\ round'[x].status = "NONE" => round[x].status = "NONE"
              /\ round[x].status = "DELETED" => round'[x].status = "DELETED"
              /\ \/ round'[x].entryGen = round[x].entryGen \/ x \in repriced'
                 \/ \A u \in Members : paid[x][u] = 0
        BY <1>2, <2>1
    <2>3. \A x \in editing' \cup deleting' : round[x].status # "NONE"
        BY <1>1, <1>2
    <2> QED BY <1>2, <2>2, <2>3, RoundFrame
<1>3. ASSUME UNCHANGED <<purse, shop, round, entries, prize, repriced, credit>>,
             editing' \cup deleting' \subseteq editing \cup deleting \cup {r},
             round[r].status # "NONE" \/ editing' \cup deleting' \subseteq editing \cup deleting
      PROVE  BookInv'
    BY <1>1, <1>3, RoundFrame
<1>4. ASSUME NEW status \in {"DRAFT", "OPEN"}, NEW e \in EntryPrices, NEW p \in Prizes,
             NEW time \in Times,
             CreateRound(r, status, e, p, time) \/ EditWrite(r, status, e, p, time)
      PROVE  BookInv'
    <2> DEFINE row == [status |-> status, entryGen |-> e, prizeGen |-> p, time |-> time]
    <2>1. row.status = status /\ row.entryGen = e
        OBVIOUS
    <2>2. CASE CreateRound(r, status, e, p, time)
        <3>1. /\ round[r].status = "NONE" /\ round' = [round EXCEPT ![r] = row]
              /\ UNCHANGED <<purse, shop, entries, prize, repriced, editing, deleting, credit>>
            BY <2>2 DEF CreateRound
        <3>2. \A u \in Members : paid[r][u] = 0
            BY <3>1 DEF BookInv, Untouched
        <3> HIDE DEF row
        <3> QED BY <1>2, <2>1, <3>1, <3>2
    <2>3. CASE EditWrite(r, status, e, p, time) /\ round[r].status = "DELETED"
        BY <1>3, <2>3 DEF EditWrite
    <2>4. CASE EditWrite(r, status, e, p, time) /\ round[r].status # "DELETED"
        <3>1. /\ r \in editing /\ editing' = editing \ {r}
              /\ round' = [round EXCEPT ![r] = row]
              /\ repriced' = IF e # round[r].entryGen /\ Entered(r) # {}
                             THEN repriced \cup {r} ELSE repriced
              /\ UNCHANGED <<purse, shop, entries, prize, deleting, credit>>
            BY <2>4 DEF EditWrite
        <3>2. round[r].status # "NONE"
            BY <1>1, <3>1
        <3>3. Entered(r) = {} => \A u \in Members : paid[r][u] = 0
            BY <1>1, <2>4, <3>2 DEF Entered, Removed
        <3> HIDE DEF row
        <3> QED BY <1>2, <2>1, <2>4, <3>1, <3>2, <3>3
    <2> QED BY <1>4, <2>2, <2>3, <2>4
<1>5. ASSUME TimePasses(r) PROVE BookInv'
    <2> DEFINE time == IF round[r].time = "early" THEN "now" ELSE "over"
               row == [round[r] EXCEPT !.time = time]
    <2>1. row.status = round[r].status /\ row.entryGen = round[r].entryGen
        BY <1>1 DEF RoundType
    <2>2. round' = [round EXCEPT ![r] = row]
          /\ UNCHANGED <<purse, shop, entries, prize, repriced, editing, deleting, credit>>
        BY <1>5 DEF TimePasses
    <2> HIDE DEF row
    <2> QED BY <1>2, <2>1, <2>2
<1>6. ASSUME DeleteWrite(r) PROVE BookInv'
    <2> DEFINE row == [round[r] EXCEPT !.status = "DELETED"]
    <2>1. row.status = "DELETED" /\ row.entryGen = round[r].entryGen
        BY <1>1 DEF RoundType
    <2>2. round' = [round EXCEPT ![r] = row] /\ deleting' \subseteq deleting
          /\ UNCHANGED <<purse, shop, entries, prize, repriced, editing, credit>>
        BY <1>6 DEF DeleteWrite
    <2> HIDE DEF row
    <2> QED BY <1>2, <2>1, <2>2
<1>7. ASSUME EditRead(r) \/ DeleteRead(r) PROVE BookInv'
    BY <1>3, <1>7 DEF EditRead, DeleteRead, Removed
<1> QED BY <1>4, <1>5, <1>6, <1>7

\* The wallets, when what flows to u alone from round r changes by d.
LEMMA OneFlow ==
    ASSUME Inv, Inv', BookInv, NEW u \in Members, NEW r \in Rounds, NEW d \in Int,
           UNCHANGED <<usdt, vouchers, spent, given, credit>>,
           \A v \in Members : gen'[v] = gen[v] + (IF v = u THEN d ELSE 0),
           \A v \in Members, x \in Rounds :
               Flow(prize', refund', paid', v)[x] =
                   Flow(prize, refund, paid, v)[x] + (IF v = u /\ x = r THEN d ELSE 0)
    PROVE  WalletsMatch'
<1>1. ASSUME NEW v \in Members
      PROVE  gen'[v] = StartGen + given'[v].gen - spent'[v].GEN
                       + SumFunctionOnSet(Flow(prize', refund', paid', v), Rounds)
    <2> DEFINE f == Flow(prize, refund, paid, v)
               g == Flow(prize', refund', paid', v)
               e == IF v = u THEN d ELSE 0
    <2>1. (\A x \in Rounds : f[x] \in Int) /\ SumFunctionOnSet(f, Rounds) \in Int
        BY FlowInt
    <2>2. g[r] = f[r] + e /\ \A x \in Rounds \ {r} : g[x] = f[x] + 0
        OBVIOUS
    <2>3. e \in Int /\ IsFiniteSet(Rounds) /\ gen'[v] = gen[v] + e
        BY StoreAssumption
    <2>4. gen[v] = StartGen + given[v].gen - spent[v].GEN + SumFunctionOnSet(f, Rounds)
        BY BookParts DEF BookInv
    <2>5. StartGen \in Int /\ given[v].gen \in Int /\ spent[v].GEN \in Int
        BY StoreAssumption DEF Inv, TypeOK, Methods
    <2> HIDE DEF f, g, e
    <2>6. g[r] \in Int /\ \A x \in Rounds \ {r} : g[x] = f[x]
        BY <2>1, <2>2, <2>3
    <2>7. SumFunctionOnSet(g, Rounds) = SumFunctionOnSet(f, Rounds) + (g[r] - f[r])
        BY <2>1, <2>3, <2>6, SumChange
    <2>8. SumFunctionOnSet(g, Rounds) = SumFunctionOnSet(f, Rounds) + e
        BY <2>1, <2>2, <2>3, <2>7
    <2>9. gen'[v] = StartGen + given[v].gen - spent[v].GEN + SumFunctionOnSet(g, Rounds)
        BY <2>1, <2>3, <2>4, <2>5, <2>8
    <2> QED BY <2>9 DEF g
<1>2. ASSUME NEW v \in Members
      PROVE  /\ usdt'[v] = StartUsdt + CreditOf(v)' - spent'[v].USDT
             /\ vouchers'[v] = StartVouchers + given'[v].vouchers - spent'[v].VOUCHER
    <2>1. CreditOf(v)' = CreditOf(v)
        BY DEF CreditOf
    <2> QED BY <2>1, BookParts DEF BookInv
<1>3. ItemsKept'
    BY DEF Inv
<1> QED BY <1>1, <1>2, <1>3, PartsFollow

\* An entry is collected by the round's reserve.
LEMMA EnterBooks ==
    ASSUME Inv, Inv', BookInv, NEW u \in Members, NEW r \in Rounds, Enter(u, r)
    PROVE  BookInv'
<1> DEFINE e == round[r].entryGen
           old == paid[r]
           new == [old EXCEPT ![u] = e]
<1>1. /\ round[r].status = "OPEN" /\ u \notin Entered(r)
      /\ paid' = [paid EXCEPT ![r] = new] /\ gen' = [gen EXCEPT ![u] = @ - e]
      /\ reserve' = [reserve EXCEPT ![r] = @ + e]
      /\ UNCHANGED <<usdt, vouchers, spent, given, round, prize, refund, repriced,
                     editing, deleting, credit>>
    BY DEF Enter, Enterable, Collected
<1>2. /\ e \in Nat /\ old \in [Members -> Nat] /\ reserve[r] \in Int
      /\ gen \in [Members -> Int] /\ reserve \in [Rounds -> Int]
      /\ paid \in [Rounds -> [Members -> Nat]] /\ refund \in [Rounds -> [Members -> Nat]]
    BY DEF Inv, TypeOK, RoundType
<1>3. old[u] = 0
    BY <1>1, <1>2 DEF Entered, Removed
<1>4. \A x \in Rounds : reserve[x] = SumFunctionOnSet(paid[x], Members) - PrizeOf(prize[x])
                                     - SumFunctionOnSet(refund[x], Members)
    BY BookParts DEF BookInv
<1> HIDE DEF e, old
<1>5. new \in [Members -> Nat] /\ new[u] = e /\ \A x \in Members \ {u} : new[x] = old[x]
    BY <1>2
<1> HIDE DEF new
<1>6. SumFunctionOnSet(new, Members) = SumFunctionOnSet(old, Members) + e
    <2>1. IsFiniteSet(Members) /\ (\A x \in Members : old[x] \in Int) /\ new[u] \in Int
        BY <1>2, <1>5, StoreAssumption
    <2>2. SumFunctionOnSet(new, Members) = SumFunctionOnSet(old, Members) + (new[u] - old[u])
        BY <1>5, <2>1, SumChange
    <2>3. new[u] - old[u] = e
        BY <1>2, <1>3, <1>5
    <2> QED BY <2>2, <2>3
<1>7. /\ gen'[u] = gen[u] - e /\ \A v \in Members \ {u} : gen'[v] = gen[v]
      /\ paid'[r] = new /\ reserve'[r] = reserve[r] + e
      /\ \A x \in Rounds \ {r} : paid'[x] = paid[x] /\ reserve'[x] = reserve[x]
    BY <1>1, <1>2
<1>8. Untouched' /\ Existing' /\ Unrefunded'
    BY <1>1, <1>7 DEF BookInv, Untouched, Existing, Unrefunded
<1>9. Priced'
    <2> SUFFICES ASSUME NEW x \in Rounds, x \notin repriced, round[x].status \notin Removed,
                        NEW v \in Members, paid'[x][v] > 0
                 PROVE  paid'[x][v] = round[x].entryGen
        BY <1>1 DEF Priced
    <2>1. paid[x][v] > 0 => paid[x][v] = round[x].entryGen
        BY DEF BookInv, Priced
    <2> QED BY <1>5, <1>7, <2>1 DEF old, e
<1>10. ReserveMatches'
    <2> SUFFICES ASSUME NEW x \in Rounds
                 PROVE  reserve'[x] = SumFunctionOnSet(paid'[x], Members) - PrizeOf(prize[x])
                                      - SumFunctionOnSet(refund[x], Members)
        BY <1>1 DEF ReserveMatches, PrizeOf
    <2>1. CASE x = r
        <3>1. /\ PrizeOf(prize[r]) \in Int /\ SumFunctionOnSet(refund[r], Members) \in Int
              /\ SumFunctionOnSet(old, Members) \in Int
            BY <1>2, FewInt, EntriesInt DEF Inv, TypeOK, Drawn
        <3>2. reserve[r] = SumFunctionOnSet(old, Members) - PrizeOf(prize[r])
                           - SumFunctionOnSet(refund[r], Members)
            BY <1>4 DEF old
        <3> QED BY <1>2, <1>6, <1>7, <2>1, <3>1, <3>2
    <2>2. CASE x # r
        BY <1>4, <1>7, <2>2
    <2> QED BY <2>1, <2>2
<1>11. RefundsMatch'
    <2> SUFFICES ASSUME NEW x \in Rounds, NEW v \in Members, refund[x][v] > 0,
                        x \notin repriced
                 PROVE  refund[x][v] = paid'[x][v]
        BY <1>1 DEF RefundsMatch
    <2>1. refund[x][v] = paid[x][v]
        BY DEF BookInv, RefundsMatch
    <2>2. x # r
        BY <1>1, <1>2 DEF BookInv, Unrefunded
    <2> QED BY <1>7, <2>1, <2>2
<1>12. WalletsMatch'
    <2> DEFINE d == 0 - e
    <2>1. d \in Int /\ \A v \in Members : gen'[v] = gen[v] + (IF v = u THEN d ELSE 0)
        BY <1>2, <1>7
    <2>2. ASSUME NEW v \in Members, NEW x \in Rounds
          PROVE  Flow(prize', refund', paid', v)[x] =
                     Flow(prize, refund, paid, v)[x] + (IF v = u /\ x = r THEN d ELSE 0)
        <3>0. prize[x] \in SUBSET (Members \X Nat) /\ AtMostOne(prize[x])
            BY DEF Inv, TypeOK, Drawn
        <3>1. /\ WonOf(prize[x], v) \in Int /\ refund[x][v] \in Int /\ paid[x][v] \in Int
            BY <1>2, <3>0, FewInt
        <3>2. /\ Flow(prize, refund, paid, v)[x]
                     = WonOf(prize[x], v) + refund[x][v] - paid[x][v]
              /\ Flow(prize', refund', paid', v)[x]
                     = WonOf(prize[x], v) + refund[x][v] - paid'[x][v]
            BY <1>1 DEF Flow
        <3>3. paid'[x][v] = paid[x][v] + (IF v = u /\ x = r THEN e ELSE 0)
            BY <1>2, <1>3, <1>5, <1>7, <3>1 DEF old
        <3> QED BY <1>2, <3>1, <3>2, <3>3
    <2> HIDE DEF d
    <2> QED BY <1>1, <2>1, <2>2, OneFlow
<1> QED BY <1>8, <1>9, <1>10, <1>11, <1>12 DEF BookInv

\* The first draw of a round posts its prize; a later one moves nothing.
LEMMA DrawBooks ==
    ASSUME Inv, Inv', BookInv, NEW u \in Members, NEW r \in Rounds, Draw(r, u)
    PROVE  BookInv'
<1> DEFINE p == round[r].prizeGen
           posting == <<u, p>>
           amount == IF prize'[r] # prize[r] THEN p ELSE 0
           row == [round[r] EXCEPT !.status = "DRAWN"]
<1>1. /\ round[r].status = "OPEN" /\ round' = [round EXCEPT ![r] = row]
      /\ prize' = [prize EXCEPT ![r] = IF prize[r] = {} THEN {posting} ELSE prize[r]]
      /\ reserve' = [reserve EXCEPT ![r] = @ - amount] /\ gen' = [gen EXCEPT ![u] = @ + amount]
      /\ UNCHANGED <<usdt, vouchers, shop, paid, refund, repriced, editing, deleting, credit>>
    BY DEF Draw, Posted
<1>2. /\ p \in Nat /\ round[r] \in RoundType
      /\ round \in [Rounds -> RoundType] /\ reserve \in [Rounds -> Int]
      /\ gen \in [Members -> Int] /\ DOMAIN prize = Rounds
      /\ paid \in [Rounds -> [Members -> Nat]] /\ refund \in [Rounds -> [Members -> Nat]]
    BY DEF Inv, TypeOK, RoundType
<1>3. \A x \in Rounds : /\ prize[x] \in SUBSET (Members \X Nat) /\ AtMostOne(prize[x])
                        /\ prize'[x] \in SUBSET (Members \X Nat) /\ AtMostOne(prize'[x])
    BY DEF Inv, TypeOK, Drawn
<1>4. row.status = "DRAWN" /\ row.entryGen = round[r].entryGen
    BY <1>2 DEF RoundType
<1>5. prize'[r] = (IF prize[r] = {} THEN {posting} ELSE prize[r])
      /\ \A x \in Rounds \ {r} : prize'[x] = prize[x]
    BY <1>1, <1>2
<1>6. /\ amount \in Nat /\ PrizeOf(prize'[r]) = PrizeOf(prize[r]) + amount
      /\ \A v \in Members :
           WonOf(prize'[r], v) = WonOf(prize[r], v) + (IF v = u THEN amount ELSE 0)
    <2>1. CASE prize[r] = {}
        <3>1. posting[1] = u /\ posting[2] = p /\ p \in Int /\ prize'[r] = {posting}
              /\ amount = p
            BY <1>2, <1>5, <2>1
        <3> HIDE DEF posting, amount, p
        <3>2. PrizeOf({posting}) = p /\ \A v : WonOf({posting}, v) = IF u = v THEN p ELSE 0
            BY <3>1, SumOfFew
        <3>3. PrizeOf({}) = 0 /\ \A v : WonOf({}, v) = 0
            BY SumOfFew
        <3>4. PrizeOf(prize'[r]) = PrizeOf(prize[r]) + amount
            BY <2>1, <3>1, <3>2, <3>3
        <3>5. ASSUME NEW v \in Members
              PROVE  WonOf(prize'[r], v) = WonOf(prize[r], v) + (IF v = u THEN amount ELSE 0)
            <4>1. WonOf(prize'[r], v) = (IF u = v THEN p ELSE 0) /\ WonOf(prize[r], v) = 0
                BY <2>1, <3>1, <3>2, <3>3
            <4> QED BY <3>1, <4>1
        <3> QED BY <1>2, <3>1, <3>4, <3>5 DEF p
    <2>2. CASE prize[r] # {}
        <3>1. prize'[r] = prize[r] /\ amount = 0
            BY <1>5, <2>2
        <3>2. \A v : PrizeOf(prize[r]) \in Int /\ WonOf(prize[r], v) \in Int
            BY <1>3, FewInt
        <3> HIDE DEF amount
        <3> QED BY <3>1, <3>2
    <2> QED BY <2>1, <2>2
<1> HIDE DEF p, posting, amount, row
<1>7. /\ round'[r] = row /\ reserve'[r] = reserve[r] - amount
      /\ \A x \in Rounds \ {r} : round'[x] = round[x] /\ reserve'[x] = reserve[x]
    BY <1>1, <1>2
<1>8. Untouched' /\ Existing' /\ Unrefunded'
    BY <1>1, <1>2, <1>4, <1>7 DEF BookInv, Untouched, Existing, Unrefunded, Inv, TypeOK
<1>9. Priced'
    <2> SUFFICES ASSUME NEW x \in Rounds, x \notin repriced, round'[x].status \notin Removed,
                        NEW v \in Members, paid[x][v] > 0
                 PROVE  paid[x][v] = round'[x].entryGen
        BY <1>1 DEF Priced
    <2>1. round[x].status \notin Removed /\ round'[x].entryGen = round[x].entryGen
        BY <1>1, <1>4, <1>7 DEF Removed
    <2> QED BY <2>1 DEF BookInv, Priced
<1>10. ReserveMatches'
    <2> SUFFICES ASSUME NEW x \in Rounds
                 PROVE  reserve'[x] = SumFunctionOnSet(paid[x], Members) - PrizeOf(prize'[x])
                                      - SumFunctionOnSet(refund[x], Members)
        BY <1>1 DEF ReserveMatches, PrizeOf
    <2>1. reserve[x] = SumFunctionOnSet(paid[x], Members) - PrizeOf(prize[x])
                       - SumFunctionOnSet(refund[x], Members)
        BY BookParts DEF BookInv
    <2>2. CASE x = r
        <3>1. /\ PrizeOf(prize[r]) \in Int /\ SumFunctionOnSet(refund[r], Members) \in Int
              /\ SumFunctionOnSet(paid[r], Members) \in Int
            BY <1>2, <1>3, FewInt, EntriesInt
        <3> QED BY <1>2, <1>6, <1>7, <2>1, <2>2, <3>1
    <2>3. CASE x # r
        BY <1>5, <1>7, <2>1, <2>3
    <2> QED BY <2>2, <2>3
<1>11. RefundsMatch'
    BY <1>1 DEF BookInv, RefundsMatch
<1>12. WalletsMatch'
    <2>1. amount \in Int /\ \A v \in Members : gen'[v] = gen[v] + (IF v = u THEN amount ELSE 0)
        BY <1>1, <1>2, <1>6
    <2>2. ASSUME NEW v \in Members, NEW x \in Rounds
          PROVE  Flow(prize', refund', paid', v)[x] =
                     Flow(prize, refund, paid, v)[x] + (IF v = u /\ x = r THEN amount ELSE 0)
        <3>1. /\ WonOf(prize[x], v) \in Int /\ refund[x][v] \in Int /\ paid[x][v] \in Int
            BY <1>2, <1>3, FewInt
        <3>2. /\ Flow(prize, refund, paid, v)[x]
                     = WonOf(prize[x], v) + refund[x][v] - paid[x][v]
              /\ Flow(prize', refund', paid', v)[x]
                     = WonOf(prize'[x], v) + refund[x][v] - paid[x][v]
            BY <1>1 DEF Flow
        <3>3. WonOf(prize'[x], v) = WonOf(prize[x], v) + (IF v = u /\ x = r THEN amount ELSE 0)
            BY <1>5, <1>6, <3>1
        <3> QED BY <1>6, <3>1, <3>2, <3>3
    <2> QED BY <1>1, <2>1, <2>2, OneFlow DEF shop
<1> QED BY <1>8, <1>9, <1>10, <1>11, <1>12 DEF BookInv

\* A reset refunds what the rounds it deletes cost by now, from their reserves.
LEMMA ResetBooks ==
    ASSUME Inv, Inv', BookInv, ResetLottery
    PROVE  BookInv'
<1> DEFINE toMember(u) == [r \in Rounds |-> Back(r, u)]
           ofRound(r) == [u \in Members |-> Back(r, u)]
<1>1. /\ gen' = [u \in Members |-> gen[u] + SumFunctionOnSet(toMember(u), Rounds)]
      /\ reserve' = [r \in Rounds |-> reserve[r] - SumFunctionOnSet(ofRound(r), Members)]
      /\ refund' = [r \in Rounds |-> [u \in Members |-> refund[r][u] + Back(r, u)]]
      /\ round' = [r \in Rounds |->
                    IF r \in Live THEN [round[r] EXCEPT !.status = "DELETED"] ELSE round[r]]
      /\ UNCHANGED <<usdt, vouchers, shop, paid, prize, repriced, editing, deleting, credit>>
    BY DEF ResetLottery
<1>2. /\ round \in [Rounds -> RoundType] /\ reserve \in [Rounds -> Int]
      /\ gen \in [Members -> Int] /\ paid \in [Rounds -> [Members -> Nat]]
      /\ refund \in [Rounds -> [Members -> Nat]]
      /\ IsFiniteSet(Members) /\ IsFiniteSet(Rounds)
    BY StoreAssumption DEF Inv, TypeOK
<1>3. \A r \in Rounds, u \in Members :
          /\ Back(r, u) \in Nat /\ toMember(u)[r] = Back(r, u) /\ ofRound(r)[u] = Back(r, u)
          /\ refund'[r][u] = refund[r][u] + Back(r, u)
    BY <1>1, BackInt DEF Inv
<1>4. /\ \A u \in Members : SumFunctionOnSet(toMember(u), Rounds) \in Int
      /\ \A r \in Rounds : SumFunctionOnSet(ofRound(r), Members) \in Int
    BY BackInt DEF Inv
<1> HIDE DEF toMember, ofRound
<1>5. /\ \A r \in Rounds \ Live : round'[r] = round[r] /\ \A u \in Members : Back(r, u) = 0
      /\ \A r \in Live : r \in Rounds /\ round'[r].status = "DELETED"
    BY <1>1, <1>2 DEF Live, Back, RoundType
<1>6. Untouched' /\ Existing'
    BY <1>1, <1>5 DEF BookInv, Untouched, Existing, Inv, TypeOK
<1>7. Unrefunded'
    <2> SUFFICES ASSUME NEW r \in Rounds, round'[r].status # "DELETED", NEW u \in Members
                 PROVE  refund'[r][u] = 0
        BY DEF Unrefunded
    <2>1. r \notin Live /\ round[r].status # "DELETED"
        BY <1>5
    <2>2. refund[r][u] = 0 /\ Back(r, u) = 0
        BY <1>5, <2>1 DEF BookInv, Unrefunded
    <2> QED BY <1>3, <2>2
<1>8. Priced'
    <2> SUFFICES ASSUME NEW r \in Rounds, r \notin repriced, round'[r].status \notin Removed,
                        NEW u \in Members, paid[r][u] > 0
                 PROVE  paid[r][u] = round'[r].entryGen
        BY <1>1 DEF Priced
    <2>1. round'[r] = round[r]
        BY <1>5 DEF Removed
    <2> QED BY <2>1 DEF BookInv, Priced
<1>9. RefundsMatch'
    <2> SUFFICES ASSUME NEW r \in Rounds, NEW u \in Members, refund'[r][u] > 0,
                        r \notin repriced
                 PROVE  refund'[r][u] = paid[r][u]
        BY <1>1 DEF RefundsMatch
    <2>1. CASE r \in Live /\ u \in Entered(r)
        <3>1. round[r].status # "DELETED" /\ round[r].status \notin Removed
            BY <2>1 DEF Live, Removed
        <3>2. refund[r][u] = 0 /\ paid[r][u] = round[r].entryGen
            BY <2>1, <3>1 DEF BookInv, Unrefunded, Priced, Entered
        <3>3. Back(r, u) = round[r].entryGen
            BY <2>1 DEF Back
        <3> QED BY <1>3, <3>2, <3>3
    <2>2. CASE ~(r \in Live /\ u \in Entered(r))
        <3>1. Back(r, u) = 0
            BY <2>2 DEF Back
        <3>2. refund'[r][u] = refund[r][u]
            BY <1>2, <1>3, <3>1
        <3> QED BY <3>2 DEF BookInv, RefundsMatch
    <2> QED BY <2>1, <2>2
<1>10. ReserveMatches'
    <2> SUFFICES ASSUME NEW r \in Rounds
                 PROVE  reserve'[r] = SumFunctionOnSet(paid[r], Members) - PrizeOf(prize[r])
                                      - SumFunctionOnSet(refund'[r], Members)
        BY <1>1 DEF ReserveMatches, PrizeOf
    <2>1. reserve[r] = SumFunctionOnSet(paid[r], Members) - PrizeOf(prize[r])
                       - SumFunctionOnSet(refund[r], Members)
        BY BookParts DEF BookInv
    <2>2. /\ PrizeOf(prize[r]) \in Int /\ SumFunctionOnSet(refund[r], Members) \in Int
          /\ SumFunctionOnSet(paid[r], Members) \in Int
        BY <1>2, FewInt, EntriesInt DEF Inv, TypeOK, Drawn
    <2> DEFINE f == refund[r]
               g == ofRound(r)
               h == refund'[r]
    <2>3. \A u \in Members : f[u] \in Int /\ g[u] \in Int /\ h[u] = f[u] + g[u]
        BY <1>2, <1>3
    <2>4. reserve'[r] = reserve[r] - SumFunctionOnSet(g, Members)
        BY <1>1
    <2>5. SumFunctionOnSet(g, Members) \in Int
        BY <1>4
    <2> HIDE DEF f, g, h
    <2>6. SumFunctionOnSet(h, Members) = SumFunctionOnSet(f, Members) + SumFunctionOnSet(g, Members)
        BY <1>2, <2>3, SumPlus
    <2>7. SumFunctionOnSet(f, Members) = SumFunctionOnSet(refund[r], Members)
        BY DEF f
    <2>8. reserve'[r] = SumFunctionOnSet(paid[r], Members) - PrizeOf(prize[r])
                        - SumFunctionOnSet(h, Members)
        BY <2>1, <2>2, <2>4, <2>5, <2>6, <2>7
    <2> QED BY <2>8 DEF h
<1>11. WalletsMatch'
    <2>1. ASSUME NEW u \in Members
          PROVE  gen'[u] = StartGen + given[u].gen - spent[u].GEN
                           + SumFunctionOnSet(Flow(prize, refund', paid, u), Rounds)
        <3> DEFINE f == Flow(prize, refund, paid, u)
                   g == toMember(u)
                   h == Flow(prize, refund', paid, u)
        <3>1. (\A r \in Rounds : f[r] \in Int) /\ SumFunctionOnSet(f, Rounds) \in Int
            BY FlowInt
        <3>2. ASSUME NEW r \in Rounds PROVE g[r] \in Int /\ h[r] = f[r] + g[r]
            <4>0. prize[r] \in SUBSET (Members \X Nat) /\ AtMostOne(prize[r])
                BY DEF Inv, TypeOK, Drawn
            <4>1. WonOf(prize[r], u) \in Int /\ refund[r][u] \in Int /\ paid[r][u] \in Int
                BY <1>2, <4>0, FewInt
            <4>2. f[r] = WonOf(prize[r], u) + refund[r][u] - paid[r][u]
                  /\ h[r] = WonOf(prize[r], u) + refund'[r][u] - paid[r][u]
                BY DEF Flow
            <4>3. g[r] = Back(r, u) /\ Back(r, u) \in Int
                  /\ refund'[r][u] = refund[r][u] + Back(r, u)
                BY <1>3
            <4> HIDE DEF f, g, h
            <4> QED BY <4>1, <4>2, <4>3
        <3>3. SumFunctionOnSet(g, Rounds) \in Int
              /\ gen'[u] = gen[u] + SumFunctionOnSet(g, Rounds)
            BY <1>1, <1>4
        <3>4. gen[u] = StartGen + given[u].gen - spent[u].GEN + SumFunctionOnSet(f, Rounds)
            BY BookParts DEF BookInv
        <3>5. StartGen \in Int /\ given[u].gen \in Int /\ spent[u].GEN \in Int
            BY StoreAssumption DEF Inv, TypeOK, Methods
        <3> HIDE DEF f, g, h
        <3>6. SumFunctionOnSet(h, Rounds) = SumFunctionOnSet(f, Rounds) + SumFunctionOnSet(g, Rounds)
            BY <1>2, <3>1, <3>2, SumPlus
        <3>7. gen'[u] = StartGen + given[u].gen - spent[u].GEN + SumFunctionOnSet(h, Rounds)
            BY <3>1, <3>3, <3>4, <3>5, <3>6
        <3> QED BY <3>7 DEF h
    <2>2. ASSUME NEW v \in Members
          PROVE  /\ usdt'[v] = StartUsdt + CreditOf(v)' - spent'[v].USDT
                 /\ vouchers'[v] = StartVouchers + given'[v].vouchers - spent'[v].VOUCHER
                 /\ spent'[v] = spent[v] /\ given'[v] = given[v]
        <3>1. CreditOf(v)' = CreditOf(v)
            BY <1>1 DEF CreditOf
        <3> QED BY <1>1, <3>1, BookParts DEF BookInv, shop
    <2>3. ItemsKept'
        BY DEF Inv
    <2> QED BY <1>1, <2>1, <2>2, <2>3, PartsFollow
<1> QED BY <1>6, <1>7, <1>8, <1>9, <1>10, <1>11 DEF BookInv

----------------------------------------------------------------------------
LEMMA BookInit == Init => BookInv
<1> SUFFICES ASSUME Init PROVE BookInv
    OBVIOUS
<1>1. /\ StartGen \in Int /\ StartUsdt \in Int /\ StartVouchers \in Int
      /\ IsFiniteSet(Members) /\ IsFiniteSet(Rounds) /\ IsFiniteSet(Keys)
    BY StoreAssumption
<1>2. Untouched /\ Existing /\ Unrefunded /\ Priced
    BY DEF Init, Untouched, Existing, Unrefunded, Priced, NoRound, Removed
<1>3. RefundsMatch
    BY DEF Init, RefundsMatch
<1>4. ReserveMatches
    <2> SUFFICES ASSUME NEW r \in Rounds
                 PROVE  reserve[r] = SumFunctionOnSet(paid[r], Members) - PrizeOf(prize[r])
                                     - SumFunctionOnSet(refund[r], Members)
        BY DEF ReserveMatches, PrizeOf
    <2>1. /\ \A u \in Members : paid[r][u] = 0 /\ refund[r][u] = 0
          /\ reserve[r] = 0 /\ prize[r] = {}
        BY DEF Init
    <2>2. /\ SumFunctionOnSet(paid[r], Members) = 0
          /\ SumFunctionOnSet(refund[r], Members) = 0
        BY <1>1, <2>1, SumOfZeros
    <2> QED BY <2>1, <2>2, SumOfFew
<1>5. ASSUME NEW u \in Members
      PROVE  /\ usdt[u] = StartUsdt + CreditOf(u) - spent[u].USDT
             /\ vouchers[u] = StartVouchers + given[u].vouchers - spent[u].VOUCHER
             /\ gen[u] = StartGen + given[u].gen - spent[u].GEN
                         + SumFunctionOnSet(Flow(prize, refund, paid, u), Rounds)
    <2> DEFINE f == Flow(prize, refund, paid, u)
               g == CreditTo(credit, u)
    <2>1. \A r \in Rounds : f[r] = 0
        <3> TAKE r \in Rounds
        <3>1. prize[r] = {} /\ refund[r][u] = 0 /\ paid[r][u] = 0
            BY DEF Init
        <3>2. WonOf(prize[r], u) = 0
            BY <3>1, SumOfFew
        <3>3. f[r] = WonOf(prize[r], u) + refund[r][u] - paid[r][u]
            BY DEF Flow
        <3> QED BY <3>1, <3>2, <3>3
    <2>2. \A k \in Keys : g[k] = 0
        BY DEF Init, CreditTo
    <2>3. /\ usdt[u] = StartUsdt /\ vouchers[u] = StartVouchers /\ gen[u] = StartGen
          /\ spent[u].USDT = 0 /\ spent[u].VOUCHER = 0 /\ spent[u].GEN = 0
          /\ given[u].gen = 0 /\ given[u].vouchers = 0
          /\ CreditOf(u) = SumFunctionOnSet(g, Keys)
        BY BookParts DEF Init, Methods
    <2> HIDE DEF f, g
    <2>4. SumFunctionOnSet(f, Rounds) = 0 /\ SumFunctionOnSet(g, Keys) = 0
        BY <1>1, <2>1, <2>2, SumOfZeros
    <2> QED BY <1>1, <2>3, <2>4 DEF f
<1>6. \A u \in Members, i \in Items : ~(bought[u][i] > 0)
    BY DEF Init
<1>7. WalletsMatch
    BY <1>5, <1>6, BookParts
<1> QED BY <1>2, <1>3, <1>4, <1>7 DEF BookInv

LEMMA BookStep == Inv /\ Inv' /\ BookInv /\ [Next]_vars => BookInv'
<1> SUFFICES ASSUME Inv, Inv', BookInv, [Next]_vars PROVE BookInv'
    OBVIOUS
<1>1. CASE Shopping
    BY <1>1, ShopBooks
<1>2. CASE Drawing
    BY <1>2, AdminBooks, EnterBooks, DrawBooks, ResetBooks DEF Drawing
<1>3. CASE Crediting
    BY <1>3, CreditBooks DEF Crediting
<1>4. CASE UNCHANGED vars
    <2>1. ItemsKept' /\ UNCHANGED <<gen, usdt, vouchers, spent, given, prize, refund, paid, credit>>
        BY <1>4 DEF Inv, vars, purse, shop, lottery, entries
    <2> QED BY <1>4, <2>1, LotteryKept, WalletsKept DEF vars, BookInv
<1> QED BY <1>1, <1>2, <1>3, <1>4 DEF Next

\* In whatever order members buy and enter and admins credit, edit, reopen, draw, delete
\* and reset, every wallet, the vouchers and every reserve are what their histories add
\* up to, no repeated request credits twice, and a refund is what the entry cost unless
\* the price was edited.
THEOREM BooksMatchHolds == Spec => []BooksMatch
<1>1. Inv /\ BookInv => BooksMatch
    BY DEF Inv, BookInv, BooksMatch
<1> QED BY <1>1, BookInit, BookStep, StoreInvHolds, InvInit, InvStep, PTL DEF Spec
=============================================================================
