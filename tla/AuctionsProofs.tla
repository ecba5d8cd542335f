--------------------------- MODULE AuctionsProofs ---------------------------
(***************************************************************************)
(* PrizeWithinHall, LowestFirst, HistoryKept and WalletMatches, for any    *)
(* members, halls and bids.                                                *)
(*                                                                         *)
(* Every award of a hall carries the same share of its prize, and no more  *)
(* of them stand than there are shares (Shares): an advance adds at most   *)
(* as many awards as it lets expire.  That needs what an open advance or   *)
(* claim has read to be true of the rows still (Snapshot): a payment that  *)
(* is confirmed meanwhile settles no offer that had lapsed, and not the    *)
(* one that is claimed.                                                    *)
(*                                                                         *)
(* Candidates, and awards that pass on, are picked by their rank among the *)
(* others; that every rank is taken is proved first, by taking a smallest  *)
(* set that lacks one.                                                     *)
(*                                                                         *)
(* The lowest bids come first because the candidates are the winning bids  *)
(* in their order, and awards follow the candidates (Order).               *)
(*                                                                         *)
(* A wallet is a sum over the halls of a sum over their awards; a claim    *)
(* books what its snapshot says, so that must be the row's bid still, and  *)
(* the wallet must still be able to pay it (ClaimReads).                   *)
(***************************************************************************)
EXTENDS Auctions, Sums

-----------------------------------------------------------------------------
(* Sorted lists the elements of a finite set.                              *)

StrictOrder(S, R) ==
    /\ \A i \in S : <<i, i>> \notin R
    /\ \A i, j, k \in S : <<i, j>> \in R /\ <<j, k>> \in R => <<i, k>> \in R
    /\ \A i, j \in S : i = j \/ <<i, j>> \in R \/ <<j, i>> \in R
IsLast(m, S, R) == \A i \in S : i = m \/ <<i, m>> \in R
Before(i, S, R) == {j \in S : <<j, i>> \in R}

LEMMA SubsetOrder ==
    ASSUME NEW S, NEW R, StrictOrder(S, R), NEW U \in SUBSET S
    PROVE  StrictOrder(U, R)
BY DEF StrictOrder

LEMMA LastExists ==
    ASSUME NEW S, NEW R, IsFiniteSet(S), S # {}, StrictOrder(S, R)
    PROVE  \E m \in S : IsLast(m, S, R)
<1> DEFINE T == {U \in FiniteSubsetsOf(S) : U # {} /\ \A m \in U : ~IsLast(m, U, R)}
<1>1. SUFFICES ASSUME S \in T PROVE FALSE
    BY DEF FiniteSubsetsOf
<1>2. PICK U \in T : \A V \in T : V \subseteq U => V = U
    <2>1. T \subseteq FiniteSubsetsOf(S) /\ T # {}
        BY <1>1
    <2> HIDE DEF T
    <2> QED BY <2>1, SmallestFinite
<1>3. /\ U \subseteq S /\ IsFiniteSet(U) /\ U # {}
      /\ \A m \in U : ~IsLast(m, U, R)
    BY <1>2 DEF FiniteSubsetsOf
<1>4. PICK x \in U : TRUE
    BY <1>3
<1> DEFINE V == U \ {x}
<1>5. V \in FiniteSubsetsOf(S) /\ V \subseteq U /\ V # U
    BY <1>3, <1>4, FS_RemoveElement DEF FiniteSubsetsOf
<1>6. V \notin T
    BY <1>2, <1>5
<1>7. V # {}
    BY <1>3, <1>4 DEF IsLast
<1>8. PICK m \in V : IsLast(m, V, R)
    BY <1>5, <1>6, <1>7
<1>9. m \in S /\ x \in S /\ m # x /\ m \in U
    BY <1>3, <1>4, <1>8
<1>10. CASE <<x, m>> \in R
    BY <1>3, <1>8, <1>9, <1>10 DEF IsLast
<1>11. CASE <<m, x>> \in R
    <2>1. ASSUME NEW i \in U, i # x PROVE <<i, x>> \in R
        <3>1. i = m \/ <<i, m>> \in R
            BY <1>8, <2>1 DEF IsLast
        <3> QED BY <1>3, <1>9, <1>11, <2>1, <3>1 DEF StrictOrder
    <2> QED BY <1>3, <1>4, <2>1 DEF IsLast
<1> QED BY <1>9, <1>10, <1>11 DEF StrictOrder

LEMMA RankExists ==
    ASSUME NEW S, NEW R, IsFiniteSet(S), StrictOrder(S, R), NEW k \in 1 .. Cardinality(S)
    PROVE  \E i \in S : Cardinality(Before(i, S, R)) = k - 1
<1> DEFINE lacks(U) == \E n \in 1 .. Cardinality(U) :
                           \A i \in U : Cardinality(Before(i, U, R)) # n - 1
           T == {U \in FiniteSubsetsOf(S) : lacks(U)}
<1>1. SUFFICES ASSUME S \in T PROVE FALSE
    BY DEF FiniteSubsetsOf
<1>2. PICK U \in T : \A V \in T : V \subseteq U => V = U
    <2>1. T \subseteq FiniteSubsetsOf(S) /\ T # {}
        BY <1>1
    <2> HIDE DEF T
    <2> QED BY <2>1, SmallestFinite
<1>3. U \subseteq S /\ IsFiniteSet(U) /\ lacks(U)
    BY <1>2 DEF FiniteSubsetsOf
<1>4. PICK n \in 1 .. Cardinality(U) : \A i \in U : Cardinality(Before(i, U, R)) # n - 1
    BY <1>3
<1>5. Cardinality(U) \in Nat /\ U # {}
    BY <1>3, <1>4, FS_CardinalityType, FS_EmptySet
<1>6. StrictOrder(U, R)
    BY <1>3, SubsetOrder
<1>7. PICK m \in U : IsLast(m, U, R)
    BY <1>3, <1>5, <1>6, LastExists
<1> DEFINE V == U \ {m}
<1>8. V \in FiniteSubsetsOf(S) /\ V \subseteq U /\ V # U /\ Cardinality(V) = Cardinality(U) - 1
    BY <1>3, <1>7, FS_RemoveElement DEF FiniteSubsetsOf
<1>9. ~lacks(V)
    BY <1>2, <1>8
<1>10. CASE n = Cardinality(U)
    <2>1. Before(m, U, R) = V
        BY <1>6, <1>7 DEF Before, IsLast, StrictOrder
    <2> QED BY <1>4, <1>7, <1>8, <1>10, <2>1
<1>11. CASE n # Cardinality(U)
    <2>1. n \in 1 .. Cardinality(V)
        BY <1>4, <1>5, <1>8, <1>11
    <2>2. PICK i \in V : Cardinality(Before(i, V, R)) = n - 1
        BY <1>9, <2>1
    <2>3. <<m, i>> \notin R
        BY <1>6, <1>7, <2>2 DEF IsLast, StrictOrder
    <2>4. Before(i, U, R) = Before(i, V, R)
        BY <2>3 DEF Before
    <2> QED BY <1>4, <2>2, <2>4
<1> QED BY <1>10, <1>11

LEMMA SortedElements ==
    ASSUME NEW S, NEW R, IsFiniteSet(S), StrictOrder(S, R)
    PROVE  /\ Cardinality(S) \in Nat
           /\ Sorted(S, R) \in [1 .. Cardinality(S) -> S]
<1>1. ASSUME NEW k \in 1 .. Cardinality(S)
      PROVE  (CHOOSE i \in S : Cardinality({j \in S : <<j, i>> \in R}) = k - 1) \in S
    BY RankExists DEF Before
<1> QED BY <1>1, FS_CardinalityType DEF Sorted

\* The place of an element is the number of those before it, and another element
\* has another place.
LEMMA RankGrows ==
    ASSUME NEW S, NEW R, IsFiniteSet(S), StrictOrder(S, R),
           NEW i \in S, NEW j \in S, <<i, j>> \in R
    PROVE  /\ Cardinality(Before(i, S, R)) \in Nat /\ Cardinality(Before(j, S, R)) \in Nat
           /\ Cardinality(Before(i, S, R)) < Cardinality(Before(j, S, R))
<1> DEFINE I == Before(i, S, R)
           J == Before(j, S, R)
<1>1. I \subseteq J /\ i \in J /\ i \notin I /\ J \subseteq S
    BY DEF Before, StrictOrder
<1> HIDE DEF I, J
<1>2. IsFiniteSet(J)
    BY <1>1, FS_Subset
<1>3. IsFiniteSet(I) /\ Cardinality(I) <= Cardinality(J) /\ Cardinality(I) # Cardinality(J)
    BY <1>1, <1>2, FS_Subset
<1>4. Cardinality(I) \in Nat /\ Cardinality(J) \in Nat
    BY <1>2, <1>3, FS_CardinalityType
<1> QED BY <1>3, <1>4 DEF I, J

LEMMA SortedRank ==
    ASSUME NEW S, NEW R, IsFiniteSet(S), StrictOrder(S, R), NEW k \in 1 .. Cardinality(S)
    PROVE  /\ Sorted(S, R)[k] \in S
           /\ Cardinality(Before(Sorted(S, R)[k], S, R)) = k - 1
<1> DEFINE placed(i) == Cardinality(Before(i, S, R)) = k - 1
<1>1. Sorted(S, R)[k] = CHOOSE i \in S : placed(i)
    BY DEF Sorted, Before
<1>2. \E i \in S : placed(i)
    BY RankExists
<1> HIDE DEF placed
<1>3. (CHOOSE i \in S : placed(i)) \in S /\ placed(CHOOSE i \in S : placed(i))
    BY <1>2
<1>4. Sorted(S, R)[k] \in S /\ placed(Sorted(S, R)[k])
    BY <1>1, <1>3
<1> QED BY <1>4 DEF placed

LEMMA SortedOrder ==
    ASSUME NEW S, NEW R, IsFiniteSet(S), StrictOrder(S, R),
           NEW k \in 1 .. Cardinality(S), NEW m \in 1 .. Cardinality(S)
    PROVE  <<Sorted(S, R)[k], Sorted(S, R)[m]>> \in R <=> k < m
<1>1. Cardinality(S) \in Nat /\ k \in Nat /\ m \in Nat
    BY FS_CardinalityType
<1>2. PICK x \in S : x = Sorted(S, R)[k] /\ Cardinality(Before(x, S, R)) = k - 1
    BY SortedRank
<1>3. PICK y \in S : y = Sorted(S, R)[m] /\ Cardinality(Before(y, S, R)) = m - 1
    BY SortedRank
<1>4. CASE <<x, y>> \in R
    <2>1. k - 1 < m - 1
        BY <1>2, <1>3, <1>4, RankGrows
    <2> QED BY <1>1, <1>2, <1>3, <1>4, <2>1
<1>5. CASE <<y, x>> \in R
    <2>1. m - 1 < k - 1
        BY <1>2, <1>3, <1>5, RankGrows
    <2>2. <<x, y>> \notin R
        BY <1>5 DEF StrictOrder
    <2> QED BY <1>1, <1>2, <1>3, <2>1, <2>2
<1>6. CASE x = y
    <2>1. k = m
        BY <1>1, <1>2, <1>3, <1>6
    <2>2. <<x, y>> \notin R
        BY <1>6 DEF StrictOrder
    <2> QED BY <1>1, <1>2, <1>3, <2>1, <2>2
<1> QED BY <1>4, <1>5, <1>6 DEF StrictOrder

LEMMA SortedOnto ==
    ASSUME NEW S, NEW R, IsFiniteSet(S), StrictOrder(S, R), NEW i \in S
    PROVE  \E k \in 1 .. Cardinality(S) : Sorted(S, R)[k] = i
<1> DEFINE I == Before(i, S, R)
<1>1. I \subseteq S /\ i \notin I
    BY DEF Before, StrictOrder
<1>2. /\ IsFiniteSet(I) /\ Cardinality(I) <= Cardinality(S) /\ Cardinality(I) # Cardinality(S)
      /\ Cardinality(I) \in Nat /\ Cardinality(S) \in Nat
    BY <1>1, FS_Subset, FS_CardinalityType
<1> DEFINE k == Cardinality(I) + 1
<1>3. k \in 1 .. Cardinality(S) /\ k - 1 = Cardinality(I)
    BY <1>2
<1> HIDE DEF k
<1>4. PICK x \in S : x = Sorted(S, R)[k] /\ Cardinality(Before(x, S, R)) = k - 1
    BY <1>3, SortedRank
<1>5. Cardinality(Before(x, S, R)) = Cardinality(Before(i, S, R))
    BY <1>3, <1>4
<1>6. <<x, i>> \notin R /\ <<i, x>> \notin R
    BY <1>5, RankGrows
<1>7. x = i
    BY <1>6 DEF StrictOrder
<1> QED BY <1>3, <1>4, <1>7

\* A set of at most two has no element, one, or two.
LEMMA AtMostTwo ==
    ASSUME NEW S, IsFiniteSet(S), Cardinality(S) <= 2
    PROVE  \/ S = {}
           \/ \E i \in S : S = {i}
           \/ \E i, j \in S : i # j /\ S = {i, j} /\ Cardinality(S) = 2
<1>1. SUFFICES ASSUME S # {} PROVE \/ \E i \in S : S = {i}
                                   \/ \E i, j \in S : i # j /\ S = {i, j} /\ Cardinality(S) = 2
    OBVIOUS
<1>2. PICK i \in S : TRUE
    BY <1>1
<1> DEFINE T == S \ {i}
<1>3. IsFiniteSet(T) /\ Cardinality(T) = Cardinality(S) - 1 /\ Cardinality(S) \in Nat
    BY <1>2, FS_RemoveElement, FS_CardinalityType
<1>4. CASE T = {}
    BY <1>2, <1>4
<1>5. CASE T # {}
    <2>1. PICK j \in T : TRUE
        BY <1>5
    <2>2. /\ IsFiniteSet(T \ {j}) /\ Cardinality(T \ {j}) = Cardinality(T) - 1
          /\ Cardinality(T \ {j}) \in Nat
        BY <1>3, <2>1, FS_RemoveElement, FS_CardinalityType
    <2>3. Cardinality(T \ {j}) = 0
        BY <1>3, <2>2
    <2>4. T \ {j} = {}
        BY <2>2, <2>3, FS_EmptySet
    <2>5. S = {i, j} /\ i # j /\ Cardinality(S) = 2
        BY <1>2, <1>3, <2>1, <2>2, <2>3, <2>4
    <2> QED BY <1>2, <2>1, <2>5
<1> QED BY <1>4, <1>5

-----------------------------------------------------------------------------
(* What the selection of winners yields.                                   *)

LEMMA RisingOrder == ASSUME NEW S \in SUBSET Nat PROVE StrictOrder(S, Rising)
<1>1. \A i, j \in S : <<i, j>> \in Rising <=> i < j
    BY DEF Rising
<1> QED BY <1>1 DEF StrictOrder

LEMMA ByCentsOrder ==
    ASSUME NEW b \in Seq(Bid), NEW S \in SUBSET DOMAIN b
    PROVE  StrictOrder(S, ByCents(b))
<1>1. \A i \in S : i \in DOMAIN b /\ i \in Nat /\ b[i].cents \in Nat
    <2>1. \A i \in S : i \in DOMAIN b /\ i \in Nat /\ b[i] \in Bid
        OBVIOUS
    <2>2. \A x \in Bid : x.cents \in Nat
        BY MoneyAssumption DEF Bid
    <2> QED BY <2>1, <2>2
<1>2. \A i, j \in S : <<i, j>> \in ByCents(b)
                          <=> \/ b[i].cents < b[j].cents
                              \/ b[i].cents = b[j].cents /\ i < j
    BY <1>1 DEF ByCents
<1>3. \A i \in S : <<i, i>> \notin ByCents(b)
    BY <1>1, <1>2
<1>4. \A i, j, k \in S : <<i, j>> \in ByCents(b) /\ <<j, k>> \in ByCents(b)
                             => <<i, k>> \in ByCents(b)
    BY <1>1, <1>2
<1>5. \A i, j \in S : i = j \/ <<i, j>> \in ByCents(b) \/ <<j, i>> \in ByCents(b)
    <2> SUFFICES ASSUME NEW i \in S, NEW j \in S, i # j
                 PROVE  <<i, j>> \in ByCents(b) \/ <<j, i>> \in ByCents(b)
        OBVIOUS
    <2>1. /\ b[i].cents \in Nat /\ b[j].cents \in Nat /\ i \in Nat /\ j \in Nat
        BY <1>1
    <2>2. \/ b[i].cents < b[j].cents \/ b[j].cents < b[i].cents
          \/ b[i].cents = b[j].cents /\ (i < j \/ j < i)
        BY <2>1
    <2> QED BY <1>2, <2>2
<1> QED BY <1>3, <1>4, <1>5 DEF StrictOrder

LEMMA IndicesFinite ==
    ASSUME NEW S, NEW s \in Seq(S), NEW T \in SUBSET DOMAIN s
    PROVE  IsFiniteSet(T) /\ T \subseteq Nat
<1>1. Len(s) \in Nat /\ DOMAIN s = 1 .. Len(s)
    OBVIOUS
<1>2. IsFiniteSet(1 .. Len(s))
    BY <1>1, FS_Interval
<1> QED BY <1>1, <1>2, FS_Subset

LEMMA CandidatesType == ASSUME NEW b \in Seq(Bid) PROVE Candidates(b) \in Seq(Bid)
<1> DEFINE E == Eligible(b)
           order == Sorted(E, ByCents(b))
<1>1. E \in SUBSET DOMAIN b
    BY DEF Eligible, Unique, Pairs
<1>2. Cardinality(E) \in Nat /\ order \in [1 .. Cardinality(E) -> E]
    BY <1>1, IndicesFinite, ByCentsOrder, SortedElements
<1>3. \A i \in DOMAIN b : b[i] \in Bid
    OBVIOUS
<1>4. Candidates(b) = [k \in DOMAIN order |-> b[order[k]]]
    BY DEF Candidates
<1> HIDE DEF E, order
<1>5. Candidates(b) \in [1 .. Cardinality(E) -> Bid]
    BY <1>1, <1>2, <1>3, <1>4
<1> QED BY <1>2, <1>5

\* The share that an award carries when its hall has n of them.
Carries(aw, n) == \A i \in DOMAIN aw : aw[i].prize = Prize \div n
Offers(aw) == \A i \in DOMAIN aw : aw[i].st = "OFFERED"

LEMMA ShareType == \A n \in {1, 2} : Prize \div n \in Nat
BY MoneyAssumption

LEMMA OfferType ==
    ASSUME NEW c \in Bid, NEW prize \in Nat
    PROVE  /\ Offer(c, prize) \in Award
           /\ Offer(c, prize).prize = prize /\ Offer(c, prize).st = "OFFERED"
BY DEF Offer, Award, Bid

LEMMA FirstOffersType ==
    ASSUME NEW b \in Seq(Bid)
    PROVE  /\ FirstOffers(b) \in Seq(Award)
           /\ Slots(b) \in {1, 2} /\ Len(FirstOffers(b)) <= Slots(b)
           /\ Carries(FirstOffers(b), Slots(b)) /\ Offers(FirstOffers(b))
<1> DEFINE cs == Candidates(b)
           n == IF Len(cs) < Slots(b) THEN Len(cs) ELSE Slots(b)
           prize == Prize \div Slots(b)
<1>1. cs \in Seq(Bid) /\ Slots(b) \in {1, 2} /\ prize \in Nat
    BY CandidatesType, ShareType DEF Slots
<1>2. n \in Nat /\ n <= Slots(b) /\ n <= Len(cs)
    BY <1>1
<1>3. FirstOffers(b) = [k \in 1 .. n |-> Offer(cs[k], prize)]
    BY DEF FirstOffers
<1> HIDE DEF cs, n, prize
<1>4. \A k \in 1 .. n : cs[k] \in Bid
    BY <1>1, <1>2
<1>5. \A k \in 1 .. n : FirstOffers(b)[k] = Offer(cs[k], prize)
    BY <1>3
<1>6. FirstOffers(b) \in [1 .. n -> Award]
    BY <1>1, <1>3, <1>4, OfferType
<1>7. FirstOffers(b) \in Seq(Award) /\ Len(FirstOffers(b)) = n
           /\ DOMAIN FirstOffers(b) = 1 .. n
    BY <1>2, <1>6
<1>8. Carries(FirstOffers(b), Slots(b)) /\ Offers(FirstOffers(b))
    BY <1>1, <1>4, <1>5, <1>7, OfferType DEF Carries, Offers, prize
<1> QED BY <1>1, <1>2, <1>7, <1>8

\* An advance adds no more offers than have lapsed, for the same share.
LEMMA NextOffersType ==
    ASSUME NEW cs \in Seq(Bid), NEW aw \in Seq(Award), NEW n \in {1, 2}, Carries(aw, n)
    PROVE  LET next == NextOffers(cs, aw)
           IN  /\ next \in Seq(Award) /\ Len(next) <= Cardinality(Lapsed(aw))
               /\ Carries(next, n) /\ Offers(next)
<1> DEFINE L == Lapsed(aw)
           W == Waiting(cs, aw)
           gone == Sorted(L, Rising)
           next == Sorted(W, Rising)
           all == NextOffers(cs, aw)
           few == IF Cardinality(L) < Cardinality(W) THEN Cardinality(L) ELSE Cardinality(W)
<1>1. L \in SUBSET DOMAIN aw /\ W \in SUBSET DOMAIN cs
    BY DEF Lapsed, Waiting
<1>2. IsFiniteSet(L) /\ L \in SUBSET Nat /\ IsFiniteSet(W) /\ W \in SUBSET Nat
    BY <1>1, IndicesFinite
<1>3. /\ Cardinality(L) \in Nat /\ gone \in [1 .. Cardinality(L) -> L]
      /\ Cardinality(W) \in Nat /\ next \in [1 .. Cardinality(W) -> W]
    BY <1>2, RisingOrder, SortedElements
<1>4. all = [k \in DOMAIN gone \cap DOMAIN next |-> Offer(cs[next[k]], aw[gone[k]].prize)]
    BY DEF NextOffers
<1> HIDE DEF L, W, gone, next, all
<1>5. few \in Nat /\ DOMAIN gone \cap DOMAIN next = 1 .. few /\ few <= Cardinality(L)
    BY <1>3
<1>6. ASSUME NEW k \in 1 .. few
      PROVE  /\ cs[next[k]] \in Bid
             /\ aw[gone[k]].prize = Prize \div n
    BY <1>1, <1>3, <1>5, <1>6 DEF Carries
<1>7. ASSUME NEW k \in 1 .. few
      PROVE  all[k] \in Award /\ all[k].prize = Prize \div n /\ all[k].st = "OFFERED"
    BY <1>4, <1>5, <1>6, <1>7, ShareType, OfferType
<1> HIDE DEF few
<1>8. all \in [1 .. few -> Award]
    BY <1>4, <1>5, <1>7
<1>9. all \in Seq(Award) /\ Len(all) = few /\ DOMAIN all = 1 .. few
    BY <1>5, <1>8
<1> QED BY <1>5, <1>7, <1>9 DEF Carries, Offers, L, all
-----------------------------------------------------------------------------
(* The candidates are the bids that win, the lowest first.                 *)

LEMMA BidFields ==
    ASSUME NEW b \in Seq(Bid), NEW i \in DOMAIN b
    PROVE  b[i] \in Bid /\ b[i].cents \in Cents /\ b[i].cents \in Nat /\ i \in Nat
<1>1. b[i] \in Bid /\ i \in Nat
    OBVIOUS
<1> QED BY <1>1, MoneyAssumption DEF Bid

LEMMA EligibleWins ==
    ASSUME NEW b \in Seq(Bid), NEW j \in DOMAIN b
    PROVE  Wins(b, b[j].cents) <=> j \in Eligible(b)
<1>1. \A i \in DOMAIN b : Times(b, b[i].cents) = Cardinality(SameCents(b, i))
    BY DEF Times, SameCents
<1>2. Unique(b) = {} <=> \A d \in Cents : Times(b, d) # 1
    <2>1. ASSUME NEW i \in Unique(b) PROVE \E d \in Cents : Times(b, d) = 1
        BY <1>1, <2>1, BidFields DEF Unique
    <2>2. ASSUME NEW d \in Cents, Times(b, d) = 1 PROVE Unique(b) # {}
        <3> DEFINE T == {i \in DOMAIN b : b[i].cents = d}
        <3>1. Cardinality(T) = 1
            BY <2>2 DEF Times
        <3> HIDE DEF T
        <3>2. T # {}
            <4>1. T = {} => Cardinality(T) = 0
                BY FS_EmptySet
            <4> QED BY <3>1, <4>1
        <3>3. PICK i \in DOMAIN b : b[i].cents = d
            BY <3>2 DEF T
        <3>4. Cardinality(SameCents(b, i)) = 1
            BY <1>1, <2>2, <3>3
        <3> QED BY <3>4 DEF Unique
    <2> QED BY <2>1, <2>2
<1>3. CASE Unique(b) # {}
    BY <1>1, <1>2, <1>3 DEF Wins, Eligible, Unique
<1>4. CASE Unique(b) = {}
    <2>1. Times(b, b[j].cents) # 1
        BY <1>2, <1>4, BidFields
    <2>2. (\E i, k \in DOMAIN b : /\ b[i].cents = b[j].cents /\ b[k].cents = b[j].cents
                                  /\ b[i].user # b[k].user)
              <=> \E i \in SameCents(b, j) : b[i].user # b[j].user
        BY DEF SameCents
    <2>3. Wins(b, b[j].cents) <=> /\ Cardinality(SameCents(b, j)) = 2
                                  /\ \E i \in SameCents(b, j) : b[i].user # b[j].user
        BY <1>1, <1>2, <1>4, <2>1, <2>2 DEF Wins
    <2> QED BY <1>4, <2>3 DEF Eligible, Pairs
<1> QED BY <1>3, <1>4

LEMMA EligibleSet ==
    ASSUME NEW b \in Seq(Bid)
    PROVE  /\ Eligible(b) \in SUBSET DOMAIN b /\ IsFiniteSet(Eligible(b))
           /\ Cardinality(Eligible(b)) \in Nat /\ StrictOrder(Eligible(b), ByCents(b))
<1>1. Eligible(b) \in SUBSET DOMAIN b
    BY DEF Eligible, Unique, Pairs
<1> QED BY <1>1, IndicesFinite, ByCentsOrder, FS_CardinalityType

\* The k-th candidate is the eligible bid with k - 1 before it.
LEMMA CandidateAt ==
    ASSUME NEW b \in Seq(Bid)
    PROVE  /\ DOMAIN Candidates(b) = 1 .. Cardinality(Eligible(b))
           /\ \A k \in DOMAIN Candidates(b) :
                /\ Sorted(Eligible(b), ByCents(b))[k] \in Eligible(b)
                /\ Candidates(b)[k] = b[Sorted(Eligible(b), ByCents(b))[k]]
<1>1. Sorted(Eligible(b), ByCents(b)) \in [1 .. Cardinality(Eligible(b)) -> Eligible(b)]
    BY EligibleSet, SortedElements
<1> QED BY <1>1 DEF Candidates

\* Every winning bid below a candidate comes before it.
LEMMA LowerBefore ==
    ASSUME NEW b \in Seq(Bid), NEW k \in DOMAIN Candidates(b), NEW j \in Eligible(b),
           b[j].cents < Candidates(b)[k].cents
    PROVE  \E m \in 1 .. k - 1 : m \in DOMAIN Candidates(b) /\ Candidates(b)[m] = b[j]
<1> DEFINE S == Eligible(b)
           R == ByCents(b)
<1>1. /\ S \subseteq DOMAIN b /\ IsFiniteSet(S) /\ StrictOrder(S, R)
      /\ k \in 1 .. Cardinality(S) /\ Cardinality(S) \in Nat
    BY EligibleSet, CandidateAt
<1>2. PICK m \in 1 .. Cardinality(S) : Sorted(S, R)[m] = j
    BY <1>1, SortedOnto
<1>3. PICK x \in S : x = Sorted(S, R)[k] /\ Candidates(b)[k] = b[x]
    BY CandidateAt
<1>4. <<j, x>> \in R
    BY <1>1, <1>3 DEF ByCents
<1>5. m < k
    BY <1>1, <1>2, <1>3, <1>4, SortedOrder
<1>6. m \in DOMAIN Candidates(b) /\ Candidates(b)[m] = b[j]
    BY <1>2, CandidateAt
<1>7. m \in 1 .. k - 1
    BY <1>1, <1>5
<1> QED BY <1>6, <1>7

\* When no amount is unique, the first two candidates are a pair.
LEMMA FirstPair ==
    ASSUME NEW b \in Seq(Bid), Slots(b) = 2, 2 \in DOMAIN Candidates(b)
    PROVE  Candidates(b)[1].user # Candidates(b)[2].user
<1> DEFINE S == Eligible(b)
           R == ByCents(b)
<1>1. /\ S \subseteq DOMAIN b /\ IsFiniteSet(S) /\ StrictOrder(S, R)
      /\ 1 \in 1 .. Cardinality(S) /\ 2 \in 1 .. Cardinality(S) /\ Cardinality(S) \in Nat
    BY EligibleSet, CandidateAt
<1>2. S = Pairs(b)
    BY DEF Slots, Eligible
<1>3. PICK x \in S : x = Sorted(S, R)[1] /\ Candidates(b)[1] = b[x]
    BY <1>1, CandidateAt
<1>4. PICK z \in S : z = Sorted(S, R)[2] /\ Candidates(b)[2] = b[z]
    BY <1>1, CandidateAt
<1>5. PICK y \in SameCents(b, x) : b[y].user # b[x].user
    BY <1>2, <1>3 DEF Pairs
<1>6. y \in DOMAIN b /\ b[y].cents = b[x].cents /\ SameCents(b, y) = SameCents(b, x)
      /\ x \in SameCents(b, x) /\ x # y
    BY <1>1, <1>3, <1>5 DEF SameCents
<1>7. y \in S
    BY <1>2, <1>3, <1>5, <1>6 DEF Pairs
<1>8. SameCents(b, x) = {x, y}
    <2>1. IsFiniteSet(SameCents(b, x)) /\ Cardinality(SameCents(b, x)) = 2
        <3>1. SameCents(b, x) \in SUBSET DOMAIN b
            BY DEF SameCents
        <3> QED BY <1>2, <1>3, <3>1, IndicesFinite DEF Pairs
    <2> QED BY <1>5, <1>6, <2>1, AtMostTwo
<1>9. PICK m \in 1 .. Cardinality(S) : Sorted(S, R)[m] = y
    BY <1>1, <1>7, SortedOnto
<1>10. m # 1
    BY <1>3, <1>6, <1>9
<1>11. CASE m = 2
    BY <1>3, <1>4, <1>5, <1>9, <1>11
<1>12. CASE m > 2
    <2>1. <<x, z>> \in R /\ <<z, y>> \in R
        BY <1>1, <1>3, <1>4, <1>9, <1>12, SortedOrder
    <2>2. b[x].cents \in Nat /\ b[y].cents \in Nat /\ b[z].cents \in Nat
        BY <1>1, <1>3, <1>4, <1>7, BidFields
    <2>3. b[x].cents <= b[z].cents /\ b[z].cents <= b[y].cents
        BY <2>1, <2>2 DEF ByCents
    <2>4. z \in {x, y}
        BY <1>1, <1>4, <1>6, <1>8, <2>2, <2>3 DEF SameCents
    <2> QED BY <1>1, <2>1, <2>4 DEF StrictOrder
<1> QED BY <1>1, <1>9, <1>10, <1>11, <1>12

-----------------------------------------------------------------------------
(* Offers follow the candidates.                                           *)

\* Each award went to a candidate who had none before, when every candidate
\* before him had one.
Ordered(cs, aw) ==
    \A i \in DOMAIN aw : \E k \in DOMAIN cs :
        /\ cs[k].user = aw[i].user /\ cs[k].cents = aw[i].cents
        /\ \A j \in 1 .. k - 1 : \E m \in 1 .. i - 1 : aw[m].user = cs[j].user
        /\ \A m \in 1 .. i - 1 : aw[m].user # cs[k].user

LEMMA OrderedKeeps ==
    ASSUME NEW cs, NEW aw \in Seq(Award), NEW new \in Seq(Award), Len(new) = Len(aw),
           \A i \in DOMAIN aw : new[i].user = aw[i].user /\ new[i].cents = aw[i].cents,
           Ordered(cs, aw)
    PROVE  Ordered(cs, new)
<1>1. DOMAIN new = DOMAIN aw
    OBVIOUS
<1> SUFFICES ASSUME NEW i \in DOMAIN aw
             PROVE  \E k \in DOMAIN cs :
                        /\ cs[k].user = new[i].user /\ cs[k].cents = new[i].cents
                        /\ \A j \in 1 .. k - 1 : \E m \in 1 .. i - 1 : new[m].user = cs[j].user
                        /\ \A m \in 1 .. i - 1 : new[m].user # cs[k].user
    BY <1>1 DEF Ordered
<1>2. \A m \in 1 .. i - 1 : new[m].user = aw[m].user
    <2>1. \A m \in 1 .. i - 1 : m \in DOMAIN aw
        OBVIOUS
    <2> QED BY <2>1
<1>3. PICK k \in DOMAIN cs :
          /\ cs[k].user = aw[i].user /\ cs[k].cents = aw[i].cents
          /\ \A j \in 1 .. k - 1 : \E m \in 1 .. i - 1 : aw[m].user = cs[j].user
          /\ \A m \in 1 .. i - 1 : aw[m].user # cs[k].user
    BY DEF Ordered
<1> QED BY <1>2, <1>3

LEMMA FirstOffersOrdered ==
    ASSUME NEW b \in Seq(Bid)
    PROVE  Ordered(Candidates(b), FirstOffers(b))
<1> DEFINE cs == Candidates(b)
           aw == FirstOffers(b)
           n == IF Len(cs) < Slots(b) THEN Len(cs) ELSE Slots(b)
<1>1. cs \in Seq(Bid) /\ Slots(b) \in {1, 2}
    BY CandidatesType DEF Slots
<1>2. n \in Nat /\ n <= Slots(b) /\ n <= Len(cs) /\ DOMAIN cs = 1 .. Len(cs) /\ Len(cs) \in Nat
    BY <1>1
<1>3. aw = [k \in 1 .. n |-> Offer(cs[k], Prize \div Slots(b))]
    BY DEF FirstOffers
<1>4. 2 \in DOMAIN cs /\ Slots(b) = 2 => cs[1].user # cs[2].user
    BY FirstPair
<1> HIDE DEF cs, aw, n
<1>5. \A k \in 1 .. n : aw[k].user = cs[k].user /\ aw[k].cents = cs[k].cents
    BY <1>3 DEF Offer
<1> SUFFICES ASSUME NEW i \in 1 .. n
             PROVE  /\ i \in DOMAIN cs
                    /\ \A j \in 1 .. i - 1 : aw[j].user = cs[j].user
                    /\ \A m \in 1 .. i - 1 : aw[m].user # cs[i].user
    <2>1. DOMAIN aw = 1 .. n
        BY <1>3
    <2> QED BY <1>5, <2>1 DEF Ordered, cs, aw
<1>6. i \in DOMAIN cs /\ \A j \in 1 .. i - 1 : j \in 1 .. n
    BY <1>2
<1>7. ASSUME NEW m \in 1 .. i - 1 PROVE aw[m].user # cs[i].user
    <2>1. m = 1 /\ i = 2 /\ Slots(b) = 2
        BY <1>1, <1>2, <1>7
    <2> QED BY <1>4, <1>5, <1>6, <2>1
<1> QED BY <1>5, <1>6, <1>7

\* The bids that NextOffers takes, in the order of the candidates.
LEMMA WaitingSet ==
    ASSUME NEW cs \in Seq(Bid), NEW aw \in Seq(Award)
    PROVE  /\ Waiting(cs, aw) \in SUBSET DOMAIN cs /\ Waiting(cs, aw) \subseteq Nat
           /\ IsFiniteSet(Waiting(cs, aw)) /\ Cardinality(Waiting(cs, aw)) \in Nat
           /\ StrictOrder(Waiting(cs, aw), Rising)
<1>1. Waiting(cs, aw) \in SUBSET DOMAIN cs
    BY DEF Waiting
<1> QED BY <1>1, IndicesFinite, RisingOrder, FS_CardinalityType

LEMMA NextOffersBids ==
    ASSUME NEW cs \in Seq(Bid), NEW aw \in Seq(Award)
    PROVE  LET W == Waiting(cs, aw)
               next == NextOffers(cs, aw)
               order == Sorted(W, Rising)
           IN  \A q \in DOMAIN next :
                   /\ q \in 1 .. Cardinality(W) /\ order[q] \in W
                   /\ next[q].user = cs[order[q]].user /\ next[q].cents = cs[order[q]].cents
<1> DEFINE W == Waiting(cs, aw)
           gone == Sorted(Lapsed(aw), Rising)
           order == Sorted(W, Rising)
<1>1. order \in [1 .. Cardinality(W) -> W]
    BY WaitingSet, SortedElements
<1>2. NextOffers(cs, aw)
          = [k \in DOMAIN gone \cap DOMAIN order |-> Offer(cs[order[k]], aw[gone[k]].prize)]
    BY DEF NextOffers
<1> HIDE DEF W, gone, order
<1>3. ASSUME NEW q \in DOMAIN NextOffers(cs, aw)
      PROVE  /\ q \in 1 .. Cardinality(W) /\ order[q] \in W
             /\ NextOffers(cs, aw)[q].user = cs[order[q]].user
             /\ NextOffers(cs, aw)[q].cents = cs[order[q]].cents
    BY <1>1, <1>2, <1>3 DEF Offer
<1> QED BY <1>3 DEF W, order

\* A candidate who has no award waits where his name comes first.
LEMMA FirstOfUser ==
    ASSUME NEW cs \in Seq(Bid), NEW aw \in Seq(Award), NEW j \in DOMAIN cs,
           cs[j].user \notin Users(aw)
    PROVE  \E i \in Waiting(cs, aw) : i <= j /\ cs[i].user = cs[j].user
<1> DEFINE T == {i \in DOMAIN cs : cs[i].user = cs[j].user}
           Falling == {p \in Nat \X Nat : p[2] < p[1]}
<1>1. T \in SUBSET DOMAIN cs /\ j \in T
    OBVIOUS
<1>2. IsFiniteSet(T) /\ T \subseteq Nat
    BY <1>1, IndicesFinite
<1>3. StrictOrder(T, Falling)
    <2>1. \A i, k \in T : <<i, k>> \in Falling <=> k < i
        BY <1>2
    <2> HIDE DEF T, Falling
    <2> QED BY <1>2, <2>1 DEF StrictOrder
<1>4. PICK i \in T : IsLast(i, T, Falling)
    <2> HIDE DEF T, Falling
    <2> QED BY <1>1, <1>2, <1>3, LastExists
<1>5. \A k \in T : i <= k
    <2>1. \A k \in T : k \in Nat /\ i \in Nat /\ (<<k, i>> \in Falling <=> i < k)
        BY <1>2
    <2> HIDE DEF T, Falling
    <2>2. ASSUME NEW k \in T PROVE i <= k
        <3>1. k = i \/ <<k, i>> \in Falling
            BY <1>4 DEF IsLast
        <3>2. k \in Nat /\ i \in Nat /\ (<<k, i>> \in Falling <=> i < k)
            BY <2>1
        <3> QED BY <3>1, <3>2
    <2> QED BY <2>2
<1>6. ASSUME NEW k \in 1 .. i - 1 PROVE cs[k].user # cs[i].user
    <2>1. k \in DOMAIN cs /\ k < i /\ k \in Nat /\ i \in Nat
        BY <1>1, <1>2, <1>4
    <2> QED BY <1>4, <1>5, <2>1
<1>7. i \in Waiting(cs, aw)
    BY <1>4, <1>6 DEF Waiting
<1> QED BY <1>1, <1>4, <1>5, <1>7

\* What passes on continues the order, when the awards have the users told.
LEMMA NextOffersOrdered ==
    ASSUME NEW cs \in Seq(Bid), NEW aw \in Seq(Award), NEW told \in Seq(Award),
           Len(told) = Len(aw), \A i \in DOMAIN aw : told[i].user = aw[i].user,
           NextOffers(cs, told) \in Seq(Award), Ordered(cs, aw)
    PROVE  Ordered(cs, aw \o NextOffers(cs, told))
<1> DEFINE next == NextOffers(cs, told)
           new == aw \o next
           W == Waiting(cs, told)
           order == Sorted(W, Rising)
<1>1. /\ W \subseteq DOMAIN cs /\ W \subseteq Nat /\ IsFiniteSet(W) /\ Cardinality(W) \in Nat
      /\ StrictOrder(W, Rising)
    BY WaitingSet
<1>2. \A q \in DOMAIN next :
          /\ q \in 1 .. Cardinality(W) /\ order[q] \in W
          /\ next[q].user = cs[order[q]].user /\ next[q].cents = cs[order[q]].cents
    BY NextOffersBids
<1>3. \A i \in W : /\ cs[i].user \notin Users(told)
                   /\ \A j \in 1 .. i - 1 : cs[j].user # cs[i].user
    BY DEF Waiting
<1>4. \A q, r \in 1 .. Cardinality(W) : <<order[q], order[r]>> \in Rising <=> q < r
    BY <1>1, SortedOrder
<1>5. \A i \in W : \E q \in 1 .. Cardinality(W) : order[q] = i
    BY <1>1, SortedOnto
<1>6. \A j \in DOMAIN cs : cs[j].user \notin Users(told) =>
          \E i \in W : i <= j /\ cs[i].user = cs[j].user
    BY FirstOfUser
<1>7. \A m \in 1 .. Len(aw) : aw[m].user \in Users(told)
    BY DEF Users
<1>8. \A u \in Users(told) : \E m \in 1 .. Len(aw) : aw[m].user = u
    BY DEF Users
<1>9. /\ next \in Seq(Award) /\ DOMAIN next = 1 .. Len(next) /\ Len(next) \in Nat
      /\ Len(aw) \in Nat /\ DOMAIN aw = 1 .. Len(aw) /\ DOMAIN cs = 1 .. Len(cs) /\ Len(cs) \in Nat
    OBVIOUS
<1> HIDE DEF next, W, order
<1>10. /\ DOMAIN new = 1 .. Len(aw) + Len(next)
       /\ \A m \in 1 .. Len(aw) : new[m] = aw[m]
       /\ \A q \in 1 .. Len(next) : new[Len(aw) + q] = next[q]
    BY <1>9
<1> HIDE DEF new
<1> DEFINE Follows(i, k) ==
        /\ cs[k].user = new[i].user /\ cs[k].cents = new[i].cents
        /\ \A j \in 1 .. k - 1 : \E m \in 1 .. i - 1 : new[m].user = cs[j].user
        /\ \A m \in 1 .. i - 1 : new[m].user # cs[k].user
<1> SUFFICES ASSUME NEW i \in 1 .. Len(aw) + Len(next)
             PROVE  \E k \in DOMAIN cs : Follows(i, k)
    BY <1>10 DEF Ordered, new, next
<1>11. CASE i <= Len(aw)
    <2>1. i \in DOMAIN aw /\ i \in Nat
        BY <1>9, <1>11
    <2>2. PICK k \in DOMAIN cs :
              /\ cs[k].user = aw[i].user /\ cs[k].cents = aw[i].cents
              /\ \A j \in 1 .. k - 1 : \E m \in 1 .. i - 1 : aw[m].user = cs[j].user
              /\ \A m \in 1 .. i - 1 : aw[m].user # cs[k].user
        BY <2>1 DEF Ordered
    <2>3. \A m \in 1 .. i - 1 : new[m] = aw[m]
        BY <1>9, <1>10, <2>1
    <2>4. new[i] = aw[i]
        BY <1>9, <1>10, <2>1
    <2> QED BY <2>2, <2>3, <2>4
<1>12. CASE i > Len(aw)
    <2> DEFINE q == i - Len(aw)
               k == order[q]
    <2>1. q \in 1 .. Len(next) /\ i = Len(aw) + q
        BY <1>9, <1>12
    <2> HIDE DEF q
    <2>2. /\ q \in 1 .. Cardinality(W) /\ k \in W /\ k \in DOMAIN cs /\ k \in Nat
          /\ new[i].user = cs[k].user /\ new[i].cents = cs[k].cents
        <3>1. q \in DOMAIN next /\ new[i] = next[q]
            BY <1>9, <1>10, <2>1
        <3>2. /\ q \in 1 .. Cardinality(W) /\ k \in W
              /\ next[q].user = cs[k].user /\ next[q].cents = cs[k].cents
            BY <1>2, <3>1
        <3> QED BY <1>1, <3>1, <3>2
    <2>3. ASSUME NEW r \in 1 .. q - 1
          PROVE  /\ r \in 1 .. Len(next) /\ Len(aw) + r \in 1 .. i - 1 /\ order[r] \in 1 .. k - 1
                 /\ new[Len(aw) + r].user = cs[order[r]].user
        <3>1. r \in 1 .. Len(next) /\ Len(aw) + r \in 1 .. i - 1 /\ r < q
            BY <1>9, <2>1
        <3>2. /\ r \in 1 .. Cardinality(W) /\ order[r] \in W /\ order[r] \in 1 .. Len(cs)
              /\ new[Len(aw) + r].user = cs[order[r]].user
            BY <1>1, <1>2, <1>9, <1>10, <3>1
        <3>3. <<order[r], k>> \in Rising
            BY <1>4, <2>2, <3>1, <3>2
        <3> QED BY <2>2, <3>1, <3>2, <3>3 DEF Rising
    <2>4. ASSUME NEW j \in 1 .. k - 1 PROVE \E m \in 1 .. i - 1 : new[m].user = cs[j].user
        <3>1. j \in DOMAIN cs /\ j < k
            BY <1>9, <2>2
        <3>2. CASE cs[j].user \in Users(told)
            <4>1. PICK m \in 1 .. Len(aw) : aw[m].user = cs[j].user
                BY <1>8, <3>2
            <4>2. m \in 1 .. i - 1 /\ new[m] = aw[m]
                BY <1>9, <1>10, <1>12, <4>1
            <4> QED BY <4>1, <4>2
        <3>3. CASE cs[j].user \notin Users(told)
            <4>1. PICK f \in W : f <= j /\ cs[f].user = cs[j].user
                BY <1>6, <3>1, <3>3
            <4>2. PICK r \in 1 .. Cardinality(W) : order[r] = f
                BY <1>5
            <4>3. <<order[r], k>> \in Rising
                BY <1>1, <2>2, <3>1, <4>1, <4>2 DEF Rising
            <4>4. r \in 1 .. q - 1
                BY <1>4, <2>2, <4>3
            <4> QED BY <2>3, <4>1, <4>2, <4>4
        <3> QED BY <3>2, <3>3
    <2>5. ASSUME NEW m \in 1 .. i - 1 PROVE new[m].user # cs[k].user
        <3>1. CASE m <= Len(aw)
            BY <1>3, <1>7, <1>9, <1>10, <2>2, <3>1
        <3>2. CASE m > Len(aw)
            <4>1. m - Len(aw) \in 1 .. q - 1 /\ m = Len(aw) + (m - Len(aw))
                BY <1>9, <2>1, <3>2
            <4>2. new[m].user = cs[order[m - Len(aw)]].user /\ order[m - Len(aw)] \in 1 .. k - 1
                BY <2>3, <4>1
            <4> QED BY <1>3, <2>2, <4>2
        <3> QED BY <1>9, <3>1, <3>2
    <2> QED BY <2>2, <2>4, <2>5
<1> QED BY <1>9, <1>11, <1>12

-----------------------------------------------------------------------------
(* The invariant.                                                          *)

TypeInv ==
    /\ status \in [Halls -> Statuses]
    /\ bids \in [Halls -> Seq(Bid)] /\ cands \in [Halls -> Seq(Bid)]
    /\ awards \in [Halls -> Seq(Award)]
    /\ queue \subseteq Halls
    /\ tx \in Transaction \cup {None}

\* No hall has awards before it is advanced, and only a hall that exists is.
Early == {"NONE", "OPEN"}
Stage ==
    /\ \A h \in Halls : status[h] \in Early => awards[h] = <<>>
    /\ \A h \in queue : status[h] # "NONE"
    /\ tx # None => status[tx.hall] # "NONE"

Stands(aw) == {i \in DOMAIN aw : aw[i].st # "EXPIRED"}
SharesOf(aw) == \E n \in {1, 2} : Carries(aw, n) /\ Cardinality(Stands(aw)) <= n
Shares == \A h \in Halls : SharesOf(awards[h])

\* What an open transaction has read of the rows aw is true of them still.
Reads(t, aw) ==
    /\ Len(t.aw) = Len(aw)
    /\ \A i \in DOMAIN aw : t.aw[i].user = aw[i].user /\ t.aw[i].prize = aw[i].prize
    /\ Lapsed(t.aw) \subseteq Lapsed(aw)
    /\ t.won # 0 => t.won \in DOMAIN aw /\ aw[t.won].st = "OFFERED"
Snapshot == tx # None => Reads(tx, awards[tx.hall])

Inv == TypeInv /\ Stage /\ Shares /\ Snapshot

\* What HistoryKept says of a step, and of the rows of one hall; and bids are kept.
RowsKept(aw, new) ==
    \A i \in DOMAIN aw :
        /\ i \in DOMAIN new
        /\ new[i].user = aw[i].user /\ new[i].cents = aw[i].cents
        /\ new[i].prize = aw[i].prize
        /\ aw[i].st # "OFFERED" => new[i].st = aw[i].st
History ==
    \A h \in Halls : /\ awards[h] # <<>> => bids'[h] = bids[h]
                     /\ RowsKept(awards[h], awards'[h])

LEMMA TxType ==
    ASSUME NEW t \in Transaction
    PROVE  t # None /\ t.hall \in Halls /\ t.aw \in Seq(Award) /\ t.won \in Nat
BY NoneAssumption DEF Transaction

LEMMA AwardFields ==
    ASSUME NEW aw \in Seq(Award), NEW i \in DOMAIN aw
    PROVE  /\ aw[i] \in Award /\ i \in Nat /\ i \in 1 .. Len(aw)
           /\ aw[i].st \in {"OFFERED", "PAID", "EXPIRED"} /\ aw[i].due \in BOOLEAN
<1>1. aw[i] \in Award
    OBVIOUS
<1> QED BY <1>1 DEF Award

LEMMA StandsFinite ==
    ASSUME NEW aw \in Seq(Award)
    PROVE  IsFiniteSet(Stands(aw)) /\ Cardinality(Stands(aw)) \in Nat
<1>1. Stands(aw) \in SUBSET DOMAIN aw
    BY DEF Stands
<1> QED BY <1>1, IndicesFinite, FS_CardinalityType

LEMMA EmptyShares == SharesOf(<<>>)
<1>1. Stands(<<>>) = {} /\ Carries(<<>>, 1)
    BY DEF Stands, Carries
<1> QED BY <1>1, FS_EmptySet DEF SharesOf

-----------------------------------------------------------------------------
(* Steps that leave the awards alone.                                      *)

LEMMA Frame ==
    ASSUME Inv, UNCHANGED awards, TypeInv', Stage',
           tx' = tx \/ tx' = None \/ Reads(tx', awards[tx'.hall]),
           \A h \in Halls : awards[h] # <<>> => bids'[h] = bids[h]
    PROVE  Inv' /\ History
<1>1. Shares'
    BY DEF Inv, Shares
<1>2. Snapshot'
    BY DEF Inv, Snapshot
<1>3. History
    BY DEF History, RowsKept
<1> QED BY <1>1, <1>2, <1>3 DEF Inv

LEMMA CreateStep ==
    ASSUME Inv, NEW h \in Halls, CreateAuction(h)
    PROVE  Inv' /\ History
<1> USE DEF Inv, TypeInv, CreateAuction
<1>1. status[h] = "NONE"
    BY DEF Fresh
<1>2. TypeInv'
    BY DEF Statuses
<1>3. Stage'
    BY <1>1 DEF Stage, Early
<1> QED BY <1>2, <1>3, Frame

LEMMA DeleteStep ==
    ASSUME Inv, NEW h \in Halls, DeleteAuction(h)
    PROVE  Inv' /\ History
<1> USE DEF Inv, TypeInv, DeleteAuction
<1>1. TypeInv'
    BY DEF Statuses
<1>2. Stage'
    BY DEF Stage, Early
<1> QED BY <1>1, <1>2, Frame

LEMMA AbortEffect ==
    ASSUME NEW conflict \in BOOLEAN, AbortIf(conflict)
    PROVE  (tx' = tx \/ tx' = None) /\ queue' \subseteq queue
BY DEF AbortIf

LEMMA ResetWriteStep ==
    ASSUME Inv, ResetWrite
    PROVE  Inv' /\ History
<1> USE DEF Inv, TypeInv, ResetWrite
<1>1. (tx' = tx \/ tx' = None) /\ queue' \subseteq queue
    BY AbortEffect
<1>2. \A h \in Halls : status'[h] = status[h] \/ status'[h] = "CANCELLED"
    OBVIOUS
<1>3. TypeInv'
    BY <1>1 DEF Statuses
<1>4. Stage'
    BY <1>1, <1>2, TxType DEF Stage, Early
<1> QED BY <1>1, <1>3, <1>4, Frame

LEMMA BidStep ==
    ASSUME Inv, NEW m \in Members, NEW h \in Halls, NEW c \in Cents, PlaceBid(m, h, c)
    PROVE  Inv' /\ History
<1> USE DEF Inv, TypeInv, PlaceBid
<1>1. awards[h] = <<>>
    BY DEF Stage, Early, Accepting
<1>2. Append(bids[h], [user |-> m, cents |-> c]) \in Seq(Bid)
    <2>1. bids[h] \in Seq(Bid) /\ [user |-> m, cents |-> c] \in Bid
        BY DEF Bid
    <2> QED BY <2>1
<1>3. TypeInv'
    BY <1>2
<1>4. Stage'
    BY DEF Stage
<1> QED BY <1>1, <1>3, <1>4, Frame

LEMMA PollStep ==
    ASSUME Inv, Poll
    PROVE  Inv' /\ History
<1> USE DEF Inv, TypeInv, Poll, hallVars
<1>1. TypeInv'
    OBVIOUS
<1>2. Stage'
    BY DEF Stage
<1> QED BY <1>1, <1>2, Frame

\* A transaction begins with the rows as they are.
LEMMA BeginsFresh ==
    ASSUME Inv, NEW h \in Halls, NEW won \in Nat,
           won # 0 => Open(h, won),
           status[h] # "NONE",
           tx' = [hall |-> h, won |-> won, aw |-> awards[h], live |-> LiveHalls],
           UNCHANGED <<hallVars, queue>>
    PROVE  Inv' /\ History
<1> USE DEF Inv, TypeInv, hallVars
<1>1. tx' \in Transaction /\ tx'.hall = h
    BY DEF Transaction, LiveHalls
<1>2. TypeInv'
    BY <1>1
<1>3. Stage'
    BY <1>1 DEF Stage
<1>4. Reads(tx', awards[h])
    BY DEF Reads, Open
<1> QED BY <1>1, <1>2, <1>3, <1>4, Frame
-----------------------------------------------------------------------------
(* Steps that write the awards of one hall.                                *)

\* The hall is past its bids, and others at most open.
StatusMoves(h) ==
    /\ status' \in [Halls -> Statuses] /\ status'[h] \notin Early
    /\ \A g \in Halls : g # h => \/ status'[g] = status[g]
                                 \/ status[g] = "NONE" /\ status'[g] = "OPEN"

LEMMA Closes ==
    ASSUME status \in [Halls -> Statuses], NEW h \in Halls, NEW st \in [Halls -> Statuses],
           st[h] \notin Early, \A g \in Halls : g # h => st[g] = status[g],
           NEW aw, NEW live, CloseIfFinished(h, st, aw, live)
    PROVE  StatusMoves(h)
<1>1. CASE ~Finished(aw)
    BY <1>1 DEF CloseIfFinished, StatusMoves
<1>2. CASE Finished(aw)
    <2> DEFINE next == {n \in Series : OpensNext(h, live, n)}
    <2>1. status' = [g \in Halls |-> IF g = h THEN "CLOSED"
                                     ELSE IF g \in next THEN "OPEN" ELSE st[g]]
        BY <1>2 DEF CloseIfFinished
    <2>2. \A g \in next : status[g] = "NONE"
        BY DEF OpensNext, Fresh
    <2> HIDE DEF next
    <2>3. status' \in [Halls -> Statuses] /\ status'[h] = "CLOSED"
        BY <2>1 DEF Statuses
    <2>4. \A g \in Halls : g # h => \/ status'[g] = status[g]
                                    \/ status[g] = "NONE" /\ status'[g] = "OPEN"
        BY <2>1, <2>2
    <2> QED BY <2>3, <2>4 DEF StatusMoves, Early
<1> QED BY <1>1, <1>2

LEMMA HallStep ==
    ASSUME Inv, NEW h \in Halls, StatusMoves(h), status[h] # "NONE",
           NEW aw \in Seq(Award), awards' = [awards EXCEPT ![h] = aw],
           cands' \in [Halls -> Seq(Bid)], UNCHANGED bids,
           queue' \subseteq queue, tx' = tx \/ tx' = None,
           SharesOf(aw), RowsKept(awards[h], aw),
           tx' # None /\ tx'.hall = h => Reads(tx', aw)
    PROVE  Inv' /\ History
<1> USE DEF Inv, TypeInv
<1>1. awards'[h] = aw /\ \A g \in Halls : g # h => awards'[g] = awards[g]
    OBVIOUS
<1>2. TypeInv'
    BY DEF StatusMoves
<1>3. Stage'
    <2>1. \A g \in Halls : status'[g] = "NONE" => status[g] = "NONE"
        BY DEF StatusMoves, Early
    <2>2. \A g \in Halls : status'[g] \in Early => awards'[g] = <<>>
        BY <1>1 DEF StatusMoves, Stage, Early
    <2> QED BY <2>1, <2>2, TxType DEF Stage
<1>4. Shares'
    BY <1>1 DEF Shares
<1>5. Snapshot'
    BY <1>1, TxType DEF Snapshot
<1>6. History
    BY <1>1 DEF History, RowsKept
<1> QED BY <1>2, <1>3, <1>4, <1>5, <1>6

\* Rows rewritten in place, none of them to EXPIRED, the open offers apart
\* from those of S still open and as late as before or later.
InPlace(aw, new, S) ==
    /\ new \in Seq(Award) /\ Len(new) = Len(aw)
    /\ \A i \in DOMAIN aw :
        /\ new[i].user = aw[i].user /\ new[i].cents = aw[i].cents
        /\ new[i].prize = aw[i].prize
        /\ new[i].st = "EXPIRED" <=> aw[i].st = "EXPIRED"
        /\ aw[i].st # "OFFERED" => new[i].st = aw[i].st
        /\ aw[i].st = "OFFERED" /\ i \notin S =>
            new[i].st = "OFFERED" /\ (aw[i].due => new[i].due)

LEMMA InPlaceKeeps ==
    ASSUME NEW aw \in Seq(Award), SharesOf(aw), NEW new, NEW S, InPlace(aw, new, S)
    PROVE  SharesOf(new) /\ RowsKept(aw, new)
<1>1. DOMAIN new = DOMAIN aw
    BY DEF InPlace
<1>2. Stands(new) = Stands(aw)
    BY <1>1 DEF InPlace, Stands
<1>3. \A n \in {1, 2} : Carries(aw, n) => Carries(new, n)
    BY <1>1 DEF InPlace, Carries
<1> QED BY <1>1, <1>2, <1>3 DEF SharesOf, RowsKept, InPlace

LEMMA InPlaceReads ==
    ASSUME NEW aw \in Seq(Award), NEW new, NEW S, InPlace(aw, new, S),
           NEW t \in Transaction, Reads(t, aw), t.won \notin S, Lapsed(aw) \cap S = {}
    PROVE  Reads(t, new)
<1>1. DOMAIN new = DOMAIN aw /\ Len(new) = Len(aw)
    BY DEF InPlace
<1>2. Lapsed(aw) \subseteq Lapsed(new)
    BY <1>1 DEF InPlace, Lapsed
<1>3. t.won # 0 => t.won \in DOMAIN new /\ new[t.won].st = "OFFERED"
    BY <1>1 DEF InPlace, Reads
<1>4. \A i \in DOMAIN new : t.aw[i].user = new[i].user /\ t.aw[i].prize = new[i].prize
    BY <1>1 DEF InPlace, Reads
<1> QED BY <1>1, <1>2, <1>3, <1>4 DEF Reads

LEMMA InPlaceStep ==
    ASSUME Inv, NEW h \in Halls, StatusMoves(h), status[h] # "NONE",
           NEW new, NEW S, InPlace(awards[h], new, S),
           awards' = [awards EXCEPT ![h] = new],
           UNCHANGED <<bids, cands>>, queue' \subseteq queue, tx' = tx \/ tx' = None,
           tx' # None /\ tx.hall = h => tx.won \notin S,
           Lapsed(awards[h]) \cap S = {} \/ tx' = None
    PROVE  Inv' /\ History
<1> USE DEF Inv, TypeInv
<1>1. awards[h] \in Seq(Award) /\ SharesOf(awards[h]) /\ new \in Seq(Award)
    BY DEF Shares, InPlace
<1>2. SharesOf(new) /\ RowsKept(awards[h], new)
    BY <1>1, InPlaceKeeps
<1>3. ASSUME tx' # None, tx'.hall = h PROVE Reads(tx', new)
    <2>1. tx' = tx /\ tx \in Transaction /\ Reads(tx, awards[h])
        BY <1>3 DEF Snapshot
    <2> QED BY <1>1, <1>3, <2>1, InPlaceReads
<1> QED BY <1>1, <1>2, <1>3, HallStep

\* A hall whose awards change has been advanced.
LEMMA HasAwards ==
    ASSUME Inv, NEW h \in Halls, NEW i \in DOMAIN awards[h]
    PROVE  /\ status[h] \notin Early /\ awards[h] \in Seq(Award) /\ awards[h][i] \in Award
           /\ UNCHANGED status => StatusMoves(h)
<1>1. awards[h] \in Seq(Award) /\ status \in [Halls -> Statuses]
    BY DEF Inv, TypeInv
<1>2. awards[h] # <<>>
    OBVIOUS
<1> QED BY <1>1, <1>2 DEF Inv, Stage, StatusMoves
-----------------------------------------------------------------------------
(* Payments and time.                                                      *)

LEMMA IntentStep ==
    ASSUME Inv, NEW h \in Halls, NEW i \in DOMAIN awards[h], PaymentIntent(h, i)
    PROVE  Inv' /\ History
<1> DEFINE aw == awards[h]
           new == [aw EXCEPT ![i].pay = "PENDING"]
<1>1. /\ i \in DOMAIN aw /\ status[h] \notin Early /\ aw \in Seq(Award) /\ aw[i] \in Award /\ StatusMoves(h)
    BY HasAwards DEF PaymentIntent
<1>2. awards' = [awards EXCEPT ![h] = new]
    BY DEF PaymentIntent
<1> HIDE DEF aw
<1>3. [aw[i] EXCEPT !.pay = "PENDING"] \in Award
    BY <1>1 DEF Award
<1>4. new \in Seq(Award) /\ Len(new) = Len(aw) /\ DOMAIN new = DOMAIN aw
    BY <1>1, <1>3
<1>5. \A j \in DOMAIN aw : /\ new[j].user = aw[j].user /\ new[j].cents = aw[j].cents
                           /\ new[j].prize = aw[j].prize
                           /\ new[j].st = aw[j].st /\ new[j].due = aw[j].due
    BY <1>1 DEF Award
<1>6. InPlace(aw, new, {})
    BY <1>1, <1>4, <1>5 DEF InPlace
<1> HIDE DEF new
<1> QED BY <1>1, <1>2, <1>6, InPlaceStep DEF aw, PaymentIntent, Early

LEMMA TickStep ==
    ASSUME Inv, NEW h \in Halls, Tick(h)
    PROVE  Inv' /\ History
<1> DEFINE aw == awards[h]
           new == [i \in DOMAIN aw |-> IF aw[i].st = "OFFERED"
                                       THEN [aw[i] EXCEPT !.due = TRUE] ELSE aw[i]]
<1>1. PICK k \in DOMAIN awards[h] : TRUE
    BY DEF Tick
<1>2. status[h] \notin Early /\ aw \in Seq(Award) /\ StatusMoves(h)
    BY <1>1, HasAwards DEF Tick
<1>3. awards' = [awards EXCEPT ![h] = new]
    BY DEF Tick
<1> HIDE DEF aw
<1>4. \A i \in DOMAIN aw : aw[i] \in Award
    BY <1>2
<1>5. ASSUME NEW i \in DOMAIN aw
      PROVE  /\ new[i] \in Award
             /\ new[i].user = aw[i].user /\ new[i].cents = aw[i].cents
             /\ new[i].prize = aw[i].prize /\ new[i].st = aw[i].st
             /\ aw[i].due /\ aw[i].st = "OFFERED" => new[i].due
    <2>1. aw[i] \in Award
        BY <1>4
    <2>2. [aw[i] EXCEPT !.due = TRUE] \in Award
        BY <2>1 DEF Award
    <2> QED BY <2>1, <2>2 DEF Award
<1>6. DOMAIN new = DOMAIN aw
    OBVIOUS
<1> HIDE DEF new
<1>7. new \in Seq(Award) /\ Len(new) = Len(aw)
    <2>1. new \in [1 .. Len(aw) -> Award] /\ Len(aw) \in Nat
        BY <1>2, <1>3, <1>5, <1>6 DEF new
    <2> QED BY <2>1
<1>8. InPlace(aw, new, {})
    BY <1>5, <1>7 DEF InPlace
<1> QED BY <1>2, <1>3, <1>8, InPlaceStep DEF aw, Tick, Early

LEMMA ConfirmStep ==
    ASSUME Inv, NEW h \in Halls, NEW i \in DOMAIN awards[h], ConfirmPayment(h, i)
    PROVE  Inv' /\ History
<1> DEFINE aw == awards[h]
           new == [aw EXCEPT ![i].st = "PAID", ![i].pay = "CONFIRMED"]
<1>1. i \in DOMAIN aw /\ status[h] \notin Early /\ aw \in Seq(Award) /\ aw[i] \in Award
    BY HasAwards
<1>2. /\ awards' = [awards EXCEPT ![h] = new] /\ UNCHANGED <<bids, cands>>
      /\ CloseIfFinished(h, status, new, LiveHalls)
      /\ AbortIf(Finished(new) /\ tx # None /\ tx.hall = h)
      /\ tx # None /\ tx.hall = h => i # tx.won
      /\ aw[i].st = "OFFERED" /\ ~aw[i].due
    BY DEF ConfirmPayment, Open
<1> HIDE DEF aw
<1>3. [aw[i] EXCEPT !.st = "PAID", !.pay = "CONFIRMED"] \in Award
    BY <1>1 DEF Award
<1>4. new \in Seq(Award) /\ Len(new) = Len(aw) /\ DOMAIN new = DOMAIN aw
    <2>1. new = [aw EXCEPT ![i] = [aw[i] EXCEPT !.st = "PAID", !.pay = "CONFIRMED"]]
        BY <1>1 DEF Award
    <2> HIDE DEF new
    <2> QED BY <1>1, <1>3, <2>1
<1>5. \A j \in DOMAIN aw : /\ new[j].user = aw[j].user /\ new[j].cents = aw[j].cents
                           /\ new[j].prize = aw[j].prize
                           /\ j # i => new[j] = aw[j]
                           /\ j = i => new[j].st = "PAID"
    BY <1>1, <1>4 DEF Award
<1>6. InPlace(aw, new, {i})
    BY <1>2, <1>4, <1>5 DEF InPlace
<1>7. (tx' = tx \/ tx' = None) /\ queue' \subseteq queue
    BY <1>2, AbortEffect
<1> HIDE DEF new
<1>8. StatusMoves(h)
    BY <1>1, <1>2, Closes DEF Inv, TypeInv
<1>9. Lapsed(aw) \cap {i} = {}
    BY <1>2 DEF Lapsed
<1>10. tx' # None /\ tx.hall = h => tx.won \notin {i}
    BY <1>2, <1>7
<1> QED BY <1>1, <1>2, <1>6, <1>7, <1>8, <1>9, <1>10, InPlaceStep DEF aw, Early

LEMMA ClaimStep ==
    ASSUME Inv, ClaimCommit
    PROVE  Inv' /\ History
<1> DEFINE h == tx.hall
           i == tx.won
           aw == awards[h]
           new == [aw EXCEPT ![i].st = "PAID"]
<1>1. /\ tx \in Transaction /\ h \in Halls /\ i # 0 /\ Reads(tx, aw)
    BY TxType DEF ClaimCommit, Inv, TypeInv, Snapshot
<1>2. i \in DOMAIN aw /\ aw[i].st = "OFFERED"
    BY <1>1 DEF Reads
<1>3. /\ awards' = [awards EXCEPT ![h] = new] /\ UNCHANGED <<bids, cands, queue>>
      /\ CloseIfFinished(h, status, Paid(tx.aw, i), tx.live) /\ tx' = None
    BY DEF ClaimCommit, Paid
<1>4. status[h] \notin Early /\ aw \in Seq(Award) /\ aw[i] \in Award
    BY <1>1, <1>2, HasAwards
<1> HIDE DEF h, i, aw
<1>5. StatusMoves(h)
    BY <1>1, <1>3, <1>4, Closes DEF Inv, TypeInv
<1>6. [aw[i] EXCEPT !.st = "PAID"] \in Award
    BY <1>4 DEF Award
<1>7. new \in Seq(Award) /\ Len(new) = Len(aw) /\ DOMAIN new = DOMAIN aw
    BY <1>2, <1>4, <1>6
<1>8. \A j \in DOMAIN aw : /\ new[j].user = aw[j].user /\ new[j].cents = aw[j].cents
                           /\ new[j].prize = aw[j].prize
                           /\ j # i => new[j] = aw[j]
                           /\ j = i => new[j].st = "PAID"
    BY <1>2, <1>4, <1>7 DEF Award
<1>9. InPlace(aw, new, {i})
    BY <1>2, <1>7, <1>8 DEF InPlace
<1> HIDE DEF new
<1> QED BY <1>1, <1>3, <1>4, <1>5, <1>9, InPlaceStep DEF aw, Early

-----------------------------------------------------------------------------
(* Advances.                                                               *)

LEMMA OpenStep ==
    ASSUME Inv, AdvanceOpen
    PROVE  Inv' /\ History
<1> DEFINE h == tx.hall
           new == FirstOffers(bids[h])
           st == [status EXCEPT ![h] = "AWAITING"]
<1>1. h \in Halls /\ status[h] = "OPEN" /\ awards[h] = <<>>
    BY TxType DEF AdvanceOpen, Advancing, Inv, TypeInv, Stage, Early
<1>2. /\ cands' = [cands EXCEPT ![h] = Candidates(bids[h])]
      /\ awards' = [awards EXCEPT ![h] = new]
      /\ CloseIfFinished(h, st, new, tx.live)
      /\ UNCHANGED bids /\ queue' \subseteq queue /\ tx' = None
    BY DEF AdvanceOpen, Done
<1>3. bids[h] \in Seq(Bid) /\ status \in [Halls -> Statuses]
    BY <1>1 DEF Inv, TypeInv
<1>4. /\ new \in Seq(Award) /\ Slots(bids[h]) \in {1, 2} /\ Len(new) <= Slots(bids[h])
      /\ Carries(new, Slots(bids[h]))
    BY <1>3, FirstOffersType
<1> HIDE DEF h, new
<1>5. cands' \in [Halls -> Seq(Bid)]
    <2>1. Candidates(bids[h]) \in Seq(Bid)
        BY <1>3, CandidatesType
    <2>2. cands \in [Halls -> Seq(Bid)]
        BY DEF Inv, TypeInv
    <2> QED BY <1>2, <2>1, <2>2
<1>6. SharesOf(new)
    <2>1. Stands(new) \in SUBSET DOMAIN new /\ DOMAIN new = 1 .. Len(new) /\ Len(new) \in Nat
        BY <1>4 DEF Stands
    <2>2. IsFiniteSet(1 .. Len(new)) /\ Cardinality(1 .. Len(new)) = Len(new)
        BY <2>1, FS_Interval
    <2>3. Cardinality(Stands(new)) \in Nat /\ Cardinality(Stands(new)) <= Len(new)
        BY <1>4, <2>1, <2>2, FS_Subset, StandsFinite
    <2> QED BY <1>4, <2>1, <2>3 DEF SharesOf
<1>7. StatusMoves(h)
    <2>1. st \in [Halls -> Statuses] /\ st[h] = "AWAITING"
          /\ \A g \in Halls : g # h => st[g] = status[g]
        BY <1>1, <1>3 DEF Statuses
    <2>2. st[h] \notin Early
        BY <2>1 DEF Early
    <2> HIDE DEF st
    <2> QED BY <1>1, <1>2, <1>3, <2>1, <2>2, Closes
<1>8. RowsKept(awards[h], new)
    BY <1>1 DEF RowsKept
<1> QED BY <1>1, <1>2, <1>4, <1>5, <1>6, <1>7, <1>8, HallStep

\* The offers that pass on make room for as many new ones.
LEMMA OffersStep ==
    ASSUME Inv, AdvanceOffers
    PROVE  Inv' /\ History
<1> DEFINE h == tx.hall
           aw == awards[h]
           gone == Lapsed(tx.aw)
           next == NextOffers(cands[h], tx.aw)
           marked == Expire(aw, gone)
           new == marked \o next
<1>1. /\ tx \in Transaction /\ h \in Halls /\ tx.aw \in Seq(Award) /\ Reads(tx, aw)
    BY TxType DEF AdvanceOffers, Advancing, Inv, TypeInv, Snapshot
<1>2. /\ aw \in Seq(Award) /\ cands[h] \in Seq(Bid) /\ status \in [Halls -> Statuses]
      /\ SharesOf(aw) /\ status[h] \notin Early
    BY <1>1 DEF Inv, TypeInv, Shares, AdvanceOffers, Advancing, Early, Stage
<1>3. /\ awards' = [awards EXCEPT ![h] = new] /\ UNCHANGED <<bids, cands>>
      /\ CloseIfFinished(h, status, Expire(tx.aw, gone) \o next, tx.live)
      /\ queue' \subseteq queue /\ tx' = None
    BY DEF AdvanceOffers, Done
<1>4. StatusMoves(h)
    BY <1>1, <1>2, <1>3, Closes
<1>5. PICK n \in {1, 2} : Carries(aw, n) /\ Cardinality(Stands(aw)) <= n
    BY <1>2 DEF SharesOf
<1>6. gone \in SUBSET DOMAIN aw /\ gone \subseteq Stands(aw) /\ gone \subseteq Lapsed(aw)
    BY <1>1 DEF Reads, Lapsed, Stands
<1>7. Carries(tx.aw, n)
    <2>1. DOMAIN tx.aw = DOMAIN aw
        BY <1>1, <1>2 DEF Reads
    <2> QED BY <1>1, <1>5, <2>1 DEF Reads, Carries
<1>8. /\ next \in Seq(Award) /\ Len(next) <= Cardinality(gone)
      /\ Carries(next, n) /\ Offers(next)
    BY <1>1, <1>2, <1>7, NextOffersType
<1> HIDE DEF h, aw, gone, next
<1>9. ASSUME NEW i \in DOMAIN aw
      PROVE  /\ marked[i] \in Award
             /\ marked[i].user = aw[i].user /\ marked[i].cents = aw[i].cents
             /\ marked[i].prize = aw[i].prize
             /\ marked[i].st = IF i \in gone THEN "EXPIRED" ELSE aw[i].st
    <2>1. aw[i] \in Award
        BY <1>2
    <2>2. [aw[i] EXCEPT !.st = "EXPIRED"] \in Award
        BY <2>1 DEF Award
    <2> QED BY <2>1, <2>2 DEF Award, Expire
<1>10. marked \in Seq(Award) /\ Len(marked) = Len(aw) /\ DOMAIN marked = DOMAIN aw
    <2>1. DOMAIN marked = DOMAIN aw
        BY DEF Expire
    <2> HIDE DEF marked
    <2>2. DOMAIN aw = 1 .. Len(aw) /\ Len(aw) \in Nat
        BY <1>2
    <2>3. marked \in [1 .. Len(aw) -> Award]
        BY <1>9, <2>1, <2>2 DEF marked, Expire
    <2> QED BY <2>1, <2>2, <2>3
<1> HIDE DEF marked
<1>11. /\ new \in Seq(Award) /\ Len(new) = Len(aw) + Len(next)
       /\ Len(aw) \in Nat /\ Len(next) \in Nat
       /\ DOMAIN aw = 1 .. Len(aw) /\ DOMAIN next = 1 .. Len(next)
    <2>1. /\ aw \in Seq(Award) /\ next \in Seq(Award) /\ marked \in Seq(Award)
          /\ Len(marked) = Len(aw)
        BY <1>2, <1>8, <1>10
    <2> QED BY <2>1
<1>12. \A i \in DOMAIN aw : i \in DOMAIN new /\ new[i] = marked[i]
    BY <1>8, <1>10, <1>11
<1>13. \A i \in DOMAIN new \ DOMAIN aw : i - Len(aw) \in DOMAIN next
                                        /\ new[i] = next[i - Len(aw)]
    BY <1>8, <1>10, <1>11
<1> HIDE DEF new
<1>14. Carries(new, n)
    BY <1>5, <1>8, <1>9, <1>12, <1>13 DEF Carries
<1>15. Cardinality(Stands(new)) <= n
    <2> DEFINE added == Len(aw) + 1 .. Len(aw) + Len(next)
               kept == Stands(aw) \ gone
    <2>1. Stands(new) \subseteq kept \cup added
        <3> SUFFICES ASSUME NEW i \in Stands(new), i \in DOMAIN aw
                     PROVE  i \in kept
            BY <1>11 DEF Stands
        <3>1. new[i] = marked[i] /\ new[i].st # "EXPIRED"
            BY <1>12 DEF Stands
        <3> QED BY <1>9, <3>1 DEF Stands
    <2>2. IsFiniteSet(added) /\ Cardinality(added) = Len(next)
        <3>1. Len(aw) + 1 \in Int /\ Len(aw) + Len(next) \in Int
            BY <1>11
        <3>2. /\ IsFiniteSet(added)
              /\ Cardinality(added) = IF Len(aw) + 1 > Len(aw) + Len(next) THEN 0
                                      ELSE Len(aw) + Len(next) - (Len(aw) + 1) + 1
            BY <3>1, FS_Interval
        <3> HIDE DEF added
        <3> QED BY <1>11, <3>2
    <2>3. IsFiniteSet(Stands(aw)) /\ Cardinality(Stands(aw)) \in Nat
        BY <1>2, StandsFinite
    <2>4. IsFiniteSet(gone) /\ Cardinality(gone) \in Nat
        BY <1>6, <2>3, FS_Subset, FS_CardinalityType
    <2>5. IsFiniteSet(kept) /\ Cardinality(kept) = Cardinality(Stands(aw)) - Cardinality(gone)
        <3>1. Stands(aw) \cap gone = gone
            BY <1>6
        <3> QED BY <2>3, <3>1, FS_Difference
    <2> HIDE DEF added, kept
    <2>6. /\ IsFiniteSet(kept \cup added) /\ Cardinality(kept \cup added) \in Nat
          /\ Cardinality(kept \cup added)
                <= Cardinality(kept) + Cardinality(added)
        <3>1. /\ IsFiniteSet(kept \cup added)
              /\ Cardinality(kept \cup added)
                    = Cardinality(kept) + Cardinality(added) - Cardinality(kept \cap added)
            BY <2>2, <2>5, FS_Union
        <3>2. IsFiniteSet(kept \cap added)
            BY <2>2, FS_Subset
        <3>3. /\ Cardinality(kept \cap added) \in Nat /\ Cardinality(kept) \in Nat
              /\ Cardinality(added) \in Nat /\ Cardinality(kept \cup added) \in Nat
            BY <2>2, <2>5, <3>1, <3>2, FS_CardinalityType
        <3> QED BY <3>1, <3>3
    <2>7. Cardinality(Stands(new)) \in Nat
        BY <1>11, StandsFinite
    <2>8. Cardinality(Stands(new)) <= Cardinality(kept \cup added)
        BY <2>1, <2>6, FS_Subset
    <2> QED BY <1>5, <1>8, <1>11, <2>2, <2>3, <2>4, <2>5, <2>6, <2>7, <2>8
<1>16. SharesOf(new)
    BY <1>14, <1>15 DEF SharesOf
<1>17. RowsKept(aw, new)
    BY <1>6, <1>9, <1>12 DEF RowsKept, Lapsed
<1>18. tx' = None
    BY <1>3
<1>19. cands' \in [Halls -> Seq(Bid)] /\ UNCHANGED bids
    BY <1>3 DEF Inv, TypeInv
<1>20. status[h] # "NONE"
    BY <1>2 DEF Early
<1> QED
    BY <1>1, <1>3, <1>4, <1>11, <1>16, <1>17, <1>18, <1>19, <1>20, HallStep DEF aw

-----------------------------------------------------------------------------
(* The invariant holds, and with it every step keeps the history.          *)

LEMMA InvInit == Init => Inv
<1> SUFFICES ASSUME Init PROVE Inv
    OBVIOUS
<1>1. TypeInv
    BY DEF Init, TypeInv, Statuses
<1>2. Stage
    BY NoneAssumption DEF Init, Stage
<1>3. Shares
    BY EmptyShares DEF Init, Shares
<1>4. Snapshot
    BY DEF Init, Snapshot
<1> QED BY <1>1, <1>2, <1>3, <1>4 DEF Inv

LEMMA InvNext ==
    ASSUME Inv, Next
    PROVE  Inv' /\ History
<1>1. CASE Poll
    BY <1>1, PollStep
<1>2. ASSUME NEW h \in Halls, AdvanceBegin(h) PROVE Inv' /\ History
    <2>1. /\ tx' = [hall |-> h, won |-> 0, aw |-> awards[h], live |-> LiveHalls]
          /\ UNCHANGED <<hallVars, queue>> /\ status[h] # "NONE"
        BY <1>2 DEF AdvanceBegin, Inv, Stage
    <2> QED BY <2>1, BeginsFresh
<1>3. CASE AdvanceOpen
    BY <1>3, OpenStep
<1>4. CASE AdvanceOffers
    BY <1>4, OffersStep
<1>5. CASE AdvanceClosed
    <2>1. TypeInv' /\ Stage'
        BY <1>5 DEF AdvanceClosed, Done, hallVars, Inv, TypeInv, Stage
    <2> QED BY <1>5, <2>1, Frame DEF AdvanceClosed, Done, hallVars
<1>6. ASSUME NEW h \in Halls, CreateAuction(h) \/ DeleteAuction(h) \/ Tick(h)
      PROVE  Inv' /\ History
    BY <1>6, CreateStep, DeleteStep, TickStep
<1>7. CASE ResetRead
    <2>1. TypeInv' /\ Stage'
        BY <1>7 DEF ResetRead, hallVars, Inv, TypeInv, Stage
    <2> QED BY <1>7, <2>1, Frame DEF ResetRead, hallVars
<1>8. CASE ResetWrite
    BY <1>8, ResetWriteStep
<1>9. ASSUME NEW m \in Members, NEW h \in Halls, PurchaseHallPack(m, h)
      PROVE  Inv' /\ History
    <2>1. TypeInv' /\ Stage'
        BY <1>9 DEF PurchaseHallPack, hallVars, Inv, TypeInv, Stage
    <2> QED BY <1>9, <2>1, Frame DEF PurchaseHallPack, hallVars
<1>10. ASSUME NEW m \in Members, NEW h \in Halls, NEW c \in Cents, PlaceBid(m, h, c)
       PROVE  Inv' /\ History
    BY <1>10, BidStep
<1>11. ASSUME NEW h \in Halls, NEW i \in DOMAIN awards[h], ClaimBegin(h, i)
       PROVE  Inv' /\ History
    <2>1. /\ tx' = [hall |-> h, won |-> i, aw |-> awards[h], live |-> LiveHalls]
          /\ UNCHANGED <<hallVars, queue>> /\ Open(h, i)
        BY <1>11 DEF ClaimBegin
    <2>2. status[h] # "NONE" /\ i \in Nat
        BY HasAwards, AwardFields DEF Early
    <2> QED BY <2>1, <2>2, BeginsFresh
<1>12. ASSUME NEW h \in Halls, NEW i \in DOMAIN awards[h], PaymentIntent(h, i)
       PROVE  Inv' /\ History
    BY <1>12, IntentStep
<1>13. ASSUME NEW h \in Halls, NEW i \in DOMAIN awards[h], ConfirmPayment(h, i)
       PROVE  Inv' /\ History
    BY <1>13, ConfirmStep
<1>14. CASE ClaimCommit
    BY <1>14, ClaimStep
<1> QED
    BY <1>1, <1>2, <1>3, <1>4, <1>5, <1>6, <1>7, <1>8, <1>9, <1>10, <1>11, <1>12, <1>13,
       <1>14 DEF Next, Worker

LEMMA InvStep == Inv /\ [Next]_vars => Inv'
<1> SUFFICES ASSUME Inv, [Next]_vars PROVE Inv'
    OBVIOUS
<1>1. CASE UNCHANGED vars
    <2>1. TypeInv' /\ Stage'
        BY <1>1 DEF vars, hallVars, Inv, TypeInv, Stage
    <2> QED BY <1>1, <2>1, Frame DEF vars, hallVars
<1> QED BY <1>1, InvNext

\* The states reached have the types, awards only where a hall was advanced,
\* one share per award that stands, and open transactions that read the truth.
THEOREM InvHolds == Spec => []Inv
BY InvInit, InvStep, PTL DEF Spec

LEMMA ShareSums ==
    /\ Prize \div 1 <= Prize /\ Prize \div 2 <= Prize
    /\ Prize \div 2 + Prize \div 2 <= Prize
BY MoneyAssumption

LEMMA SharesFit == ASSUME Inv PROVE PrizeWithinHall
<1> SUFFICES ASSUME NEW h \in Halls
             PROVE  \/ Standing(h) = {}
                    \/ \E i \in Standing(h) : Standing(h) = {i} /\ awards[h][i].prize <= Prize
                    \/ \E i, j \in Standing(h) :
                        Standing(h) = {i, j} /\ awards[h][i].prize + awards[h][j].prize <= Prize
    BY DEF PrizeWithinHall
<1>1. awards[h] \in Seq(Award) /\ Standing(h) = Stands(awards[h])
    BY DEF Inv, TypeInv, Standing, Stands
<1>2. PICK n \in {1, 2} : Carries(awards[h], n) /\ Cardinality(Standing(h)) <= n
    BY <1>1 DEF Inv, Shares, SharesOf
<1>3. IsFiniteSet(Standing(h)) /\ Cardinality(Standing(h)) \in Nat
    BY <1>1, StandsFinite
<1>4. \A i \in Standing(h) : awards[h][i].prize = Prize \div n
    BY <1>2 DEF Carries, Standing
<1>5. \/ Standing(h) = {}
      \/ \E i \in Standing(h) : Standing(h) = {i}
      \/ \E i, j \in Standing(h) : /\ i # j /\ Standing(h) = {i, j}
                                   /\ Cardinality(Standing(h)) = 2
    <2>1. Cardinality(Standing(h)) <= 2
        BY <1>2, <1>3
    <2> HIDE DEF Standing
    <2> QED BY <1>3, <2>1, AtMostTwo
<1>6. CASE Standing(h) = {}
    BY <1>6
<1>7. CASE \E i \in Standing(h) : Standing(h) = {i}
    BY <1>2, <1>4, <1>7, ShareSums
<1>8. CASE \E i, j \in Standing(h) : /\ i # j /\ Standing(h) = {i, j}
                                     /\ Cardinality(Standing(h)) = 2
    <2>1. n = 2
        BY <1>2, <1>8
    <2> QED BY <1>4, <1>8, <2>1, ShareSums
<1> QED BY <1>5, <1>6, <1>7, <1>8

\* However many members bid, and whatever lapses, passes on, is claimed or is
\* paid on chain between the reads and the write of an advance, a hall never
\* owes more than its prize.
THEOREM PrizeWithinHallHolds == Spec => []PrizeWithinHall
<1>1. Inv => PrizeWithinHall
    BY SharesFit
<1> QED BY <1>1, InvHolds, PTL

\* No step loses an award or changes its winner or prize, reopens one that is
\* paid or expired, or adds a bid to a hall that has awards.
THEOREM HistoryKeptHolds == Spec => HistoryKept
<1>1. Inv /\ [Next]_vars =>
        [\A h \in Halls :
            /\ awards[h] # <<>> => bids'[h] = bids[h]
            /\ \A i \in DOMAIN awards[h] :
                /\ i \in DOMAIN awards'[h]
                /\ awards'[h][i].user = awards[h][i].user /\ awards'[h][i].prize = awards[h][i].prize
                /\ awards[h][i].st # "OFFERED" => awards'[h][i].st = awards[h][i].st]_vars
    BY InvNext DEF History, RowsKept
<1> QED BY <1>1, InvHolds, PTL DEF Spec, HistoryKept

-----------------------------------------------------------------------------
(* The lowest bids that win are offered first.                             *)

\* A hall with awards has its candidates, and offers them in their order.
OrderOf(h) ==
    awards[h] # <<>> => cands[h] = Candidates(bids[h]) /\ Ordered(cands[h], awards[h])
Order == \A h \in Halls : OrderOf(h)

\* A step that adds no award keeps the order.
LEMMA SameAwards ==
    ASSUME Inv, Inv', History, NEW h \in Halls, OrderOf(h),
           Len(awards'[h]) = Len(awards[h]), cands'[h] = cands[h]
    PROVE  OrderOf(h)'
<1> SUFFICES ASSUME awards'[h] # <<>>
             PROVE  cands'[h] = Candidates(bids'[h]) /\ Ordered(cands'[h], awards'[h])
    BY DEF OrderOf, Candidates, Eligible, Unique, Pairs, SameCents, Sorted, ByCents
<1>1. awards[h] \in Seq(Award) /\ awards'[h] \in Seq(Award)
    BY DEF Inv, TypeInv
<1>2. awards[h] # <<>>
    BY <1>1
<1>3. \A i \in DOMAIN awards[h] : /\ awards'[h][i].user = awards[h][i].user
                                  /\ awards'[h][i].cents = awards[h][i].cents
    BY DEF History, RowsKept
<1>4. bids'[h] = bids[h] /\ cands[h] = Candidates(bids[h]) /\ Ordered(cands[h], awards[h])
    BY <1>2 DEF History, OrderOf
<1>5. Ordered(cands[h], awards'[h])
    BY <1>1, <1>3, <1>4, OrderedKeeps
<1> QED BY <1>4, <1>5

LEMMA OpenOrder ==
    ASSUME Inv, AdvanceOpen, Order, NEW h \in Halls, h = tx.hall
    PROVE  /\ OrderOf(h)'
           /\ \A g \in Halls : g # h =>
                  awards'[g] = awards[g] /\ cands'[g] = cands[g] /\ bids'[g] = bids[g]
<1>1. h \in Halls
    OBVIOUS
<1>2. /\ cands' = [cands EXCEPT ![h] = Candidates(bids[h])]
      /\ awards' = [awards EXCEPT ![h] = FirstOffers(bids[h])] /\ UNCHANGED bids
    BY DEF AdvanceOpen
<1>3. /\ cands'[h] = Candidates(bids[h]) /\ awards'[h] = FirstOffers(bids[h])
      /\ bids'[h] = bids[h] /\ bids[h] \in Seq(Bid)
    BY <1>1, <1>2 DEF Inv, TypeInv
<1>4. Ordered(Candidates(bids[h]), FirstOffers(bids[h]))
    BY <1>3, FirstOffersOrdered
<1> QED BY <1>1, <1>2, <1>3, <1>4 DEF OrderOf, Inv, TypeInv

LEMMA OffersOrder ==
    ASSUME Inv, AdvanceOffers, Order, NEW h \in Halls, h = tx.hall
    PROVE  /\ OrderOf(h)'
           /\ \A g \in Halls : g # h =>
                  awards'[g] = awards[g] /\ cands'[g] = cands[g] /\ bids'[g] = bids[g]
<1> DEFINE aw == awards[h]
           gone == Lapsed(tx.aw)
           marked == Expire(aw, gone)
           next == NextOffers(cands[h], tx.aw)
<1>1. /\ tx \in Transaction /\ h \in Halls /\ tx.aw \in Seq(Award) /\ Reads(tx, aw)
    BY TxType DEF AdvanceOffers, Advancing, Inv, TypeInv, Snapshot
<1>2. /\ awards' = [awards EXCEPT ![h] = marked \o next] /\ UNCHANGED <<bids, cands>>
    BY DEF AdvanceOffers
<1>3. aw \in Seq(Award) /\ cands[h] \in Seq(Bid) /\ SharesOf(aw)
    BY <1>1 DEF Inv, TypeInv, Shares
<1>4. Len(tx.aw) = Len(aw) /\ \A i \in DOMAIN aw : tx.aw[i].user = aw[i].user
    BY <1>1 DEF Reads
<1>5. next \in Seq(Award) /\ Len(next) <= Cardinality(gone)
    <2>1. PICK n \in {1, 2} : Carries(aw, n)
        BY <1>3 DEF SharesOf
    <2>2. DOMAIN tx.aw = DOMAIN aw
        BY <1>1, <1>3, <1>4
    <2>3. Carries(tx.aw, n)
        BY <1>1, <2>1, <2>2 DEF Reads, Carries
    <2> QED BY <1>1, <1>3, <2>3, NextOffersType
<1> HIDE DEF aw, gone, next
<1>6. /\ marked \in Seq(Award) /\ Len(marked) = Len(aw)
      /\ \A i \in DOMAIN aw : marked[i].user = aw[i].user /\ marked[i].cents = aw[i].cents
    <2>1. ASSUME NEW i \in DOMAIN aw
          PROVE  /\ marked[i] \in Award
                 /\ marked[i].user = aw[i].user /\ marked[i].cents = aw[i].cents
        <3>1. aw[i] \in Award
            BY <1>3
        <3>2. [aw[i] EXCEPT !.st = "EXPIRED"] \in Award
            BY <3>1 DEF Award
        <3> QED BY <3>1, <3>2 DEF Award, Expire
    <2>2. DOMAIN marked = DOMAIN aw
        BY DEF Expire
    <2> HIDE DEF marked
    <2>3. DOMAIN aw = 1 .. Len(aw) /\ Len(aw) \in Nat
        BY <1>3
    <2>4. marked \in [1 .. Len(aw) -> Award]
        BY <2>1, <2>2, <2>3 DEF marked, Expire
    <2> QED BY <2>1, <2>3, <2>4
<1> HIDE DEF marked
<1>7. DOMAIN marked = DOMAIN aw
    BY <1>3, <1>6
<1>8. CASE aw = <<>>
    <2>1. Len(tx.aw) = 0
        BY <1>4, <1>8
    <2>2. gone = {}
        BY <1>1, <2>1 DEF gone, Lapsed
    <2>3. Len(next) = 0
        BY <1>5, <2>2, FS_EmptySet
    <2>4. marked \o next = <<>>
        BY <1>5, <1>6, <1>8, <2>3
    <2>5. awards'[h] = <<>>
        BY <1>1, <1>2, <2>4 DEF Inv, TypeInv
    <2> QED BY <1>1, <1>2, <2>5 DEF OrderOf, Inv, TypeInv
<1>9. CASE aw # <<>>
    <2>1. cands[h] = Candidates(bids[h]) /\ Ordered(cands[h], aw)
        BY <1>1, <1>9 DEF Order, OrderOf, aw
    <2>2. Ordered(cands[h], marked)
        BY <1>3, <1>6, <2>1, OrderedKeeps
    <2>3. \A i \in DOMAIN marked : tx.aw[i].user = marked[i].user
        BY <1>4, <1>6, <1>7
    <2>4. Ordered(cands[h], marked \o next)
        BY <1>1, <1>3, <1>4, <1>5, <1>6, <2>2, <2>3, NextOffersOrdered DEF next
    <2>5. awards'[h] = marked \o next /\ cands'[h] = cands[h] /\ bids'[h] = bids[h]
        BY <1>1, <1>2 DEF Inv, TypeInv
    <2> QED BY <1>1, <1>2, <2>1, <2>4, <2>5 DEF OrderOf, Inv, TypeInv
<1> QED BY <1>8, <1>9

LEMMA OrderStep ==
    ASSUME Inv, Order, [Next]_vars
    PROVE  Order'
<1>1. Inv' /\ History
    <2>1. CASE UNCHANGED vars
        BY <2>1, InvStep DEF vars, hallVars, History, RowsKept
    <2> QED BY <2>1, InvNext
<1>2. ASSUME \A g \in Halls : Len(awards'[g]) = Len(awards[g]) /\ cands'[g] = cands[g]
      PROVE  Order'
    BY <1>1, <1>2, SameAwards DEF Order
<1>3. ASSUME NEW h \in Halls, NEW aw, awards' = [awards EXCEPT ![h] = aw],
             Len(aw) = Len(awards[h]), UNCHANGED cands
      PROVE  Order'
    <2>1. \A g \in Halls : awards'[g] = IF g = h THEN aw ELSE awards[g]
        BY <1>3 DEF Inv, TypeInv
    <2> QED BY <1>2, <1>3, <2>1
<1>4. CASE AdvanceOpen \/ AdvanceOffers
    <2>1. PICK h \in Halls : h = tx.hall
        BY <1>4, TxType DEF AdvanceOpen, AdvanceOffers, Advancing, Inv, TypeInv
    <2>2. /\ OrderOf(h)'
          /\ \A g \in Halls : g # h =>
                 awards'[g] = awards[g] /\ cands'[g] = cands[g] /\ bids'[g] = bids[g]
        BY <1>4, <2>1, OpenOrder, OffersOrder
    <2>3. ASSUME NEW g \in Halls, g # h PROVE OrderOf(g)'
        BY <1>1, <2>2, <2>3, SameAwards DEF Order
    <2> QED BY <2>2, <2>3 DEF Order
<1>6. ASSUME NEW h \in Halls, Tick(h) PROVE Order'
    <2> DEFINE aw == awards[h]
               new == [i \in DOMAIN aw |-> IF aw[i].st = "OFFERED"
                                           THEN [aw[i] EXCEPT !.due = TRUE] ELSE aw[i]]
    <2>1. awards' = [awards EXCEPT ![h] = new] /\ UNCHANGED cands
        BY <1>6 DEF Tick
    <2>2. awards'[h] \in Seq(Award) /\ aw \in Seq(Award) /\ awards'[h] = new
        BY <1>1, <2>1 DEF Inv, TypeInv
    <2>3. DOMAIN new = DOMAIN aw
        OBVIOUS
    <2> HIDE DEF aw, new
    <2>4. Len(new) = Len(aw)
        BY <2>2, <2>3
    <2> QED BY <1>3, <2>1, <2>4 DEF aw
<1>7. ASSUME NEW h \in Halls, NEW i \in DOMAIN awards[h],
             PaymentIntent(h, i) \/ ConfirmPayment(h, i)
      PROVE  Order'
    <2>1. PICK aw : /\ awards' = [awards EXCEPT ![h] = aw] /\ UNCHANGED cands
                    /\ Len(aw) = Len(awards[h])
        BY <1>7 DEF PaymentIntent, ConfirmPayment
    <2> QED BY <1>3, <2>1
<1>8. CASE ClaimCommit
    <2>1. PICK h \in Halls : h = tx.hall
        BY <1>8, TxType DEF ClaimCommit, Inv, TypeInv
    <2> DEFINE aw == [awards[h] EXCEPT ![tx.won].st = "PAID"]
    <2>2. awards' = [awards EXCEPT ![h] = aw] /\ UNCHANGED cands
        BY <1>8, <2>1 DEF ClaimCommit, Paid
    <2>3. Len(aw) = Len(awards[h])
        OBVIOUS
    <2> HIDE DEF aw
    <2> QED BY <1>3, <2>2, <2>3
<1>9. CASE UNCHANGED <<awards, cands>>
    BY <1>2, <1>9
<1> QED
    BY <1>4, <1>6, <1>7, <1>8, <1>9 DEF Next, Worker, vars, hallVars, Poll, AdvanceBegin,
       AdvanceClosed, CreateAuction, DeleteAuction, ResetRead, ResetWrite, PurchaseHallPack,
       PlaceBid, ClaimBegin

LEMMA OrderFits == ASSUME Inv, Order PROVE LowestFirst
<1> SUFFICES ASSUME NEW h \in Halls, NEW i \in DOMAIN awards[h]
             PROVE  /\ \A k \in 1 .. i - 1 : awards[h][k].user # awards[h][i].user
                    /\ Wins(bids[h], awards[h][i].cents)
                    /\ \E j \in DOMAIN bids[h] : /\ bids[h][j].user = awards[h][i].user
                                                 /\ bids[h][j].cents = awards[h][i].cents
                    /\ \A j \in DOMAIN bids[h] :
                        Wins(bids[h], bids[h][j].cents)
                              /\ bids[h][j].cents < awards[h][i].cents =>
                            \E k \in 1 .. i - 1 : awards[h][k].user = bids[h][j].user
    BY DEF LowestFirst
<1> DEFINE b == bids[h]
           aw == awards[h]
           cs == Candidates(b)
<1>1. b \in Seq(Bid) /\ Ordered(cs, aw)
    <2>1. awards[h] # <<>>
        OBVIOUS
    <2> QED BY <2>1 DEF Inv, TypeInv, Order, OrderOf
<1>2. PICK k \in DOMAIN cs :
          /\ cs[k].user = aw[i].user /\ cs[k].cents = aw[i].cents
          /\ \A j \in 1 .. k - 1 : \E m \in 1 .. i - 1 : aw[m].user = cs[j].user
          /\ \A m \in 1 .. i - 1 : aw[m].user # cs[k].user
    BY <1>1 DEF Ordered
<1>3. PICK x \in Eligible(b) : x \in DOMAIN b /\ cs[k] = b[x]
    BY <1>1, CandidateAt, EligibleSet
<1> HIDE DEF b, aw, cs
<1>4. Wins(b, aw[i].cents)
    BY <1>1, <1>2, <1>3, EligibleWins
<1>5. ASSUME NEW j \in DOMAIN b, Wins(b, b[j].cents), b[j].cents < aw[i].cents
      PROVE  \E m \in 1 .. i - 1 : aw[m].user = b[j].user
    <2>1. j \in Eligible(b)
        BY <1>1, <1>5, EligibleWins
    <2>2. PICK m \in 1 .. k - 1 : cs[m] = b[j]
        BY <1>1, <1>2, <1>5, <2>1, LowerBefore DEF cs
    <2> QED BY <1>2, <2>2
<1> QED BY <1>2, <1>3, <1>4, <1>5 DEF b, aw, cs

\* Whatever lapses and passes on, and whatever is claimed or paid meanwhile, a hall
\* is offered to the lowest bid that wins, each member once, and to the next only
\* when the lower ones have had their offer.
THEOREM LowestFirstHolds == Spec => []LowestFirst
<1>1. Init => Order
    BY DEF Init, Order, OrderOf
<1>2. Inv /\ Order /\ [Next]_vars => Order'
    BY OrderStep
<1>3. Inv /\ Order => LowestFirst
    BY OrderFits
<1> QED BY <1>1, <1>2, <1>3, InvHolds, PTL DEF Spec

-----------------------------------------------------------------------------
(* Wallets: what was paid in and out, and nothing else.                    *)

\* What an award moved on the wallet of member m, and all those of a hall.
ShareOf(m, a) == IF a.user = m /\ a.st = "PAID" THEN Booked(a) ELSE 0
HallShare(m, aw) == SumFunctionOnSet([i \in DOMAIN aw |-> ShareOf(m, aw[i])], DOMAIN aw)
SpentIn(ps, m, h) == IF <<m, h>> \notin ps THEN 0 ELSE IF h \in Series THEN Pack ELSE Entry
Purse(aws, ps, m) == [h \in Halls |-> HallShare(m, aws[h]) - SpentIn(ps, m, h)]
PursesMatch == \A m \in Members : usdt[m] = Funds[m] + SumFunctionOnSet(Purse(awards, passes, m), Halls)

\* An award is confirmed on chain when it is paid, and a claim has read what it
\* books, for a wallet that can pay it.
Unconfirmed ==
    \A h \in Halls : \A i \in DOMAIN awards[h] :
        awards[h][i].st = "OFFERED" => awards[h][i].pay # "CONFIRMED"
ClaimReads ==
    tx # None /\ tx.won # 0 =>
        /\ tx.aw[tx.won].cents = awards[tx.hall][tx.won].cents
        /\ tx.aw[tx.won].cents <= usdt[tx.aw[tx.won].user] + tx.aw[tx.won].prize

WalletInv ==
    /\ left \in [Halls -> Nat] /\ passes \subseteq Members \X Halls
    /\ credits \in [Members -> Nat] /\ usdt \in [Members -> Nat] /\ resetting \subseteq Halls
    /\ EntryPaid /\ PursesMatch /\ Unconfirmed /\ ClaimReads

LEMMA ShareInt ==
    ASSUME NEW m, NEW a \in Award
    PROVE  /\ ShareOf(m, a) \in Int /\ Booked(a) \in Int
           /\ a.user \in Members /\ a.prize \in Nat /\ a.cents \in Nat
<1>1. /\ a.user \in Members /\ a.prize \in Nat /\ a.cents \in Cents
    BY DEF Award
<1>2. a.cents \in Nat
    BY <1>1, MoneyAssumption
<1>3. Booked(a) \in Int
    BY <1>1, <1>2 DEF Booked
<1> QED BY <1>1, <1>2, <1>3 DEF ShareOf

LEMMA HallShareInt ==
    ASSUME NEW m, NEW aw \in Seq(Award)
    PROVE  IsFiniteSet(DOMAIN aw) /\ HallShare(m, aw) \in Int
<1> DEFINE f == [i \in DOMAIN aw |-> ShareOf(m, aw[i])]
           D == DOMAIN aw
<1>1. IsFiniteSet(D)
    BY IndicesFinite
<1>2. \A i \in D : f[i] \in Int
    BY ShareInt
<1> HIDE DEF f, D
<1>3. SumFunctionOnSet(f, D) \in Int
    BY <1>1, <1>2, SumInt
<1> QED BY <1>1, <1>3 DEF HallShare, f, D

\* Rows that move the same as before.
LEMMA HallShareSame ==
    ASSUME NEW m, NEW aw, NEW new, DOMAIN new = DOMAIN aw,
           \A i \in DOMAIN aw : ShareOf(m, new[i]) = ShareOf(m, aw[i])
    PROVE  HallShare(m, new) = HallShare(m, aw)
<1>1. [i \in DOMAIN new |-> ShareOf(m, new[i])] = [i \in DOMAIN aw |-> ShareOf(m, aw[i])]
    OBVIOUS
<1> QED BY <1>1 DEF HallShare

\* Offers that are added move nothing.
LEMMA HallShareOffers ==
    ASSUME NEW m, NEW aw \in Seq(Award), NEW next \in Seq(Award), Offers(next)
    PROVE  HallShare(m, aw \o next) = HallShare(m, aw)
<1> DEFINE all == aw \o next
           D == DOMAIN aw
           E == (DOMAIN all) \ D
           f == [i \in DOMAIN all |-> ShareOf(m, all[i])]
           g == [i \in D |-> ShareOf(m, aw[i])]
<1>1. /\ all \in Seq(Award) /\ D \subseteq DOMAIN all
      /\ \A i \in D : all[i] = aw[i]
      /\ \A i \in E : all[i].st = "OFFERED"
    <2>1. /\ all \in Seq(Award) /\ Len(all) = Len(aw) + Len(next)
          /\ \A i \in 1 .. Len(all) : all[i] = IF i <= Len(aw) THEN aw[i] ELSE next[i - Len(aw)]
        OBVIOUS
    <2>2. DOMAIN all = 1 .. Len(all) /\ D = 1 .. Len(aw) /\ DOMAIN next = 1 .. Len(next)
          /\ Len(aw) \in Nat /\ Len(next) \in Nat
        BY <2>1
    <2> HIDE DEF all, D
    <2>3. \A i \in E : i - Len(aw) \in DOMAIN next /\ all[i] = next[i - Len(aw)]
        BY <2>1, <2>2
    <2> QED BY <2>1, <2>2, <2>3 DEF Offers, D
<1>2. IsFiniteSet(D) /\ IsFiniteSet(E) /\ D \cup E = DOMAIN all /\ D \cap E = {}
    <2>1. IsFiniteSet(DOMAIN all)
        BY <1>1, IndicesFinite
    <2> HIDE DEF all
    <2> QED BY <1>1, <2>1, FS_Subset
<1>3. /\ \A i \in D \cup E : f[i] \in Int
      /\ \A i \in D : f[i] = g[i]
      /\ \A i \in E : f[i] = 0
    <2>1. \A i \in D \cup E : f[i] = ShareOf(m, all[i]) /\ all[i] \in Award
        BY <1>1, <1>2
    <2>2. \A i \in D : g[i] = ShareOf(m, aw[i])
        OBVIOUS
    <2> HIDE DEF all, f, g, D, E
    <2>3. \A i \in D \cup E : f[i] \in Int
        BY <2>1, ShareInt
    <2>4. \A i \in D : f[i] = g[i]
        BY <1>1, <2>1, <2>2
    <2>5. \A i \in E : f[i] = 0
        BY <1>1, <2>1 DEF ShareOf
    <2> QED BY <2>3, <2>4, <2>5
<1> HIDE DEF all, D, E, f, g
<1>4. /\ SumFunctionOnSet(f, D \cup E) = SumFunctionOnSet(f, D) + SumFunctionOnSet(f, E)
      /\ SumFunctionOnSet(f, E) = 0 /\ SumFunctionOnSet(f, D) = SumFunctionOnSet(g, D)
      /\ SumFunctionOnSet(f, D) \in Int
    <2>1. SumFunctionOnSet(f, D \cup E) = SumFunctionOnSet(f, D) + SumFunctionOnSet(f, E)
        BY <1>2, <1>3, SumUnion
    <2>2. SumFunctionOnSet(f, E) = 0
        BY <1>2, <1>3, SumOfZeros
    <2>3. SumFunctionOnSet(f, D) = SumFunctionOnSet(g, D)
        BY <1>2, <1>3, SumSame
    <2>4. SumFunctionOnSet(f, D) \in Int
        BY <1>2, <1>3, SumInt
    <2> QED BY <2>1, <2>2, <2>3, <2>4
<1>5. SumFunctionOnSet(f, DOMAIN all) = SumFunctionOnSet(g, D)
    BY <1>2, <1>4
<1> QED BY <1>5 DEF HallShare, f, g, all, D

\* One offer is paid: its winner's share grows by what is booked.
LEMMA HallShareOne ==
    ASSUME NEW m, NEW aw \in Seq(Award), NEW new \in Seq(Award), NEW i \in DOMAIN aw,
           DOMAIN new = DOMAIN aw, \A j \in (DOMAIN aw) \ {i} : new[j] = aw[j],
           aw[i].st = "OFFERED", new[i].st = "PAID", new[i].user = aw[i].user
    PROVE  HallShare(m, new) = HallShare(m, aw) + (IF m = aw[i].user THEN Booked(new[i]) ELSE 0)
<1> DEFINE f == [j \in DOMAIN aw |-> ShareOf(m, aw[j])]
           g == [j \in DOMAIN aw |-> ShareOf(m, new[j])]
           D == DOMAIN aw
<1>1. \A j \in D : aw[j] \in Award /\ new[j] \in Award
    OBVIOUS
<1>2. IsFiniteSet(D) /\ i \in D
    BY HallShareInt
<1>3. /\ \A j \in D : f[j] \in Int
      /\ g[i] \in Int /\ \A j \in D \ {i} : g[j] = f[j]
      /\ f[i] = 0 /\ g[i] = IF m = aw[i].user THEN Booked(new[i]) ELSE 0
    BY <1>1, ShareInt DEF ShareOf
<1>4. HallShare(m, aw) = SumFunctionOnSet(f, D) /\ HallShare(m, new) = SumFunctionOnSet(g, D)
    BY DEF HallShare
<1> HIDE DEF f, g, D
<1>5. SumFunctionOnSet(g, D) = SumFunctionOnSet(f, D) + (g[i] - f[i])
    BY <1>2, <1>3, SumChange
<1>6. SumFunctionOnSet(f, D) \in Int
    BY <1>2, <1>3, SumInt
<1> QED BY <1>3, <1>4, <1>5, <1>6

LEMMA PurseInt ==
    ASSUME NEW aws \in [Halls -> Seq(Award)], NEW ps, NEW m
    PROVE  /\ \A h \in Halls : Purse(aws, ps, m)[h] \in Int /\ HallShare(m, aws[h]) \in Int
                               /\ SpentIn(ps, m, h) \in Int
           /\ SumFunctionOnSet(Purse(aws, ps, m), Halls) \in Int
<1>1. \A h \in Halls : HallShare(m, aws[h]) \in Int /\ SpentIn(ps, m, h) \in Int
    BY HallShareInt, MoneyAssumption DEF SpentIn
<1>2. \A h \in Halls : Purse(aws, ps, m)[h] \in Int
    BY <1>1 DEF Purse
<1> QED BY <1>1, <1>2, SumInt, HallAssumption

\* The total changes with the one hall where it changes.
LEMMA PurseChanges ==
    ASSUME NEW aws \in [Halls -> Seq(Award)], NEW aws2 \in [Halls -> Seq(Award)],
           NEW ps, NEW ps2, NEW m, NEW h \in Halls,
           \A g \in Halls \ {h} : /\ HallShare(m, aws2[g]) = HallShare(m, aws[g])
                                  /\ SpentIn(ps2, m, g) = SpentIn(ps, m, g)
    PROVE  SumFunctionOnSet(Purse(aws2, ps2, m), Halls)
               = SumFunctionOnSet(Purse(aws, ps, m), Halls)
                 + (Purse(aws2, ps2, m)[h] - Purse(aws, ps, m)[h])
<1> DEFINE f == Purse(aws, ps, m)
           g == Purse(aws2, ps2, m)
<1>1. (\A x \in Halls : f[x] \in Int) /\ (\A x \in Halls : g[x] \in Int) /\ IsFiniteSet(Halls)
    BY PurseInt, HallAssumption
<1>2. \A x \in Halls \ {h} : g[x] = f[x]
    BY DEF Purse
<1> HIDE DEF f, g
<1>3. SumFunctionOnSet(g, Halls) = SumFunctionOnSet(f, Halls) + (g[h] - f[h])
    BY <1>1, <1>2, SumChange
<1> QED BY <1>3 DEF f, g

\* Nothing moves on the wallets of a hall whose shares stay as they are.
LEMMA PurseSame ==
    ASSUME NEW aws, NEW aws2, NEW ps, NEW m,
           \A h \in Halls : HallShare(m, aws2[h]) = HallShare(m, aws[h])
    PROVE  Purse(aws2, ps, m) = Purse(aws, ps, m)
BY DEF Purse

\* A wallet pays for a pass.
LEMMA PurseBuys ==
    ASSUME Inv, WalletInv, NEW u \in Members, NEW h \in Halls, <<u, h>> \notin passes,
           passes' = passes \cup {<<u, h>>}, UNCHANGED awards,
           usdt' = [usdt EXCEPT ![u] = @ - (IF h \in Series THEN Pack ELSE Entry)]
    PROVE  PursesMatch'
<1> DEFINE cost == IF h \in Series THEN Pack ELSE Entry
<1>1. cost \in Int /\ -cost \in Int /\ awards \in [Halls -> Seq(Award)]
    BY MoneyAssumption DEF Inv, TypeInv
<1>2. usdt \in [Members -> Nat] /\ Funds \in [Members -> Nat] /\ PursesMatch
    BY MoneyAssumption DEF WalletInv
<1>3. /\ SpentIn(passes, u, h) = 0 /\ SpentIn(passes', u, h) = cost
      /\ \A m \in Members, g \in Halls :
            m # u \/ g # h => SpentIn(passes', m, g) = SpentIn(passes, m, g)
    BY DEF SpentIn
<1>4. usdt' = [usdt EXCEPT ![u] = @ - cost]
    OBVIOUS
<1> HIDE DEF cost
<1>5. ASSUME NEW m \in Members
      PROVE  usdt'[m] = Funds[m] + SumFunctionOnSet(Purse(awards', passes', m), Halls)
    <2> DEFINE d == IF m = u THEN -cost ELSE 0
    <2>1. d \in Int /\ usdt'[m] = usdt[m] + d
        BY <1>1, <1>2, <1>4
    <2>2. /\ HallShare(m, awards[h]) \in Int /\ SpentIn(passes, m, h) \in Int
          /\ SumFunctionOnSet(Purse(awards, passes, m), Halls) \in Int
        BY <1>1, PurseInt
    <2>3. SpentIn(passes', m, h) = SpentIn(passes, m, h) - d
        <3>1. CASE m = u
            BY <1>1, <1>3, <3>1
        <3>2. CASE m # u
            <4>1. SpentIn(passes', m, h) = SpentIn(passes, m, h)
                BY <1>3, <3>2
            <4>2. d = 0
                BY <3>2
            <4> HIDE DEF d
            <4> QED BY <2>2, <4>1, <4>2
        <3> QED BY <3>1, <3>2
    <2> HIDE DEF d
    <2>4. Purse(awards, passes', m)[h] - Purse(awards, passes, m)[h] = d
        BY <2>1, <2>2, <2>3 DEF Purse
    <2>5. \A g \in Halls \ {h} : SpentIn(passes', m, g) = SpentIn(passes, m, g)
        BY <1>3
    <2>6. SumFunctionOnSet(Purse(awards, passes', m), Halls)
              = SumFunctionOnSet(Purse(awards, passes, m), Halls) + d
        <3>1. PICK ps2 : ps2 = passes'
            OBVIOUS
        <3>2. SumFunctionOnSet(Purse(awards, ps2, m), Halls)
                  = SumFunctionOnSet(Purse(awards, passes, m), Halls)
                    + (Purse(awards, ps2, m)[h] - Purse(awards, passes, m)[h])
            BY ONLY <1>1, <2>5, <3>1, h \in Halls, PurseChanges
        <3> QED BY <2>4, <3>1, <3>2
    <2>7. usdt[m] = Funds[m] + SumFunctionOnSet(Purse(awards, passes, m), Halls)
        BY <1>2 DEF PursesMatch
    <2>8. Funds[m] \in Int /\ awards' = awards
        BY <1>2
    <2> QED BY <2>1, <2>2, <2>6, <2>7, <2>8
<1> QED BY <1>5 DEF PursesMatch

\* A winner's wallet gets what his award books.
LEMMA PursePaid ==
    ASSUME Inv, WalletInv, NEW u \in Members, NEW h \in Halls, NEW d \in Int,
           NEW aw \in Seq(Award), awards' = [awards EXCEPT ![h] = aw], UNCHANGED passes,
           usdt' = [usdt EXCEPT ![u] = @ + d],
           \A m \in Members :
              HallShare(m, aw) = HallShare(m, awards[h]) + (IF m = u THEN d ELSE 0)
    PROVE  PursesMatch'
<1>1. awards \in [Halls -> Seq(Award)] /\ awards' \in [Halls -> Seq(Award)]
    BY DEF Inv, TypeInv
<1>2. usdt \in [Members -> Nat] /\ Funds \in [Members -> Nat] /\ PursesMatch
    BY MoneyAssumption DEF WalletInv
<1>3. awards'[h] = aw /\ \A g \in Halls \ {h} : awards'[g] = awards[g]
    BY <1>1
<1>4. ASSUME NEW m \in Members
      PROVE  usdt'[m] = Funds[m] + SumFunctionOnSet(Purse(awards', passes', m), Halls)
    <2> DEFINE e == IF m = u THEN d ELSE 0
    <2>1. e \in Int /\ usdt'[m] = usdt[m] + e
        BY <1>2
    <2>2. /\ HallShare(m, awards[h]) \in Int /\ SpentIn(passes, m, h) \in Int
          /\ SumFunctionOnSet(Purse(awards, passes, m), Halls) \in Int
        BY <1>1, PurseInt
    <2>3. HallShare(m, awards'[h]) = HallShare(m, awards[h]) + e
        BY <1>3
    <2> HIDE DEF e
    <2>4. Purse(awards', passes, m)[h] - Purse(awards, passes, m)[h] = e
        BY <2>1, <2>2, <2>3 DEF Purse
    <2>5. \A g \in Halls \ {h} : HallShare(m, awards'[g]) = HallShare(m, awards[g])
        BY <1>3
    <2>6. SumFunctionOnSet(Purse(awards', passes, m), Halls)
              = SumFunctionOnSet(Purse(awards, passes, m), Halls) + e
        <3>1. PICK aws2 : aws2 = awards'
            OBVIOUS
        <3>2. aws2 \in [Halls -> Seq(Award)] /\ awards \in [Halls -> Seq(Award)]
            BY <1>1, <3>1
        <3> DEFINE f == Purse(awards, passes, m)
                   g == Purse(aws2, passes, m)
        <3>3. /\ \A x \in Halls : f[x] \in Int
              /\ \A x \in Halls : g[x] \in Int
              /\ IsFiniteSet(Halls)
            BY <3>2, PurseInt, HallAssumption
        <3>4. \A x \in Halls \ {h} : g[x] = f[x]
            BY <2>5, <3>1 DEF Purse
        <3>5. g[h] - f[h] = e
            BY <2>4, <3>1
        <3> HIDE DEF f, g
        <3>6. SumFunctionOnSet(g, Halls) = SumFunctionOnSet(f, Halls) + (g[h] - f[h])
            BY ONLY <3>3, <3>4, h \in Halls, SumChange
        <3> QED BY <3>1, <3>5, <3>6 DEF f, g
    <2>7. usdt[m] = Funds[m] + SumFunctionOnSet(Purse(awards, passes, m), Halls)
        BY <1>2 DEF PursesMatch
    <2>8. Funds[m] \in Int
        BY <1>2
    <2> QED BY <2>1, <2>2, <2>6, <2>7, <2>8
<1> QED BY <1>4 DEF PursesMatch

\* What is left of the invariant when no member enters a hall.
LEMMA WalletFrame ==
    ASSUME Inv, History, WalletInv, UNCHANGED <<bids, passes, credits>>,
           left' \in [Halls -> Nat], resetting' \subseteq Halls, usdt' \in [Members -> Nat],
           PursesMatch', Unconfirmed',
           \/ tx' = None
           \/ tx' = tx /\ \A m \in Members : usdt[m] <= usdt'[m]
           \/ ClaimReads'
    PROVE  WalletInv'
<1>1. EntryPaid'
    BY DEF WalletInv, EntryPaid, Entered
<1>2. ASSUME tx' = tx, tx # None, tx.won # 0, \A m \in Members : usdt[m] <= usdt'[m]
      PROVE  ClaimReads'
    <2>1. /\ tx \in Transaction /\ tx.hall \in Halls /\ Reads(tx, awards[tx.hall])
          /\ tx.aw \in Seq(Award) /\ awards[tx.hall] \in Seq(Award)
        BY <1>2, TxType DEF Inv, TypeInv, Snapshot
    <2>2. tx.won \in DOMAIN awards[tx.hall] /\ tx.won \in DOMAIN tx.aw
        BY <1>2, <2>1 DEF Reads
    <2>3. /\ tx.aw[tx.won].user \in Members /\ tx.aw[tx.won].prize \in Nat
          /\ tx.aw[tx.won].cents \in Nat
        <3>1. PICK a : a = tx.aw[tx.won]
            OBVIOUS
        <3>2. a \in Award
            BY <2>1, <2>2, <3>1
        <3> QED BY <3>1, <3>2, ShareInt
    <2>4. awards'[tx.hall][tx.won].cents = awards[tx.hall][tx.won].cents
        BY <2>1, <2>2 DEF History, RowsKept
    <2>5. /\ usdt[tx.aw[tx.won].user] \in Nat /\ usdt'[tx.aw[tx.won].user] \in Nat
          /\ usdt[tx.aw[tx.won].user] <= usdt'[tx.aw[tx.won].user]
        BY <1>2, <2>3 DEF WalletInv
    <2>6. /\ tx.aw[tx.won].cents = awards[tx.hall][tx.won].cents
          /\ tx.aw[tx.won].cents <= usdt[tx.aw[tx.won].user] + tx.aw[tx.won].prize
        BY <1>2 DEF WalletInv, ClaimReads
    <2>7. tx.aw[tx.won].cents <= usdt'[tx.aw[tx.won].user] + tx.aw[tx.won].prize
        BY <2>3, <2>5, <2>6
    <2> QED BY <1>2, <2>4, <2>6, <2>7 DEF ClaimReads
<1>3. ClaimReads'
    BY <1>2 DEF ClaimReads
<1> QED BY <1>1, <1>3 DEF WalletInv

LEMMA LeftMoves ==
    ASSUME left \in [Halls -> Nat], NEW h, NEW st, NEW aw, NEW live,
           CloseIfFinished(h, st, aw, live)
    PROVE  left' \in [Halls -> Nat]
<1>1. CASE ~Finished(aw)
    BY <1>1 DEF CloseIfFinished
<1>2. CASE Finished(aw)
    <2> DEFINE next == {n \in Series : OpensNext(h, live, n)}
    <2>1. left' = [g \in Halls |-> IF g \in next THEN Counter[g] ELSE left[g]]
        BY <1>2 DEF CloseIfFinished
    <2> HIDE DEF next
    <2> QED BY <2>1, HallAssumption
<1> QED BY <1>1, <1>2

\* Steps that move no money.
LEMMA QuietWallets ==
    ASSUME Inv, Inv', History, WalletInv, UNCHANGED <<bids, passes, credits, usdt>>,
           left' \in [Halls -> Nat], resetting' \subseteq Halls, Unconfirmed',
           \A m \in Members, h \in Halls : HallShare(m, awards'[h]) = HallShare(m, awards[h]),
           tx' = tx \/ tx' = None \/ ClaimReads'
    PROVE  WalletInv'
<1>1. usdt \in [Members -> Nat] /\ PursesMatch
    BY DEF WalletInv
<1>2. \A m \in Members : Purse(awards', passes, m) = Purse(awards, passes, m)
    BY PurseSame
<1>3. PursesMatch'
    BY <1>1, <1>2 DEF PursesMatch
<1>4. \A m \in Members : usdt[m] <= usdt'[m]
    BY <1>1
<1>5. \/ tx' = None
      \/ tx' = tx /\ \A m \in Members : usdt[m] <= usdt'[m]
      \/ ClaimReads'
    BY <1>4
<1>6. usdt' \in [Members -> Nat]
    BY <1>1
<1> QED BY <1>3, <1>5, <1>6, WalletFrame

-----------------------------------------------------------------------------
(* Entering a hall.                                                        *)

LEMMA BuyWallets ==
    ASSUME Inv, Inv', WalletInv, NEW u \in Members, NEW h \in Halls, PurchaseHallPack(u, h)
    PROVE  WalletInv'
<1>1. /\ <<u, h>> \notin passes /\ passes' = passes \cup {<<u, h>>} /\ h \in Series
      /\ usdt' = [usdt EXCEPT ![u] = @ - Pack] /\ usdt[u] >= Pack /\ tx = None
      /\ UNCHANGED <<left, bids, awards, credits, tx, resetting>>
    BY DEF PurchaseHallPack, hallVars
<1>2. PursesMatch'
    BY <1>1, PurseBuys
<1>3. usdt' \in [Members -> Nat]
    <2>1. usdt \in [Members -> Nat] /\ Pack \in Nat
        BY MoneyAssumption DEF WalletInv
    <2> QED BY <1>1, <2>1
<1>4. EntryPaid'
    <2> DEFINE old(m) == {g \in Series : Entered(m, g) /\ <<m, g>> \notin passes}
               new(m) == {g \in Series : Entered(m, g) /\ <<m, g>> \notin passes'}
    <2>1. \A m \in Members : Cardinality(new(m)) <= Credits[m] - credits[m]
        <3> TAKE m \in Members
        <3>1. new(m) \subseteq old(m) /\ old(m) \subseteq Halls
            BY <1>1, HallAssumption
        <3>2. Cardinality(old(m)) <= Credits[m] - credits[m]
            BY DEF WalletInv, EntryPaid
        <3>3. Credits[m] \in Nat /\ credits[m] \in Nat
            BY MoneyAssumption DEF WalletInv
        <3> HIDE DEF old, new
        <3>4. IsFiniteSet(old(m))
            BY <3>1, HallAssumption, FS_Subset
        <3>5. Cardinality(new(m)) <= Cardinality(old(m)) /\ Cardinality(new(m)) \in Nat
              /\ Cardinality(old(m)) \in Nat
            BY <3>1, <3>4, FS_Subset, FS_CardinalityType
        <3> QED BY <3>2, <3>3, <3>5
    <2>2. \A m, g : Entered(m, g)' <=> Entered(m, g)
        BY <1>1 DEF Entered
    <2>3. \A m \in Members, g \in Halls \ Series :
              Entry > 0 /\ Entered(m, g) => <<m, g>> \in passes'
        BY <1>1 DEF WalletInv, EntryPaid
    <2> QED BY <1>1, <2>1, <2>2, <2>3 DEF EntryPaid
<1>5. Unconfirmed' /\ ClaimReads'
    BY <1>1 DEF WalletInv, Unconfirmed, ClaimReads
<1> QED BY <1>1, <1>2, <1>3, <1>4, <1>5 DEF WalletInv

\* A bid enters its member in its hall.
LEMMA BidEnters ==
    ASSUME Inv, NEW u \in Members, NEW h \in Halls, NEW c \in Cents, PlaceBid(u, h, c)
    PROVE  \A m \in Members, g \in Halls :
              Entered(m, g)' <=> Entered(m, g) \/ (m = u /\ g = h)
<1> DEFINE b == bids[h]
           row == [user |-> u, cents |-> c]
<1>1. bids \in [Halls -> Seq(Bid)] /\ b \in Seq(Bid)
    BY DEF Inv, TypeInv
<1>2. bids' = [bids EXCEPT ![h] = Append(b, row)]
    BY DEF PlaceBid
<1>3. \A g \in Halls \ {h} : bids'[g] = bids[g]
    BY <1>1, <1>2
<1>4. bids'[h] = Append(b, row)
    BY <1>1, <1>2
<1>5. row.user = u
    OBVIOUS
<1> HIDE DEF row
<1>6. /\ Len(b) \in Nat /\ DOMAIN b = 1 .. Len(b) /\ DOMAIN bids'[h] = 1 .. Len(b) + 1
      /\ \A i \in 1 .. Len(b) : bids'[h][i] = b[i]
      /\ bids'[h][Len(b) + 1] = row
    BY <1>1, <1>4
<1>7. \A m \in Members : Entered(m, h)' <=> Entered(m, h) \/ m = u
    <2> TAKE m \in Members
    <2>1. ASSUME NEW i \in DOMAIN bids'[h], bids'[h][i].user = m
          PROVE  Entered(m, h) \/ m = u
        <3>1. CASE i = Len(b) + 1
            BY <1>5, <1>6, <2>1, <3>1
        <3>2. CASE i # Len(b) + 1
            <4>1. i \in DOMAIN b /\ bids'[h][i] = b[i]
                BY <1>6, <3>2
            <4> QED BY <2>1, <4>1 DEF Entered
        <3> QED BY <3>1, <3>2
    <2>2. ASSUME NEW i \in DOMAIN b, b[i].user = m
          PROVE  \E j \in DOMAIN bids'[h] : bids'[h][j].user = m
        <3>1. i \in DOMAIN bids'[h] /\ bids'[h][i] = b[i]
            BY <1>6
        <3> QED BY <2>2, <3>1
    <2>3. \E j \in DOMAIN bids'[h] : bids'[h][j].user = u
        <3>1. Len(b) + 1 \in DOMAIN bids'[h] /\ bids'[h][Len(b) + 1].user = u
            BY <1>5, <1>6
        <3> QED BY <3>1
    <2> HIDE DEF b
    <2> QED BY <2>1, <2>2, <2>3 DEF Entered, b
<1>8. \A m \in Members, g \in Halls : g # h => (Entered(m, g)' <=> Entered(m, g))
    BY <1>3 DEF Entered
<1> QED BY <1>7, <1>8

LEMMA BidPays ==
    ASSUME Inv, WalletInv, NEW u \in Members, NEW h \in Halls, NEW c \in Cents,
           PlaceBid(u, h, c)
    PROVE  EntryPaid'
<1> DEFINE in(m, g) == Entered(m, g) \/ (m = u /\ g = h)
           old(m) == {g \in Series : Entered(m, g) /\ <<m, g>> \notin passes}
           new(m) == {g \in Series : in(m, g) /\ <<m, g>> \notin passes'}
<1>1. \A m \in Members, g \in Halls : Entered(m, g)' <=> in(m, g)
    BY BidEnters
<1>2. Credits \in [Members -> Nat] /\ credits \in [Members -> Nat] /\ Entry \in Nat
      /\ Series \subseteq Halls /\ IsFiniteSet(Halls)
    BY MoneyAssumption, HallAssumption DEF WalletInv
<1>3. /\ \A m \in Members : Cardinality(old(m)) <= Credits[m] - credits[m]
      /\ \A m \in Members, g \in Halls \ Series :
            Entry > 0 /\ Entered(m, g) => <<m, g>> \in passes
    BY DEF WalletInv, EntryPaid
<1>4. ASSUME NEW m \in Members, new(m) \subseteq old(m), credits'[m] = credits[m]
      PROVE  Cardinality(new(m)) <= Credits[m] - credits'[m]
    <2>1. old(m) \subseteq Halls
        BY <1>2
    <2>2. Cardinality(old(m)) <= Credits[m] - credits[m]
        BY <1>3
    <2>3. Credits[m] \in Nat /\ credits[m] \in Nat
        BY <1>2
    <2> HIDE DEF old, new
    <2>4. IsFiniteSet(old(m))
        BY <1>2, <2>1, FS_Subset
    <2>5. Cardinality(new(m)) <= Cardinality(old(m)) /\ Cardinality(new(m)) \in Nat
          /\ Cardinality(old(m)) \in Nat
        BY <1>4, <2>4, FS_Subset, FS_CardinalityType
    <2> QED BY <1>4, <2>2, <2>3, <2>5
<1>5. CASE EnterHall(u, h)
    <2>1. h \in Series /\ UNCHANGED <<passes, usdt>>
        BY <1>5 DEF EnterHall
    <2>2. \A m \in Members, g \in Halls \ Series :
              Entry > 0 /\ in(m, g) => <<m, g>> \in passes'
        BY <1>3, <2>1
    <2>3. ASSUME NEW m \in Members
          PROVE  Cardinality(new(m)) <= Credits[m] - credits'[m]
        <3>1. CASE (Entered(u, h) \/ <<u, h>> \in passes) /\ UNCHANGED credits
            <4>1. new(m) \subseteq old(m)
                BY <2>1, <3>1
            <4> QED BY <1>4, <3>1, <4>1
        <3>2. CASE credits[u] > 0 /\ credits' = [credits EXCEPT ![u] = @ - 1] /\ m # u
            <4>1. new(m) \subseteq old(m) /\ credits'[m] = credits[m]
                BY <1>2, <2>1, <3>2
            <4> QED BY <1>4, <4>1
        <3>3. CASE credits[u] > 0 /\ credits' = [credits EXCEPT ![u] = @ - 1] /\ m = u
            <4>1. new(m) \subseteq old(m) \cup {h} /\ old(m) \subseteq Halls
                BY <1>2, <2>1
            <4>2. credits'[m] = credits[m] - 1 /\ credits[m] \in Nat /\ Credits[m] \in Nat
                BY <1>2, <3>3
            <4>3. Cardinality(old(m)) <= Credits[m] - credits[m]
                BY <1>3
            <4> HIDE DEF old, new
            <4>4. IsFiniteSet(old(m))
                BY <1>2, <4>1, FS_Subset
            <4>5. /\ IsFiniteSet(old(m) \cup {h})
                  /\ Cardinality(old(m) \cup {h}) <= Cardinality(old(m)) + 1
                  /\ Cardinality(old(m)) \in Nat /\ Cardinality(old(m) \cup {h}) \in Nat
                <5>1. IsFiniteSet(old(m) \cup {h})
                    BY <4>4, FS_AddElement
                <5>2. Cardinality(old(m)) \in Nat /\ Cardinality(old(m) \cup {h}) \in Nat
                    BY <4>4, <5>1, FS_CardinalityType
                <5>3. \/ Cardinality(old(m) \cup {h}) = Cardinality(old(m))
                      \/ Cardinality(old(m) \cup {h}) = Cardinality(old(m)) + 1
                    BY <4>4, FS_AddElement
                <5> QED BY <5>1, <5>2, <5>3
            <4>6. Cardinality(new(m)) <= Cardinality(old(m) \cup {h}) /\ Cardinality(new(m)) \in Nat
                BY <4>1, <4>5, FS_Subset, FS_CardinalityType
            <4> QED BY <4>2, <4>3, <4>5, <4>6
        <3> QED BY <1>5, <3>1, <3>2, <3>3 DEF EnterHall
    <2> HIDE DEF new
    <2> QED BY <1>1, <1>2, <2>2, <2>3 DEF EntryPaid, new
<1>6. CASE EnterRoom(u, h)
    <2>1. h \notin Series /\ UNCHANGED credits /\ passes \subseteq passes'
          /\ (Entry = 0 \/ <<u, h>> \in passes')
        BY <1>2, <1>6 DEF EnterRoom
    <2>2. \A m \in Members, g \in Halls \ Series :
              Entry > 0 /\ in(m, g) => <<m, g>> \in passes'
        BY <1>2, <1>3, <2>1
    <2>3. ASSUME NEW m \in Members
          PROVE  Cardinality(new(m)) <= Credits[m] - credits'[m]
        <3>1. new(m) \subseteq old(m)
            BY <2>1
        <3> QED BY <1>4, <2>1, <3>1
    <2> HIDE DEF new
    <2> QED BY <1>1, <1>2, <2>2, <2>3 DEF EntryPaid, new
<1> QED BY <1>5, <1>6 DEF PlaceBid

LEMMA BidWallets ==
    ASSUME Inv, Inv', WalletInv, NEW u \in Members, NEW h \in Halls, NEW c \in Cents,
           PlaceBid(u, h, c)
    PROVE  WalletInv'
<1>1. tx = None /\ Accepting(h) /\ left' = [left EXCEPT ![h] = @ - 1]
      /\ UNCHANGED <<awards, tx, resetting>>
    BY DEF PlaceBid
<1>2. usdt \in [Members -> Nat] /\ credits \in [Members -> Nat] /\ left \in [Halls -> Nat]
      /\ passes \subseteq Members \X Halls /\ Entry \in Nat
    BY MoneyAssumption DEF WalletInv
<1>3. left' \in [Halls -> Nat]
    BY <1>1, <1>2 DEF Accepting
<1>4. EntryPaid'
    BY BidPays
<1>5. credits' \in [Members -> Nat]
    BY <1>2 DEF PlaceBid, EnterHall, EnterRoom
<1>6. CASE UNCHANGED <<passes, usdt>>
    <2>1. PursesMatch'
        BY <1>1, <1>6 DEF WalletInv, PursesMatch
    <2>2. Unconfirmed' /\ ClaimReads'
        BY <1>1, <1>6 DEF WalletInv, Unconfirmed, ClaimReads
    <2> QED BY <1>1, <1>2, <1>3, <1>4, <1>5, <1>6, <2>1, <2>2 DEF WalletInv
<1>7. CASE /\ h \notin Series /\ <<u, h>> \notin passes /\ usdt[u] >= Entry
           /\ usdt' = [usdt EXCEPT ![u] = @ - Entry] /\ passes' = passes \cup {<<u, h>>}
    <2>1. PursesMatch'
        BY <1>1, <1>7, PurseBuys
    <2>2. usdt' \in [Members -> Nat]
        BY <1>2, <1>7
    <2>3. Unconfirmed' /\ ClaimReads'
        BY <1>1 DEF WalletInv, Unconfirmed, ClaimReads
    <2> QED BY <1>1, <1>2, <1>3, <1>4, <1>5, <1>7, <2>1, <2>2, <2>3 DEF WalletInv
<1> QED BY <1>6, <1>7 DEF PlaceBid, EnterHall, EnterRoom

-----------------------------------------------------------------------------
(* Offers and payments.                                                    *)

\* Rows of one hall rewritten so that they move what they moved before.
LEMMA HallQuiet ==
    ASSUME Inv, Inv', History, WalletInv, UNCHANGED <<bids, passes, credits, usdt, resetting>>,
           left' \in [Halls -> Nat], tx' = tx \/ tx' = None,
           NEW h \in Halls, NEW aw, awards' = [awards EXCEPT ![h] = aw],
           \A m \in Members : HallShare(m, aw) = HallShare(m, awards[h]),
           \A i \in DOMAIN aw : aw[i].st = "OFFERED" => aw[i].pay # "CONFIRMED"
    PROVE  WalletInv'
<1>1. awards'[h] = aw /\ \A g \in Halls : g # h => awards'[g] = awards[g]
    BY DEF Inv, TypeInv
<1>2. Unconfirmed'
    BY <1>1 DEF WalletInv, Unconfirmed
<1>3. \A m \in Members, g \in Halls : HallShare(m, awards'[g]) = HallShare(m, awards[g])
    BY <1>1
<1>4. resetting' \subseteq Halls
    BY DEF WalletInv
<1> QED BY <1>2, <1>3, <1>4, QuietWallets

\* Rows that are offered or lapse move nothing.
LEMMA SameShare ==
    ASSUME NEW m, NEW a, NEW b, a.user = b.user, a.prize = b.prize, a.cents = b.cents,
           a.st = "PAID" <=> b.st = "PAID", a.st = "PAID" => a.pay = b.pay
    PROVE  ShareOf(m, a) = ShareOf(m, b)
BY DEF ShareOf, Booked

LEMMA IntentWallets ==
    ASSUME Inv, Inv', History, WalletInv, NEW h \in Halls, NEW i \in DOMAIN awards[h],
           PaymentIntent(h, i)
    PROVE  WalletInv'
<1> DEFINE aw == awards[h]
           new == [aw EXCEPT ![i].pay = "PENDING"]
<1>1. /\ awards' = [awards EXCEPT ![h] = new] /\ aw[i].st = "OFFERED"
      /\ UNCHANGED <<left, bids, passes, credits, usdt, tx, resetting>>
    BY DEF PaymentIntent, Open, memberVars
<1>2. aw \in Seq(Award) /\ i \in DOMAIN aw
    BY HasAwards
<1>3. \A j \in DOMAIN aw : aw[j].st = "OFFERED" => aw[j].pay # "CONFIRMED"
    BY DEF WalletInv, Unconfirmed
<1> HIDE DEF aw
<1>4. aw[i] \in Award
    BY <1>2
<1>5. DOMAIN new = DOMAIN aw
    OBVIOUS
<1>6. \A j \in DOMAIN aw \ {i} : new[j] = aw[j]
    BY <1>2
<1>7. new[i] = [aw[i] EXCEPT !.pay = "PENDING"]
    BY <1>2
<1>8. /\ new[i].user = aw[i].user /\ new[i].prize = aw[i].prize /\ new[i].cents = aw[i].cents
      /\ new[i].st = aw[i].st /\ new[i].pay = "PENDING"
    BY <1>4, <1>7 DEF Award
<1> HIDE DEF new
<1>9. \A m, j \in DOMAIN aw : ShareOf(m, new[j]) = ShareOf(m, aw[j])
    BY <1>1, <1>6, <1>8 DEF ShareOf
<1>10. \A j \in DOMAIN new : new[j].st = "OFFERED" => new[j].pay # "CONFIRMED"
    BY <1>3, <1>5, <1>6, <1>8
<1>11. \A m \in Members : HallShare(m, new) = HallShare(m, aw)
    <2> TAKE m \in Members
    <2>1. \A j \in DOMAIN aw : ShareOf(m, new[j]) = ShareOf(m, aw[j])
        BY <1>1, <1>6, <1>8 DEF ShareOf
    <2> QED BY <1>5, <2>1, HallShareSame
<1>12. left' \in [Halls -> Nat]
    BY <1>1 DEF WalletInv
<1> QED BY <1>1, <1>10, <1>11, <1>12, HallQuiet DEF aw

LEMMA TickWallets ==
    ASSUME Inv, Inv', History, WalletInv, NEW h \in Halls, Tick(h)
    PROVE  WalletInv'
<1> DEFINE aw == awards[h]
           new == [i \in DOMAIN aw |-> IF aw[i].st = "OFFERED"
                                       THEN [aw[i] EXCEPT !.due = TRUE] ELSE aw[i]]
<1>1. /\ awards' = [awards EXCEPT ![h] = new]
      /\ UNCHANGED <<left, bids, passes, credits, usdt, tx, resetting>>
    BY DEF Tick, memberVars
<1>2. aw \in Seq(Award)
    BY DEF Inv, TypeInv
<1>3. \A j \in DOMAIN aw : aw[j].st = "OFFERED" => aw[j].pay # "CONFIRMED"
    BY DEF WalletInv, Unconfirmed
<1> HIDE DEF aw
<1>4. \A j \in DOMAIN aw : aw[j] \in Award
    BY <1>2
<1>5. DOMAIN new = DOMAIN aw
    OBVIOUS
<1>6. \A j \in DOMAIN aw : /\ new[j].user = aw[j].user /\ new[j].prize = aw[j].prize
                           /\ new[j].cents = aw[j].cents /\ new[j].st = aw[j].st
                           /\ new[j].pay = aw[j].pay
    BY <1>4 DEF Award
<1> HIDE DEF new
<1>7. \A j \in DOMAIN new : new[j].st = "OFFERED" => new[j].pay # "CONFIRMED"
    BY <1>3, <1>5, <1>6
<1>8. \A m \in Members : HallShare(m, new) = HallShare(m, aw)
    <2> TAKE m \in Members
    <2>1. \A j \in DOMAIN aw : ShareOf(m, new[j]) = ShareOf(m, aw[j])
        BY <1>6, SameShare
    <2> QED BY <1>5, <2>1, HallShareSame
<1>9. left' \in [Halls -> Nat]
    BY <1>1 DEF WalletInv
<1> QED BY <1>1, <1>7, <1>8, <1>9, HallQuiet DEF aw

LEMMA OpenWallets ==
    ASSUME Inv, Inv', History, WalletInv, AdvanceOpen
    PROVE  WalletInv'
<1> DEFINE h == tx.hall
           new == FirstOffers(bids[h])
<1>1. h \in Halls /\ awards[h] = <<>> /\ bids[h] \in Seq(Bid)
    BY TxType DEF AdvanceOpen, Advancing, Inv, TypeInv, Stage, Early
<1>2. /\ awards' = [awards EXCEPT ![h] = new]
      /\ CloseIfFinished(h, [status EXCEPT ![h] = "AWAITING"], new, tx.live)
      /\ UNCHANGED <<bids, passes, credits, usdt, resetting>> /\ tx' = None
    BY DEF AdvanceOpen, Done, memberVars
<1>3. new \in Seq(Award)
    BY <1>1, FirstOffersType
<1>4. \A i \in DOMAIN new : new[i].st = "OFFERED" /\ new[i].pay = "NONE"
    BY DEF FirstOffers, Offer
<1> HIDE DEF h, new
<1>5. \A m \in Members : HallShare(m, new) = HallShare(m, awards[h])
    <2> TAKE m \in Members
    <2>1. <<>> \in Seq(Award) /\ <<>> \o new = new
        BY <1>3
    <2>2. Offers(new)
        BY <1>4 DEF Offers
    <2>3. HallShare(m, <<>> \o new) = HallShare(m, <<>>)
        BY <1>3, <2>1, <2>2, HallShareOffers
    <2> QED BY <1>1, <2>1, <2>3
<1>6. left \in [Halls -> Nat]
    BY DEF WalletInv
<1>7. left' \in [Halls -> Nat]
    BY <1>2, <1>6, LeftMoves
<1> QED BY <1>1, <1>2, <1>4, <1>5, <1>7, HallQuiet

LEMMA OffersWallets ==
    ASSUME Inv, Inv', History, WalletInv, AdvanceOffers
    PROVE  WalletInv'
<1> DEFINE h == tx.hall
           aw == awards[h]
           gone == Lapsed(tx.aw)
           next == NextOffers(cands[h], tx.aw)
           marked == Expire(aw, gone)
           new == marked \o next
<1>1. /\ tx \in Transaction /\ h \in Halls /\ tx.aw \in Seq(Award) /\ Reads(tx, aw)
    BY TxType DEF AdvanceOffers, Advancing, Inv, TypeInv, Snapshot
<1>2. aw \in Seq(Award) /\ cands[h] \in Seq(Bid) /\ SharesOf(aw)
    BY <1>1 DEF Inv, TypeInv, Shares
<1>3. /\ awards' = [awards EXCEPT ![h] = new]
      /\ CloseIfFinished(h, status, Expire(tx.aw, gone) \o next, tx.live)
      /\ UNCHANGED <<bids, passes, credits, usdt, resetting>> /\ tx' = None
    BY DEF AdvanceOffers, Done, memberVars
<1>4. left' \in [Halls -> Nat]
    <2>1. left \in [Halls -> Nat]
        BY DEF WalletInv
    <2> QED BY <1>3, <2>1, LeftMoves
<1>5. \A i \in gone : i \in DOMAIN aw => aw[i].st = "OFFERED"
    BY <1>1 DEF Reads, Lapsed
<1>6. next \in Seq(Award) /\ Offers(next)
    <2>1. PICK n \in {1, 2} : Carries(aw, n)
        BY <1>2 DEF SharesOf
    <2>2. Carries(tx.aw, n)
        <3>1. DOMAIN tx.aw = DOMAIN aw
            BY <1>1, <1>2 DEF Reads
        <3> QED BY <1>1, <2>1, <3>1 DEF Reads, Carries
    <2> QED BY <1>1, <1>2, <2>2, NextOffersType
<1>7. \A i \in DOMAIN next : next[i].pay = "NONE"
    BY DEF NextOffers, Offer
<1>8. \A i \in DOMAIN aw : aw[i].st = "OFFERED" => aw[i].pay # "CONFIRMED"
    BY <1>1 DEF WalletInv, Unconfirmed
<1> HIDE DEF h, aw, gone, next
<1>9. ASSUME NEW i \in DOMAIN aw
      PROVE  /\ marked[i] \in Award
             /\ marked[i].user = aw[i].user /\ marked[i].cents = aw[i].cents
             /\ marked[i].prize = aw[i].prize /\ marked[i].pay = aw[i].pay
             /\ marked[i].st = IF i \in gone THEN "EXPIRED" ELSE aw[i].st
    <2>1. aw[i] \in Award
        BY <1>2
    <2>2. [aw[i] EXCEPT !.st = "EXPIRED"] \in Award
        BY <2>1 DEF Award
    <2> QED BY <2>1, <2>2 DEF Award, Expire
<1>10. marked \in Seq(Award) /\ DOMAIN marked = DOMAIN aw
    <2>1. DOMAIN marked = DOMAIN aw
        BY DEF Expire
    <2>2. marked \in [1 .. Len(aw) -> Award] /\ Len(aw) \in Nat
        BY <1>2, <1>9, <2>1 DEF Expire
    <2> QED BY <2>1, <2>2
<1> HIDE DEF marked
<1>11. \A m \in Members : HallShare(m, new) = HallShare(m, aw)
    <2> TAKE m \in Members
    <2>1. \A j \in DOMAIN aw : ShareOf(m, marked[j]) = ShareOf(m, aw[j])
        BY <1>5, <1>9, SameShare
    <2>2. HallShare(m, marked) = HallShare(m, aw)
        BY <1>10, <2>1, HallShareSame
    <2> HIDE DEF new
    <2>3. HallShare(m, marked \o next) = HallShare(m, marked)
        BY <1>6, <1>10, HallShareOffers
    <2> QED BY <2>2, <2>3 DEF new
<1>12. ASSUME NEW i \in DOMAIN new, new[i].st = "OFFERED"
       PROVE  new[i].pay # "CONFIRMED"
    <2>1. /\ DOMAIN new = 1 .. Len(marked) + Len(next)
          /\ DOMAIN marked = 1 .. Len(marked) /\ DOMAIN next = 1 .. Len(next)
          /\ Len(marked) \in Nat /\ Len(next) \in Nat
          /\ new[i] = IF i <= Len(marked) THEN marked[i] ELSE next[i - Len(marked)]
        BY <1>6, <1>10
    <2> HIDE DEF new
    <2>2. CASE i <= Len(marked)
        <3>1. i \in DOMAIN aw /\ new[i] = marked[i]
            BY <1>10, <2>1, <2>2
        <3> QED BY <1>8, <1>9, <1>12, <3>1
    <2>3. CASE i > Len(marked)
        <3>1. i - Len(marked) \in DOMAIN next /\ new[i] = next[i - Len(marked)]
            BY <2>1, <2>3
        <3> QED BY <1>7, <3>1
    <2> QED BY <2>1, <2>2, <2>3
<1> HIDE DEF new
<1> QED BY <1>1, <1>3, <1>4, <1>11, <1>12, HallQuiet DEF aw

LEMMA ConfirmWallets ==
    ASSUME Inv, Inv', History, WalletInv, NEW h \in Halls, NEW i \in DOMAIN awards[h],
           ConfirmPayment(h, i)
    PROVE  WalletInv'
<1> DEFINE aw == awards[h]
           new == [aw EXCEPT ![i].st = "PAID", ![i].pay = "CONFIRMED"]
           u == aw[i].user
           d == aw[i].prize
<1>1. /\ awards' = [awards EXCEPT ![h] = new]
      /\ usdt' = [usdt EXCEPT ![u] = @ + d]
      /\ CloseIfFinished(h, status, new, LiveHalls)
      /\ AbortIf(Finished(new) /\ tx # None /\ tx.hall = h)
      /\ aw[i].st = "OFFERED"
      /\ UNCHANGED <<bids, passes, credits, resetting>>
    BY DEF ConfirmPayment, Open
<1>2. aw \in Seq(Award) /\ i \in DOMAIN aw /\ new = awards'[h] /\ awards' \in [Halls -> Seq(Award)]
    <2>1. awards' \in [Halls -> Seq(Award)] /\ awards \in [Halls -> Seq(Award)]
        BY DEF Inv, TypeInv
    <2> QED BY <1>1, <2>1, HasAwards
<1>3. \A j \in DOMAIN aw : aw[j].st = "OFFERED" => aw[j].pay # "CONFIRMED"
    BY DEF WalletInv, Unconfirmed
<1> HIDE DEF aw
<1>4. aw[i] \in Award /\ u \in Members /\ d \in Nat
    <2>1. aw[i] \in Award
        BY <1>2
    <2> QED BY <2>1, ShareInt
<1>5. new \in Seq(Award) /\ DOMAIN new = DOMAIN aw
    <2>1. DOMAIN new = DOMAIN aw
        OBVIOUS
    <2> HIDE DEF new
    <2> QED BY <1>2, <2>1
<1>6. \A j \in DOMAIN aw \ {i} : new[j] = aw[j]
    BY <1>2
<1>7. /\ new[i].user = u /\ new[i].prize = d
      /\ new[i].st = "PAID" /\ new[i].pay = "CONFIRMED"
    BY <1>2, <1>4 DEF Award
<1> HIDE DEF new, u, d
<1>8. (tx' = tx \/ tx' = None) /\ queue' \subseteq queue
    BY <1>1, AbortEffect
<1>9. Booked(new[i]) = d
    BY <1>4, <1>7 DEF Booked
<1>10. \A m \in Members : HallShare(m, new) = HallShare(m, awards[h]) + (IF m = u THEN d ELSE 0)
    <2> TAKE m \in Members
    <2>1. HallShare(m, new) = HallShare(m, aw) + (IF m = u THEN Booked(new[i]) ELSE 0)
        BY <1>1, <1>2, <1>5, <1>6, <1>7, HallShareOne DEF u
    <2> QED BY <1>9, <2>1 DEF aw
<1>11. PursesMatch'
    <2>1. PICK x \in Members : x = u
        BY <1>4
    <2>2. PICK y \in Int : y = d
        BY <1>4
    <2>3. PICK z \in Seq(Award) : z = new
        BY <1>5
    <2>4. /\ awards' = [awards EXCEPT ![h] = z] /\ usdt' = [usdt EXCEPT ![x] = @ + y]
          /\ UNCHANGED passes
          /\ \A m \in Members :
                HallShare(m, z) = HallShare(m, awards[h]) + (IF m = x THEN y ELSE 0)
        BY <1>1, <1>10, <2>1, <2>2, <2>3
    <2> QED BY <2>4, PursePaid
<1>12. usdt \in [Members -> Nat] /\ left \in [Halls -> Nat] /\ resetting \subseteq Halls
    BY DEF WalletInv
<1>13. usdt' \in [Members -> Nat] /\ \A m \in Members : usdt[m] <= usdt'[m]
    BY <1>1, <1>4, <1>12
<1>14. left' \in [Halls -> Nat] /\ resetting' \subseteq Halls
    BY <1>1, <1>12, LeftMoves
<1>15. Unconfirmed'
    <2>1. \A j \in DOMAIN new : new[j].st = "OFFERED" => new[j].pay # "CONFIRMED"
        BY <1>3, <1>5, <1>6, <1>7
    <2>2. \A g \in Halls : g # h => awards'[g] = awards[g]
        BY <1>1 DEF Inv, TypeInv
    <2> QED BY <1>2, <2>1, <2>2 DEF WalletInv, Unconfirmed
<1> QED BY <1>1, <1>8, <1>11, <1>13, <1>14, <1>15, WalletFrame

LEMMA ClaimWallets ==
    ASSUME Inv, Inv', History, WalletInv, ClaimCommit
    PROVE  WalletInv'
<1> DEFINE h == tx.hall
           i == tx.won
           aw == awards[h]
           a == tx.aw[i]
           new == [aw EXCEPT ![i].st = "PAID"]
           u == aw[i].user
           d == aw[i].prize - aw[i].cents
<1>1. /\ tx \in Transaction /\ h \in Halls /\ i # 0 /\ tx # None /\ Reads(tx, aw)
    BY TxType DEF ClaimCommit, Inv, TypeInv, Snapshot
<1>2. i \in DOMAIN aw /\ aw[i].st = "OFFERED" /\ a.user = u /\ a.prize = aw[i].prize
    BY <1>1 DEF Reads
<1>3. a.cents = aw[i].cents /\ a.cents <= usdt[u] + aw[i].prize
    BY <1>1, <1>2 DEF WalletInv, ClaimReads
<1>4. /\ awards' = [awards EXCEPT ![h] = new]
      /\ usdt' = [usdt EXCEPT ![a.user] = @ + a.prize - a.cents]
      /\ CloseIfFinished(h, status, Paid(tx.aw, i), tx.live) /\ tx' = None
      /\ UNCHANGED <<bids, passes, credits, resetting>>
    BY DEF ClaimCommit, Paid
<1>5. aw \in Seq(Award) /\ awards'[h] = new /\ awards' \in [Halls -> Seq(Award)]
      /\ awards \in [Halls -> Seq(Award)]
    <2>1. awards' \in [Halls -> Seq(Award)] /\ awards \in [Halls -> Seq(Award)]
        BY DEF Inv, TypeInv
    <2> QED BY <1>1, <1>4, <2>1
<1>6. \A j \in DOMAIN aw : aw[j].st = "OFFERED" => aw[j].pay # "CONFIRMED"
    BY <1>1 DEF WalletInv, Unconfirmed
<1>7. usdt \in [Members -> Nat] /\ left \in [Halls -> Nat] /\ resetting \subseteq Halls
    BY DEF WalletInv
<1> HIDE DEF h, i, aw, a
<1>8. aw[i] \in Award /\ u \in Members /\ aw[i].prize \in Nat /\ aw[i].cents \in Nat
    <2>1. aw[i] \in Award
        BY <1>2, <1>5
    <2> QED BY <2>1, ShareInt
<1>9. new \in Seq(Award)
    BY <1>1, <1>5
<1>10. DOMAIN new = DOMAIN aw /\ \A j \in DOMAIN aw \ {i} : new[j] = aw[j]
    BY <1>2
<1>11. /\ new[i].user = u /\ new[i].prize = aw[i].prize /\ new[i].cents = aw[i].cents
       /\ new[i].st = "PAID" /\ new[i].pay = aw[i].pay
    BY <1>2, <1>8 DEF Award
<1> HIDE DEF new
<1>12. Booked(new[i]) = d
    BY <1>2, <1>6, <1>8, <1>11 DEF Booked
<1> HIDE DEF u
<1>13. \A m \in Members : HallShare(m, new) = HallShare(m, awards[h]) + (IF m = u THEN d ELSE 0)
    <2> HIDE DEF d
    <2> TAKE m \in Members
    <2>1. HallShare(m, new) = HallShare(m, aw) + (IF m = u THEN Booked(new[i]) ELSE 0)
        <3>1. new[i].user = aw[i].user
            BY <1>11 DEF u
        <3>2. new[i].st = "PAID" /\ aw[i].st = "OFFERED" /\ i \in DOMAIN aw /\ aw \in Seq(Award)
            BY <1>2, <1>5, <1>11
        <3> QED BY ONLY <1>9, <1>10, <3>1, <3>2, HallShareOne DEF u
    <2> QED BY <1>12, <2>1 DEF aw
<1>14. d \in Int /\ usdt' = [usdt EXCEPT ![u] = @ + d] /\ usdt[u] + d \in Nat
    <2>1. usdt[u] \in Nat
        BY <1>7, <1>8
    <2>2. usdt' = [usdt EXCEPT ![u] = @ + aw[i].prize - aw[i].cents]
        BY <1>2, <1>3, <1>4
    <2>3. usdt[u] + aw[i].prize - aw[i].cents = usdt[u] + d /\ d \in Int
        BY <1>8, <2>1
    <2>4. usdt[u] + d \in Nat
        BY <1>3, <1>8, <2>1
    <2> HIDE DEF d
    <2> QED BY <2>2, <2>3, <2>4
<1> HIDE DEF d
<1>15. PursesMatch'
    <2>1. PICK x \in Members : x = u
        BY <1>8
    <2>2. PICK y \in Int : y = d
        BY <1>14
    <2>3. PICK z \in Seq(Award) : z = new
        BY <1>9
    <2>4. PICK g \in Halls : g = h
        BY <1>1
    <2>5. /\ awards' = [awards EXCEPT ![g] = z] /\ usdt' = [usdt EXCEPT ![x] = @ + y]
          /\ UNCHANGED passes
          /\ \A m \in Members :
                HallShare(m, z) = HallShare(m, awards[g]) + (IF m = x THEN y ELSE 0)
        BY <1>4, <1>13, <1>14, <2>1, <2>2, <2>3, <2>4
    <2> QED BY <2>5, PursePaid
<1>16. usdt' \in [Members -> Nat]
    BY <1>7, <1>8, <1>14
<1>17. left' \in [Halls -> Nat] /\ resetting' \subseteq Halls
    BY <1>4, <1>7, LeftMoves
<1>18. Unconfirmed'
    <2>1. \A j \in DOMAIN new : new[j].st = "OFFERED" => new[j].pay # "CONFIRMED"
        BY <1>6, <1>10, <1>11
    <2>2. \A g \in Halls : g # h => awards'[g] = awards[g]
        BY <1>4, <1>5
    <2> QED BY <1>1, <1>5, <2>1, <2>2 DEF WalletInv, Unconfirmed
<1> QED BY <1>4, <1>15, <1>16, <1>17, <1>18, WalletFrame

-----------------------------------------------------------------------------
(* Every step, and what the invariant says.                                *)

LEMMA WalletStep ==
    ASSUME Inv, Inv', History, WalletInv, Next
    PROVE  WalletInv'
<1>1. ASSUME UNCHANGED <<bids, awards, memberVars>>, left' \in [Halls -> Nat],
             resetting' \subseteq Halls, tx' = tx \/ tx' = None \/ ClaimReads'
      PROVE  WalletInv'
    <2>1. Unconfirmed'
        BY <1>1 DEF WalletInv, Unconfirmed
    <2> QED BY <1>1, <2>1, QuietWallets DEF memberVars
<1>2. left \in [Halls -> Nat] /\ resetting \subseteq Halls
    BY DEF WalletInv
<1>3. CASE Poll \/ AdvanceClosed \/ ResetRead
    BY <1>1, <1>2, <1>3 DEF Poll, AdvanceClosed, ResetRead, Done, hallVars
<1>4. CASE ResetWrite
    <2>1. tx' = tx \/ tx' = None
        BY <1>4, AbortEffect DEF ResetWrite
    <2> QED BY <1>1, <1>2, <1>4, <2>1 DEF ResetWrite
<1>5. ASSUME NEW h \in Halls, CreateAuction(h) \/ DeleteAuction(h) PROVE WalletInv'
    <2>1. left' \in [Halls -> Nat]
        BY <1>2, <1>5, HallAssumption DEF CreateAuction, DeleteAuction
    <2> QED BY <1>1, <1>2, <1>5, <2>1 DEF CreateAuction, DeleteAuction
<1>6. ASSUME NEW h \in Halls, AdvanceBegin(h) PROVE WalletInv'
    <2>1. ClaimReads'
        BY <1>6 DEF AdvanceBegin, ClaimReads
    <2> QED BY <1>1, <1>2, <1>6, <2>1 DEF AdvanceBegin, hallVars
<1>7. ASSUME NEW h \in Halls, NEW i \in DOMAIN awards[h], ClaimBegin(h, i) PROVE WalletInv'
    <2> DEFINE a == awards[h][i]
    <2>1. /\ UNCHANGED <<left, bids, awards, memberVars, resetting>>
          /\ usdt[a.user] >= Shortfall(a)
          /\ tx' = [hall |-> h, won |-> i, aw |-> awards[h], live |-> LiveHalls]
        BY <1>7 DEF ClaimBegin, hallVars
    <2>2. a.user \in Members /\ a.prize \in Nat /\ a.cents \in Nat
        <3>1. a \in Award
            BY HasAwards
        <3> QED BY <3>1, ShareInt
    <2>3. usdt[a.user] \in Nat
        BY <2>2 DEF WalletInv
    <2>4. a.cents <= usdt[a.user] + a.prize
        BY <2>1, <2>2, <2>3 DEF Shortfall
    <2>5. tx'.won = i /\ tx'.hall = h /\ tx'.aw[i] = a /\ awards'[h][i] = a /\ usdt' = usdt
        BY <2>1 DEF memberVars
    <2> HIDE DEF a
    <2>6. ClaimReads'
        BY <2>4, <2>5 DEF ClaimReads, a
    <2> QED BY <1>1, <1>2, <2>1, <2>6
<1>8. ASSUME NEW m \in Members, NEW h \in Halls, PurchaseHallPack(m, h) PROVE WalletInv'
    BY <1>8, BuyWallets
<1>9. ASSUME NEW m \in Members, NEW h \in Halls, NEW c \in Cents, PlaceBid(m, h, c)
      PROVE  WalletInv'
    BY <1>9, BidWallets
<1>10. ASSUME NEW h \in Halls, Tick(h) PROVE WalletInv'
    BY <1>10, TickWallets
<1>11. ASSUME NEW h \in Halls, NEW i \in DOMAIN awards[h],
              PaymentIntent(h, i) \/ ConfirmPayment(h, i)
       PROVE  WalletInv'
    BY <1>11, IntentWallets, ConfirmWallets
<1>12. CASE AdvanceOpen
    BY <1>12, OpenWallets
<1>13. CASE AdvanceOffers
    BY <1>13, OffersWallets
<1>14. CASE ClaimCommit
    BY <1>14, ClaimWallets
<1> QED
    BY <1>3, <1>4, <1>5, <1>6, <1>7, <1>8, <1>9, <1>10, <1>11, <1>12, <1>13, <1>14
       DEF Next, Worker

LEMMA WalletInit == Init => WalletInv
<1> SUFFICES ASSUME Init PROVE WalletInv
    OBVIOUS
<1>1. /\ awards = [h \in Halls |-> <<>>] /\ bids = [h \in Halls |-> <<>>]
      /\ left = [h \in Halls |-> 0] /\ passes = {} /\ credits = Credits
      /\ usdt = Funds /\ tx = None /\ resetting = {}
    BY DEF Init
<1>2. \A m \in Members, h \in Halls : ~Entered(m, h)
    BY <1>1 DEF Entered
<1>3. EntryPaid
    <2>1. ASSUME NEW m \in Members
          PROVE  Cardinality({h \in Series : Entered(m, h) /\ <<m, h>> \notin passes})
                     <= Credits[m] - credits[m]
        <3> DEFINE S == {h \in Series : Entered(m, h) /\ <<m, h>> \notin passes}
        <3>1. S = {}
            BY <1>2, HallAssumption
        <3>2. Credits[m] - credits[m] = 0
            BY <1>1, MoneyAssumption
        <3>3. Cardinality({}) = 0
            BY FS_EmptySet
        <3> HIDE DEF S
        <3>4. Cardinality(S) <= Credits[m] - credits[m]
            BY <3>1, <3>2, <3>3
        <3> QED BY <3>4 DEF S
    <2> QED BY <1>2, <2>1 DEF EntryPaid
<1>4. ASSUME NEW m \in Members
      PROVE  usdt[m] = Funds[m] + SumFunctionOnSet(Purse(awards, passes, m), Halls)
    <2>1. \A h \in Halls : HallShare(m, awards[h]) = 0 /\ SpentIn(passes, m, h) = 0
        <3>1. DOMAIN <<>> = {}
            OBVIOUS
        <3>2. HallShare(m, <<>>) = 0
            BY <3>1, SumEmpty DEF HallShare
        <3> QED BY <1>1, <3>2 DEF SpentIn
    <2> DEFINE f == Purse(awards, passes, m)
    <2>2. \A h \in Halls : f[h] = 0
        BY <2>1 DEF Purse
    <2> HIDE DEF f
    <2>3. SumFunctionOnSet(f, Halls) = 0
        BY <2>2, HallAssumption, SumOfZeros
    <2>4. usdt[m] = Funds[m] /\ Funds[m] \in Int
        BY <1>1, MoneyAssumption
    <2> QED BY <2>3, <2>4 DEF f
<1> QED BY <1>1, <1>3, <1>4, MoneyAssumption
        DEF WalletInv, PursesMatch, Unconfirmed, ClaimReads

\* A hall's share is what its paid awards book.
LEMMA ShareIsNet ==
    ASSUME Inv, NEW m \in Members, NEW h \in Halls
    PROVE  SumFunctionOnSet(Nets(h), Won(m, h)) = HallShare(m, awards[h])
<1> DEFINE aw == awards[h]
           D == DOMAIN aw
           W == Won(m, h)
           f == Nets(h)
           g == [i \in D |-> ShareOf(m, aw[i])]
<1>1. aw \in Seq(Award) /\ IsFiniteSet(D) /\ W \subseteq D
    <2>1. aw \in Seq(Award)
        BY DEF Inv, TypeInv
    <2> QED BY <2>1, IndicesFinite DEF Won
<1>2. \A i \in D : g[i] \in Int
    BY <1>1, ShareInt
<1>3. g = [i \in D |-> IF i \in W THEN f[i] ELSE 0]
    <2>1. \A i \in D : g[i] = IF i \in W THEN f[i] ELSE 0
        BY DEF Won, Nets, ShareOf
    <2> QED BY <2>1
<1>4. \A i \in W : f[i] \in Int
    BY <1>1, <1>2, <1>3
<1>5. HallShare(m, awards[h]) = SumFunctionOnSet(g, D)
    BY DEF HallShare
<1> HIDE DEF W, D, f, g
<1>6. SumFunctionOnSet(f, W) = SumFunctionOnSet([i \in D |-> IF i \in W THEN f[i] ELSE 0], D)
    BY <1>1, <1>4, SumPart
<1> QED BY <1>3, <1>5, <1>6 DEF W, f

LEMMA WalletFits == ASSUME Inv, WalletInv PROVE WalletMatches
<1>1. TypeOK
    BY DEF Inv, TypeInv, WalletInv, TypeOK
<1>2. ASSUME NEW m \in Members
      PROVE  usdt[m] = Funds[m] + SumFunctionOnSet(Balances(m), Halls)
    <2>1. \A h \in Halls : SpentIn(passes, m, h) = Spent(m, h)
        BY DEF SpentIn, Spent
    <2>2. Balances(m) = Purse(awards, passes, m)
        BY <2>1, ShareIsNet DEF Balances, Purse
    <2> QED BY <2>2 DEF WalletInv, PursesMatch
<1> QED BY <1>1, <1>2 DEF WalletMatches, WalletInv

\* Whatever is bid, bought, offered, claimed or confirmed on chain, and however
\* these overlap, a wallet is what its member had, less his packs and entries,
\* plus his prizes less the bids he paid from it, and every entry is paid for.
THEOREM WalletMatchesHolds == Spec => []WalletMatches
<1>1. Inv /\ WalletInv /\ [Next]_vars => WalletInv'
    <2> SUFFICES ASSUME Inv, WalletInv, [Next]_vars PROVE WalletInv'
        OBVIOUS
    <2>1. CASE UNCHANGED vars
        <3>1. EntryPaid'
            BY <2>1 DEF vars, hallVars, memberVars, WalletInv, EntryPaid, Entered
        <3>2. PursesMatch' /\ Unconfirmed' /\ ClaimReads'
            BY <2>1 DEF vars, hallVars, memberVars, WalletInv, PursesMatch, Unconfirmed, ClaimReads
        <3> QED BY <2>1, <3>1, <3>2 DEF vars, hallVars, memberVars, WalletInv
    <2> QED BY <2>1, InvNext, WalletStep
<1> QED BY <1>1, WalletInit, WalletFits, InvHolds, PTL DEF Spec
=============================================================================
