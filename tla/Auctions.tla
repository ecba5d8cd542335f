------------------------------ MODULE Auctions ------------------------------
(***************************************************************************)
(* Lottery halls: services/auctions.ts and its routes in server.ts.        *)
(*                                                                         *)
(* A hall takes a fixed number of bids, then offers its prize to the       *)
(* lowest unique bid, or in two halves to the lowest bid made by exactly   *)
(* two members.  A winner pays his bid from his wallet (claim) or on       *)
(* chain (confirmed payment); an offer that lapses goes to the next        *)
(* candidate.  When no offer is open the hall closes, and the next hall of *)
(* its series opens.                                                       *)
(*                                                                         *)
(* Claims, the worker's advance, bids, packs and cancellations are         *)
(* Serializable transactions, which take effect one after the other.       *)
(* confirmPayment and the admin's reset are READ COMMITTED: they may       *)
(* commit between the snapshot and the commit of a claim or an advance.    *)
(***************************************************************************)
EXTENDS Integers, FiniteSets, Sequences, Functions

CONSTANTS
    Members, Halls,     \* Halls: their numbers, in order of creation
    Series,             \* auto-advancing halls of one pack series; the rest are rooms
    Cents,              \* amounts that may be bid
    Counter,            \* remainingSeconds a hall starts with: one per bid
    Prize,              \* prizeUsdt
    Pack, Entry,        \* price of a hall's pack, entryUsdt of a room
    Funds, Credits,     \* a member's wallet and series-wide credits at the start
    ByHand,             \* halls that admins create; the worker creates the others
    OnChain,            \* members who may pay a winning bid on chain
    ConfirmsMayOverlap, \* may a payment be confirmed inside a claim or an advance
    None

Statuses == {"NONE", "OPEN", "AWAITING", "CLOSED", "CANCELLED", "DELETED"}
Bid == [user: Members, cents: Cents]
\* An AuctionAward; due when expiresAt has passed.  pay is its Payment row.
Award == [user: Members, cents: Cents, prize: Nat, st: {"OFFERED", "PAID", "EXPIRED"},
          due: BOOLEAN, pay: {"NONE", "PENDING", "CONFIRMED"}]

ASSUME HallAssumption ==
    /\ IsFiniteSet(Halls) /\ Halls = 1 .. Cardinality(Halls)
    /\ Series \subseteq Halls /\ ByHand \subseteq Halls /\ OnChain \subseteq Members
    /\ Counter \in [Halls -> Nat \ {0}]
ASSUME MoneyAssumption ==
    /\ Cents \subseteq Nat \ {0} /\ Prize \in Nat /\ Pack \in Nat \ {0} /\ Entry \in Nat
    /\ Funds \in [Members -> Nat] /\ Credits \in [Members -> Nat]
    /\ ConfirmsMayOverlap \in BOOLEAN
VARIABLES
    status, left,   \* Auction.status and remainingSeconds
    bids,           \* AuctionBid rows of a hall, in order of creation
    cands,          \* Auction.candidates
    awards,         \* AuctionAward rows of a hall, in order of creation
    passes,         \* AuctionEntryPass rows for one hall or room
    credits,        \* roomsRemaining of a member's series-wide pass
    usdt,           \* USER:<id>:USDC:AVAILABLE
    queue,          \* rows processAuctions has read and not yet advanced
    tx,             \* the open claim or advance, with the snapshot it reads
    resetting       \* rooms an open reset has read, {} when there is none

hallVars == <<status, left, bids, cands, awards>>
memberVars == <<passes, credits, usdt>>
vars == <<hallVars, memberVars, queue, tx, resetting>>

Live == {"OPEN", "AWAITING"}
LiveHalls == {g \in Series : status[g] \in Live}
\* won is the award a claim pays, 0 for an advance.
Transaction == [hall: Halls, won: Nat, aw: Seq(Award), live: SUBSET Series]
ASSUME NoneAssumption == None \notin Transaction

TypeOK ==
    /\ status \in [Halls -> Statuses] /\ left \in [Halls -> Nat]
    /\ bids \in [Halls -> Seq(Bid)] /\ cands \in [Halls -> Seq(Bid)]
    /\ awards \in [Halls -> Seq(Award)]
    /\ passes \subseteq Members \X Halls /\ credits \in [Members -> Nat]
    /\ usdt \in [Members -> Nat]
    /\ queue \subseteq Halls
    /\ tx \in Transaction \cup {None}
    /\ resetting \subseteq Halls

Init ==
    /\ status = [h \in Halls |-> "NONE"] /\ left = [h \in Halls |-> 0]
    /\ bids = [h \in Halls |-> <<>>] /\ cands = [h \in Halls |-> <<>>]
    /\ awards = [h \in Halls |-> <<>>]
    /\ passes = {} /\ credits = Credits /\ usdt = Funds
    /\ queue = {} /\ tx = None /\ resetting = {}

\* The open transaction aborts; a failed advance leaves its hall to the next poll.
AbortIf(conflict) ==
    /\ tx' = IF conflict THEN None ELSE tx
    /\ queue' = IF conflict /\ tx.won = 0 THEN queue \ {tx.hall} ELSE queue

\* A new hall is the next number, while there is one (Halls is a bound).
Fresh(h, S) == h \in S /\ status[h] = "NONE" /\ \A g \in S : g < h => status[g] # "NONE"

-----------------------------------------------------------------------------
(* Admins. *)

CreateAuction(h) ==
    /\ tx = None
    /\ h \in ByHand /\ (Fresh(h, Series) \/ Fresh(h, Halls \ Series))
    /\ status' = [status EXCEPT ![h] = "OPEN"]
    /\ left' = [left EXCEPT ![h] = Counter[h]]
    /\ UNCHANGED <<bids, cands, awards, memberVars, queue, tx, resetting>>

\* deleteUnusedAuction: a used hall is cancelled, whatever its status.
DeleteAuction(h) ==
    /\ tx = None
    /\ status[h] \notin {"NONE", "DELETED"}
    /\ status' = [status EXCEPT ![h] =
                    IF bids[h] = <<>> /\ awards[h] = <<>> THEN "DELETED" ELSE "CANCELLED"]
    /\ UNCHANGED <<left, bids, cands, awards, memberVars, queue, tx, resetting>>

\* POST /v1/admin/auctions/reset reads the rooms ...
ResetRead ==
    /\ resetting = {}
    /\ resetting' = {h \in Halls : status[h] \in Live \cup {"CLOSED"}}
    /\ UNCHANGED <<hallVars, memberVars, queue, tx>>

\* ... and cancels them by id; a transaction that writes such a row aborts.
ResetWrite ==
    /\ resetting # {}
    /\ status' = [h \in Halls |-> IF h \in resetting /\ status[h] # "DELETED"
                                  THEN "CANCELLED" ELSE status[h]]
    /\ AbortIf(tx # None /\ tx.hall \in resetting)
    /\ resetting' = {}
    /\ UNCHANGED <<left, bids, cands, awards, memberVars>>

-----------------------------------------------------------------------------
(* Entering a hall. *)

Accepting(h) == status[h] = "OPEN" /\ left[h] > 0

PurchaseHallPack(m, h) ==
    /\ tx = None
    /\ h \in Series /\ Accepting(h)
    /\ <<m, h>> \notin passes /\ usdt[m] >= Pack
    /\ passes' = passes \cup {<<m, h>>}
    /\ usdt' = [usdt EXCEPT ![m] = @ - Pack]
    /\ UNCHANGED <<hallVars, credits, queue, tx, resetting>>

Entered(m, h) == \E i \in DOMAIN bids[h] : bids[h][i].user = m

\* The first bid in a hall of a series needs its pack or a series-wide credit.
EnterHall(m, h) ==
    /\ h \in Series
    /\ \/ (Entered(m, h) \/ <<m, h>> \in passes) /\ UNCHANGED credits
       \/ /\ ~Entered(m, h) /\ <<m, h>> \notin passes /\ credits[m] > 0
          /\ credits' = [credits EXCEPT ![m] = @ - 1]
    /\ UNCHANGED <<passes, usdt>>

\* A room charges its entry with the first bid.
EnterRoom(m, h) ==
    /\ h \notin Series
    /\ \/ (Entry = 0 \/ <<m, h>> \in passes) /\ UNCHANGED <<passes, usdt>>
       \/ /\ Entry > 0 /\ <<m, h>> \notin passes /\ usdt[m] >= Entry
          /\ usdt' = [usdt EXCEPT ![m] = @ - Entry]
          /\ passes' = passes \cup {<<m, h>>}
    /\ UNCHANGED credits

PlaceBid(m, h, c) ==
    /\ tx = None
    /\ Accepting(h)
    /\ EnterHall(m, h) \/ EnterRoom(m, h)
    /\ bids' = [bids EXCEPT ![h] = Append(@, [user |-> m, cents |-> c])]
    /\ left' = [left EXCEPT ![h] = @ - 1]
    /\ UNCHANGED <<status, cands, awards, queue, tx, resetting>>

-----------------------------------------------------------------------------
(* The winners. *)

SameCents(b, i) == {j \in DOMAIN b : b[j].cents = b[i].cents}
Unique(b) == {i \in DOMAIN b : Cardinality(SameCents(b, i)) = 1}
Pairs(b) == {i \in DOMAIN b : /\ Cardinality(SameCents(b, i)) = 2
                              /\ \E j \in SameCents(b, i) : b[j].user # b[i].user}
Eligible(b) == IF Unique(b) # {} THEN Unique(b) ELSE Pairs(b)
Slots(b) == IF Unique(b) # {} THEN 1 ELSE 2
\* The elements of S, each at the place that its predecessors in the order R
\* leave it: an order as a set of pairs, so that proofs can be about any.
Sorted(S, R) ==
    [k \in 1 .. Cardinality(S) |->
        CHOOSE i \in S : Cardinality({j \in S : <<j, i>> \in R}) = k - 1]
Rising == {p \in Nat \X Nat : p[1] < p[2]}
ByCents(b) ==
    {p \in (DOMAIN b) \X (DOMAIN b) :
        \/ b[p[1]].cents < b[p[2]].cents
        \/ b[p[1]].cents = b[p[2]].cents /\ p[1] < p[2]}

\* Bug: the bids are read in the order they were made.
CandidatesUnsorted(b) ==
    LET order == Sorted(Eligible(b), Rising)
    IN  [k \in DOMAIN order |-> b[order[k]]]

Candidates(b) ==
    LET order == Sorted(Eligible(b), ByCents(b))
    IN  [k \in DOMAIN order |-> b[order[k]]]

Offer(c, prize) == [user |-> c.user, cents |-> c.cents, prize |-> prize, st |-> "OFFERED",
                    due |-> FALSE, pay |-> "NONE"]
FirstOffers(b) ==
    LET slots == Slots(b)
        cs == Candidates(b)
    IN  [k \in 1 .. (IF Len(cs) < slots THEN Len(cs) ELSE slots) |->
            Offer(cs[k], Prize \div slots)]

\* Offers that have lapsed, and the candidates who have no award yet.
Lapsed(aw) == {i \in DOMAIN aw : aw[i].st = "OFFERED" /\ aw[i].due}
Users(aw) == {aw[i].user : i \in DOMAIN aw}
Waiting(cs, aw) == {k \in DOMAIN cs : /\ cs[k].user \notin Users(aw)
                                      /\ \A j \in 1 .. k - 1 : cs[j].user # cs[k].user}
\* Each lapsed offer passes its prize to the next candidate.
NextOffers(cs, aw) ==
    LET gone == Sorted(Lapsed(aw), Rising)
        next == Sorted(Waiting(cs, aw), Rising)
    IN  [k \in DOMAIN gone \cap DOMAIN next |-> Offer(cs[next[k]], aw[gone[k]].prize)]
\* Bug: the offer that passes on is not marked.
ExpireNone(aw, gone) == aw

Expire(aw, gone) == [i \in DOMAIN aw |-> IF i \in gone THEN [aw[i] EXCEPT !.st = "EXPIRED"]
                                         ELSE aw[i]]

\* closeIfFinished, for a transaction that sees the awards aw and the live
\* halls of the series; st and lf are the statuses and counters it leaves.
Finished(aw) == \A i \in DOMAIN aw : aw[i].st # "OFFERED"
OpensNext(h, live, n) == h \in Series /\ bids[h] # <<>> /\ live \ {h} = {} /\ Fresh(n, Series)
CloseIfFinished(h, st, aw, live) ==
    IF ~Finished(aw) THEN status' = st /\ UNCHANGED left
    ELSE LET next == {n \in Series : OpensNext(h, live, n)}
         IN  /\ status' = [g \in Halls |-> IF g = h THEN "CLOSED"
                                           ELSE IF g \in next THEN "OPEN" ELSE st[g]]
             /\ left' = [g \in Halls |-> IF g \in next THEN Counter[g] ELSE left[g]]

-----------------------------------------------------------------------------
(* The auction worker. *)

\* Bug: only full halls are looked for.
PollOpen ==
    /\ queue = {}
    /\ queue' = {h \in Halls : status[h] = "OPEN" /\ left[h] = 0}
    /\ queue' # {}
    /\ UNCHANGED <<hallVars, memberVars, tx, resetting>>

\* processAuctions reads what is to be done, then advances hall by hall.
Poll ==
    /\ queue = {}
    /\ queue' = {h \in Halls : \/ status[h] = "OPEN" /\ left[h] = 0
                               \/ status[h] = "AWAITING" /\ Lapsed(awards[h]) # {}}
    /\ queue' # {}
    /\ UNCHANGED <<hallVars, memberVars, tx, resetting>>

AdvanceBegin(h) ==
    /\ h \in queue /\ tx = None
    /\ tx' = [hall |-> h, won |-> 0, aw |-> awards[h], live |-> LiveHalls]
    /\ UNCHANGED <<hallVars, memberVars, queue, resetting>>

Advancing == tx # None /\ tx.won = 0
Done == queue' = queue \ {tx.hall} /\ tx' = None

\* A full hall: candidates and first offers.
AdvanceOpen ==
    /\ Advancing /\ status[tx.hall] = "OPEN"
    /\ LET h == tx.hall
           aw == FirstOffers(bids[h])
       IN  /\ cands' = [cands EXCEPT ![h] = Candidates(bids[h])]
           /\ awards' = [awards EXCEPT ![h] = aw]
           /\ CloseIfFinished(h, [status EXCEPT ![h] = "AWAITING"], aw, tx.live)
    /\ Done /\ UNCHANGED <<bids, memberVars, resetting>>

\* A claim that was open when the offer lapsed has closed the hall.
AdvanceClosed ==
    /\ Advancing /\ status[tx.hall] = "CLOSED"
    /\ Done /\ UNCHANGED <<hallVars, memberVars, resetting>>

\* Any other hall, also a cancelled one: lapsed offers pass on.
AdvanceOffers ==
    /\ Advancing /\ status[tx.hall] \notin {"OPEN", "CLOSED"}
    /\ LET h == tx.hall
           gone == Lapsed(tx.aw)
           next == NextOffers(cands[h], tx.aw)
       IN  /\ awards' = [awards EXCEPT ![h] = Expire(@, gone) \o next]
           /\ CloseIfFinished(h, status, Expire(tx.aw, gone) \o next, tx.live)
    /\ Done /\ UNCHANGED <<bids, cands, memberVars, resetting>>

Worker ==
    \/ Poll \/ \E h \in Halls : AdvanceBegin(h)
    \/ AdvanceOpen \/ AdvanceClosed \/ AdvanceOffers

-----------------------------------------------------------------------------
(* Winners pay. *)

\* Bug: an award that was already paid may be paid again.
OpenOrPaid(h, i) == i \in DOMAIN awards[h] /\ awards[h][i].st # "EXPIRED"

Open(h, i) == i \in DOMAIN awards[h] /\ awards[h][i].st = "OFFERED"
Paid(aw, i) == [aw EXCEPT ![i].st = "PAID"]
Shortfall(a) == IF a.cents > a.prize THEN a.cents - a.prize ELSE 0

\* claimAuctionAward locks and reads ...
ClaimBegin(h, i) ==
    /\ tx = None
    /\ Open(h, i) /\ ~awards[h][i].due
    /\ usdt[awards[h][i].user] >= Shortfall(awards[h][i])
    /\ tx' = [hall |-> h, won |-> i, aw |-> awards[h], live |-> LiveHalls]
    /\ UNCHANGED <<hallVars, memberVars, queue, resetting>>

\* Bug: the awards are written back as the claim has read them.
ClaimStale ==
    /\ tx # None /\ tx.won # 0
    /\ LET h == tx.hall
           a == tx.aw[tx.won]
       IN  /\ usdt' = [usdt EXCEPT ![a.user] = @ + a.prize - a.cents]
           /\ awards' = [awards EXCEPT ![h] = Paid(tx.aw, tx.won)]
           /\ CloseIfFinished(h, status, Paid(tx.aw, tx.won), tx.live)
    /\ tx' = None
    /\ UNCHANGED <<bids, cands, passes, credits, queue, resetting>>

\* ... and books prize and bid in the winner's wallet.
ClaimCommit ==
    /\ tx # None /\ tx.won # 0
    /\ LET h == tx.hall
           a == tx.aw[tx.won]
       IN  /\ usdt' = [usdt EXCEPT ![a.user] = @ + a.prize - a.cents]
           /\ awards' = [awards EXCEPT ![h] = Paid(@, tx.won)]
           /\ CloseIfFinished(h, status, Paid(tx.aw, tx.won), tx.live)
    /\ tx' = None
    /\ UNCHANGED <<bids, cands, passes, credits, queue, resetting>>

\* auctionPaymentIntent
PaymentIntent(h, i) ==
    /\ tx # None /\ tx.hall = h => tx.won # i
    /\ Open(h, i) /\ ~awards[h][i].due /\ awards[h][i].pay = "NONE"
    /\ awards[h][i].user \in OnChain
    /\ awards' = [awards EXCEPT ![h][i].pay = "PENDING"]
    /\ UNCHANGED <<status, left, bids, cands, memberVars, queue, tx, resetting>>

\* confirmAuctionPayment, once the payment has its transaction.  It waits for
\* the row of an award under a claim; closing the hall aborts a transaction
\* that would write its row.
ConfirmPayment(h, i) ==
    /\ tx # None /\ tx.hall = h => ConfirmsMayOverlap /\ i # tx.won
    /\ Open(h, i) /\ ~awards[h][i].due /\ awards[h][i].pay = "PENDING"
    /\ LET a == awards[h][i]
           aw == [awards[h] EXCEPT ![i].st = "PAID", ![i].pay = "CONFIRMED"]
       IN  /\ usdt' = [usdt EXCEPT ![a.user] = @ + a.prize]
           /\ awards' = [awards EXCEPT ![h] = aw]
           /\ CloseIfFinished(h, status, aw, LiveHalls)
           /\ AbortIf(Finished(aw) /\ tx # None /\ tx.hall = h)
    /\ UNCHANGED <<bids, cands, passes, credits, resetting>>

\* The offers of a hall are 24 hours old.
Tick(h) ==
    /\ \E i \in DOMAIN awards[h] : Open(h, i) /\ ~awards[h][i].due
    /\ awards' = [awards EXCEPT ![h] = [i \in DOMAIN @ |->
                    IF @[i].st = "OFFERED" THEN [@[i] EXCEPT !.due = TRUE] ELSE @[i]]]
    /\ UNCHANGED <<status, left, bids, cands, memberVars, queue, tx, resetting>>

-----------------------------------------------------------------------------
Next ==
    \/ Worker
    \/ \E h \in Halls : CreateAuction(h) \/ DeleteAuction(h) \/ Tick(h)
    \/ ResetRead \/ ResetWrite
    \/ \E m \in Members, h \in Halls : PurchaseHallPack(m, h)
    \/ \E m \in Members, h \in Halls, c \in Cents : PlaceBid(m, h, c)
    \/ \E h \in Halls : \E i \in DOMAIN awards[h] :
            ClaimBegin(h, i) \/ PaymentIntent(h, i) \/ ConfirmPayment(h, i)
    \/ ClaimCommit

Spec == Init /\ [][Next]_vars
\* createWorker polls for ever, a request ends and time passes.
FairSpec == Spec /\ WF_vars(Worker) /\ WF_vars(ClaimCommit) /\ WF_vars(\E h \in Halls : Tick(h))

-----------------------------------------------------------------------------
(* What is correct. *)

\* However offers lapse, pass on and are paid, a hall never owes more than
\* its prize: one winner, or two with a half each.
Standing(h) == {i \in DOMAIN awards[h] : awards[h][i].st # "EXPIRED"}
PrizeWithinHall ==
    \A h \in Halls :
        \/ Standing(h) = {}
        \/ \E i \in Standing(h) : Standing(h) = {i} /\ awards[h][i].prize <= Prize
        \/ \E i, j \in Standing(h) :
            Standing(h) = {i, j} /\ awards[h][i].prize + awards[h][j].prize <= Prize

\* The amounts that win: made once, or, if no amount was, made by two members.
Times(b, c) == Cardinality({j \in DOMAIN b : b[j].cents = c})
Wins(b, c) ==
    \/ Times(b, c) = 1
    \/ /\ \A d \in Cents : Times(b, d) # 1
       /\ Times(b, c) = 2 /\ \E i, j \in DOMAIN b : /\ b[i].cents = c /\ b[j].cents = c
                                                    /\ b[i].user # b[j].user
\* An offer goes to a bid that wins, and only after every lower one that wins
\* has had its offer; no member is offered a hall twice, however often he bid.
LowestFirst ==
    \A h \in Halls : \A i \in DOMAIN awards[h] :
        /\ \A k \in 1 .. i - 1 : awards[h][k].user # awards[h][i].user
        /\ Wins(bids[h], awards[h][i].cents)
        /\ \E j \in DOMAIN bids[h] : /\ bids[h][j].user = awards[h][i].user
                                     /\ bids[h][j].cents = awards[h][i].cents
        /\ \A j \in DOMAIN bids[h] :
            Wins(bids[h], bids[h][j].cents) /\ bids[h][j].cents < awards[h][i].cents =>
                \E k \in 1 .. i - 1 : awards[h][k].user = bids[h][j].user

\* Every member in a hall of a series has its pack or has given a credit for
\* it, and every member in a room has paid its entry.
EntryPaid ==
    /\ \A m \in Members :
        Cardinality({h \in Series : Entered(m, h) /\ <<m, h>> \notin passes}) <= Credits[m] - credits[m]
    /\ \A m \in Members, h \in Halls \ Series :
        Entry > 0 /\ Entered(m, h) => <<m, h>> \in passes

\* Every entry is paid for, and a wallet is what its member had, less the packs
\* and entries bought, plus every prize paid, less the winning bid of those
\* claimed in the app.
Won(m, h) == {i \in DOMAIN awards[h] : awards[h][i].user = m /\ awards[h][i].st = "PAID"}
Booked(a) == a.prize - IF a.pay = "CONFIRMED" THEN 0 ELSE a.cents
Nets(h) == [i \in DOMAIN awards[h] |-> Booked(awards[h][i])]
Spent(m, h) == IF <<m, h>> \notin passes THEN 0 ELSE IF h \in Series THEN Pack ELSE Entry
Balances(m) == [h \in Halls |-> SumFunctionOnSet(Nets(h), Won(m, h)) - Spent(m, h)]
WalletMatches ==
    /\ TypeOK /\ EntryPaid
    /\ \A m \in Members : usdt[m] = Funds[m] + SumFunctionOnSet(Balances(m), Halls)

\* An award keeps winner, bid and prize, and PAID and EXPIRED are final; once
\* a hall has awards its bids stay as they are.
HistoryKept ==
    [][\A h \in Halls :
        /\ awards[h] # <<>> => bids'[h] = bids[h]
        /\ \A i \in DOMAIN awards[h] :
            /\ i \in DOMAIN awards'[h]
            /\ awards'[h][i].user = awards[h][i].user /\ awards'[h][i].prize = awards[h][i].prize
            /\ awards[h][i].st # "OFFERED" => awards'[h][i].st = awards[h][i].st]_vars

\* An offer that has lapsed is passed on, whatever else happens to its hall.
OffersResolve ==
    \A h \in Halls : status[h] = "AWAITING" /\ Lapsed(awards[h]) # {}
                        ~> status[h] # "AWAITING" \/ Lapsed(awards[h]) = {}
=============================================================================
