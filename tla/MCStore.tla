------------------------------ MODULE MCStore ------------------------------
(***************************************************************************)
(* One member who shops in two windows and another who only enters the     *)
(* lottery; a boost sold for GEN, a voucher or USDT, and a pass that gives *)
(* GEN and a voucher back, which an admin may turn into a dearer boost.    *)
(***************************************************************************)
EXTENDS Store, TLC

Row(boost, price, reward) ==
    [status |-> "active", boost |-> boost, timed |-> boost, price |-> price,
     rewardGen |-> reward, rewardVouchers |-> reward]
Prices(gen_, voucher, usdt_) == [GEN |-> gen_, VOUCHER |-> voucher, USDT |-> usdt_]
Boost == Row(TRUE, Prices(2, 1, 0), 0)
Pass == Row(FALSE, Prices(2, 0, 1), 0)
McFirstItem == [i \in Items |-> IF i = "boost" THEN Boost ELSE Pass]
McPatches == [i \in Items |-> IF i = "boost" THEN {Boost, [Boost EXCEPT !.boost = FALSE]}
                             ELSE {Row(TRUE, Prices(2, 0, 1), 1)}]
McMaxBought == [m \in Members |-> IF m = "u" THEN 2 ELSE 0]
McDeltas == {-1}
TwoWindows == Permutations(Requests)

\* While the shop or the admins' credit is in use, a lottery is only open and entered
\* by u; its edits, draws and deletions are explored with the shop at rest.
ShopAtRest == /\ item = FirstItem /\ \A s \in Requests : request[s] = None
              /\ \A u \in Members : BoughtBy(u) = 0 /\ vouchers[u] = StartVouchers
              /\ \A k \in Keys : credit[k] = None
PlainLottery == /\ editing = {} /\ deleting = {}
                /\ \A r \in Rounds :
                       \/ round[r] = NoRound
                       \/ /\ Enterable(r) /\ Entered(r) \subseteq {"u"}
                          /\ round[r].entryGen = 1 /\ \A k \in Keys : credit[k] = None
ShopOrLottery == ShopAtRest \/ PlainLottery
=============================================================================
