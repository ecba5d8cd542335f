--------------------------- MODULE PayoutPromise ---------------------------
(***************************************************************************)
(* What a withdrawal promises its member, whatever the worker, the admins, *)
(* the providers and the chain do: the held amount is either released or   *)
(* transferred once and then settled, never both.  The one exception has a *)
(* phase of its own: a release that did not see the payout begin.          *)
(***************************************************************************)
CONSTANT Withdrawals

VARIABLES
    phase,      \* where the held amount of a withdrawal is
    transfers   \* the on-chain transfers made for it

pvars == <<phase, transfers>>

Init ==
    /\ phase = [w \in Withdrawals |-> "none"]
    /\ transfers = [w \in Withdrawals |-> {}]

Hold(w) ==
    /\ phase[w] = "none"
    /\ phase' = [phase EXCEPT ![w] = "held"]
    /\ UNCHANGED transfers

Release(w) ==
    /\ phase[w] = "held" /\ transfers[w] = {}
    /\ phase' = [phase EXCEPT ![w] = "released"]
    /\ UNCHANGED transfers

\* A release that was decided before the payout began and committed after it.
Overtake(w) ==
    /\ phase[w] = "held"
    /\ phase' = [phase EXCEPT ![w] = "overtaken"]
    /\ UNCHANGED transfers

\* The transfer that appears is the only one.
Pay(w) ==
    /\ phase[w] \in {"held", "overtaken"} /\ transfers[w] = {}
    /\ \E t \in transfers'[w] : transfers' = [transfers EXCEPT ![w] = {t}]
    /\ UNCHANGED phase

Settle(w) ==
    /\ phase[w] = "held" /\ transfers[w] # {}
    /\ phase' = [phase EXCEPT ![w] = "settled"]
    /\ UNCHANGED transfers

\* Paid outside the system, in manual mode.
SettleByHand(w) ==
    /\ phase[w] = "held" /\ transfers[w] = {}
    /\ phase' = [phase EXCEPT ![w] = "byHand"]
    /\ UNCHANGED transfers

Next ==
    \E w \in Withdrawals :
        Hold(w) \/ Release(w) \/ Overtake(w) \/ Pay(w) \/ Settle(w) \/ SettleByHand(w)

Spec == Init /\ [][Next]_pvars
=============================================================================
