----------------------------- MODULE MCPayouts -----------------------------
(***************************************************************************)
(* Instances of Payouts for TLC: the values of its constants, and the      *)
(* properties that need the operator's view.                               *)
(***************************************************************************)
EXTENDS Payouts

CONSTANTS w1, w2, u1, h1

\* One member has just enough for a small withdrawal, paid without review, and
\* a large one.
OneOwner == [w \in Withdrawals |-> u1]
Amounts == [w \in Withdrawals |-> IF w = w1 THEN 200 ELSE 400]
JustEnough == [u \in Users |-> 600]

\* A payout that was refused by the providers or by the recipient's wallet and
\* whose message is dead: only an operator can still decide it.
Parked(w) ==
    /\ job[w].st = "MANUAL_REVIEW" /\ Signed(w)
    /\ job[w].msg.until <= now
\* An approved withdrawal does not wait forever: it is paid, taken back by an
\* admin, or visibly parked for the operator.
ApprovedIsResolved ==
    \A w \in Withdrawals :
        wd[w] = "APPROVED" ~> (wd[w] # "APPROVED" \/ Parked(w))
\* A job whose withdrawal is settled is confirmed, also after a crash between
\* the two statements.
PaidIsConfirmed == \A w \in Withdrawals : wd[w] = "PAID" ~> job[w].st = "CONFIRMED"
=============================================================================
