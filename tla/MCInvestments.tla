--------------------------- MODULE MCInvestments ---------------------------
(***************************************************************************)
(* Two members, a small plan and a large one; a commission may hold so     *)
(* much back that two rounds of it buy two packs and leave another unpaid. *)
(***************************************************************************)
EXTENDS Investments

CONSTANTS m1, m2, small, large

MCPlan ==
    [p \in {small, large} |->
        IF p = small
        THEN [principal |-> 3, profit |-> 1, maxProfit |-> 2, maxCap |-> 3,
              commission |-> 1]
        ELSE [principal |-> 4, profit |-> 2, maxProfit |-> 3, maxCap |-> 5,
              commission |-> 0]]
MCAllowed == [u \in {m1, m2} |-> IF u = m1 THEN {small, large} ELSE {small}]
\* Two packs grow old together; the third is only opened in the first month.
ThreePacksEarly == Free(pack) # {} \/ month = 0
=============================================================================
