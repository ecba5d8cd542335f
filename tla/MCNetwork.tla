----------------------------- MODULE MCNetwork -----------------------------
(***************************************************************************)
(* A small network: 1 brings 2 and 3, 2 brings 4 and 5; 6 came below the   *)
(* administrator 7 and may be corrected to 1, whose two lines are taken by *)
(* then or not; 1 may in turn register with the link of 6.                 *)
(***************************************************************************)
EXTENDS Network

McSponsor == [u \in Users |->
                 CASE u \in {2, 3} -> 1 [] u \in {4, 5} -> 2 [] u = 6 -> 7
                   [] OTHER -> Nobody]
McCodes == {<<6, 1>>, <<1, 6>>}
McBuyer == [p \in Purchases |->
               CASE p = "b" -> 2 [] p = "c" -> 3 [] p = "d" -> 4
                 [] p = "e" -> 5 [] p = "f" -> 6 [] OTHER -> 5]
McAmount == [p \in Purchases |-> CASE p = "d" -> 7 [] p = "g" -> 4 [] OTHER -> 2]
=============================================================================
