----------------------------- MODULE MCPayments -----------------------------
(***************************************************************************)
(* Instances of Payments for TLC: one member, a package sold once with two *)
(* invoices, and a second package that needs the first.                   *)
(***************************************************************************)
EXTENDS Payments

CONSTANTS m1, i1, i2, i3, gold, platinum

OneMember == [i \in Invoices |-> m1]
Prices == [i \in Invoices |-> IF i = i3 THEN 3 ELSE 2]
Packages == [i \in Invoices |-> "PACKAGE"]
Codes == [i \in Invoices |-> IF i = i3 THEN platinum ELSE gold]
=============================================================================
