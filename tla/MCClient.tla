------------------------------ MODULE MCClient ------------------------------
(***************************************************************************)
(* One number to bid and two amounts to withdraw.                          *)
(***************************************************************************)
EXTENDS Client
=============================================================================
