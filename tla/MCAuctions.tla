----------------------------- MODULE MCAuctions -----------------------------
(***************************************************************************)
(* An instance of Auctions for TLC: a hall, the hall that follows it in    *)
(* the series, and a room with its own entry price.                        *)
(***************************************************************************)
EXTENDS Auctions

CONSTANTS m1, m2, m3

\* Hall 1 of two bids, hall 2 of one, and room 3 of four.
Counters == [h \in Halls |-> IF h = 1 THEN 2 ELSE IF h = 2 THEN 1 ELSE 4]
\* Everyone has the price of an entry, m1 that of a pack, m2 also a credit.
Wallets == [m \in Members |-> IF m = m1 THEN Pack ELSE 1]
Passes == [m \in Members |-> IF m = m2 THEN 1 ELSE 0]
\* A bound: a behaviour opens the room or the halls of the series.
RoomOrSeries == ~(status[3] # "NONE" /\ status[1] # "NONE")
=============================================================================
