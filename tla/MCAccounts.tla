----------------------------- MODULE MCAccounts -----------------------------
(***************************************************************************)
(* The administrator of the deployment and one member, whose requests      *)
(* overlap in two slots.  Two things do not overlap here that could: while *)
(* the member accepts the Terms, only onboarding and requests of a super   *)
(* admin are under way, and once a wallet is challenged none is, since     *)
(* wallets and requests share nothing but the sign-in.                     *)
(***************************************************************************)
EXTENDS Accounts, TLC

McFunds == [m \in Members |-> 1]
AcceptsAside ==
    (\E u \in Members : agreeing[u] # None)
        => \A s \in Slots : req[s] # None => req[s].kind \in {"onboard", "super"}
WalletsAside ==
    (\E i \in Challenges : challenge[i] # None) => \A s \in Slots : req[s] = None
Twins == Permutations(Slots) \cup Permutations(Channels) \cup Permutations(Challenges)
=============================================================================
