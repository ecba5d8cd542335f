------------------------------ MODULE Accounts ------------------------------
(***************************************************************************)
(* Who may do what: sign-in, roles, the required channels, the Terms and   *)
(* the registered wallet (requireUser, requireAdmin and the account routes *)
(* of server.ts, community.ts, terms.ts, membership-policy.ts,             *)
(* wallet-proof.ts).                                                       *)
(*                                                                         *)
(* A request reads its member's role, then perhaps the Terms, then the     *)
(* list of channels, and asks Telegram about one channel after another,    *)
(* each a step of its own and none in a transaction.  Meanwhile the member *)
(* joins and leaves channels and accepts Terms, in two steps as well, and  *)
(* other requests change roles, channels and Terms.  What the member was   *)
(* and did while the request was under way, and which Terms were in force, *)
(* is kept with it (was, kept, seen, texts).  A wallet is registered in    *)
(* one transaction, for a challenge that was made before.                  *)
(***************************************************************************)
EXTENDS Integers, FiniteSets

CONSTANTS
    Members, Channels, Slots, None,
    Bootstrap,      \* ADMIN_TELEGRAM_IDS of this deployment
    Followers,      \* members who join and leave channels and accept Terms
    FirstRoles, FirstWallets,     \* what a member may be and have at the start
    Addresses, Challenges,      \* wallets, and ids of challenges
    Funds,          \* how many changes of his wallet a member can pay
    MaxTexts, MaxRequests       \* bounds

VARIABLES
    role,       \* User.role, "none" before the account exists
    signed,     \* members who had a session token; one that ended is one not used
    list,       \* RequiredChannel: "none", "inactive" or "active"
    joined,     \* Telegram: who is in which channel
    verified,   \* ChannelMembership rows with verifiedAt
    text,       \* version of the Terms
    accepted,   \* TERMS_ACCEPTED events: member, version
    agreeing,   \* the version a member's POST /me/terms found current, or None
    links,      \* admins a download link of the report was made for; likewise
    wallet,     \* Wallet.address, None without one
    challenge,  \* WalletChallenge rows: the address when it was made, the fee taken
    fees,       \* changes of wallet a member was charged 50 GEN for
    req,        \* the requests under way
    made

gate == <<role, signed, list, joined, verified, text, accepted, agreeing, links>>
purse == <<wallet, challenge, fees>>
vars == <<gate, purse, req, made>>

Roles == {"USER", "FINANCE_ADMIN", "CONTENT_ADMIN", "SUPER_ADMIN"}
Delegable == Roles \ {"SUPER_ADMIN"}

\* What a request asks for, by the check before its handler: "join" stands for
\* the routes that need membership, "verify" for the check of one channel.
Gated == {"join"}
Staff == [content |-> {"SUPER_ADMIN", "CONTENT_ADMIN"},
          finance |-> {"SUPER_ADMIN", "FINANCE_ADMIN"},
          super |-> {"SUPER_ADMIN"},
          report |-> {"SUPER_ADMIN", "FINANCE_ADMIN"}]
Kinds == Gated \cup {"onboard", "verify"} \cup DOMAIN Staff

ASSUME AccountsAssumption ==
    /\ Bootstrap \subseteq Members /\ Followers \subseteq Members
    /\ FirstRoles \subseteq Delegable \cup {"none"}
    /\ FirstWallets \subseteq Addresses \cup {None}
    /\ MaxTexts \in Nat /\ MaxRequests \in Nat /\ Funds \in [Members -> Nat]
    /\ IsFiniteSet(Challenges)

Steps == {"arrived", "terms", "accepted", "list", "asking", "passed", "patching"}
Texts == 0 .. MaxTexts
Requests == [by : Members, kind : Kinds, step : Steps, text : Texts,
             todo : SUBSET Channels, ok : BOOLEAN, whom : Members \cup {None},
             was : SUBSET Roles, kept : SUBSET Channels, seen : SUBSET Channels,
             texts : SUBSET Texts]
Rows == [by : Members, was : Addresses \cup {None}, used : BOOLEAN, fee : {0, 1}]
ASSUME NoneAssumption == None \notin Rows \cup Texts

----------------------------------------------------------------------------
(***************************************************************************)
(* What the requests under way live through                                *)
(***************************************************************************)
Active(l) == {c \in Channels : l[c] = "active"}
InChannel(u) == {c \in Channels : <<u, c>> \in joined}

\* req' after the step that makes `next' of req, when the world changes with it.
Lives(next) ==
    req' = [s \in Slots |->
        IF next[s] = None THEN None
        ELSE LET q == next[s]
             IN  [q EXCEPT !.was = @ \cup {role'[q.by]},
                           !.kept = @ \cap Active(list'),
                           !.seen = @ \cup {c \in Channels : <<q.by, c>> \in joined'},
                           !.texts = @ \cup {text'}]]
Ends(s) == Lives([req EXCEPT ![s] = None])

----------------------------------------------------------------------------
(***************************************************************************)
(* Sign-in                                                                 *)
(***************************************************************************)
RoleAtStart(u) ==
    IF u \in Bootstrap THEN "SUPER_ADMIN"
    ELSE IF role[u] = "none" THEN "USER" ELSE role[u]
Start(u) ==
    /\ role' = [role EXCEPT ![u] = RoleAtStart(u)]
    /\ UNCHANGED <<signed, list, joined, verified, text, accepted, agreeing, links, purse, made>>
    /\ Lives(req)
SignIn(u) ==
    /\ role' = [role EXCEPT ![u] = RoleAtStart(u)]
    /\ signed' = signed \cup {u}
    /\ UNCHANGED <<list, joined, verified, text, accepted, agreeing, links, purse, made>>
    /\ Lives(req)

----------------------------------------------------------------------------
(***************************************************************************)
(* The checks before a handler                                             *)
(***************************************************************************)
MayAsk(u, kind) == IF kind = "report" THEN u \in links ELSE u \in signed
Arrive(s, u, kind) ==
    /\ req[s] = None /\ made < MaxRequests /\ MayAsk(u, kind)
    /\ made' = made + 1
    /\ req' = [req EXCEPT ![s] =
           [by |-> u, kind |-> kind, step |-> "arrived", text |-> 0,
            todo |-> {}, ok |-> TRUE, whom |-> None, was |-> {role[u]},
            kept |-> Active(list), seen |-> InChannel(u), texts |-> {text}]]
    /\ UNCHANGED <<gate, purse>>

HasRole(q) == role[q.by] \in Staff[q.kind]
NextStep(q) ==
    IF q.kind = "onboard" THEN "terms"
    ELSE IF q.kind \in Gated /\ role[q.by] = "USER" THEN "list" ELSE "passed"
RequireUser(s) ==
    LET q == req[s]
    IN  /\ q # None /\ q.step = "arrived" /\ q.kind # "verify"
        /\ UNCHANGED <<gate, purse, made>>
        /\ IF q.kind \in DOMAIN Staff /\ ~HasRole(q) THEN Ends(s)
           ELSE Lives([req EXCEPT ![s].step = NextStep(q)])

\* The version of the Terms is read first, and then looked up among the member's
\* audit events.
ReadTerms(s) ==
    /\ req[s] # None /\ req[s].step = "terms"
    /\ UNCHANGED <<gate, purse, made>>
    /\ Lives([req EXCEPT ![s].text = text, ![s].step = "accepted"])

HasAccepted(q) == <<q.by, q.text>> \in accepted
FindAcceptance(s) ==
    /\ req[s] # None /\ req[s].step = "accepted"
    /\ UNCHANGED <<gate, purse, made>>
    /\ IF HasAccepted(req[s]) THEN Lives([req EXCEPT ![s].step = "list"]) ELSE Ends(s)
ListChannels(s) ==
    /\ req[s] # None /\ req[s].step = "list"
    /\ UNCHANGED <<gate, purse, made>>
    /\ Lives([req EXCEPT ![s].todo = Active(list), ![s].step = "asking"])
ListOne(s, c) ==
    /\ req[s] # None /\ req[s].kind = "verify" /\ req[s].step = "arrived"
    /\ list[c] # "none"
    /\ UNCHANGED <<gate, purse, made>>
    /\ Lives([req EXCEPT ![s].todo = {c}, ![s].kept = @ \cap {c}, ![s].step = "asking"])

\* Bug: a channel that verified the member before is not asked again.
IsMemberOrWas(u, c) == <<u, c>> \in joined \cup verified

IsMember(u, c) == <<u, c>> \in joined
Ask(s, c) ==
    LET q == req[s]
        row == {<<q.by, c>>}
    IN  /\ q # None /\ q.step = "asking" /\ c \in q.todo /\ list[c] # "none"
        /\ verified' = IF IsMember(q.by, c) THEN verified \cup row ELSE verified \ row
        /\ UNCHANGED <<role, signed, list, joined, text, accepted, agreeing, links, purse, made>>
        /\ Lives([req EXCEPT ![s].todo = @ \ {c}, ![s].ok = @ /\ IsMember(q.by, c)])
\* Telegram does not answer, the channel to verify is not there, or it is
\* deleted before its row is written.
Unavailable(s) ==
    /\ req[s] # None
    /\ \/ req[s].step = "asking" /\ req[s].todo # {}
       \/ req[s].step = "arrived" /\ req[s].kind = "verify"
    /\ UNCHANGED <<gate, purse, made>>
    /\ Ends(s)
Answer(s) ==
    /\ req[s] # None /\ req[s].step = "asking" /\ req[s].todo = {}
    /\ UNCHANGED <<gate, purse, made>>
    /\ IF req[s].ok THEN Lives([req EXCEPT ![s].step = "passed"]) ELSE Ends(s)

----------------------------------------------------------------------------
(***************************************************************************)
(* The handlers behind the checks                                          *)
(***************************************************************************)
Passed(s, kind) == req[s] # None /\ req[s].step = "passed" /\ req[s].kind = kind

\* "Super admin cannot be demoted through delegated role management.": the role is
\* read, and then written by id.
ReadRole(s, u) ==
    /\ Passed(s, "super") /\ role[u] \notin {"none", "SUPER_ADMIN"}
    /\ UNCHANGED <<gate, purse, made>>
    /\ Lives([req EXCEPT ![s].whom = u, ![s].step = "patching"])
PatchRole(s, r) ==
    /\ req[s] # None /\ req[s].step = "patching"
    /\ role' = [role EXCEPT ![req[s].whom] = r]
    /\ UNCHANGED <<signed, list, joined, verified, text, accepted, agreeing, links, purse, made>>
    /\ Ends(s)
PutTerms(s) ==
    /\ Passed(s, "super") /\ text < MaxTexts
    /\ text' = text + 1
    /\ UNCHANGED <<role, signed, list, joined, verified, accepted, agreeing, links, purse, made>>
    /\ Ends(s)
SaveChannel(s, c, now) ==
    /\ Passed(s, "content") /\ now \in {"inactive", "active"}
    /\ list' = [list EXCEPT ![c] = now]
    /\ UNCHANGED <<role, signed, joined, verified, text, accepted, agreeing, links, purse, made>>
    /\ Ends(s)
DeleteChannel(s, c) ==
    /\ Passed(s, "content") /\ list[c] # "none"
    /\ list' = [list EXCEPT ![c] = "none"]
    /\ verified' = verified \ (Members \X {c})
    /\ UNCHANGED <<role, signed, joined, text, accepted, agreeing, links, purse, made>>
    /\ Ends(s)
MakeLink(s) ==
    /\ Passed(s, "finance")
    /\ links' = links \cup {req[s].by}
    /\ UNCHANGED <<role, signed, list, joined, verified, text, accepted, agreeing, purse, made>>
    /\ Ends(s)
\* The other handlers, and one that refuses its input.
Finish(s) ==
    /\ req[s] # None /\ req[s].step = "passed"
    /\ UNCHANGED <<gate, purse, made>>
    /\ Ends(s)

\* The member accepts the text he was shown: it is found to be the current one, and
\* then the acceptance is written.
AcceptTerms(u) ==
    /\ u \in Followers \cap signed /\ agreeing[u] = None
    /\ agreeing' = [agreeing EXCEPT ![u] = text]
    /\ UNCHANGED <<role, signed, list, joined, verified, text, accepted, links, purse, made>>
    /\ Lives(req)
WriteAcceptance(u) ==
    /\ agreeing[u] # None
    /\ accepted' = accepted \cup {<<u, agreeing[u]>>}
    /\ agreeing' = [agreeing EXCEPT ![u] = None]
    /\ UNCHANGED <<role, signed, list, joined, verified, text, links, purse, made>>
    /\ Lives(req)
JoinOrLeave(u, c) ==
    /\ u \in Followers
    /\ joined' = IF <<u, c>> \in joined THEN joined \ {<<u, c>>}
                 ELSE joined \cup {<<u, c>>}
    /\ UNCHANGED <<role, signed, list, verified, text, accepted, agreeing, links, purse, made>>
    /\ Lives(req)

----------------------------------------------------------------------------
(***************************************************************************)
(* The registered wallet: walletChallenge and saveProvenWallet             *)
(***************************************************************************)
Issued(u) == [by |-> u, was |-> wallet[u], used |-> FALSE, fee |-> 0]
Quoted(ch) == IF ch.was = None THEN 0 ELSE 1
WalletChallenge(u, i) ==
    /\ u \in signed /\ challenge[i] = None /\ made < MaxRequests
    /\ challenge' = [challenge EXCEPT ![i] = Issued(u)]
    /\ made' = made + 1
    /\ UNCHANGED <<gate, wallet, fees, req>>

\* Bug: a challenge stays good when another one has changed the wallet.
StillRegisteredAlways(ch) == TRUE

StillRegistered(ch) == wallet[ch.by] = ch.was
SaveWallet(i, a) ==
    LET ch == challenge[i]
        u == ch.by
        fee == IF wallet[u] \in {None, a} THEN 0 ELSE 1
    IN  /\ ch # None /\ u \in signed /\ made < MaxRequests
        /\ ~ch.used /\ StillRegistered(ch)
        /\ \A v \in Members \ {u} : wallet[v] # a
        /\ fees[u] + fee <= Funds[u]
        /\ wallet' = [wallet EXCEPT ![u] = a]
        /\ fees' = [fees EXCEPT ![u] = @ + fee]
        /\ challenge' = [challenge EXCEPT ![i].used = TRUE, ![i].fee = fee]
        /\ made' = made + 1
        /\ UNCHANGED <<gate, req>>

Init ==
    /\ role \in [Members -> FirstRoles] /\ \A u \in Bootstrap : role[u] = "none"
    /\ signed = {}
    /\ \E now \in {"none", "active"} : list = [c \in Channels |-> now]
    /\ joined = {} /\ verified = {}
    /\ text = 0 /\ accepted = {} /\ links = {}
    /\ agreeing = [u \in Members |-> None]
    /\ req = [s \in Slots |-> None] /\ made = 0
    /\ fees = [u \in Members |-> 0]
    /\ \/ /\ wallet = [u \in Members |-> None]
          /\ challenge = [i \in Challenges |-> None]
       \/ \E u \in Followers, first \in FirstWallets :
              /\ role[u] # "none"
              /\ wallet = [v \in Members |-> IF v = u THEN first ELSE None]
              /\ challenge = [i \in Challenges |-> Issued(u)]

Checks(s) ==
    \/ \E u \in Members, kind \in Kinds : Arrive(s, u, kind)
    \/ RequireUser(s) \/ ReadTerms(s) \/ FindAcceptance(s) \/ ListChannels(s)
    \/ \E c \in Channels : ListOne(s, c) \/ Ask(s, c)
    \/ Unavailable(s) \/ Answer(s)
Handlers(s) ==
    \/ \E u \in Members : ReadRole(s, u)
    \/ \E r \in Delegable : PatchRole(s, r)
    \/ \E c \in Channels :
           \/ \E now \in {"inactive", "active"} : SaveChannel(s, c, now)
           \/ DeleteChannel(s, c)
    \/ PutTerms(s) \/ MakeLink(s) \/ Finish(s)
Next ==
    \/ \E s \in Slots : Checks(s) \/ Handlers(s)
    \/ \E u \in Members :
           \/ Start(u) \/ SignIn(u) \/ AcceptTerms(u) \/ WriteAcceptance(u)
           \/ \E c \in Channels : JoinOrLeave(u, c)
           \/ \E i \in Challenges : WalletChallenge(u, i)
    \/ \E i \in Challenges, a \in Addresses : SaveWallet(i, a)
Spec == Init /\ [][Next]_vars

----------------------------------------------------------------------------
(***************************************************************************)
(* Properties                                                              *)
(***************************************************************************)
TypeOK ==
    /\ role \in [Members -> Roles \cup {"none"}]
    /\ signed \subseteq Members /\ links \subseteq Members
    /\ list \in [Channels -> {"none", "inactive", "active"}]
    /\ joined \subseteq Members \X Channels /\ verified \subseteq Members \X Channels
    /\ text \in Texts /\ accepted \subseteq Members \X Texts
    /\ agreeing \in [Members -> Texts \cup {None}]
    /\ req \in [Slots -> Requests \cup {None}]
    /\ made \in Nat
    /\ wallet \in [Members -> Addresses \cup {None}] /\ fees \in [Members -> Nat]
    /\ challenge \in [Challenges -> Rows \cup {None}]

\* "Membership gates new participation" (membership-policy.ts:1-2): a request
\* that passed its checks was entitled to while it was under way, however
\* roles, channels, Terms and memberships changed around its reads: its member
\* held a role that the handler needs, or was in every channel that was required
\* throughout, and has accepted a version of the Terms that was in force while the
\* request was under way.  (Not more: the version is read before the acceptance, and
\* POST /me/terms reads it before it writes, so the Terms may have changed by the
\* time the acceptance exists.)  What an earlier request found (a verified row, the
\* link of a report, an acceptance of older Terms) is never enough.
GateIsCurrent ==
    \A s \in Slots :
        req[s] # None /\ req[s].step = "passed" =>
            LET q == req[s]
            IN  /\ q.kind \in DOMAIN Staff => q.was \cap Staff[q.kind] # {}
                /\ q.kind \in Gated => q.was \ {"USER"} # {} \/ q.kept \subseteq q.seen
                /\ q.kind \in {"onboard", "verify"} => q.kept \subseteq q.seen
                /\ q.kind = "onboard" => \E v \in q.texts : <<q.by, v>> \in accepted

\* "First registration is free. Changing your registered address costs 50 GEN."
\* (wallet-verification.tsx:17): whatever challenges a member has open, each
\* takes at most the fee it quoted, he was charged those fees and no other, and
\* no two accounts share a wallet.
Charged(u) == {i \in Challenges : /\ challenge[i] # None
                                  /\ challenge[i].by = u /\ challenge[i].fee = 1}
LinkedAsQuoted ==
    /\ TypeOK
    /\ \A i \in Challenges : challenge[i] # None => challenge[i].fee <= Quoted(challenge[i])
    /\ \A u \in Members : fees[u] = Cardinality(Charged(u))
    /\ \A u, v \in Members : wallet[u] = wallet[v] /\ wallet[u] # None => u = v
=============================================================================
