---------------------------- MODULE MemberProofs ----------------------------
(***************************************************************************)
(* The member's side: the gate and the registered wallet of Accounts, and  *)
(* RetryIsSafe of Client, for any members, channels, requests, numbers,    *)
(* amounts and bounds.                                                     *)
(***************************************************************************)
EXTENDS Accounts, Client, FiniteSetTheorems, TLAPS

(***************************************************************************)
(* Accounts.  A request is entitled to what its member was and did         *)
(* (World), and what it has found so far agrees with that and with the     *)
(* acceptances there are (Found).  Found is monotone in what a member was  *)
(* and did, and no acceptance is taken back: so a step of anybody else     *)
(* keeps it, and a step of the request itself only has to re-establish it  *)
(* for what it read.                                                       *)
(***************************************************************************)
\* What the history of a request says of the world of now.
World(q) ==
    /\ role[q.by] \in q.was
    /\ q.kept \subseteq Active(list)
    /\ InChannel(q.by) \subseteq q.seen
    /\ text \in q.texts

\* What a request has found agrees with its history.
FoundRole(q) ==
    /\ q.kind \in DOMAIN Staff /\ q.step # "arrived" => q.was \cap Staff[q.kind] # {}
    /\ q.step \in {"list", "asking"} => q.kind \notin DOMAIN Staff
    /\ q.step \in {"terms", "accepted"} => q.kind = "onboard"
FoundTerms(q, acc) ==
    q.kind = "onboard" =>
        /\ q.step \in {"accepted", "list", "asking", "passed"} => q.text \in q.texts
        /\ q.step \in {"list", "asking", "passed"} => <<q.by, q.text>> \in acc
FoundChannels(q) ==
    /\ q.step = "asking" /\ q.ok => q.kept \subseteq q.seen \cup q.todo
    /\ q.step = "passed" /\ q.kind \in Gated => q.was \ {"USER"} # {} \/ q.kept \subseteq q.seen
    /\ q.step = "passed" /\ q.kind \in {"onboard", "verify"} => q.kept \subseteq q.seen
Found(q, acc) == FoundRole(q) /\ FoundTerms(q, acc) /\ FoundChannels(q)

\* A member who may ask has an account.
HasAccount == \A u \in signed \cup links : role[u] # "none"

\* The types of what a step of the gate can change.
GateType ==
    /\ role \in [Members -> Roles \cup {"none"}]
    /\ signed \subseteq Members /\ links \subseteq Members
    /\ list \in [Channels -> {"none", "inactive", "active"}]
    /\ joined \subseteq Members \X Channels /\ verified \subseteq Members \X Channels
    /\ text \in Texts /\ accepted \subseteq Members \X Texts
    /\ agreeing \in [Members -> Texts \cup {None}]
    /\ made \in Nat
ReqInv ==
    /\ req \in [Slots -> Requests \cup {None}]
    /\ \A s \in Slots : req[s] # None => World(req[s]) /\ Found(req[s], accepted)
GateInv == GateType /\ HasAccount /\ ReqInv

PurseInv ==
    /\ wallet \in [Members -> Addresses \cup {None}] /\ fees \in [Members -> Nat]
    /\ challenge \in [Challenges -> Rows \cup {None}]
    /\ \A i \in Challenges : challenge[i] # None =>
            /\ challenge[i].fee <= Quoted(challenge[i])
            /\ ~challenge[i].used => challenge[i].fee = 0
    /\ \A u \in Members : fees[u] = Cardinality(Charged(u))
    /\ \A u, v \in Members : wallet[u] = wallet[v] /\ wallet[u] # None => u = v

-----------------------------------------------------------------------------
(* Lemmas about the history of the requests. *)

\* A history that grows keeps what was found with it.
LEMMA FoundGrows ==
    ASSUME NEW q \in Requests, NEW p \in Requests, NEW before, NEW after, Found(q, before),
           before \subseteq after, p.by = q.by, p.text = q.text,
           p.kind = q.kind, p.step = q.step, p.ok = q.ok, p.todo = q.todo,
           q.was \subseteq p.was, p.kept \subseteq q.kept, q.seen \subseteq p.seen,
           q.texts \subseteq p.texts
    PROVE  Found(p, after)
BY DEF Found, FoundRole, FoundTerms, FoundChannels, Requests

\* After Lives every request stands to the new world as to the old one, if the
\* requests it starts from agree with their history.
LEMMA LivesKeeps ==
    ASSUME NEW next \in [Slots -> Requests \cup {None}], Lives(next),
           \A s \in Slots : next[s] # None => Found(next[s], accepted),
           accepted \subseteq accepted', GateType', \A s \in Slots : next[s] # None => role'[next[s].by] # "none"
    PROVE  ReqInv'
<1> SUFFICES ASSUME NEW s \in Slots
             PROVE  /\ req'[s] \in Requests \cup {None}
                    /\ req'[s] # None => World(req[s])' /\ Found(req'[s], accepted')
    BY DEF ReqInv, Lives, Found, FoundRole, FoundTerms, FoundChannels
<1>1. CASE next[s] = None
    BY <1>1 DEF Lives
<1>2. CASE next[s] # None
    <2> DEFINE q == next[s]
               p == [q EXCEPT !.was = @ \cup {role'[q.by]},
                              !.kept = @ \cap Active(list'),
                              !.seen = @ \cup {c \in Channels : <<q.by, c>> \in joined'},
                              !.texts = @ \cup {text'}]
    <2>1. req'[s] = p
        BY <1>2 DEF Lives
    <2>2. text' \in Texts /\ q \in Requests /\ Found(q, accepted) /\ role'[q.by] \in Roles
        BY <1>2 DEF GateType, Requests
    <2>3. /\ p.by = q.by /\ p.kind = q.kind /\ p.step = q.step /\ p.ok = q.ok
          /\ p.todo = q.todo /\ p.text = q.text
          /\ p.was = q.was \cup {role'[q.by]} /\ p.kept = q.kept \cap Active(list')
          /\ p.seen = q.seen \cup {c \in Channels : <<q.by, c>> \in joined'}
          /\ p.texts = q.texts \cup {text'}
        BY <2>2 DEF Requests
    <2>4. p \in Requests
        BY <2>2 DEF Requests
    <2>5. Found(p, accepted')
        <3> HIDE DEF p
        <3> QED BY <2>2, <2>3, <2>4, FoundGrows
    <2>6. World(req[s])'
        <3> HIDE DEF p
        <3> QED BY <2>1, <2>3 DEF World, InChannel, Active
    <2> QED BY <2>1, <2>4, <2>5, <2>6
<1> QED BY <1>1, <1>2
-----------------------------------------------------------------------------
(* The steps of a request through its checks. *)

\* A step inside a request leaves everything else alone.
LEMMA ChecksKeep ==
    ASSUME GateInv, NEW s \in Slots,
           RequireUser(s) \/ ReadTerms(s) \/ FindAcceptance(s) \/ ListChannels(s)
           \/ (\E c \in Channels : ListOne(s, c) \/ Ask(s, c))
           \/ Unavailable(s) \/ Answer(s)
    PROVE  GateInv'
<1> USE DEF GateInv
<1> DEFINE q == req[s]
<1>1. q # None /\ q \in Requests /\ World(q) /\ Found(q, accepted)
    BY DEF ReqInv, RequireUser, ReadTerms, FindAcceptance, ListChannels, ListOne, Ask, Unavailable, Answer
<1>2. UNCHANGED <<role, signed, list, joined, text, accepted, agreeing, links, made>>
    BY DEF gate, RequireUser, ReadTerms, FindAcceptance, ListChannels, ListOne, Ask, Unavailable, Answer
<1>3. verified' \subseteq Members \X Channels
    <2>1. CASE \E c \in Channels : Ask(s, c)
        <3>1. PICK c \in Channels : Ask(s, c)
            BY <2>1
        <3>2. <<q.by, c>> \in Members \X Channels
            BY <1>1 DEF Requests
        <3>3. verified' \subseteq verified \cup {<<q.by, c>>}
            BY <3>1 DEF Ask
        <3> QED BY <3>2, <3>3 DEF GateType
    <2>2. CASE verified' = verified
        BY <2>2 DEF GateType
    <2> QED BY <2>1, <2>2 DEF gate, RequireUser, ReadTerms, FindAcceptance, ListChannels, ListOne,
        Unavailable, Answer
<1>4. GateType' /\ HasAccount'
    BY <1>2, <1>3 DEF GateType, HasAccount
<1>5. \A t \in Slots : req[t] # None => role'[req[t].by] # "none" /\ req[t].by \in Members
    BY <1>2, AccountsAssumption DEF ReqInv, World, Requests, Roles
\* Whatever the request becomes, or None, if it agrees with its history.
<1>6. ASSUME NEW p \in Requests \cup {None}, Lives([req EXCEPT ![s] = p]),
             p # None => p.by = q.by /\ Found(p, accepted)
      PROVE  ReqInv'
    <2> DEFINE next == [req EXCEPT ![s] = p]
    <2>1. next \in [Slots -> Requests \cup {None}]
        BY DEF ReqInv
    <2>2. \A t \in Slots : next[t] # None => Found(next[t], accepted) /\ role'[next[t].by] # "none"
        BY <1>1, <1>5, <1>6 DEF ReqInv
    <2> HIDE DEF next
    <2> QED BY <2>1, <2>2, <1>2, <1>4, <1>6, LivesKeeps DEF next
<1>7. CASE Ends(s)
    BY <1>6, <1>7, <1>4 DEF Ends
<1>8. CASE RequireUser(s) /\ ~Ends(s)
    <2> DEFINE p == [q EXCEPT !.step = NextStep(q)]
    <2>1. p \in Requests
        BY <1>1 DEF Requests, Steps, NextStep
    <2>2. Found(p, accepted) /\ p.by = q.by
        BY <1>1, <1>8 DEF RequireUser, HasRole, NextStep, World, Found, FoundRole, FoundTerms,
            FoundChannels, Requests, Gated, Staff, Kinds
    <2>3. Lives([req EXCEPT ![s] = p])
        BY <1>8 DEF RequireUser
    <2> QED BY <2>1, <2>2, <2>3, <1>6, <1>4
<1>9. CASE ReadTerms(s)
    <2> DEFINE p == [q EXCEPT !.text = text, !.step = "accepted"]
    <2>1. p \in Requests
        BY <1>1 DEF Requests, Steps, GateType
    <2>2. Found(p, accepted) /\ p.by = q.by
        BY <1>1, <1>9 DEF ReadTerms, World, Found, FoundRole, FoundTerms,
            FoundChannels, Requests, Gated, Staff, Kinds
    <2>3. Lives([req EXCEPT ![s] = p])
        BY <1>9 DEF ReadTerms
    <2> QED BY <2>1, <2>2, <2>3, <1>6, <1>4
<1>14. CASE FindAcceptance(s) /\ ~Ends(s)
    <2> DEFINE p == [q EXCEPT !.step = "list"]
    <2>1. p \in Requests
        BY <1>1 DEF Requests, Steps
    <2>2. Found(p, accepted) /\ p.by = q.by
        <3>1. q.step = "accepted" /\ <<q.by, q.text>> \in accepted
            BY <1>14 DEF FindAcceptance, HasAccepted
        <3>2. q.kind = "onboard" /\ q.text \in q.texts
            BY <1>1, <3>1 DEF Found, FoundRole, FoundTerms
        <3> QED BY <1>1, <3>1, <3>2 DEF Found, FoundRole, FoundTerms, FoundChannels,
            Requests, Gated, Staff
    <2>3. Lives([req EXCEPT ![s] = p])
        BY <1>14 DEF FindAcceptance
    <2> QED BY <2>1, <2>2, <2>3, <1>6, <1>4
<1>10. CASE ListChannels(s)
    <2> DEFINE p == [q EXCEPT !.todo = Active(list), !.step = "asking"]
    <2>1. p \in Requests
        BY <1>1 DEF Requests, Steps, Active
    <2>2. Found(p, accepted) /\ p.by = q.by
        BY <1>1, <1>10 DEF ListChannels, World, Found, FoundRole, FoundTerms,
            FoundChannels, Requests, Gated, Staff, Kinds
    <2>3. Lives([req EXCEPT ![s] = p])
        BY <1>10 DEF ListChannels
    <2> QED BY <2>1, <2>2, <2>3, <1>6, <1>4
<1>11. ASSUME NEW c \in Channels, ListOne(s, c) PROVE ReqInv'
    <2> DEFINE p == [q EXCEPT !.todo = {c}, !.kept = @ \cap {c}, !.step = "asking"]
    <2>1. p \in Requests
        BY <1>1 DEF Requests, Steps
    <2>2. Found(p, accepted) /\ p.by = q.by
        BY <1>1, <1>11 DEF ListOne, Found, FoundRole, FoundTerms,
            FoundChannels, Requests, Gated, Staff, Kinds
    <2>3. Lives([req EXCEPT ![s] = p])
        BY <1>11 DEF ListOne
    <2> QED BY <2>1, <2>2, <2>3, <1>6
<1>12. ASSUME NEW c \in Channels, Ask(s, c) PROVE ReqInv'
    <2> DEFINE p == [q EXCEPT !.todo = @ \ {c}, !.ok = @ /\ IsMember(q.by, c)]
    <2>1. p \in Requests
        BY <1>1 DEF Requests, Steps, IsMember
    <2>2. Found(p, accepted) /\ p.by = q.by
        BY <1>1, <1>12 DEF Ask, IsMember, InChannel, World, Found, FoundRole, FoundTerms,
            FoundChannels, Requests, Gated, Staff, Kinds
    <2>3. Lives([req EXCEPT ![s] = p])
        BY <1>12 DEF Ask
    <2> QED BY <2>1, <2>2, <2>3, <1>6
<1>13. CASE Answer(s) /\ ~Ends(s)
    <2> DEFINE p == [q EXCEPT !.step = "passed"]
    <2>1. p \in Requests
        BY <1>1 DEF Requests, Steps
    <2>2. Found(p, accepted) /\ p.by = q.by
        BY <1>1, <1>13 DEF Answer, Found, FoundRole, FoundTerms,
            FoundChannels, Requests, Gated, Staff, Kinds
    <2>3. Lives([req EXCEPT ![s] = p])
        BY <1>13 DEF Answer
    <2> QED BY <2>1, <2>2, <2>3, <1>6, <1>4
<1> QED BY <1>4, <1>7, <1>8, <1>9, <1>10, <1>11, <1>12, <1>13, <1>14 DEF Unavailable

\* A new request has found nothing yet.
LEMMA ArriveKeeps ==
    ASSUME GateInv, NEW s \in Slots, NEW u \in Members, NEW kind \in Kinds,
           Arrive(s, u, kind)
    PROVE  GateInv'
<1> USE DEF GateInv
<1>1. UNCHANGED gate /\ made' = made + 1
    BY DEF Arrive
<1>2. GateType' /\ HasAccount'
    BY <1>1 DEF gate, GateType, HasAccount
<1>3. role[u] \in Roles
    BY DEF Arrive, MayAsk, HasAccount, GateType, Roles
<1> DEFINE new == [by |-> u, kind |-> kind, step |-> "arrived", text |-> 0,
                   todo |-> {}, ok |-> TRUE, whom |-> None, was |-> {role[u]},
                   kept |-> Active(list), seen |-> InChannel(u), texts |-> {text}]
<1>4. new \in Requests
    BY <1>3, AccountsAssumption DEF Requests, Steps, Active, InChannel, GateType, Texts
<1>5. World(new) /\ Found(new, accepted)
    BY DEF World, Found, FoundRole, FoundTerms, FoundChannels
<1>6. req' = [req EXCEPT ![s] = new]
    BY DEF Arrive
<1> HIDE DEF new
<1>8. \A t \in Slots : req'[t] # None => World(req[t])' /\ Found(req'[t], accepted')
    BY <1>1, <1>5, <1>6 DEF gate, ReqInv, World, InChannel
<1> QED BY <1>2, <1>4, <1>6, <1>8 DEF ReqInv, Found, FoundRole, FoundTerms, FoundChannels
\* Handlers and members change the world, not what a request has found.
LEMMA WorldKeeps ==
    ASSUME GateInv, GateType', accepted \subseteq accepted',
           \A u \in Members : role[u] # "none" => role'[u] # "none",
           \A u \in (signed' \cup links') \ (signed \cup links) : role'[u] # "none",
           Lives(req) \/ \E s \in Slots : Ends(s)
    PROVE  GateInv'
<1> USE DEF GateInv
<1>1. HasAccount'
    BY DEF HasAccount, GateType
<1>2. \A t \in Slots : req[t] # None =>
            Found(req[t], accepted) /\ req[t].by \in Members /\ role'[req[t].by] # "none"
    <2> SUFFICES ASSUME NEW t \in Slots, req[t] # None
                 PROVE  Found(req[t], accepted) /\ req[t].by \in Members /\ role[req[t].by] \in Roles
        BY DEF Roles
    <2> QED BY DEF ReqInv, World, Requests
<1>3. CASE Lives(req)
    BY <1>1, <1>2, <1>3, LivesKeeps DEF ReqInv
<1>4. ASSUME NEW s \in Slots, Ends(s) PROVE ReqInv'
    <2> DEFINE next == [req EXCEPT ![s] = None]
    <2>1. next \in [Slots -> Requests \cup {None}]
        BY DEF ReqInv
    <2>2. \A t \in Slots : next[t] # None => Found(next[t], accepted) /\ role'[next[t].by] # "none"
        BY <1>2 DEF ReqInv
    <2>3. Lives(next)
        BY <1>4 DEF Ends
    <2> HIDE DEF next
    <2> QED BY <2>1, <2>2, <2>3, LivesKeeps
<1> QED BY <1>1, <1>3, <1>4

\* A handler that has passed its checks.
LEMMA HandlersKeep ==
    ASSUME GateInv, NEW s \in Slots, Handlers(s)
    PROVE  GateInv'
<1> USE DEF GateInv
<1>1. ASSUME NEW r \in Delegable, PatchRole(s, r) PROVE GateInv'
    <2>1. role' = [role EXCEPT ![req[s].whom] = r] /\ r \in Roles /\ r # "none"
        BY <1>1 DEF PatchRole, Delegable, Roles
    <2>2. UNCHANGED <<signed, list, joined, verified, text, accepted, agreeing, links, made>> /\ Ends(s)
        BY <1>1 DEF PatchRole
    <2>3. GateType' /\ \A v \in Members : role[v] # "none" => role'[v] # "none"
        BY <2>1, <2>2 DEF GateType
    <2> QED BY <2>2, <2>3, WorldKeeps
<1>7. ASSUME NEW u \in Members, ReadRole(s, u) PROVE GateInv'
    <2> DEFINE q == req[s]
               p == [q EXCEPT !.whom = u, !.step = "patching"]
               next == [req EXCEPT ![s] = p]
    <2>1. q # None /\ q.step = "passed" /\ q.kind = "super" /\ UNCHANGED <<gate, made>>
        BY <1>7 DEF ReadRole, Passed
    <2>2. q \in Requests /\ World(q) /\ Found(q, accepted)
        BY <2>1 DEF ReqInv
    <2>3. p \in Requests /\ p.by = q.by
        BY <2>2 DEF Requests, Steps
    <2>4. Found(p, accepted)
        BY <2>1, <2>2 DEF Found, FoundRole, FoundTerms, FoundChannels, Requests, Gated, Staff
    <2>5. Lives(next)
        BY <1>7 DEF ReadRole
    <2>6. GateType' /\ HasAccount' /\ accepted' = accepted /\ role' = role
        BY <2>1 DEF gate, GateType, HasAccount
    <2> HIDE DEF p
    <2>7. next \in [Slots -> Requests \cup {None}]
        BY <2>3 DEF ReqInv
    <2>8. \A t \in Slots : next[t] # None =>
              Found(next[t], accepted) /\ role'[next[t].by] # "none"
        <3>1. \A t \in Slots : req[t] # None => role[req[t].by] # "none"
            BY DEF ReqInv, World, Requests, Roles
        <3> QED BY <2>1, <2>3, <2>4, <2>6, <3>1 DEF ReqInv
    <2> HIDE DEF next
    <2> QED BY <2>5, <2>6, <2>7, <2>8, LivesKeeps
<1>2. CASE PutTerms(s)
    <2>1. GateType' /\ UNCHANGED <<role, signed, accepted, links>> /\ Ends(s)
        BY <1>2, AccountsAssumption DEF PutTerms, GateType, Texts
    <2> QED BY <2>1, WorldKeeps
<1>3. ASSUME NEW c \in Channels, NEW now \in {"inactive", "active"}, SaveChannel(s, c, now)
      PROVE  GateInv'
    <2>1. GateType' /\ UNCHANGED <<role, signed, accepted, links>> /\ Ends(s)
        BY <1>3 DEF SaveChannel, GateType
    <2> QED BY <2>1, WorldKeeps
<1>4. ASSUME NEW c \in Channels, DeleteChannel(s, c) PROVE GateInv'
    <2>1. GateType' /\ UNCHANGED <<role, signed, accepted, links>> /\ Ends(s)
        BY <1>4 DEF DeleteChannel, GateType
    <2> QED BY <2>1, WorldKeeps
<1>5. CASE MakeLink(s)
    <2>1. req[s].by \in Members /\ role[req[s].by] \in Roles
        BY <1>5 DEF MakeLink, Passed, ReqInv, World, Requests
    <2>2. GateType' /\ UNCHANGED <<role, signed, accepted>> /\ Ends(s)
        BY <1>5, <2>1 DEF MakeLink, GateType
    <2>3. \A u \in (signed' \cup links') \ (signed \cup links) : role'[u] # "none"
        BY <1>5, <2>1, <2>2 DEF MakeLink, Roles
    <2> QED BY <2>2, <2>3, WorldKeeps
<1>6. CASE Finish(s)
    <2>1. GateType' /\ UNCHANGED <<role, signed, accepted, links>> /\ Ends(s)
        BY <1>6 DEF Finish, gate, GateType
    <2> QED BY <2>1, WorldKeeps
<1> QED BY <1>1, <1>2, <1>3, <1>4, <1>5, <1>6, <1>7 DEF Handlers

\* Signing in, accepting the Terms, joining and leaving.
LEMMA MembersKeep ==
    ASSUME GateInv, NEW u \in Members,
           Start(u) \/ SignIn(u) \/ AcceptTerms(u) \/ WriteAcceptance(u)
             \/ \E c \in Channels : JoinOrLeave(u, c)
    PROVE  GateInv'
<1> USE DEF GateInv
<1>1. RoleAtStart(u) \in Roles /\ RoleAtStart(u) # "none"
    BY DEF RoleAtStart, GateType, Roles
<1>2. CASE Start(u)
    <2>1. GateType' /\ UNCHANGED <<signed, accepted, links>> /\ Lives(req)
        BY <1>1, <1>2 DEF Start, GateType
    <2>2. \A v \in Members : role[v] # "none" => role'[v] # "none"
        BY <1>1, <1>2 DEF Start, GateType
    <2> QED BY <2>1, <2>2, WorldKeeps
<1>3. CASE SignIn(u)
    <2>1. GateType' /\ links' = links /\ accepted' = accepted /\ signed' = signed \cup {u} /\ Lives(req)
        BY <1>1, <1>3 DEF SignIn, GateType
    <2>2. role'[u] # "none" /\ \A v \in Members : role[v] # "none" => role'[v] # "none"
        BY <1>1, <1>3 DEF SignIn, GateType
    <2> QED BY <2>1, <2>2, WorldKeeps
<1>4. CASE AcceptTerms(u)
    <2>1. GateType' /\ UNCHANGED <<role, signed, accepted, links>> /\ Lives(req)
        BY <1>4 DEF AcceptTerms, GateType
    <2> QED BY <2>1, WorldKeeps
<1>6. CASE WriteAcceptance(u)
    <2>1. <<u, agreeing[u]>> \in Members \X Texts
        BY <1>6 DEF WriteAcceptance, GateType
    <2>2. /\ GateType' /\ accepted \subseteq accepted'
          /\ UNCHANGED <<role, signed, links>> /\ Lives(req)
        BY <1>6, <2>1 DEF WriteAcceptance, GateType
    <2> QED BY <2>2, WorldKeeps
<1>5. ASSUME NEW c \in Channels, JoinOrLeave(u, c) PROVE GateInv'
    <2>1. joined' \subseteq Members \X Channels
        BY <1>5 DEF JoinOrLeave, GateType
    <2>2. GateType' /\ UNCHANGED <<role, signed, accepted, links>> /\ Lives(req)
        BY <1>5, <2>1 DEF JoinOrLeave, GateType
    <2> QED BY <2>2, WorldKeeps
<1> QED BY <1>2, <1>3, <1>4, <1>5, <1>6

-----------------------------------------------------------------------------
(* The steps of the wallet. *)

\* A challenge or a proof touches no request.
LEMMA GateAside ==
    ASSUME GateInv, UNCHANGED <<gate, req>>, made' \in Nat
    PROVE  GateInv'
BY DEF GateInv, GateType, HasAccount, ReqInv, World, InChannel, gate

\* A new challenge quotes the fee for the wallet of now.
LEMMA ChallengeKeeps ==
    ASSUME PurseInv, NEW u \in Members, NEW i \in Challenges, WalletChallenge(u, i)
    PROVE  PurseInv'
<1>1. challenge' = [challenge EXCEPT ![i] = Issued(u)] /\ UNCHANGED <<wallet, fees>>
    BY DEF WalletChallenge
<1>2. Issued(u) = [by |-> u, was |-> wallet[u], used |-> FALSE, fee |-> 0]
    BY DEF Issued
<1>3. \A v \in Members : Charged(v)' = Charged(v)
    BY <1>1, <1>2 DEF Charged, PurseInv, WalletChallenge
<1>4. \A v \in Members : fees'[v] = Cardinality(Charged(v)')
    BY <1>1, <1>3 DEF PurseInv
<1>5. Issued(u) \in Rows
    BY <1>2 DEF PurseInv, Rows
<1>6. Issued(u).fee = 0 /\ 0 <= Quoted(Issued(u))
    BY <1>2 DEF Quoted
<1> HIDE <1>2
<1>7. \A j \in Challenges : challenge'[j] # None =>
            challenge'[j].fee <= Quoted(challenge'[j]) /\ (~challenge'[j].used => challenge'[j].fee = 0)
    BY <1>1, <1>6 DEF PurseInv
<1> QED BY <1>1, <1>4, <1>5, <1>7 DEF PurseInv

\* A proof takes the fee its challenge quoted, once, and a free address.
LEMMA SaveKeeps ==
    ASSUME PurseInv, NEW i \in Challenges, NEW a \in Addresses, SaveWallet(i, a)
    PROVE  PurseInv'
<1> DEFINE ch == challenge[i]
           u == ch.by
           fee == IF wallet[u] \in {None, a} THEN 0 ELSE 1
           new == [ch EXCEPT !.used = TRUE, !.fee = fee]
<1>1. /\ ch # None /\ ~ch.used /\ wallet[u] = ch.was /\ u \in Members
      /\ ch \in Rows
      /\ ch.fee = 0
    BY DEF SaveWallet, StillRegistered, PurseInv, Rows
<1>2. /\ wallet' = [wallet EXCEPT ![u] = a] /\ fees' = [fees EXCEPT ![u] = @ + fee]
      /\ challenge' = [challenge EXCEPT ![i] = new]
      /\ \A v \in Members \ {u} : wallet[v] # a
    BY <1>1 DEF SaveWallet, PurseInv
<1>3. fee \in {0, 1} /\ fee <= Quoted(ch)
    BY <1>1 DEF Quoted
<1>4. /\ new \in Rows /\ new # None
      /\ new.by = u /\ new.used /\ new.fee = fee /\ Quoted(new) = Quoted(ch)
    BY <1>1, <1>3, NoneAssumption DEF Quoted, Rows
<1> HIDE DEF fee, new
<1>5. wallet' \in [Members -> Addresses \cup {None}] /\ fees' \in [Members -> Nat]
    BY <1>1, <1>2, <1>3 DEF PurseInv
<1>6. \A j \in Challenges : challenge'[j] # None =>
            challenge'[j].fee <= Quoted(challenge'[j]) /\ (~challenge'[j].used => challenge'[j].fee = 0)
    BY <1>2, <1>3, <1>4 DEF PurseInv
<1>7. \A v, w \in Members : wallet'[v] = wallet'[w] /\ wallet'[v] # None => v = w
    BY <1>2 DEF PurseInv
<1>8. ASSUME NEW v \in Members PROVE fees'[v] = Cardinality(Charged(v)')
    <2>1. IsFiniteSet(Charged(v)) /\ i \notin Charged(v)
        BY <1>1, AccountsAssumption, FS_Subset DEF Charged
    <2>2. CASE v = u /\ fee = 1
        <3>1. Charged(v)' = Charged(v) \cup {i}
            BY <1>2, <1>4, <2>2 DEF Charged, PurseInv
        <3>2. fees'[v] = fees[v] + 1
            BY <1>2, <2>2 DEF PurseInv
        <3> QED BY <2>1, <3>1, <3>2, FS_AddElement DEF PurseInv
    <2>3. CASE ~(v = u /\ fee = 1)
        <3>1. Charged(v)' = Charged(v)
            BY <1>1, <1>2, <1>3, <1>4, <2>3 DEF Charged, PurseInv
        <3>2. fees'[v] = fees[v]
            BY <1>2, <1>3, <2>3 DEF PurseInv
        <3> QED BY <3>1, <3>2 DEF PurseInv
    <2> QED BY <2>2, <2>3
<1> QED BY <1>2, <1>4, <1>5, <1>6, <1>7, <1>8 DEF PurseInv

-----------------------------------------------------------------------------
(* The invariant, and what follows from it. *)

LEMMA InitHolds == Init => GateInv /\ PurseInv
<1> SUFFICES ASSUME Init PROVE GateInv /\ PurseInv
    OBVIOUS
<1> USE AccountsAssumption
<1>1. FirstRoles \subseteq Roles \cup {"none"}
    BY DEF Delegable
<1>2. GateInv
    <2>1. list \in [Channels -> {"none", "inactive", "active"}]
        BY DEF Init
    <2> QED BY <1>1, <2>1 DEF Init, GateInv, GateType, HasAccount, ReqInv, Texts
<1>3. CASE /\ wallet = [u \in Members |-> None]
           /\ challenge = [i \in Challenges |-> None]
    <2>1. \A u \in Members : Charged(u) = {}
        BY <1>3 DEF Charged
    <2> QED BY <1>2, <1>3, <2>1, FS_EmptySet DEF Init, PurseInv
<1>4. ASSUME NEW u \in Followers, NEW first \in FirstWallets,
             wallet = [v \in Members |-> IF v = u THEN first ELSE None],
             challenge = [i \in Challenges |-> Issued(u)]
      PROVE  PurseInv
    <2>1. wallet \in [Members -> Addresses \cup {None}] /\ u \in Members
        BY <1>4
    <2>2. Issued(u) = [by |-> u, was |-> wallet[u], used |-> FALSE, fee |-> 0]
        BY DEF Issued
    <2>3. /\ Issued(u).fee = 0 /\ Issued(u).fee <= Quoted(Issued(u))
          /\ Issued(u) \in Rows
        BY <2>1, <2>2 DEF Quoted, Rows
    <2>4. \A v \in Members : Charged(v) = {}
        BY <1>4, <2>3 DEF Charged
    <2>5. fees = [v \in Members |-> 0]
        BY DEF Init
    <2> QED BY <1>4, <2>1, <2>3, <2>4, <2>5, FS_EmptySet DEF PurseInv
<1> QED BY <1>2, <1>3, <1>4 DEF Init

LEMMA NextKeeps ==
    ASSUME GateInv, PurseInv, [Next]_vars
    PROVE  GateInv' /\ PurseInv'
<1>1. ASSUME UNCHANGED purse PROVE PurseInv'
    BY <1>1 DEF PurseInv, Charged, purse
<1>2. ASSUME NEW s \in Slots, Checks(s) PROVE GateInv' /\ UNCHANGED purse
    <2>1. UNCHANGED purse
        BY <1>2 DEF Checks, Arrive, RequireUser, ReadTerms, FindAcceptance, ListChannels, ListOne, Ask,
            Unavailable, Answer
    <2> QED BY <1>2, <2>1, ChecksKeep, ArriveKeeps DEF Checks
<1>3. ASSUME NEW s \in Slots, Handlers(s) PROVE GateInv' /\ UNCHANGED purse
    <2>1. UNCHANGED purse
        BY <1>3 DEF Handlers, ReadRole, PatchRole, PutTerms, SaveChannel, DeleteChannel, MakeLink, Finish
    <2> QED BY <1>3, <2>1, HandlersKeep
<1>4. ASSUME NEW u \in Members,
             Start(u) \/ SignIn(u) \/ AcceptTerms(u) \/ WriteAcceptance(u)
             \/ \E c \in Channels : JoinOrLeave(u, c)
      PROVE  GateInv' /\ UNCHANGED purse
    <2>1. UNCHANGED purse
        BY <1>4 DEF Start, SignIn, AcceptTerms, WriteAcceptance, JoinOrLeave
    <2> QED BY <1>4, <2>1, MembersKeep
<1>5. ASSUME NEW u \in Members, NEW i \in Challenges, WalletChallenge(u, i)
      PROVE  GateInv' /\ PurseInv'
    <2>1. UNCHANGED <<gate, req>> /\ made' \in Nat
        BY <1>5 DEF WalletChallenge, GateInv, GateType
    <2> QED BY <1>5, <2>1, GateAside, ChallengeKeeps
<1>6. ASSUME NEW i \in Challenges, NEW a \in Addresses, SaveWallet(i, a)
      PROVE  GateInv' /\ PurseInv'
    <2>1. UNCHANGED <<gate, req>> /\ made' \in Nat
        BY <1>6 DEF SaveWallet, GateInv, GateType
    <2> QED BY <1>6, <2>1, GateAside, SaveKeeps
<1>7. CASE UNCHANGED vars
    <2>1. UNCHANGED <<gate, req, purse>> /\ made' \in Nat
        BY <1>7 DEF vars, GateInv, GateType
    <2> QED BY <2>1, <1>1, GateAside
<1> QED BY <1>1, <1>2, <1>3, <1>4, <1>5, <1>6, <1>7 DEF Next

\* A request that passed its checks was entitled to, for any number of members,
\* channels, requests at once, changes of roles and versions of the Terms.
THEOREM GateIsCurrentHolds == Spec => []GateIsCurrent
<1>1. GateInv => GateIsCurrent
    BY DEF GateInv, ReqInv, Found, FoundRole, FoundTerms, FoundChannels, GateIsCurrent
<1> QED BY <1>1, InitHolds, NextKeeps, PTL DEF Spec

\* Every reachable state has its types, and wallets are registered once, for
\* the fee their challenge quoted, whatever challenges are open.
THEOREM LinkedAsQuotedHolds == Spec => []LinkedAsQuoted
<1>1. GateInv /\ PurseInv => LinkedAsQuoted
    BY DEF GateInv, GateType, ReqInv, PurseInv, LinkedAsQuoted, TypeOK
<1> QED BY <1>1, InitHolds, NextKeeps, PTL DEF Spec

----------------------------------------------------------------------------
(***************************************************************************)
(* Client.  What was asked of the server is on the wire or recorded        *)
(* (Asked).  A key belongs to one request (KeyInv); what a panel asked and *)
(* was not told of is what its refs still hold (RefInv), so a new attempt  *)
(* takes the same key; and a panel waits for one answer at a time          *)
(* (WaitInv), so the answer it is told clears the ref of its own request.  *)
(***************************************************************************)
Item(x) == [op |-> x.op, arg |-> x.arg, mount |-> x.mount, key |-> x.key]
OnWire == {c \in wire : c.op \in Forms}
Asked == {Item(x) : x \in OnWire \cup recorded}
Awaited == {c \in OnWire : c.heard}

SameRequest(p, q) == p.op = q.op /\ p.mount = q.mount /\ (p.op = "bid" => p.arg = q.arg)

\* A key names one request, and a panel has one open request of a kind.
KeyInv ==
    /\ nextKey \in Nat \ {0} /\ mount \in Nat
    /\ \A k \in closed : k \in Nat /\ k < nextKey
    /\ \A p \in Asked :
        /\ p.op \in Forms /\ p.key \in Nat /\ 0 < p.key /\ p.key < nextKey
        /\ p.arg \in IF p.op = "bid" THEN Numbers ELSE Amounts
        /\ p.mount \in Nat /\ p.mount <= mount
    /\ \A p, q \in Asked : p.key = q.key => p = q
    /\ \A p, q \in Asked : SameRequest(p, q) /\ p.key \notin closed /\ q.key \notin closed => p = q

\* The refs of a panel name its own open requests, each another one.
Fresh(key, item) ==
    /\ key \in Nat /\ 0 < key /\ key < nextKey /\ key \notin closed
    /\ \A p \in Asked : p.key = key => p = item
RefInv ==
    /\ bidKeys \in [Numbers -> Nat] /\ (retry = Nothing \/ retry \in [amount : Amounts, key : Nat])
    /\ \A n \in Numbers : bidKeys[n] # 0 =>
        Fresh(bidKeys[n], [op |-> "bid", arg |-> n, mount |-> mount, key |-> bidKeys[n]])
    /\ \A n, m \in Numbers : bidKeys[n] # 0 /\ bidKeys[n] = bidKeys[m] => n = m
    /\ retry # Nothing =>
        /\ Fresh(retry.key, [op |-> "withdraw", arg |-> retry.amount, mount |-> mount,
                             key |-> retry.key])
        /\ \A n \in Numbers : bidKeys[n] # retry.key
    /\ \A p \in Asked : p.mount = mount /\ p.key \notin closed =>
        IF p.op = "bid" THEN bidKeys[p.arg] = p.key ELSE retry # Nothing /\ retry.key = p.key

\* A panel waits for one call at a time, which is its own and still open.
WaitInv ==
    /\ \A c \in Awaited : guard /\ c.mount = mount /\ c.key \notin closed
    /\ \A c, d \in Awaited : c = d

RecordInv == \A r \in recorded : /\ r.op \in Forms
                                 /\ \A q \in recorded : q.key = r.key => q = r
LiveInv == token = "live" => hours < LaunchHours
Inv == ClientTypeOK /\ KeyInv /\ RefInv /\ WaitInv /\ RecordInv /\ LiveInv

-----------------------------------------------------------------------------
(* Steps that ask nothing new. *)

LEMMA FewerKeep ==
    ASSUME Inv, Asked' \subseteq Asked, UNCHANGED <<mount, bidKeys, retry, closed, nextKey>>
    PROVE  KeyInv' /\ RefInv'
BY DEF Inv, KeyInv, RefInv, Fresh, SameRequest

\* An answered, renewed or lost call is the same request, if it stays at all.
LEMMA SameCalls ==
    ASSUME NEW c \in wire, wire \subseteq Calls, NEW S,
           \A d \in S : d \in Calls /\ d.op = c.op /\ Item(d) = Item(c) /\ (d.heard => c.heard),
           wire' = (wire \ {c}) \cup S,
           recorded' = recorded
    PROVE  /\ Asked' \subseteq Asked /\ wire' \subseteq Calls
           /\ \A d \in Awaited' : d \in Awaited \ {c} \/ (c \in Awaited /\ d \in S)
<1>1. wire' \subseteq Calls
    OBVIOUS
<1>2. ASSUME NEW d \in S, d.op \in Forms PROVE Item(d) \in Asked
    BY <1>2 DEF Asked, OnWire
<1>3. Asked' \subseteq Asked
    BY <1>2 DEF Asked, OnWire, Item
<1> QED BY <1>1, <1>3 DEF Awaited, OnWire
\* The server answers a call, or the page sends it once more.
LEMMA AnswerKeeps ==
    ASSUME Inv, NEW c \in wire, NEW S,
           \A d \in S : d \in Calls /\ d.op = c.op /\ Item(d) = Item(c) /\ (d.heard => c.heard),
           \A d, e \in S : d = e,
           wire' = (wire \ {c}) \cup S, recorded' = recorded,
           UNCHANGED <<mount, bidKeys, retry, closed, nextKey, guard>>
    PROVE  wire' \subseteq Calls /\ KeyInv' /\ RefInv' /\ WaitInv'
<1>1. /\ Asked' \subseteq Asked /\ wire' \subseteq Calls
      /\ \A d \in Awaited' : d \in Awaited \ {c} \/ (c \in Awaited /\ d \in S)
    BY SameCalls DEF Inv, ClientTypeOK
<1>2. \A d \in S : d.mount = c.mount /\ d.key = c.key
    BY DEF Item
<1>3. WaitInv'
    BY <1>1, <1>2 DEF Inv, WaitInv
<1> QED BY <1>1, <1>3, FewerKeep

\* A call that failed is heard no more, and its panel waits no more.
LEMMA FailureKeeps ==
    ASSUME Inv, NEW c \in wire, c.heard, Failed(c),
           wire' \in {wire \ {c}, (wire \ {c}) \cup Orphans({c})}
    PROVE  wire' \subseteq Calls /\ KeyInv' /\ RefInv' /\ WaitInv'
<1>1. PICK S \in {{}, Orphans({c})} : wire' = (wire \ {c}) \cup S
    OBVIOUS
<1>2. c \in Calls /\ wire \subseteq Calls
    BY DEF Inv, ClientTypeOK
<1>3. ASSUME NEW d \in S
      PROVE  d \in Calls /\ d.op = c.op /\ Item(d) = Item(c) /\ ~d.heard
    <2>1. d = [c EXCEPT !.heard = FALSE]
        BY DEF Orphans
    <2> QED BY <1>2, <2>1 DEF Item, Calls
<1>4. UNCHANGED <<mount, bidKeys, retry, closed, nextKey, recorded>>
      /\ guard' = (guard /\ c.op \notin Forms)
    BY DEF Failed, KeptAfterFailure, api
<1>5. /\ Asked' \subseteq Asked /\ wire' \subseteq Calls
      /\ \A d \in Awaited' : d \in Awaited \ {c} \/ (c \in Awaited /\ d \in S)
    BY <1>1, <1>2, <1>3, <1>4, SameCalls
<1>6. \A d \in Awaited' : d \in Awaited \ {c}
    BY <1>3, <1>5 DEF Awaited
<1>7. WaitInv'
    BY <1>4, <1>6 DEF Inv, WaitInv, Awaited, OnWire
<1> QED BY <1>4, <1>5, <1>7, FewerKeep

\* The success of a call closes its key, which the refs hold no more.
LEMMA AcceptedKeeps ==
    ASSUME Inv, NEW c \in wire, Accepted(c)
    PROVE  Inv'
<1>1. /\ c.op \in Forms /\ c.heard /\ wire' = wire \ {c} /\ closed' = closed \cup {c.key}
      /\ bidKeys' = (IF c.op = "bid" THEN [bidKeys EXCEPT ![c.arg] = 0] ELSE bidKeys)
      /\ retry' = (IF c.op = "withdraw" THEN Nothing ELSE retry)
      /\ guard' = FALSE
      /\ UNCHANGED <<tab, mount, token, hours, shown, recorded, server, nextKey>>
    BY DEF Accepted, Heard, api
<1>2. c \in Awaited /\ Item(c) \in Asked
    BY <1>1 DEF Awaited, OnWire, Asked
<1>3. c.mount = mount /\ c.key \notin closed /\ Awaited = {c}
    BY <1>2 DEF Inv, WaitInv
<1>4. IF c.op = "bid" THEN c.arg \in Numbers /\ bidKeys[c.arg] = c.key
                      ELSE retry # Nothing /\ retry.key = c.key
    BY <1>1, <1>2, <1>3 DEF Inv, KeyInv, RefInv, Item
<1>5. Asked' \subseteq Asked
    BY <1>1 DEF Asked, OnWire
<1>6. KeyInv'
    <2>1. c.key \in Nat /\ c.key < nextKey
        BY <1>2 DEF Inv, KeyInv, Item
    <2>2. \A k \in closed' : k \in Nat /\ k < nextKey'
        BY <1>1, <2>1 DEF Inv, KeyInv
    <2> QED BY <1>1, <1>5, <2>2 DEF Inv, KeyInv, SameRequest
<1>7. RefInv'
    <2>1. bidKeys' \in [Numbers -> Nat] /\ (retry' = Nothing \/ retry' \in [amount : Amounts, key : Nat])
        BY <1>1 DEF Inv, RefInv
    <2>2. \A n \in Numbers : bidKeys'[n] # 0 => bidKeys'[n] = bidKeys[n] /\ bidKeys[n] # c.key
        BY <1>1, <1>4 DEF Inv, RefInv, Forms
    <2>3. retry' # Nothing => retry' = retry /\ retry.key # c.key
        BY <1>1, <1>4 DEF Inv, RefInv, Forms
    <2>4. \A p \in Asked' : p.mount = mount /\ p.key \notin closed' =>
            IF p.op = "bid" THEN bidKeys'[p.arg] = p.key ELSE retry' # Nothing /\ retry'.key = p.key
        <3> SUFFICES ASSUME NEW p \in Asked, p.mount = mount, p.key \notin closed, p.key # c.key
                     PROVE  IF p.op = "bid" THEN bidKeys'[p.arg] = p.key
                                            ELSE retry' # Nothing /\ retry'.key = p.key
            BY <1>1, <1>5
        <3>1. p.op \in Forms /\ (p.op = "bid" => p.arg \in Numbers)
            BY DEF Inv, KeyInv
        <3> QED BY <1>1, <1>4, <3>1 DEF Inv, RefInv, Forms
    <2>5. \A n \in Numbers : bidKeys'[n] # 0 =>
            Fresh(bidKeys[n], [op |-> "bid", arg |-> n, mount |-> mount, key |-> bidKeys[n]])'
        BY <1>1, <1>5, <2>2 DEF Inv, RefInv, Fresh
    <2>6. retry' # Nothing =>
            Fresh(retry.key, [op |-> "withdraw", arg |-> retry.amount, mount |-> mount,
                              key |-> retry.key])'
        BY <1>1, <1>5, <2>3 DEF Inv, RefInv, Fresh
    <2>7. \A n, m \in Numbers : bidKeys'[n] # 0 /\ bidKeys'[n] = bidKeys'[m] => n = m
        BY <2>2 DEF Inv, RefInv
    <2>8. retry' # Nothing => \A n \in Numbers : bidKeys'[n] # retry'.key
        BY <2>2, <2>3 DEF Inv, RefInv, Fresh
    <2>9. \A n \in Numbers : bidKeys'[n] # 0 =>
            Fresh(bidKeys[n], [op |-> "bid", arg |-> n, mount |-> mount, key |-> bidKeys[n]])'
        BY <2>5
    <2> QED BY <1>1, <2>1, <2>2, <2>3, <2>4, <2>5, <2>6, <2>7, <2>8 DEF RefInv
<1>8. WaitInv'
    BY <1>1, <1>3 DEF WaitInv, Awaited, OnWire
<1> QED BY <1>1, <1>6, <1>7, <1>8 DEF Inv, ClientTypeOK, RefInv, RecordInv, LiveInv

\* What is recorded was on the wire.
LEMMA RecordKeeps ==
    ASSUME Inv, NEW c \in wire, Record(c)
    PROVE  Inv'
<1>1. /\ c.op \in Forms /\ c \in Calls /\ UNCHANGED <<app, server, closed, nextKey>>
      /\ Answered(c, "ok", 0)
    BY DEF Record, Inv, ClientTypeOK
<1> DEFINE r == [key |-> c.key, arg |-> c.arg, op |-> c.op, mount |-> c.mount,
                 nr |-> Cardinality(recorded)]
           S == {x \in {[c EXCEPT !.answer = "ok", !.version = 0]} : x.heard}
<1>2. recorded' = IF Prior(c) THEN recorded ELSE recorded \cup {r}
    BY DEF Record
<1>3. Item(r) = Item(c) /\ r.op = c.op /\ r.key = c.key
    BY DEF Item
<1>4. ASSUME NEW d \in S
      PROVE  /\ d \in Calls /\ d.op = c.op /\ Item(d) = Item(c) /\ d.heard = c.heard
             /\ d.mount = c.mount /\ d.key = c.key
    <2>1. d = [c EXCEPT !.answer = "ok", !.version = 0]
        OBVIOUS
    <2> QED BY <1>1, <2>1 DEF Calls, Item
<1>5. wire' = (wire \ {c}) \cup S
    BY <1>1 DEF Answered
<1> HIDE DEF r, S
<1>6. Asked' \subseteq Asked
    BY <1>1, <1>2, <1>3, <1>4, <1>5 DEF Asked, OnWire
<1>7. KeyInv' /\ RefInv'
    BY <1>1, <1>6, FewerKeep DEF app
<1>8. WaitInv'
    <2>1. \A d, e \in S : d = e
        BY DEF S
    <2>2. \A d \in Awaited' : d \in Awaited \ {c} \/ (c \in Awaited /\ d \in S)
        BY <1>1, <1>4, <1>5 DEF Awaited, OnWire
    <2> QED BY <1>1, <1>4, <2>1, <2>2 DEF Inv, WaitInv, app
<1>9. RecordInv'
    BY <1>1, <1>2, <1>3 DEF Inv, RecordInv, Prior
<1>10. wire' \subseteq Calls
    BY <1>4, <1>5 DEF Inv, ClientTypeOK
<1> QED BY <1>1, <1>7, <1>8, <1>9, <1>10 DEF Inv, ClientTypeOK, LiveInv, app

-----------------------------------------------------------------------------
(* Steps that ask. *)

\* A new attempt has a key of its own, or the key its request had before.
LEMMA AskedKeys ==
    ASSUME Inv, NEW it, Asked' \subseteq Asked \cup {it},
           it.op \in Forms, it.arg \in IF it.op = "bid" THEN Numbers ELSE Amounts,
           it.mount = mount, it.key \in Nat, 0 < it.key,
           mount' = mount, nextKey' \in Nat, nextKey <= nextKey', it.key < nextKey',
           closed \subseteq closed', \A k \in closed' : k \in Nat /\ k < nextKey',
           \A p \in Asked : p.key = it.key => p = it,
           \A p \in Asked : SameRequest(p, it) /\ p.key \notin closed' => p = it
    PROVE  KeyInv'
<1>1. \A p \in Asked' : p \in Asked \/ p = it
    OBVIOUS
<1>2. nextKey' \in Nat \ {0} /\ mount' \in Nat
    BY DEF Inv, KeyInv
<1>3. \A p \in Asked' :
        /\ p.op \in Forms /\ p.key \in Nat /\ 0 < p.key /\ p.key < nextKey'
        /\ p.arg \in IF p.op = "bid" THEN Numbers ELSE Amounts
        /\ p.mount \in Nat /\ p.mount <= mount'
    BY <1>1 DEF Inv, KeyInv
<1>4. \A p, q \in Asked' : p.key = q.key => p = q
    BY <1>1 DEF Inv, KeyInv
<1>5. ASSUME NEW p \in Asked', NEW q \in Asked', SameRequest(p, q),
             p.key \notin closed', q.key \notin closed'
      PROVE  p = q
    <2>1. SameRequest(q, p)
        BY <1>5 DEF SameRequest
    <2>2. CASE p \in Asked /\ q \in Asked
        BY <1>5, <2>2 DEF Inv, KeyInv
    <2>3. CASE p = it
        BY <1>1, <1>5, <2>1, <2>3
    <2>4. CASE q = it
        BY <1>1, <1>5, <2>4
    <2> QED BY <1>1, <2>2, <2>3, <2>4
<1> QED BY <1>2, <1>3, <1>4, <1>5 DEF KeyInv, SameRequest

\* The call that is sent is the only one its panel waits for.
LEMMA SentKeeps ==
    ASSUME Inv, ~guard, guard' = TRUE, NEW op \in Forms, NEW arg \in Numbers \cup Amounts,
           NEW key \in Nat, Sends(Call(op, arg, key)), key \notin closed',
           recorded' = recorded, mount' = mount
    PROVE  /\ wire' \subseteq Calls /\ WaitInv'
           /\ Asked' \subseteq Asked \cup
                {[op |-> op, arg |-> arg, mount |-> mount, key |-> key]}
<1> DEFINE c == Call(op, arg, key)
<1>1. c \in Calls /\ c.op = op /\ c.mount = mount /\ c.key = key
      /\ Item(c) = [op |-> op, arg |-> arg, mount |-> mount, key |-> key]
    BY DEF Inv, ClientTypeOK, Call, Calls, Item
<1>2. wire' = wire \cup {c}
    BY DEF Sends
<1> HIDE DEF c
<1>3. \A d \in Awaited' : d = c
    BY <1>2 DEF Inv, WaitInv, Awaited, OnWire
<1>4. WaitInv'
    BY <1>1, <1>3 DEF WaitInv
<1>5. Asked' \subseteq Asked \cup {Item(c)}
    BY <1>2 DEF Asked, OnWire
<1> QED BY <1>1, <1>2, <1>4, <1>5 DEF Inv, ClientTypeOK

LEMMA BidKeeps ==
    ASSUME Inv, NEW n \in Numbers, SubmitBid(n)
    PROVE  Inv'
<1> DEFINE key == IF bidKeys[n] = 0 THEN nextKey ELSE bidKeys[n]
           it == [op |-> "bid", arg |-> n, mount |-> mount, key |-> key]
<1>1. /\ ~guard /\ guard' = TRUE /\ bidKeys' = [bidKeys EXCEPT ![n] = key]
      /\ nextKey' = (IF key = nextKey THEN nextKey + 1 ELSE nextKey)
      /\ Sends(Call("bid", n, key))
      /\ UNCHANGED <<tab, mount, token, hours, retry, shown, recorded, server, closed>>
    BY DEF SubmitBid, BidKey, api
<1>2. key \in Nat /\ 0 < key /\ key < nextKey' /\ nextKey <= nextKey' /\ key \notin closed
      /\ nextKey' \in Nat
    BY <1>1 DEF Inv, KeyInv, RefInv, Fresh
<1>3. \A p \in Asked : p.key = key => p = it
    BY DEF Inv, KeyInv, RefInv, Fresh
<1>4. \A p \in Asked : SameRequest(p, it) /\ p.key \notin closed => p = it
    <2> SUFFICES ASSUME NEW p \in Asked, SameRequest(p, it), p.key \notin closed
                 PROVE  p.key = key
        BY <1>3
    <2>1. p.op = "bid" /\ p.mount = mount /\ p.arg = n
        BY DEF SameRequest
    <2>2. bidKeys[n] = p.key /\ 0 < p.key /\ p.key \in Nat
        BY <2>1 DEF Inv, RefInv, KeyInv
    <2> QED BY <2>2
<1>5. /\ wire' \subseteq Calls /\ WaitInv' /\ Asked' \subseteq Asked \cup {it}
    BY <1>1, <1>2, SentKeeps DEF Forms
<1>6. \A m \in Numbers : m # n => bidKeys'[m] = bidKeys[m] /\ (bidKeys[m] # 0 => bidKeys[m] # key)
    BY <1>1 DEF Inv, RefInv, KeyInv, Fresh
<1>7. bidKeys'[n] = key /\ bidKeys' \in [Numbers -> Nat]
    BY <1>1, <1>2 DEF Inv, RefInv
<1>8. retry # Nothing => retry.key # key
    BY DEF Inv, RefInv, KeyInv, Fresh
<1>9. it.op = "bid" /\ it.arg = n /\ it.mount = mount /\ it.key = key
    OBVIOUS
<1>10. \A m \in Numbers : bidKeys[m] # 0 => bidKeys[m] < nextKey /\ bidKeys[m] \in Nat
    BY DEF Inv, RefInv, Fresh
<1> HIDE DEF key, it
<1>11. KeyInv'
    <2>1. closed' = closed /\ \A k \in closed' : k \in Nat /\ k < nextKey'
        BY <1>1, <1>2 DEF Inv, KeyInv
    <2> QED BY <1>1, <1>2, <1>3, <1>4, <1>5, <1>9, <2>1, AskedKeys DEF Forms
<1>12. RefInv'
    <2>1. ASSUME NEW m \in Numbers, bidKeys'[m] # 0
          PROVE  Fresh(bidKeys[m], [op |-> "bid", arg |-> m, mount |-> mount, key |-> bidKeys[m]])'
        <3>1. CASE m = n
            BY <1>1, <1>2, <1>3, <1>5, <1>7, <3>1 DEF Fresh, it
        <3>2. CASE m # n
            <4>1. bidKeys'[m] = bidKeys[m] /\ bidKeys[m] # 0 /\ bidKeys[m] # key
                BY <1>6, <2>1, <3>2
            <4>2. Fresh(bidKeys[m], [op |-> "bid", arg |-> m, mount |-> mount, key |-> bidKeys[m]])
                BY <4>1 DEF Inv, RefInv
            <4> QED BY <1>1, <1>2, <1>5, <1>9, <4>1, <4>2 DEF Fresh, Inv, KeyInv
        <3> QED BY <3>1, <3>2
    <2>2. \A m, k \in Numbers : bidKeys'[m] # 0 /\ bidKeys'[m] = bidKeys'[k] => m = k
        BY <1>6, <1>7 DEF Inv, RefInv
    <2>3. ASSUME retry' # Nothing
          PROVE  /\ Fresh(retry.key, [op |-> "withdraw", arg |-> retry.amount, mount |-> mount,
                                      key |-> retry.key])'
                 /\ \A m \in Numbers : bidKeys'[m] # retry'.key
        <3>1. retry' = retry /\ retry # Nothing
            BY <1>1, <2>3
        <3>2. Fresh(retry.key, [op |-> "withdraw", arg |-> retry.amount, mount |-> mount,
                                key |-> retry.key])
            BY <3>1 DEF Inv, RefInv
        <3>3. Fresh(retry.key, [op |-> "withdraw", arg |-> retry.amount, mount |-> mount,
                                key |-> retry.key])'
            BY <1>1, <1>2, <1>5, <1>8, <1>9, <3>1, <3>2 DEF Fresh, Inv, KeyInv
        <3>4. \A m \in Numbers : bidKeys'[m] # retry'.key
            BY <1>6, <1>7, <1>8, <3>1 DEF Inv, RefInv
        <3> QED BY <3>3, <3>4
    <2>4. \A p \in Asked' : p.mount = mount' /\ p.key \notin closed' =>
            IF p.op = "bid" THEN bidKeys'[p.arg] = p.key ELSE retry' # Nothing /\ retry'.key = p.key
        <3> SUFFICES ASSUME NEW p \in Asked \cup {it}, p.mount = mount, p.key \notin closed
                     PROVE  IF p.op = "bid" THEN bidKeys'[p.arg] = p.key
                                            ELSE retry # Nothing /\ retry.key = p.key
            BY <1>1, <1>5
        <3>1. CASE p = it
            BY <1>7, <1>9, <3>1
        <3>2. CASE p \in Asked
            <4>1. IF p.op = "bid" THEN bidKeys[p.arg] = p.key /\ p.arg \in Numbers
                                  ELSE retry # Nothing /\ retry.key = p.key
                BY <3>2 DEF Inv, RefInv, KeyInv
            <4>2. p.op = "bid" /\ p.arg = n => p = it
                BY <1>4, <1>9, <3>2 DEF SameRequest
            <4> QED BY <1>6, <1>7, <1>9, <4>1, <4>2
        <3> QED BY <3>1, <3>2
    <2> QED BY <1>1, <1>7, <2>1, <2>2, <2>3, <2>4 DEF RefInv, Inv
<1> QED BY <1>1, <1>5, <1>7, <1>11, <1>12 DEF Inv, ClientTypeOK, RecordInv, LiveInv

LEMMA WithdrawalKeeps ==
    ASSUME Inv, NEW a \in Amounts, SubmitWithdrawal(a)
    PROVE  Inv'
<1> DEFINE kept == retry # Nothing /\ retry.amount = a
           key == IF kept THEN retry.key ELSE nextKey
           it == [op |-> "withdraw", arg |-> a, mount |-> mount, key |-> key]
<1>1. /\ ~guard /\ guard' = TRUE /\ retry' = [amount |-> a, key |-> key]
      /\ closed' = (IF kept \/ retry = Nothing THEN closed ELSE closed \cup {retry.key})
      /\ nextKey' = (IF kept THEN nextKey ELSE nextKey + 1)
      /\ Sends(Call("withdraw", a, key))
      /\ UNCHANGED <<tab, mount, token, hours, bidKeys, shown, recorded, server>>
    BY DEF SubmitWithdrawal, api
<1>2. retry # Nothing =>
        /\ retry.key \in Nat /\ 0 < retry.key /\ retry.key < nextKey /\ retry.key \notin closed
        /\ \A p \in Asked : p.key = retry.key =>
             p = [op |-> "withdraw", arg |-> retry.amount, mount |-> mount, key |-> retry.key]
        /\ \A n \in Numbers : bidKeys[n] # retry.key
    BY DEF Inv, RefInv, Fresh
<1>3. key \in Nat /\ 0 < key /\ key < nextKey' /\ nextKey <= nextKey' /\ nextKey' \in Nat
      /\ key \notin closed' /\ closed \subseteq closed'
      /\ \A k \in closed' : k \in Nat /\ k < nextKey'
    BY <1>1, <1>2 DEF Inv, KeyInv
<1>4. \A p \in Asked : p.key = key => p = it
    BY <1>2 DEF Inv, KeyInv
<1>5. \A p \in Asked : SameRequest(p, it) /\ p.key \notin closed' => p = it
    <2> SUFFICES ASSUME NEW p \in Asked, SameRequest(p, it), p.key \notin closed'
                 PROVE  p.key = key
        BY <1>4
    <2>1. p.op = "withdraw" /\ p.mount = mount /\ p.key \notin closed
        BY <1>3 DEF SameRequest
    <2>2. retry # Nothing /\ retry.key = p.key
        BY <2>1 DEF Inv, RefInv
    <2> QED BY <1>1, <2>2
<1>6. /\ wire' \subseteq Calls /\ WaitInv' /\ Asked' \subseteq Asked \cup {it}
    BY <1>1, <1>3, SentKeeps DEF Forms
<1>7. \A n \in Numbers : bidKeys[n] # 0 => bidKeys[n] # key /\ bidKeys[n] \notin closed'
    BY <1>1, <1>2 DEF Inv, RefInv, KeyInv, Fresh
<1>8. it.op = "withdraw" /\ it.arg = a /\ it.mount = mount /\ it.key = key
    OBVIOUS
<1>9. retry' # Nothing /\ retry' \in [amount : Amounts, key : Nat] /\ retry'.key = key
      /\ retry'.amount = a
    BY <1>1, <1>3, NothingAssumption
<1>10. \A n \in Numbers : bidKeys[n] # key
    BY <1>3, <1>7
<1>11. UNCHANGED <<mount, bidKeys, recorded, server, tab, token, hours, shown>>
    BY <1>1
<1> HIDE DEF kept, key, it
<1>12. KeyInv'
    BY <1>3, <1>4, <1>5, <1>6, <1>8, <1>11, AskedKeys DEF Forms
<1>13. RefInv'
    <2>1. ASSUME NEW n \in Numbers, bidKeys'[n] # 0
          PROVE  Fresh(bidKeys[n], [op |-> "bid", arg |-> n, mount |-> mount, key |-> bidKeys[n]])'
        <3>1. Fresh(bidKeys[n], [op |-> "bid", arg |-> n, mount |-> mount, key |-> bidKeys[n]])
            BY <1>11, <2>1 DEF Inv, RefInv
        <3> QED BY <1>3, <1>6, <1>7, <1>8, <1>11, <2>1, <3>1 DEF Fresh, Inv, KeyInv
    <2>2. Fresh(retry.key, [op |-> "withdraw", arg |-> retry.amount, mount |-> mount,
                            key |-> retry.key])'
        BY <1>3, <1>4, <1>6, <1>9, <1>11 DEF Fresh, it
    <2>3. \A p \in Asked' : p.mount = mount' /\ p.key \notin closed' =>
            IF p.op = "bid" THEN bidKeys'[p.arg] = p.key ELSE retry' # Nothing /\ retry'.key = p.key
        <3> SUFFICES ASSUME NEW p \in Asked \cup {it}, p.mount = mount, p.key \notin closed'
                     PROVE  IF p.op = "bid" THEN bidKeys[p.arg] = p.key ELSE p.key = key
            BY <1>6, <1>9, <1>11
        <3>1. CASE p = it
            BY <1>8, <3>1
        <3>2. CASE p \in Asked /\ p.op = "bid"
            BY <1>3, <3>2 DEF Inv, RefInv
        <3>3. CASE p \in Asked /\ p.op = "withdraw"
            BY <1>5, <1>8, <3>3 DEF SameRequest
        <3>4. p \in Asked => p.op \in {"bid", "withdraw"}
            BY DEF Inv, KeyInv, Forms
        <3> QED BY <3>1, <3>2, <3>3, <3>4
    <2> QED BY <1>9, <1>10, <1>11, <2>1, <2>2, <2>3 DEF RefInv, Inv
<1> QED BY <1>1, <1>6, <1>9, <1>12, <1>13 DEF Inv, ClientTypeOK, RefInv, RecordInv, LiveInv

-----------------------------------------------------------------------------
(* A panel opened anew has asked nothing, and nobody waits for the old one. *)

LEMMA RemountKeeps ==
    ASSUME Inv, NEW to, NEW ops, Forms \subseteq ops, Remount(to, ops),
           UNCHANGED <<recorded, closed, nextKey>>
    PROVE  /\ wire' \subseteq Calls /\ KeyInv' /\ RefInv' /\ WaitInv' /\ RecordInv'
           /\ mount' \in 1 .. MaxMounts /\ guard' = FALSE /\ tab' = to
<1> DEFINE left == {c \in wire : c.op \in ops}
<1>1. /\ mount < MaxMounts /\ mount' = mount + 1 /\ guard' = FALSE /\ tab' = to
      /\ bidKeys' = [n \in Numbers |-> 0] /\ retry' = Nothing
      /\ wire' = (wire \ left) \cup Orphans(left)
    BY DEF Remount
<1>2. \A d \in Orphans(left) : \E c \in wire : d = [c EXCEPT !.heard = FALSE]
    BY DEF Orphans
<1>3. \A d \in Orphans(left) : /\ d \in Calls /\ ~d.heard
                               /\ \E c \in wire : d.op = c.op /\ Item(d) = Item(c)
    <2> SUFFICES ASSUME NEW d \in Orphans(left), NEW c \in wire, d = [c EXCEPT !.heard = FALSE]
                 PROVE  d \in Calls /\ ~d.heard /\ d.op = c.op /\ Item(d) = Item(c)
        BY <1>2
    <2> QED BY DEF Inv, ClientTypeOK, Calls, Item
<1>4. Asked' \subseteq Asked
    BY <1>1, <1>3 DEF Asked, OnWire
<1>5. Awaited' = {}
    BY <1>1, <1>3 DEF Awaited, OnWire
<1>6. mount' \in 1 .. MaxMounts /\ mount \in Nat /\ mount' \in Nat
    BY <1>1, ClientAssumption DEF Inv, ClientTypeOK
<1>7. KeyInv'
    BY <1>1, <1>4, <1>6 DEF Inv, KeyInv, SameRequest
<1>8. RefInv'
    <2>1. \A p \in Asked' : p.mount # mount'
        BY <1>1, <1>4, <1>6 DEF Inv, KeyInv
    <2> QED BY <1>1, <2>1 DEF RefInv
<1> QED BY <1>1, <1>3, <1>5, <1>6, <1>7, <1>8 DEF Inv, ClientTypeOK, WaitInv, RecordInv

-----------------------------------------------------------------------------
LEMMA InitInv == ClientInit => Inv
<1> SUFFICES ASSUME ClientInit PROVE Inv
    OBVIOUS
<1>1. Asked = {} /\ Awaited = {}
    BY DEF ClientInit, Asked, Awaited, OnWire
<1>2. ClientTypeOK
    <2>1. 1 \in 1 .. MaxMounts /\ 0 \in 0 .. LaunchHours
        BY ClientAssumption
    <2>2. [n \in Numbers |-> 0] \in [Numbers -> Nat]
        OBVIOUS
    <2> QED BY <2>1, <2>2 DEF ClientInit, ClientTypeOK, Tabs
<1>3. KeyInv
    BY <1>1 DEF ClientInit, KeyInv
<1>4. RefInv
    BY <1>1 DEF ClientInit, RefInv
<1> QED BY <1>1, <1>2, <1>3, <1>4 DEF ClientInit, Inv, WaitInv, RecordInv, LiveInv

LEMMA TakesKeep ==
    ASSUME Inv, NEW c \in wire, Takes(c)
    PROVE  Inv'
<1> DEFINE S(answer, version) == {x \in {[c EXCEPT !.answer = answer, !.version = version]} : x.heard}
<1>1. ASSUME NEW answer \in {"ok", "refused", "unauthorized"}, NEW version \in Nat,
             Answered(c, answer, version), UNCHANGED <<app, api, closed, nextKey>>
      PROVE  Inv'
    <2>1. wire' = (wire \ {c}) \cup S(answer, version)
        BY <1>1 DEF Answered
    <2>2. \A d \in S(answer, version) :
            d \in Calls /\ d.op = c.op /\ Item(d) = Item(c) /\ (d.heard => c.heard)
        <3> SUFFICES ASSUME NEW d, d = [c EXCEPT !.answer = answer, !.version = version]
                     PROVE  d \in Calls /\ d.op = c.op /\ Item(d) = Item(c) /\ (d.heard => c.heard)
            OBVIOUS
        <3> QED BY DEF Inv, ClientTypeOK, Calls, Item
    <2>3. \A d, e \in S(answer, version) : d = e
        OBVIOUS
    <2> HIDE DEF S
    <2>4. UNCHANGED <<recorded, mount, bidKeys, retry, closed, nextKey, guard,
                      token, hours, tab, shown, server>>
        BY <1>1 DEF app, api
    <2>5. wire' \subseteq Calls /\ KeyInv' /\ RefInv' /\ WaitInv'
        BY <2>1, <2>2, <2>3, <2>4, AnswerKeeps
    <2> QED BY <2>4, <2>5 DEF Inv, ClientTypeOK, RecordInv, LiveInv
<1>2. CASE Unauthorized(c)
    BY <1>1, <1>2 DEF Unauthorized
<1>3. CASE Record(c)
    BY <1>3, RecordKeeps
<1>4. CASE RefuseCall(c)
    BY <1>1, <1>4 DEF RefuseCall
<1>5. CASE ReadBootstrap(c)
    BY <1>1, <1>5 DEF ReadBootstrap, Inv, ClientTypeOK
<1> QED BY <1>2, <1>3, <1>4, <1>5 DEF Takes

LEMMA FailedKeeps ==
    ASSUME Inv, NEW c \in wire, c.heard, Failed(c),
           wire' \in {wire \ {c}, (wire \ {c}) \cup Orphans({c})}
    PROVE  Inv'
<1>1. wire' \subseteq Calls /\ KeyInv' /\ RefInv' /\ WaitInv'
    BY FailureKeeps
<1>2. /\ guard' \in BOOLEAN
      /\ UNCHANGED <<tab, mount, token, hours, bidKeys, retry, shown, recorded, server,
                     closed, nextKey>>
    BY DEF Failed, KeptAfterFailure, api, Inv, ClientTypeOK
<1> QED BY <1>1, <1>2 DEF Inv, ClientTypeOK, RecordInv, LiveInv

LEMMA ReadsKeep ==
    ASSUME Inv, NEW c \in wire, Reads(c)
    PROVE  Inv'
<1>1. CASE Renew(c)
    <2> DEFINE S == {[c EXCEPT !.answer = "none", !.alive = TRUE, !.again = TRUE]}
    <2>1. wire' = (wire \ {c}) \cup S /\ token' = "live" /\ hours < LaunchHours
          /\ UNCHANGED <<tab, mount, hours, guard, bidKeys, retry, shown, recorded, server,
                         closed, nextKey>>
        BY <1>1 DEF Renew, Renews, Launched, api
    <2>2. \A d \in S : d \in Calls /\ d.op = c.op /\ Item(d) = Item(c) /\ (d.heard => c.heard)
        BY DEF Inv, ClientTypeOK, Calls, Item
    <2>3. \A d, e \in S : d = e
        OBVIOUS
    <2> HIDE DEF S
    <2>4. wire' \subseteq Calls /\ KeyInv' /\ RefInv' /\ WaitInv'
        BY <2>1, <2>2, <2>3, AnswerKeeps
    <2> QED BY <2>1, <2>4 DEF Inv, ClientTypeOK, RecordInv, LiveInv
<1>2. ASSUME wire' = wire \ {c}, shown' = Nothing \/ shown' \in Nat,
             UNCHANGED <<tab, mount, token, hours, guard, bidKeys, retry, api, closed, nextKey>>
      PROVE  Inv'
    <2>1. wire' = (wire \ {c}) \cup {} /\ recorded' = recorded /\ server' = server
        BY <1>2 DEF api
    <2> DEFINE S == {}
    <2>2. (\A d \in S : d \in Calls /\ d.op = c.op /\ Item(d) = Item(c) /\ (d.heard => c.heard))
          /\ (\A d, e \in S : d = e) /\ wire' = (wire \ {c}) \cup S
        BY <2>1
    <2> HIDE DEF S
    <2>3. wire' \subseteq Calls /\ KeyInv' /\ RefInv' /\ WaitInv'
        BY <1>2, <2>1, <2>2, AnswerKeeps
    <2> QED BY <1>2, <2>1, <2>3 DEF Inv, ClientTypeOK, RecordInv, LiveInv
<1>3. CASE Show(c)
    <2>1. c.version \in Nat
        BY DEF Inv, ClientTypeOK, Calls
    <2> QED BY <1>2, <1>3, <2>1 DEF Show, Shows, Heard
<1>4. CASE Unheard(c)
    BY <1>2, <1>4 DEF Unheard, app, Inv, ClientTypeOK
<1>5. CASE Accepted(c)
    BY <1>5, AcceptedKeeps
<1>6. CASE Refused(c)
    BY <1>6, FailedKeeps DEF Refused, Heard
<1>7. CASE NotSignedIn(c)
    BY <1>7, FailedKeeps DEF NotSignedIn, Heard
<1> QED BY <1>1, <1>3, <1>4, <1>5, <1>6, <1>7 DEF Reads

\* An hour passes for every call that waits.
LEMMA HourKeeps ==
    ASSUME Inv, Hour
    PROVE  Inv'
<1>1. /\ token = "live" /\ token' = "expired" /\ hours' = hours + 1
      /\ wire' = {IF c.answer = "none" THEN [c EXCEPT !.alive = FALSE] ELSE c : c \in wire}
      /\ UNCHANGED <<tab, mount, guard, bidKeys, retry, shown, recorded, server, closed, nextKey>>
    BY DEF Hour, api
<1>2. ASSUME NEW d \in wire'
      PROVE  d \in Calls /\ \E c \in wire : d.op = c.op /\ Item(d) = Item(c) /\ d.heard = c.heard
    <2>1. PICK c \in wire : d = IF c.answer = "none" THEN [c EXCEPT !.alive = FALSE] ELSE c
        BY <1>1
    <2>2. c \in Calls
        BY DEF Inv, ClientTypeOK
    <2>3. d \in Calls /\ d.op = c.op /\ Item(d) = Item(c) /\ d.heard = c.heard
        BY <2>1, <2>2 DEF Calls, Item
    <2> QED BY <2>3
<1>3. Asked' \subseteq Asked
    BY <1>1, <1>2 DEF Asked, OnWire
<1>4. WaitInv'
    <2>1. ASSUME NEW c \in Awaited, NEW d \in Awaited PROVE c = d
        BY DEF Inv, WaitInv
    <2>2. ASSUME NEW d \in Awaited'
          PROVE  \E c \in Awaited :
                   d = IF c.answer = "none" THEN [c EXCEPT !.alive = FALSE] ELSE c
        <3>1. PICK c \in wire : d = IF c.answer = "none" THEN [c EXCEPT !.alive = FALSE] ELSE c
            BY <1>1, <2>2 DEF Awaited, OnWire
        <3>2. c \in Calls /\ d.op \in Forms /\ d.heard
            BY <2>2 DEF Awaited, OnWire, Inv, ClientTypeOK
        <3>3. c.op = d.op /\ c.heard = d.heard
            BY <3>1, <3>2 DEF Calls
        <3> QED BY <3>1, <3>2, <3>3 DEF Awaited, OnWire
    <2>3. \A d \in Awaited' : guard /\ d.mount = mount /\ d.key \notin closed
        <3> SUFFICES ASSUME NEW d \in Awaited' PROVE guard /\ d.mount = mount /\ d.key \notin closed
            OBVIOUS
        <3>1. PICK c \in Awaited : d = IF c.answer = "none" THEN [c EXCEPT !.alive = FALSE] ELSE c
            BY <2>2
        <3>2. c \in Calls /\ guard /\ c.mount = mount /\ c.key \notin closed
            BY DEF Inv, WaitInv, ClientTypeOK, Awaited, OnWire
        <3> QED BY <3>1, <3>2 DEF Calls
    <2>4. \A d, e \in Awaited' : d = e
        BY <2>1, <2>2
    <2> QED BY <1>1, <2>3, <2>4 DEF WaitInv
<1>5. KeyInv' /\ RefInv'
    BY <1>1, <1>3, FewerKeep
<1>6. hours' \in 0 .. LaunchHours /\ wire' \subseteq Calls
    BY <1>1, <1>2, ClientAssumption DEF Inv, ClientTypeOK, LiveInv
<1> QED BY <1>1, <1>4, <1>5, <1>6 DEF Inv, ClientTypeOK, RecordInv, LiveInv

\* A call that only reads belongs to no panel.
LEMMA RefreshKeeps ==
    ASSUME Inv, Refresh
    PROVE  Inv'
<1> DEFINE c == Call("refresh", Nothing, 0)
<1>1. wire' = wire \cup {c} /\ UNCHANGED <<app, api, closed, nextKey>>
    BY DEF Refresh, Sends
<1>2. c \in Calls /\ c.op \notin Forms
    BY DEF Call, Calls, Forms, Inv, ClientTypeOK
<1> HIDE DEF c
<1>3. OnWire' = OnWire
    BY <1>1, <1>2 DEF OnWire
<1>4. Asked' = Asked /\ Awaited' = Awaited
    BY <1>1, <1>3 DEF Asked, Awaited, api
<1>5. KeyInv' /\ RefInv'
    BY <1>1, <1>4, FewerKeep DEF app
<1> QED BY <1>1, <1>2, <1>4, <1>5 DEF Inv, ClientTypeOK, WaitInv, RecordInv, LiveInv, app, api

LEMMA NextKeep == Inv /\ [ClientNext]_clientVars => Inv'
<1> SUFFICES ASSUME Inv, [ClientNext]_clientVars PROVE Inv'
    OBVIOUS
<1>1. ASSUME UNCHANGED <<mount, guard, bidKeys, retry, shown, tab, recorded, wire, closed, nextKey>>,
             token' \in {"none", "live", "expired"}, hours' = hours, server' \in Nat,
             token' = "live" => hours < LaunchHours
      PROVE  Inv'
    <2>1. Asked' = Asked /\ Awaited' = Awaited
        BY <1>1 DEF Asked, Awaited, OnWire
    <2>2. KeyInv' /\ RefInv'
        BY <1>1, <2>1, FewerKeep
    <2> QED BY <1>1, <2>1, <2>2 DEF Inv, ClientTypeOK, WaitInv, RecordInv, LiveInv
<1>2. CASE Reload
    <2>1. Remount("shop", Forms \cup {"refresh"}) /\ token' = "none" /\ shown' = Nothing /\ hours' = 0
          /\ UNCHANGED <<recorded, server, closed, nextKey>>
        BY <1>2 DEF Reload, api
    <2>2. Forms \subseteq Forms \cup {"refresh"}
        OBVIOUS
    <2>3. /\ wire' \subseteq Calls /\ KeyInv' /\ RefInv' /\ WaitInv' /\ RecordInv'
          /\ mount' \in 1 .. MaxMounts /\ guard' = FALSE /\ tab' = "shop"
        BY <2>1, <2>2, RemountKeeps
    <2>4. hours' \in 0 .. LaunchHours
        BY <2>1, ClientAssumption
    <2>5. ClientTypeOK'
        BY <2>1, <2>3, <2>4 DEF Inv, ClientTypeOK, RefInv, KeyInv, Tabs
    <2> QED BY <2>1, <2>3, <2>5 DEF Inv, LiveInv
<1>3. CASE \E to \in Tabs : Open(to)
    <2>1. PICK to \in Tabs : Open(to)
        BY <1>3
    <2>2. Remount(to, Forms) /\ UNCHANGED <<token, hours, shown, recorded, server, closed, nextKey>>
        BY <2>1 DEF Open, api
    <2>3. /\ wire' \subseteq Calls /\ KeyInv' /\ RefInv' /\ WaitInv' /\ RecordInv'
          /\ mount' \in 1 .. MaxMounts /\ guard' = FALSE /\ tab' = to
        BY <2>2, RemountKeeps
    <2> QED BY <2>2, <2>3 DEF Inv, ClientTypeOK, RefInv, KeyInv, LiveInv
<1>4. CASE Connect
    BY <1>1, <1>4 DEF Connect, api, Launched, Inv, ClientTypeOK
<1>5. CASE Change
    BY <1>1, <1>5 DEF Change, app, Inv, ClientTypeOK, LiveInv
<1>6. CASE Hour
    BY <1>6, HourKeeps
<1>7. CASE Refresh
    BY <1>7, RefreshKeeps
<1>8. CASE \E n \in Numbers : SubmitBid(n)
    BY <1>8, BidKeeps
<1>9. CASE \E a \in Amounts : SubmitWithdrawal(a)
    BY <1>9, WithdrawalKeeps
<1>10. CASE \E c \in wire : Takes(c) \/ Reads(c) \/ GiveUp(c)
    BY <1>10, TakesKeep, ReadsKeep, FailedKeeps DEF GiveUp
<1>11. CASE UNCHANGED clientVars
    BY <1>1, <1>11 DEF clientVars, app, api, Inv, ClientTypeOK, LiveInv
<1> QED BY <1>2, <1>3, <1>4, <1>5, <1>6, <1>7, <1>8, <1>9, <1>10, <1>11 DEF ClientNext

-----------------------------------------------------------------------------
\* At most one element.
LEMMA AtMostOne ==
    ASSUME NEW S, \A x, y \in S : x = y
    PROVE  Cardinality(S) <= 1
<1>1. CASE S = {}
    BY <1>1, FS_EmptySet
<1>2. CASE S # {}
    <2>1. PICK x \in S : S = {x}
        BY <1>2
    <2> QED BY <2>1, FS_Singleton
<1> QED BY <1>1, <1>2

LEMMA InvImplies == Inv => RetryIsSafe
<1> SUFFICES ASSUME Inv PROVE RetryIsSafe
    OBVIOUS
<1>1. \A r \in recorded :
        /\ Item(r) \in Asked /\ Item(r).key = r.key /\ Item(r).op = r.op
        /\ Item(r).mount = r.mount /\ Item(r).arg = r.arg
    BY DEF Asked, Item
<1>2. \A q, r \in recorded : q.key = r.key => q = r
    BY DEF Inv, RecordInv
<1>3. ASSUME NEW s, NEW n \in Numbers
      PROVE  Cardinality({r \in recorded : r.arg = n /\ r.mount = s /\ r.key \notin closed}) <= 1
    <2> SUFFICES ASSUME NEW q \in recorded, NEW r \in recorded, q.arg = n, r.arg = n,
                        q.mount = s, r.mount = s, q.key \notin closed, r.key \notin closed
                 PROVE  q = r
        BY AtMostOne
    <2>1. q.op = "bid" /\ r.op = "bid"
        BY <1>1, ClientAssumption DEF Inv, KeyInv
    <2>2. Item(q) = Item(r)
        BY <1>1, <2>1 DEF Inv, KeyInv, SameRequest
    <2> QED BY <1>1, <1>2, <2>2
<1>4. ASSUME NEW s
      PROVE  Cardinality({r \in recorded : r.op = "withdraw" /\ r.mount = s
                                           /\ r.key \notin closed}) <= 1
    <2> SUFFICES ASSUME NEW q \in recorded, NEW r \in recorded, q.op = "withdraw", r.op = "withdraw",
                        q.mount = s, r.mount = s, q.key \notin closed, r.key \notin closed
                 PROVE  q = r
        BY AtMostOne
    <2>1. Item(q) = Item(r)
        BY <1>1 DEF Inv, KeyInv, SameRequest
    <2> QED BY <1>1, <1>2, <2>1
<1> QED BY <1>2, <1>3, <1>4 DEF RetryIsSafe, Inv

\* While a panel stays open a repeated bid or withdrawal is recorded once, for any
\* numbers and amounts, however many calls are lost, given up or refused
\* (financial-flows.tsx, withdrawal-panel.tsx).
THEOREM RetryIsSafeHolds == ClientSpec => []RetryIsSafe
<1>1. ClientInit => Inv
    BY InitInv
<1>2. Inv /\ [ClientNext]_clientVars => Inv'
    BY NextKeep
<1>3. Inv => RetryIsSafe
    BY InvImplies
<1> QED BY <1>1, <1>2, <1>3, PTL DEF ClientSpec
=============================================================================
