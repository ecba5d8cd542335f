------------------------------- MODULE Client -------------------------------
(***************************************************************************)
(* The member's app (web/app/page.tsx, financial-flows.tsx,                *)
(* withdrawal-panel.tsx): its session, what it shows, and the requests it  *)
(* repeats after an answer that never came.                                *)
(*                                                                         *)
(* A call waits on the wire until the server takes it and its answer is    *)
(* read.  The app may give up before (a lost connection, a timeout); its   *)
(* panels forget their keys when the member leaves their tab or opens the  *)
(* app anew.  A call nobody waits for may still be taken.                  *)
(***************************************************************************)
EXTENDS Integers, FiniteSets, FiniteSetsExt

CONSTANTS
    Numbers,        \* what a member may bid
    Amounts,        \* what a member may withdraw
    Nothing,
    MaxMounts, MaxKeys, MaxWire, MaxChanges, MaxGivenUp,      \* bounds
    LaunchHours     \* how many sessions of an hour a launch may have

VARIABLES
    tab,        \* the tab on the screen
    mount,      \* how often a tab was opened
    token,      \* tokenRef and token: "none", "live" or "expired"
    hours,      \* the age of the launch and its initData
    guard,      \* the form waits for its request
    bidKeys,    \* requestKey of an unanswered bid, by number
    retry,      \* amount and key of the last unanswered withdrawal
    shown,      \* version of the data on the screen, Nothing before the first
    wire,       \* calls
    nextKey,
    recorded,   \* bids and withdrawals of the server, by key
    closed,     \* keys whose success the member was told, or of a withdrawal
                \* he replaced by one of another amount
    server,     \* version of what others change on the server
    givenUp

app == <<tab, mount, token, hours, guard, bidKeys, retry, shown>>
api == <<recorded, server>>
clientVars == <<app, api, closed, wire, nextKey, givenUp>>

ASSUME ClientAssumption ==
    /\ Numbers \cap Amounts = {}
    /\ {MaxKeys, MaxWire, MaxChanges, MaxGivenUp, LaunchHours} \subseteq Nat
    /\ MaxMounts \in Nat \ {0}
ASSUME NothingAssumption == Nothing \notin [amount : Amounts, key : Nat]

Forms == {"bid", "withdraw"}
Calls == [op : Forms \cup {"refresh"}, arg : Numbers \cup Amounts \cup {Nothing},
          key : Nat, mount : Nat, alive : BOOLEAN, again : BOOLEAN, heard : BOOLEAN,
          answer : {"none", "ok", "refused", "unauthorized"}, version : Nat]

Call(op, arg, key) ==
    [op |-> op, arg |-> arg, key |-> key, mount |-> IF op \in Forms THEN mount ELSE 0,
     alive |-> token = "live", again |-> FALSE, heard |-> TRUE, answer |-> "none", version |-> 0]
Sends(c) ==
    /\ Cardinality({x \in wire : (x.op = "refresh") <=> (c.op = "refresh")}) < MaxWire
    /\ Cardinality(wire) <= MaxWire
    /\ wire' = wire \cup {c}

----------------------------------------------------------------------------
(***************************************************************************)
(* The session: connectTelegram and request                                *)
(***************************************************************************)
Launched == hours < LaunchHours

\* Calls nobody waits for; one that only reads, or is answered, is as good as gone.
Orphans(calls) ==
    {[c EXCEPT !.heard = FALSE] :
        c \in {x \in calls : x.op # "refresh" /\ x.answer = "none"}}

\* A panel opens with empty refs; the calls the one before made go on.
Remount(to, ops) ==
    /\ mount < MaxMounts
    /\ mount' = mount + 1 /\ tab' = to
    /\ guard' = FALSE
    /\ bidKeys' = [n \in Numbers |-> 0] /\ retry' = Nothing
    /\ LET left == {c \in wire : c.op \in ops}
       IN  wire' = (wire \ left) \cup Orphans(left)
Tabs == {"shop", "lottery", "wallet"}
Open(to) ==
    /\ to # tab /\ Remount(to, Forms)
    /\ UNCHANGED <<token, hours, shown, api, closed, nextKey, givenUp>>
Reload ==
    /\ Remount("shop", Forms \cup {"refresh"})
    /\ token' = "none" /\ shown' = Nothing /\ hours' = 0
    /\ UNCHANGED <<api, closed, nextKey, givenUp>>

\* It signs in once; a failure is shown and not tried again.
Connect ==
    /\ token = "none" /\ Launched
    /\ token' = "live"
    /\ UNCHANGED <<tab, mount, hours, guard, bidKeys, retry, shown,
                   api, closed, wire, nextKey, givenUp>>

Hour ==
    /\ token = "live" /\ token' = "expired" /\ hours' = hours + 1
    /\ wire' = {IF c.answer = "none" THEN [c EXCEPT !.alive = FALSE] ELSE c :
                   c \in wire}
    /\ UNCHANGED <<tab, mount, guard, bidKeys, retry, shown, api, closed,
                   nextKey, givenUp>>

\* Bug: a page that is told 401 asks no more.
RenewsNot(c) == FALSE

\* The request of the page renews the session and sends the call again; the
\* one of the lottery page has no launch data and fails.
Renews(c) == c.op # "bid" /\ Launched /\ ~c.again
Renew(c) ==
    /\ c.heard /\ c.answer = "unauthorized" /\ Renews(c)
    /\ token' = "live"
    /\ wire' = (wire \ {c}) \cup {[c EXCEPT !.answer = "none", !.alive = TRUE,
                                               !.again = TRUE]}
    /\ UNCHANGED <<tab, mount, hours, guard, bidKeys, retry, shown,
                   api, closed, nextKey, givenUp>>

----------------------------------------------------------------------------
(***************************************************************************)
(* What the page sends                                                     *)
(***************************************************************************)
\* Bug: a new key for every attempt.
BidKeyAlwaysNew(n) == 0

BidKey(n) == bidKeys[n]
SubmitBid(n) ==
    LET key == IF BidKey(n) = 0 THEN nextKey ELSE BidKey(n)
    IN  /\ token # "none" /\ tab = "lottery" /\ ~guard /\ key <= MaxKeys
        /\ guard' = TRUE
        /\ bidKeys' = [bidKeys EXCEPT ![n] = key]
        /\ nextKey' = IF key = nextKey THEN nextKey + 1 ELSE nextKey
        /\ Sends(Call("bid", n, key))
        /\ UNCHANGED <<tab, mount, token, hours, retry, shown, api,
                       closed, givenUp>>

SubmitWithdrawal(amount) ==
    LET kept == retry # Nothing /\ retry.amount = amount
        key == IF kept THEN retry.key ELSE nextKey
    IN  /\ token # "none" /\ tab = "wallet" /\ ~guard /\ key <= MaxKeys
        /\ guard' = TRUE
        /\ retry' = [amount |-> amount, key |-> key]
        /\ closed' = IF kept \/ retry = Nothing THEN closed
                     ELSE closed \cup {retry.key}
        /\ nextKey' = IF kept THEN nextKey ELSE nextKey + 1
        /\ Sends(Call("withdraw", amount, key))
        /\ UNCHANGED <<tab, mount, token, hours, bidKeys, shown, api,
                       givenUp>>

\* Every 30 seconds, on focus and after a success; nobody waits for the
\* refresh before.
Refresh ==
    /\ token # "none"
    /\ Sends(Call("refresh", Nothing, 0))
    /\ UNCHANGED <<app, api, closed, nextKey, givenUp>>

----------------------------------------------------------------------------
(***************************************************************************)
(* What the server does with a call                                        *)
(***************************************************************************)
Answered(c, answer, version) ==
    wire' = (wire \ {c}) \cup
        {x \in {[c EXCEPT !.answer = answer, !.version = version]} : x.heard}

Unauthorized(c) ==
    /\ c.heard /\ c.answer = "none" /\ ~c.alive
    /\ Answered(c, "unauthorized", 0)
    /\ UNCHANGED <<app, api, closed, nextKey, givenUp>>

Prior(c) == \E r \in recorded : r.key = c.key
Record(c) ==
    /\ c.op \in Forms /\ c.answer = "none" /\ c.alive
    /\ recorded' = IF Prior(c) THEN recorded
                   ELSE recorded \cup {[key |-> c.key, arg |-> c.arg, op |-> c.op,
                                        mount |-> c.mount, nr |-> Cardinality(recorded)]}
    /\ Answered(c, "ok", 0)
    /\ UNCHANGED <<app, server, closed, nextKey, givenUp>>

RefuseCall(c) ==
    /\ c.op \in Forms /\ c.heard /\ c.answer = "none" /\ c.alive /\ ~Prior(c)
    /\ Answered(c, "refused", 0)
    /\ UNCHANGED <<app, api, closed, nextKey, givenUp>>

ReadBootstrap(c) ==
    /\ c.op = "refresh" /\ c.answer = "none" /\ c.alive
    /\ Answered(c, "ok", server)
    /\ UNCHANGED <<app, api, closed, nextKey, givenUp>>

\* Workers, admins and other members.
Change ==
    /\ server < MaxChanges /\ server' = server + 1
    /\ UNCHANGED <<app, recorded, closed, wire, nextKey, givenUp>>

----------------------------------------------------------------------------
(***************************************************************************)
(* What the page makes of an answer                                        *)
(***************************************************************************)
KeptAfterFailure(c) == retry
Heard(c, answers) == c.heard /\ c.answer \in answers /\ wire' = wire \ {c}
Accepted(c) ==
    /\ c.op \in Forms /\ Heard(c, {"ok"})
    /\ guard' = FALSE /\ closed' = closed \cup {c.key}
    /\ bidKeys' = IF c.op = "bid" THEN [bidKeys EXCEPT ![c.arg] = 0] ELSE bidKeys
    /\ retry' = IF c.op = "withdraw" THEN Nothing ELSE retry
    /\ UNCHANGED <<tab, mount, token, hours, shown, api, nextKey, givenUp>>

Failed(c) ==
    /\ guard' = (guard /\ c.op \notin Forms)
    /\ retry' = IF c.op = "withdraw" THEN KeptAfterFailure(c) ELSE retry
    /\ UNCHANGED <<tab, mount, token, hours, bidKeys, shown, api, closed, nextKey>>

Refused(c) ==
    /\ Heard(c, {"refused"})
    /\ Failed(c) /\ UNCHANGED givenUp
NotSignedIn(c) ==
    /\ ~Renews(c) /\ Heard(c, {"unauthorized"})
    /\ Failed(c) /\ UNCHANGED givenUp
\* Abandoned by the page, maybe not by the network.
GiveUp(c) ==
    /\ c.heard /\ givenUp < MaxGivenUp /\ givenUp' = givenUp + 1
    /\ wire' \in {wire \ {c}, (wire \ {c}) \cup Orphans({c})}
    /\ Failed(c)

Shows(c) == c.version
Show(c) ==
    /\ c.op = "refresh" /\ Heard(c, {"ok"})
    /\ shown' = Shows(c)
    /\ UNCHANGED <<tab, mount, token, hours, guard, bidKeys, retry,
                   api, closed, nextKey, givenUp>>

\* Lost before the server took it, or in vain.
Unheard(c) ==
    /\ ~c.heard /\ wire' = wire \ {c}
    /\ UNCHANGED <<app, api, closed, nextKey, givenUp>>

----------------------------------------------------------------------------
ClientInit ==
    /\ mount = 1 /\ token = "none" /\ hours = 0 /\ guard = FALSE /\ tab = "shop"
    /\ bidKeys = [n \in Numbers |-> 0] /\ retry = Nothing
    /\ shown = Nothing /\ wire = {} /\ nextKey = 1 /\ recorded = {}
    /\ closed = {} /\ server = 0 /\ givenUp = 0

Takes(c) == \/ Unauthorized(c) \/ Record(c) \/ RefuseCall(c)
            \/ ReadBootstrap(c)
Reads(c) == \/ Renew(c) \/ Accepted(c) \/ Refused(c) \/ NotSignedIn(c)
            \/ Show(c) \/ Unheard(c)
ClientNext ==
    \/ Reload \/ Connect \/ Hour \/ Change \/ Refresh
    \/ \E to \in Tabs : Open(to)
    \/ \E n \in Numbers : SubmitBid(n)
    \/ \E a \in Amounts : SubmitWithdrawal(a)
    \/ \E c \in wire : Takes(c) \/ Reads(c) \/ GiveUp(c)
ClientSpec == ClientInit /\ [][ClientNext]_clientVars

\* The page polls every 30 seconds, and a call that is not lost is answered.
Fairness ==
    /\ WF_clientVars(Refresh)
    /\ WF_clientVars(\E c \in wire : c.op = "refresh" /\ Takes(c))
    /\ WF_clientVars(\E c \in wire : c.op = "refresh" /\ Reads(c))
FairSpec == ClientSpec /\ Fairness

----------------------------------------------------------------------------
(***************************************************************************)
(* Properties                                                              *)
(***************************************************************************)
\* Every variable has its type.
ClientTypeOK ==
    /\ mount \in 1 .. MaxMounts /\ token \in {"none", "live", "expired"}
    /\ hours \in 0 .. LaunchHours /\ tab \in Tabs
    /\ guard \in BOOLEAN
    /\ bidKeys \in [Numbers -> Nat] /\ server \in Nat /\ nextKey \in Nat
    /\ retry = Nothing \/ retry \in [amount : Amounts, key : Nat]
    /\ shown = Nothing \/ shown \in Nat
    /\ wire \subseteq Calls

\* "The bid may have been recorded. Retry the same number to check safely"
\* (financial-flows.tsx:36): while the panel stays open, at most one bid on a number
\* is recorded that the member was not told of, however many answers are lost;
\* and one withdrawal, unless he changes the amount in between.
RetryIsSafe ==
    /\ ClientTypeOK
    /\ \A s \in 1 .. MaxMounts :
        /\ \A n \in Numbers :
               Cardinality({r \in recorded : r.arg = n /\ r.mount = s
                                             /\ r.key \notin closed}) <= 1
        /\ Cardinality({r \in recorded : r.op = "withdraw" /\ r.mount = s
                            /\ r.key \notin closed}) <= 1
        /\ \A q, r \in recorded : q.key = r.key => q = r

\* The screen catches up with the server although answers overtake one another
\* and the session ends in between, as long as the launch data is accepted and
\* the sign-in of the launch succeeded.
ShownCatchesUp ==
    <>[](shown = server \/ ~Launched \/ token = "none")
=============================================================================
