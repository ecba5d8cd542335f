------------------------------ MODULE Payments ------------------------------
(***************************************************************************)
(* Package and wallet payments: confirmPayment, the payment routes and the *)
(* submitted-payments worker of server.ts, services/deposit-discovery.ts   *)
(* and services/package-intents.ts.                                        *)
(*                                                                         *)
(* An invoice is a Payment row; a member pays it by a transfer to the      *)
(* treasury whose comment names it.  The worker reads the treasury's       *)
(* transactions in order, behind a cursor it stores, settles what they pay *)
(* and then looks at the hashes members registered themselves.  Every      *)
(* database statement or transaction is one step.  AUCTION and INVESTMENT  *)
(* invoices are settled by their own services and are not in this module.  *)
(***************************************************************************)
EXTENDS Integers, Sequences, FiniteSets

CONSTANTS
    Members, Invoices,
    Payer, Price,       \* userId and expectedAmount of an invoice
    Bought,             \* purpose an invoice is opened for
    Code,               \* packageCode
    Initial, Advanced,  \* INITIAL_PACKAGE_CODES, ADVANCED_PACKAGE_CODES
    Repeatable,         \* codes that may be bought again: DIAMOND
    Life,               \* 30 min: how long an invoice can be paid
    Skew,               \* how far the chain's clock may be behind the server's
    MaxAttempts,        \* maxSettlementAttempts of deposit-discovery.ts
    None,
    Registering,        \* bound: invoices whose member registers hashes
    MaxDeposits, MaxTime, MaxFaults     \* bounds

Purposes == {"PACKAGE", "WALLET_TOPUP"}
Statuses == {"NONE", "PENDING", "CONFIRMED", "REJECTED"}
Payment == [st: Statuses, purpose: Purposes, hash: Nat \cup {None}, created: Nat, expires: Nat]
\* A deposit in the treasury; exact when it carries expectedAmount.
Deposit == [inv: Invoices, time: Nat, exact: BOOLEAN]
\* idempotencyKey of a ledger transaction.
Key == {"package-credit", "wallet-topup"} \X Invoices

ASSUME InvoiceAssumption ==
    /\ IsFiniteSet(Invoices)
    /\ Payer \in [Invoices -> Members] /\ Price \in [Invoices -> Nat \ {0}]
    /\ Bought \in [Invoices -> Purposes]
    /\ \A i, j \in Invoices : Code[i] = Code[j] => Bought[i] = Bought[j]
ASSUME BoundAssumption ==
    /\ Life \in Nat /\ Skew \in Nat /\ MaxAttempts \in Nat \ {0}
    /\ MaxDeposits \in Nat /\ MaxTime \in Nat /\ MaxFaults \in Nat
    /\ None \notin Nat /\ None \notin Invoices /\ None \notin [inv: Invoices, hash: Nat]

VARIABLES
    pay,        \* the Payment row of an invoice
    ledger,     \* idempotency keys of the ledger transactions posted
    deposited,  \* User.totalDeposited
    active,     \* User.activePackageCode
    chain,      \* the treasury's transactions, in order of lt
    cursor,     \* deposit-cursor: how many of them are done
    attempts,   \* deposit-retry:<id>
    pc, last,   \* where the worker is, and the end of the page it read
    submitted,  \* registered hashes the worker has still to look up
    route,      \* a member's open registration of a hash
    rejecting,  \* the invoice of an admin's open rejection
    overwritten,    \* history: confirmed payments that such a rejection wrote over
    now, faults

workerVars == <<pc, last, submitted>>
requestVars == <<route, rejecting, overwritten>>
moneyVars == <<ledger, deposited, active>>
envVars == <<now, faults>>
vars == <<pay, moneyVars, chain, cursor, attempts, workerVars, requestVars, envVars>>

NoPayment == [st |-> "NONE", purpose |-> "PACKAGE", hash |-> None, created |-> 0, expires |-> 0]
Registration == [inv: Invoices, hash: Nat]

TypeOK ==
    /\ pay \in [Invoices -> Payment]
    /\ ledger \subseteq Key /\ deposited \in [Members -> Nat]
    /\ active \in [Members -> {Code[i] : i \in Invoices} \cup {None}]
    /\ chain \in Seq(Deposit) /\ cursor \in 0 .. Len(chain) /\ last \in 0 .. Len(chain)
    /\ attempts \in [Invoices -> Nat]
    /\ pc \in {"idle", "page", "hash", "confirm", "retry", "late", "topup", "advance",
               "submitted", "check"}
    /\ submitted \subseteq Registration /\ route \in Registration \cup {None}
    /\ rejecting \in Invoices \cup {None} /\ overwritten \subseteq Invoices
    /\ now \in Nat /\ faults \in Nat

Init ==
    /\ pay = [i \in Invoices |-> NoPayment]
    /\ ledger = {} /\ deposited = [m \in Members |-> 0] /\ active = [m \in Members |-> None]
    /\ chain = <<>> /\ cursor = 0 /\ last = 0
    /\ attempts = [i \in Invoices |-> 0]
    /\ pc = "idle" /\ submitted = {} /\ route = None
    /\ rejecting = None /\ overwritten = {}
    /\ now = 0 /\ faults = 0

-----------------------------------------------------------------------------
(* What members and admins do. *)

\* The invoices of one member for one package.
Same(i) == {j \in Invoices : Payer[j] = Payer[i] /\ Code[j] = Code[i]}

\* getOrCreatePackageIntent, which serializes on the member's row and answers
\* a live invoice instead of a second one; or a wallet top-up.
OpenInvoice(i) ==
    /\ pay[i].st = "NONE"
    /\ Bought[i] = "PACKAGE" =>
        /\ Code[i] \in Advanced =>
            \E j \in Invoices : /\ Payer[j] = Payer[i] /\ Code[j] \in Initial
                                /\ pay[j].st = "CONFIRMED" /\ pay[j].purpose = "PACKAGE"
        /\ \A j \in Same(i) : pay[j].purpose = "PACKAGE" =>
            /\ pay[j].st = "CONFIRMED" => Code[i] \in Repeatable
            /\ pay[j].st = "PENDING" => pay[j].expires <= now
    /\ pay' = [pay EXCEPT ![i] = [st |-> "PENDING", purpose |-> Bought[i], hash |-> None,
                                  created |-> now, expires |-> now + Life]]
    /\ UNCHANGED <<moneyVars, chain, cursor, attempts, workerVars, requestVars, envVars>>

\* A transfer reaches the treasury, whenever the member signs it.
Transfer(i, t, exact) ==
    /\ pay[i].st # "NONE" /\ Len(chain) < MaxDeposits
    /\ t \in Nat /\ now - Skew <= t /\ t <= now
    /\ chain # <<>> => chain[Len(chain)].time <= t
    /\ chain' = Append(chain, [inv |-> i, time |-> t, exact |-> exact])
    /\ UNCHANGED <<pay, moneyVars, cursor, attempts, workerVars, requestVars, envVars>>

\* POST /v1/payments/:id/transaction checks the row it reads, and takes any
\* hash, also that of another invoice's deposit ...
RegisterRead(i, h) ==
    /\ route = None
    /\ pay[i].st = "PENDING" /\ now <= pay[i].expires
    /\ h \in 1 .. Len(chain)
    /\ route' = [inv |-> i, hash |-> h]
    /\ UNCHANGED <<pay, moneyVars, chain, cursor, attempts, workerVars, rejecting,
                   overwritten, envVars>>

\* chainTxHash is unique: a hash another row has makes the update throw.
Taken(h, i) == \E j \in Invoices \ {i} : pay[j].hash = h
\* ... and then updates it by id, whatever it has become.
RegisterWrite ==
    /\ route # None
    /\ pay' = IF Taken(route.hash, route.inv) THEN pay
              ELSE [pay EXCEPT ![route.inv].hash = route.hash]
    /\ route' = None
    /\ UNCHANGED <<moneyVars, chain, cursor, attempts, workerVars, rejecting, overwritten, envVars>>

\* PATCH /v1/admin/payments/:id REJECTED: a read, then an update by id, which
\* takes no lock in between and so may write over a confirmation.
RejectRead(i) ==
    /\ rejecting = None /\ pay[i].st = "PENDING"
    /\ rejecting' = i
    /\ UNCHANGED <<pay, moneyVars, chain, cursor, attempts, workerVars, route, overwritten, envVars>>
RejectWrite ==
    /\ rejecting # None
    /\ pay' = [pay EXCEPT ![rejecting].st = "REJECTED"]
    /\ overwritten' = IF pay[rejecting].st = "CONFIRMED" THEN overwritten \cup {rejecting}
                      ELSE overwritten
    /\ rejecting' = None
    /\ UNCHANGED <<moneyVars, chain, cursor, attempts, workerVars, route, envVars>>

-----------------------------------------------------------------------------
(* confirmPayment: a transaction that locks the row first, and the member for
   a package that is sold once, so it is one step. *)

\* Bug: the condition on the package is inverted.
DuplicateRepeatable(i) ==
    /\ Code[i] \in Repeatable
    /\ \E j \in Same(i) \ {i} : pay[j].st = "CONFIRMED"
\* Another confirmed payment of a package that is sold once, whatever its
\* purpose has become.
Duplicate(i) ==
    /\ Code[i] \notin Repeatable
    /\ \E j \in Same(i) \ {i} : pay[j].st = "CONFIRMED"
\* The transaction settles the payment, or throws.
Settles(i) ==
    /\ pay[i].st = "PENDING" /\ pay[i].hash # None
    /\ pay[i].purpose = "PACKAGE" => ~Duplicate(i)
\* Confirming what is confirmed already answers the row.
Confirms(i) == pay[i].st = "CONFIRMED" \/ Settles(i)
Credit(i) ==
    LET m == Payer[i]
        package == pay[i].purpose = "PACKAGE"
    IN /\ pay' = [pay EXCEPT ![i].st = "CONFIRMED"]
       /\ ledger' = ledger \cup {<<IF package THEN "package-credit" ELSE "wallet-topup", i>>}
       /\ deposited' = [deposited EXCEPT ![m] = @ + Price[i]]
       /\ active' = IF package THEN [active EXCEPT ![m] = Code[i]] ELSE active
\* Bug: the status is not read again under the row's lock.
SettleAgain(i) == Credit(i)
Settle(i) ==
    IF pay[i].st = "CONFIRMED" THEN UNCHANGED <<pay, moneyVars>> ELSE Credit(i)

\* An admin confirms on the strength of a registered hash, without the chain.
AdminConfirm(i) ==
    /\ Settles(i) /\ Settle(i)
    /\ UNCHANGED <<chain, cursor, attempts, workerVars, requestVars, envVars>>

-----------------------------------------------------------------------------
(* The worker: discoverDeposits, then autoConfirmSubmittedPayments. *)

Goto(l) == pc' = l
\* The transaction being looked at, and the invoice its comment names.
Current == chain[cursor + 1]
Named == Current.inv

\* discoverDepositPage: the cursor, and the transactions after it.
DiscoverRead ==
    /\ pc = "idle"
    /\ last' = Len(chain)
    /\ Goto(IF cursor < Len(chain) THEN "page" ELSE "submitted")
    /\ UNCHANGED <<pay, moneyVars, chain, cursor, attempts, submitted, requestVars, envVars>>

\* The payment row decides what the transaction is.
DiscoverRow ==
    LET p == pay[Named] IN
    /\ pc = "page"
    /\ Goto(IF p.st # "PENDING" \/ ~Current.exact \/ Current.time < p.created THEN "advance"
            ELSE IF Current.time > p.expires THEN "late" ELSE "hash")
    /\ UNCHANGED <<pay, moneyVars, chain, cursor, attempts, last, submitted, requestVars, envVars>>

\* Paid in time: the hash is written by id, and a unique conflict ends the iteration.
DiscoverHash ==
    /\ pc = "hash"
    /\ IF Taken(cursor + 1, Named)
       THEN pay' = pay /\ Goto("idle")
       ELSE pay' = [pay EXCEPT ![Named].hash = cursor + 1] /\ Goto("confirm")
    /\ UNCHANGED <<moneyVars, chain, cursor, attempts, last, submitted, requestVars, envVars>>

DiscoverConfirm ==
    /\ pc = "confirm"
    /\ IF Confirms(Named)
       THEN Settle(Named) /\ Goto("advance")
       ELSE UNCHANGED <<pay, moneyVars>> /\ Goto("retry")
    /\ UNCHANGED <<chain, cursor, attempts, last, submitted, requestVars, envVars>>

\* Bug: a failed settlement is swallowed and the next transaction taken.
RetrySwallowed ==
    /\ pc = "retry"
    /\ attempts' = [attempts EXCEPT ![Named] = @ + 1]
    /\ Goto(IF attempts'[Named] < MaxAttempts THEN "advance" ELSE "late")
    /\ UNCHANGED <<pay, moneyVars, chain, cursor, last, submitted, requestVars, envVars>>
\* Bug: the attempts are not counted.
RetryForever ==
    /\ pc = "retry" /\ Goto("idle")
    /\ UNCHANGED <<pay, moneyVars, chain, cursor, attempts, last, submitted, requestVars, envVars>>
\* The catch: rethrown, which ends the iteration, until it failed too often.
DiscoverRetry ==
    /\ pc = "retry"
    /\ attempts' = [attempts EXCEPT ![Named] = @ + 1]
    /\ Goto(IF attempts'[Named] < MaxAttempts THEN "idle" ELSE "late")
    /\ UNCHANGED <<pay, moneyVars, chain, cursor, last, submitted, requestVars, envVars>>

\* Bug: the row is reopened, to credit also what an admin rejected.
TopupReopens ==
    /\ pc = "late"
    /\ IF Taken(cursor + 1, Named)
       THEN pay' = pay /\ Goto("idle")
       ELSE /\ pay' = [pay EXCEPT ![Named].hash = cursor + 1, ![Named].purpose = "WALLET_TOPUP",
                                  ![Named].st = "PENDING"]
            /\ Goto("topup")
    /\ UNCHANGED <<moneyVars, chain, cursor, attempts, last, submitted, requestVars, envVars>>
\* creditAsWalletTopup: the row is updated by id, then confirmed.
TopupWrite ==
    /\ pc = "late"
    /\ IF Taken(cursor + 1, Named)
       THEN pay' = pay /\ Goto("idle")
       ELSE /\ pay' = [pay EXCEPT ![Named].hash = cursor + 1, ![Named].purpose = "WALLET_TOPUP"]
            /\ Goto("topup")
    /\ UNCHANGED <<moneyVars, chain, cursor, attempts, last, submitted, requestVars, envVars>>
TopupConfirm ==
    /\ pc = "topup"
    /\ IF Confirms(Named)
       THEN Settle(Named) /\ Goto("advance")
       ELSE UNCHANGED <<pay, moneyVars>> /\ Goto("idle")
    /\ UNCHANGED <<chain, cursor, attempts, last, submitted, requestVars, envVars>>

\* The cursor is stored after each transaction.
DiscoverAdvance ==
    /\ pc = "advance"
    /\ cursor' = cursor + 1
    /\ Goto(IF cursor' < last THEN "page" ELSE "submitted")
    /\ UNCHANGED <<pay, moneyVars, chain, attempts, last, submitted, requestVars, envVars>>

\* The registered hashes of live invoices.
SubmittedRead ==
    /\ pc = "submitted"
    /\ submitted' = {[inv |-> i, hash |-> pay[i].hash] :
                     i \in {j \in Invoices : /\ pay[j].st = "PENDING" /\ pay[j].hash # None
                                             /\ pay[j].expires > now}}
    /\ Goto("check")
    /\ UNCHANGED <<pay, moneyVars, chain, cursor, attempts, last, requestVars, envVars>>

\* Bug: the amount of the transfer is not compared.
ProvesInvoice(r) == chain[r.hash].inv = r.inv
\* The trace of a hash proves a payment when it pays this very invoice.
Proves(r) == chain[r.hash].inv = r.inv /\ chain[r.hash].exact
SubmittedCheck(r) ==
    /\ pc = "check" /\ r \in submitted
    /\ submitted' = submitted \ {r}
    /\ IF Proves(r) /\ Confirms(r.inv) THEN Settle(r.inv) ELSE UNCHANGED <<pay, moneyVars>>
    /\ UNCHANGED <<chain, cursor, attempts, pc, last, requestVars, envVars>>
SubmittedDone ==
    /\ pc = "check" /\ submitted = {}
    /\ Goto("idle")
    /\ UNCHANGED <<pay, moneyVars, chain, cursor, attempts, last, submitted, requestVars, envVars>>

\* A provider or the database fails: the statement in hand throws.
Fails ==
    /\ faults < MaxFaults /\ faults' = faults + 1
    /\ \/ pc = "confirm" /\ Goto("retry") /\ submitted' = submitted
       \/ pc # "confirm" /\ pc # "check" /\ Goto("idle") /\ submitted' = submitted
       \/ pc = "check" /\ Goto(pc) /\ \E r \in submitted : submitted' = submitted \ {r}
    /\ UNCHANGED <<pay, moneyVars, chain, cursor, attempts, last, requestVars, now>>

\* The process dies and starts again.
Restart ==
    /\ faults < MaxFaults /\ faults' = faults + 1
    /\ Goto("idle") /\ submitted' = {} /\ route' = None /\ rejecting' = None
    /\ UNCHANGED <<pay, moneyVars, chain, cursor, attempts, last, overwritten, now>>

Tick ==
    /\ now < MaxTime /\ now' = now + 1
    /\ UNCHANGED <<pay, moneyVars, chain, cursor, attempts, workerVars, requestVars, faults>>

-----------------------------------------------------------------------------
Worker ==
    \/ DiscoverRead \/ DiscoverRow \/ DiscoverHash \/ DiscoverConfirm \/ DiscoverRetry
    \/ TopupWrite \/ TopupConfirm \/ DiscoverAdvance
    \/ SubmittedRead \/ (\E r \in submitted : SubmittedCheck(r)) \/ SubmittedDone

Request ==
    \/ \E i \in Invoices :
        \/ OpenInvoice(i) \/ RejectRead(i) \/ AdminConfirm(i)
        \/ i \in Registering /\ \E h \in 1 .. Len(chain) : RegisterRead(i, h)
        \/ \E t \in now - Skew .. now, exact \in BOOLEAN : Transfer(i, t, exact)
    \/ RegisterWrite \/ RejectWrite

Next == Request \/ Worker \/ Fails \/ Restart \/ Tick

Spec == Init /\ [][Next]_vars
\* The worker polls, and an open rejection ends.
FairSpec == Spec /\ WF_vars(Worker) /\ WF_vars(RejectWrite)

-----------------------------------------------------------------------------
(* Properties. *)

\* README.md: a payment becomes CONFIRMED exactly once and its credit is
\* applied atomically: one ledger transaction, as a package or to the wallet,
\* for a confirmed payment and none for any other, whoever confirms it and
\* whatever the worker does to its row at the same time.  A rejection that wrote
\* over the confirmation leaves the one credit standing.
CreditedOnce ==
    \A i \in Invoices :
        /\ (pay[i].st = "CONFIRMED" \/ i \in overwritten) <=> \E k \in ledger : k[2] = i
        /\ \A k, l \in ledger : k[2] = i /\ l[2] = i => k = l

\* A package that is sold once is credited to a member at most once, over
\* several invoices, late payments and confirmations by an admin, unless the
\* payment of an earlier credit was written over by a rejection.
OnePackage ==
    \A k, l \in ledger :
        /\ k[1] = "package-credit" /\ l[1] = "package-credit"
        /\ Code[k[2]] \notin Repeatable /\ l[2] \in Same(k[2])
        => k = l \/ {k[2], l[2]} \cap overwritten # {}

\* The cursor only passes money that was dealt with: no exact deposit behind it
\* leaves its invoice waiting, whatever crash or failure came between the
\* statements of discoverDepositPage.
CursorPassesSettled ==
    \A d \in 1 .. cursor :
        LET i == chain[d].inv IN
        chain[d].exact /\ pay[i].created <= chain[d].time => pay[i].st # "PENDING"

\* "Payment confirmation depends on blockchain verification, not a browser
\* claim": the worker confirms an invoice only when the chain shows its deposit.
WorkerProves ==
    [][Worker => \A i \in Invoices :
        pay[i].st = "PENDING" /\ pay'[i].st = "CONFIRMED" =>
            \E d \in 1 .. Len(chain) : chain[d].inv = i /\ chain[d].exact]_vars

\* What is left of "Payment is already final" (the rejecting route) when
\* requests overlap: a status that is CONFIRMED or REJECTED changes only when a
\* rejection that read the row before its confirmation writes after it.
FinalIsFinal ==
    [][\A i \in Invoices :
        pay[i].st \in {"CONFIRMED", "REJECTED"} /\ pay'[i].st # pay[i].st =>
            /\ rejecting = i /\ pay'[i].st = "REJECTED"
            /\ i \in overwritten' \ overwritten]_vars

\* "Payment is already final", with no exception.
AlreadyFinal ==
    [][\A i \in Invoices :
        pay[i].st \in {"CONFIRMED", "REJECTED"} => pay'[i].st = pay[i].st]_vars

\* The next deposit's hash is registered on another invoice, which the unique
\* index of chainTxHash does not let the worker change.
Blocked == cursor < Len(chain) /\ Taken(cursor + 1, Named)
\* "never let one unsettleable purchase block every later deposit behind the
\* cursor": again and again the worker is level with the treasury, or stands at a
\* deposit whose hash a member put on another invoice, once for good or again and
\* again.
CursorCatchesUp == []<>(cursor = Len(chain) \/ Blocked)

-----------------------------------------------------------------------------
(* The inductive invariant behind them. *)

\* The worker is inside the page it read; a transaction it is about to pass has
\* been dealt with.
WorkerInv ==
    /\ pc \in {"page", "hash", "confirm", "retry", "late", "topup", "advance"} => cursor < last
    /\ pc = "advance" =>
        (Current.exact /\ pay[Named].created <= Current.time => pay[Named].st # "PENDING")
\* A deposit names an invoice that exists, and so does a rejection; a payment a
\* rejection wrote over stays rejected.
RowInv ==
    /\ \A d \in 1 .. Len(chain) : pay[chain[d].inv].st # "NONE"
    /\ rejecting # None => pay[rejecting].st # "NONE"
    /\ \A i \in overwritten : pay[i].st = "REJECTED"

Inv == WorkerInv /\ RowInv /\ CreditedOnce /\ OnePackage /\ CursorPassesSettled
=============================================================================
