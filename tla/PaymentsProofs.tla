--------------------------- MODULE PaymentsProofs ---------------------------
(***************************************************************************)
(* What holds of Payments for all values of its constants: any members,    *)
(* invoices, packages, deposits, failures and times.                       *)
(***************************************************************************)
EXTENDS Payments, TLAPS

USE DEF Goto, workerVars, requestVars, moneyVars, envVars

-----------------------------------------------------------------------------
(* Type correctness, with what the worker's program counter promises. *)

Looking == {"page", "hash", "confirm", "retry", "late", "topup", "advance"}
Within == pc \in Looking => cursor < last

LEMMA InitType == Init => TypeOK /\ Within
  BY InvoiceAssumption
  DEF Init, TypeOK, Within, Looking, Payment, NoPayment, Statuses, Purposes, Registration, Deposit, Key

\* The transaction the worker looks at exists and names an invoice.
LEMMA CurrentType ==
    ASSUME TypeOK, Within, pc \in Looking
    PROVE  /\ cursor + 1 \in 1 .. Len(chain) /\ cursor + 1 \in Nat
           /\ Current \in Deposit /\ Named \in Invoices
<1>1. cursor + 1 \in 1 .. Len(chain) /\ cursor + 1 \in Nat
  BY DEF TypeOK, Within
<1>2. Current \in Deposit
  BY <1>1 DEF TypeOK, Current
<1> QED
  BY <1>1, <1>2 DEF Named, Deposit

\* A confirmation keeps the rows and the books well typed.
LEMMA SettleType ==
    ASSUME TypeOK, NEW i \in Invoices, Settle(i)
    PROVE  /\ pay' \in [Invoices -> Payment] /\ ledger' \subseteq Key
           /\ deposited' \in [Members -> Nat]
           /\ active' \in [Members -> {Code[j] : j \in Invoices} \cup {None}]
<1>1. Payer[i] \in Members /\ Price[i] \in Nat /\ Code[i] \in {Code[j] : j \in Invoices}
  BY InvoiceAssumption
<1>2. CASE pay[i].st = "CONFIRMED"
  BY <1>2 DEF Settle, TypeOK
<1>3. CASE pay[i].st # "CONFIRMED"
  <2>1. Credit(i)
    BY <1>3 DEF Settle
  <2>2. pay' \in [Invoices -> Payment]
    BY <2>1 DEF Credit, TypeOK, Payment, Statuses
  <2>3. ledger' \subseteq Key
    BY <2>1 DEF Credit, TypeOK, Key
  <2>4. deposited' \in [Members -> Nat]
    BY <1>1, <2>1 DEF Credit, TypeOK
  <2>5. active' \in [Members -> {Code[j] : j \in Invoices} \cup {None}]
    BY <1>1, <2>1 DEF Credit, TypeOK
  <2> QED
    BY <2>2, <2>3, <2>4, <2>5
<1> QED
  BY <1>2, <1>3

LEMMA RequestType ==
    ASSUME TypeOK, Within, Request PROVE TypeOK' /\ Within'
<1>1. ASSUME NEW i \in Invoices, OpenInvoice(i) PROVE TypeOK' /\ Within'
  <2>1. Bought[i] \in Purposes /\ now + Life \in Nat
    BY InvoiceAssumption, BoundAssumption DEF TypeOK
  <2>2. pay' \in [Invoices -> Payment]
    BY <1>1, <2>1 DEF OpenInvoice, TypeOK, Payment, Statuses
  <2> QED
    BY <1>1, <2>2 DEF OpenInvoice, TypeOK, Within
<1>2. ASSUME NEW i \in Invoices, RejectRead(i) PROVE TypeOK' /\ Within'
  BY <1>2 DEF RejectRead, TypeOK, Within
<1>3. ASSUME NEW i \in Invoices, AdminConfirm(i) PROVE TypeOK' /\ Within'
  <2>1. Settle(i)
    BY <1>3 DEF AdminConfirm
  <2> QED
    BY <1>3, <2>1, SettleType DEF AdminConfirm, TypeOK, Within
<1>4. ASSUME NEW i \in Invoices, NEW h \in 1 .. Len(chain), RegisterRead(i, h)
      PROVE  TypeOK' /\ Within'
  <2>1. h \in Nat
    BY DEF TypeOK
  <2> QED
    BY <1>4, <2>1 DEF RegisterRead, TypeOK, Within, Registration
<1>5. ASSUME NEW i \in Invoices, NEW t \in now - Skew .. now, NEW exact \in BOOLEAN,
             Transfer(i, t, exact)
      PROVE  TypeOK' /\ Within'
  <2>1. [inv |-> i, time |-> t, exact |-> exact] \in Deposit
    BY <1>5 DEF Transfer, Deposit
  <2>2. chain' \in Seq(Deposit) /\ Len(chain') = Len(chain) + 1 /\ Len(chain) \in Nat
    BY <1>5, <2>1 DEF Transfer, TypeOK
  <2>3. cursor' \in 0 .. Len(chain') /\ last' \in 0 .. Len(chain')
    BY <1>5, <2>2 DEF Transfer, TypeOK
  <2> QED
    BY <1>5, <2>2, <2>3 DEF Transfer, TypeOK, Within
<1>6. ASSUME RegisterWrite PROVE TypeOK' /\ Within'
  <2>1. route.inv \in Invoices /\ route.hash \in Nat
    BY <1>6 DEF RegisterWrite, TypeOK, Registration
  <2>2. pay' \in [Invoices -> Payment]
    BY <1>6, <2>1 DEF RegisterWrite, TypeOK, Payment
  <2> QED
    BY <1>6, <2>2 DEF RegisterWrite, TypeOK, Within
<1>7. ASSUME RejectWrite PROVE TypeOK' /\ Within'
  <2>1. pay' \in [Invoices -> Payment]
    BY <1>7 DEF RejectWrite, TypeOK, Payment, Statuses
  <2> QED
    BY <1>7, <2>1 DEF RejectWrite, TypeOK, Within
<1> QED
  BY <1>1, <1>2, <1>3, <1>4, <1>5, <1>6, <1>7 DEF Request

LEMMA WorkerType ==
    ASSUME TypeOK, Within, Worker PROVE TypeOK' /\ Within'
<1>1. ASSUME DiscoverRead PROVE TypeOK' /\ Within'
  BY <1>1 DEF DiscoverRead, TypeOK, Within, Looking
<1>2. ASSUME DiscoverRow PROVE TypeOK' /\ Within'
  BY <1>2 DEF DiscoverRow, TypeOK, Within, Looking
<1>3. ASSUME DiscoverHash PROVE TypeOK' /\ Within'
  <2>1. Named \in Invoices /\ cursor + 1 \in Nat
    BY <1>3, CurrentType DEF DiscoverHash, Looking
  <2>2. pay' \in [Invoices -> Payment]
    BY <1>3, <2>1 DEF DiscoverHash, TypeOK, Payment
  <2> QED
    BY <1>3, <2>2 DEF DiscoverHash, TypeOK, Within, Looking
<1>4. ASSUME DiscoverConfirm PROVE TypeOK' /\ Within'
  <2>1. Named \in Invoices
    BY <1>4, CurrentType DEF DiscoverConfirm, Looking
  <2>2. Settle(Named) \/ UNCHANGED <<pay, moneyVars>>
    BY <1>4 DEF DiscoverConfirm
  <2>3. CASE Settle(Named)
    BY <1>4, <2>1, <2>3, SettleType DEF DiscoverConfirm, TypeOK, Within, Looking
  <2>4. CASE UNCHANGED <<pay, moneyVars>>
    BY <1>4, <2>4 DEF DiscoverConfirm, TypeOK, Within, Looking
  <2> QED
    BY <2>2, <2>3, <2>4
<1>5. ASSUME DiscoverRetry PROVE TypeOK' /\ Within'
  <2>1. Named \in Invoices
    BY <1>5, CurrentType DEF DiscoverRetry, Looking
  <2>2. attempts' \in [Invoices -> Nat]
    BY <1>5, <2>1 DEF DiscoverRetry, TypeOK
  <2> QED
    BY <1>5, <2>2 DEF DiscoverRetry, TypeOK, Within, Looking
<1>6. ASSUME TopupWrite PROVE TypeOK' /\ Within'
  <2>1. Named \in Invoices /\ cursor + 1 \in Nat
    BY <1>6, CurrentType DEF TopupWrite, Looking
  <2>2. pay' \in [Invoices -> Payment]
    <3>1. CASE Taken(cursor + 1, Named)
      BY <1>6, <3>1 DEF TopupWrite, TypeOK
    <3>2. CASE ~Taken(cursor + 1, Named)
      <4> DEFINE row == [pay[Named] EXCEPT !.hash = cursor + 1, !.purpose = "WALLET_TOPUP"]
      <4>1. pay' = [pay EXCEPT ![Named] = row]
        BY <1>6, <2>1, <3>2 DEF TopupWrite, TypeOK
      <4>2. row \in Payment
        BY <2>1 DEF TypeOK, Payment, Purposes
      <4> QED
        BY <4>1, <4>2 DEF TypeOK
    <3> QED
      BY <3>1, <3>2
  <2> QED
    BY <1>6, <2>2 DEF TopupWrite, TypeOK, Within, Looking
<1>7. ASSUME TopupConfirm PROVE TypeOK' /\ Within'
  <2>1. Named \in Invoices
    BY <1>7, CurrentType DEF TopupConfirm, Looking
  <2>2. Settle(Named) \/ UNCHANGED <<pay, moneyVars>>
    BY <1>7 DEF TopupConfirm
  <2>3. CASE Settle(Named)
    BY <1>7, <2>1, <2>3, SettleType DEF TopupConfirm, TypeOK, Within, Looking
  <2>4. CASE UNCHANGED <<pay, moneyVars>>
    BY <1>7, <2>4 DEF TopupConfirm, TypeOK, Within, Looking
  <2> QED
    BY <2>2, <2>3, <2>4
<1>8. ASSUME DiscoverAdvance PROVE TypeOK' /\ Within'
  <2>1. cursor + 1 \in 0 .. Len(chain)
    BY <1>8, CurrentType DEF DiscoverAdvance, Looking
  <2> QED
    BY <1>8, <2>1 DEF DiscoverAdvance, TypeOK, Within, Looking
<1>9. ASSUME SubmittedRead PROVE TypeOK' /\ Within'
  <2>1. submitted' \subseteq Registration
    BY <1>9 DEF SubmittedRead, TypeOK, Registration, Payment
  <2> QED
    BY <1>9, <2>1 DEF SubmittedRead, TypeOK, Within, Looking
<1>10. ASSUME NEW r \in submitted, SubmittedCheck(r) PROVE TypeOK' /\ Within'
  <2>1. r.inv \in Invoices
    BY DEF TypeOK, Registration
  <2>2. Settle(r.inv) \/ UNCHANGED <<pay, moneyVars>>
    BY <1>10 DEF SubmittedCheck
  <2>3. CASE Settle(r.inv)
    BY <1>10, <2>1, <2>3, SettleType DEF SubmittedCheck, TypeOK, Within, Looking
  <2>4. CASE UNCHANGED <<pay, moneyVars>>
    BY <1>10, <2>4 DEF SubmittedCheck, TypeOK, Within, Looking
  <2> QED
    BY <2>2, <2>3, <2>4
<1>11. ASSUME SubmittedDone PROVE TypeOK' /\ Within'
  BY <1>11 DEF SubmittedDone, TypeOK, Within, Looking
<1> QED
  BY <1>1, <1>2, <1>3, <1>4, <1>5, <1>6, <1>7, <1>8, <1>9, <1>10, <1>11 DEF Worker

LEMMA NextType ==
    ASSUME TypeOK, Within, [Next]_vars PROVE TypeOK' /\ Within'
<1>1. ASSUME Fails PROVE TypeOK' /\ Within'
  BY <1>1 DEF Fails, TypeOK, Within, Looking
<1>2. ASSUME Restart PROVE TypeOK' /\ Within'
  BY <1>2 DEF Restart, TypeOK, Within, Looking
<1>3. ASSUME Tick PROVE TypeOK' /\ Within'
  BY <1>3 DEF Tick, TypeOK, Within
<1>4. ASSUME UNCHANGED vars PROVE TypeOK' /\ Within'
  BY <1>4 DEF vars, TypeOK, Within
<1> QED
  BY <1>1, <1>2, <1>3, <1>4, RequestType, WorkerType DEF Next

-----------------------------------------------------------------------------
(* Every step does one of four things to the rows and the books. *)

\* Statuses and books stay; a rejection may begin, or be forgotten.
Quiet ==
    /\ UNCHANGED <<moneyVars, overwritten>>
    /\ \A i \in Invoices : pay'[i].st = pay[i].st /\ pay'[i].created = pay[i].created
    /\ rejecting' \in {None, rejecting} \/ pay[rejecting'].st = "PENDING"
Opens(i) ==
    /\ pay[i].st = "NONE" /\ pay'[i].st = "PENDING"
    /\ \A j \in Invoices \ {i} : pay'[j] = pay[j]
    /\ UNCHANGED <<moneyVars, rejecting, overwritten>>
Rejects ==
    /\ rejecting # None /\ rejecting' = None
    /\ pay' = [pay EXCEPT ![rejecting].st = "REJECTED"]
    /\ overwritten' = IF pay[rejecting].st = "CONFIRMED" THEN overwritten \cup {rejecting}
                      ELSE overwritten
    /\ UNCHANGED moneyVars
Pays(i) ==
    /\ Settles(i) /\ Credit(i)
    /\ UNCHANGED <<rejecting, overwritten>>

\* A confirmation pays the invoice, or finds it confirmed.
LEMMA SettleKind ==
    ASSUME NEW i \in Invoices, Confirms(i), Settle(i), UNCHANGED <<rejecting, overwritten>>
    PROVE  Quiet \/ Pays(i)
<1>1. CASE pay[i].st = "CONFIRMED"
  BY <1>1 DEF Settle, Quiet
<1>2. CASE pay[i].st # "CONFIRMED"
  BY <1>2 DEF Settle, Confirms, Pays
<1> QED
  BY <1>1, <1>2

LEMMA RequestKind ==
    ASSUME TypeOK, Request
    PROVE  Quiet \/ Rejects \/ \E i \in Invoices : Opens(i) \/ Pays(i)
<1>1. ASSUME NEW i \in Invoices, OpenInvoice(i) PROVE Opens(i)
  BY <1>1 DEF OpenInvoice, TypeOK, Opens
<1>2. ASSUME NEW i \in Invoices, RejectRead(i) PROVE Quiet
  BY <1>2 DEF RejectRead, Quiet
<1>3. ASSUME NEW i \in Invoices, AdminConfirm(i) PROVE Quiet \/ Pays(i)
  BY <1>3, SettleKind DEF AdminConfirm, Confirms
<1>4. ASSUME NEW i \in Invoices, NEW h \in 1 .. Len(chain), RegisterRead(i, h) PROVE Quiet
  BY <1>4 DEF RegisterRead, Quiet
<1>5. ASSUME NEW i \in Invoices, NEW t \in now - Skew .. now, NEW exact \in BOOLEAN,
             Transfer(i, t, exact)
      PROVE  Quiet
  BY <1>5 DEF Transfer, Quiet
<1>6. ASSUME RegisterWrite PROVE Quiet
  BY <1>6 DEF RegisterWrite, TypeOK, Payment, Quiet
<1>7. ASSUME RejectWrite PROVE Rejects
  BY <1>7 DEF RejectWrite, Rejects
<1> QED
  BY <1>1, <1>2, <1>3, <1>4, <1>5, <1>6, <1>7 DEF Request

LEMMA WorkerKind ==
    ASSUME TypeOK, Within, Worker
    PROVE  Quiet \/ \E i \in Invoices : Pays(i)
<1>1. ASSUME DiscoverHash PROVE Quiet
  <2>1. Named \in Invoices
    BY <1>1, CurrentType DEF DiscoverHash, Looking
  <2>2. \A i \in Invoices : pay'[i].st = pay[i].st /\ pay'[i].created = pay[i].created
    <3>1. pay' = pay \/ pay' = [pay EXCEPT ![Named].hash = cursor + 1]
      BY <1>1 DEF DiscoverHash
    <3> HIDE DEF Named
    <3> QED
      BY <2>1, <3>1 DEF TypeOK, Payment
  <2> QED
    BY <1>1, <2>2 DEF DiscoverHash, Quiet
<1>2. ASSUME DiscoverConfirm PROVE Quiet \/ \E i \in Invoices : Pays(i)
  <2>1. Named \in Invoices
    BY <1>2, CurrentType DEF DiscoverConfirm, Looking
  <2>2. CASE Confirms(Named)
    BY <1>2, <2>1, <2>2, SettleKind DEF DiscoverConfirm
  <2>3. CASE ~Confirms(Named)
    BY <1>2, <2>3 DEF DiscoverConfirm, Quiet
  <2> QED
    BY <2>2, <2>3
<1>3. ASSUME TopupWrite PROVE Quiet
  <2>1. Named \in Invoices
    BY <1>3, CurrentType DEF TopupWrite, Looking
  <2>2. \A i \in Invoices : pay'[i].st = pay[i].st /\ pay'[i].created = pay[i].created
    <3>1. CASE Taken(cursor + 1, Named)
      BY <1>3, <3>1 DEF TopupWrite
    <3>2. CASE ~Taken(cursor + 1, Named)
      <4> DEFINE row == [pay[Named] EXCEPT !.hash = cursor + 1, !.purpose = "WALLET_TOPUP"]
      <4>1. pay' = [pay EXCEPT ![Named] = row]
        BY <1>3, <2>1, <3>2 DEF TopupWrite, TypeOK
      <4>2. row.st = pay[Named].st /\ row.created = pay[Named].created
        BY <2>1 DEF TypeOK, Payment
      <4> HIDE DEF row
      <4> QED
        BY <4>1, <4>2 DEF TypeOK
    <3> QED
      BY <3>1, <3>2
  <2> QED
    BY <1>3, <2>2 DEF TopupWrite, Quiet
<1>4. ASSUME TopupConfirm PROVE Quiet \/ \E i \in Invoices : Pays(i)
  <2>1. Named \in Invoices
    BY <1>4, CurrentType DEF TopupConfirm, Looking
  <2>2. CASE Confirms(Named)
    BY <1>4, <2>1, <2>2, SettleKind DEF TopupConfirm
  <2>3. CASE ~Confirms(Named)
    BY <1>4, <2>3 DEF TopupConfirm, Quiet
  <2> QED
    BY <2>2, <2>3
<1>5. ASSUME NEW r \in submitted, SubmittedCheck(r)
      PROVE  Quiet \/ \E i \in Invoices : Pays(i)
  <2>1. r.inv \in Invoices
    BY DEF TypeOK, Registration
  <2>2. CASE Proves(r) /\ Confirms(r.inv)
    BY <1>5, <2>1, <2>2, SettleKind DEF SubmittedCheck
  <2>3. CASE ~(Proves(r) /\ Confirms(r.inv))
    BY <1>5, <2>3 DEF SubmittedCheck, Quiet
  <2> QED
    BY <2>2, <2>3
<1>6. ASSUME DiscoverRead \/ DiscoverRow \/ DiscoverRetry \/ DiscoverAdvance
             \/ SubmittedRead \/ SubmittedDone
      PROVE  Quiet
  <2>1. UNCHANGED <<pay, moneyVars, rejecting, overwritten>>
    BY <1>6 DEF DiscoverRead, DiscoverRow, DiscoverRetry, DiscoverAdvance, SubmittedRead,
       SubmittedDone
  <2> QED
    BY <2>1 DEF Quiet
<1> QED
  BY <1>1, <1>2, <1>3, <1>4, <1>5, <1>6 DEF Worker

LEMMA NextKind ==
    ASSUME TypeOK, Within, [Next]_vars
    PROVE  Quiet \/ Rejects \/ \E i \in Invoices : Opens(i) \/ Pays(i)
<1>1. ASSUME Fails \/ Restart \/ Tick \/ UNCHANGED vars PROVE Quiet
  BY <1>1 DEF Fails, Restart, Tick, vars, Quiet
<1> QED
  BY <1>1, RequestKind, WorkerKind DEF Next

-----------------------------------------------------------------------------
(* The parts of the inductive invariant. *)

LEMMA CreditedOnceStep ==
    ASSUME TypeOK, Within, Inv, [Next]_vars
    PROVE  CreditedOnce'
<1>1. CASE Quiet
  BY <1>1 DEF Inv, CreditedOnce, Quiet
<1>2. CASE Rejects
  <2>1. rejecting \in Invoices
    BY <1>2 DEF Rejects, TypeOK
  <2>2. \A i \in Invoices : pay'[i].st = IF i = rejecting THEN "REJECTED" ELSE pay[i].st
    BY <1>2, <2>1 DEF Rejects, TypeOK, Payment
  <2>3. \A i \in Invoices :
          (pay'[i].st = "CONFIRMED" \/ i \in overwritten') <=> (pay[i].st = "CONFIRMED" \/ i \in overwritten)
    <3>1. CASE pay[rejecting].st = "CONFIRMED"
      BY <1>2, <2>1, <2>2, <3>1 DEF Rejects
    <3>2. CASE pay[rejecting].st # "CONFIRMED"
      BY <1>2, <2>1, <2>2, <3>2 DEF Rejects
    <3> QED
      BY <3>1, <3>2
  <2> QED
    BY <1>2, <2>3 DEF Inv, CreditedOnce, Rejects
<1>3. ASSUME NEW i \in Invoices, Opens(i) PROVE CreditedOnce'
  BY <1>3 DEF Inv, CreditedOnce, Opens
<1>4. ASSUME NEW i \in Invoices, Pays(i) PROVE CreditedOnce'
  <2> DEFINE key == <<IF pay[i].purpose = "PACKAGE" THEN "package-credit" ELSE "wallet-topup", i>>
  <2>1. ledger' = ledger \cup {key} /\ key[2] = i
    BY <1>4 DEF Pays, Credit
  <2>2. \A j \in Invoices : pay'[j].st = IF j = i THEN "CONFIRMED" ELSE pay[j].st
    BY <1>4 DEF Pays, Credit, TypeOK, Payment
  <2>3. pay[i].st = "PENDING" /\ overwritten' = overwritten /\ \A k \in ledger : k[2] # i
    BY <1>4 DEF Pays, Settles, Inv, CreditedOnce, RowInv
  <2> HIDE DEF key
  <2> QED
    BY <2>1, <2>2, <2>3 DEF Inv, CreditedOnce
<1> QED
  BY <1>1, <1>2, <1>3, <1>4, NextKind

LEMMA OnePackageStep ==
    ASSUME TypeOK, Within, Inv, [Next]_vars
    PROVE  OnePackage'
<1>o. overwritten \subseteq overwritten'
  BY NextKind DEF Quiet, Rejects, Opens, Pays
<1>1. CASE ledger' = ledger
  BY <1>o, <1>1 DEF Inv, OnePackage, Same
<1>2. ASSUME NEW i \in Invoices, Pays(i) PROVE OnePackage'
  <2>1. CASE pay[i].purpose = "PACKAGE"
    <3> DEFINE key == <<"package-credit", i>>
    <3>1. ledger' = ledger \cup {key} /\ key[2] = i
      BY <1>2, <2>1 DEF Pays, Credit
    <3>2. \A k \in ledger : /\ k[2] \in Invoices /\ k[2] # i
                            /\ pay[k[2]].st = "CONFIRMED" \/ k[2] \in overwritten
      <4>1. pay[i].st = "PENDING" /\ i \notin overwritten
        BY <1>2 DEF Pays, Settles, Inv, RowInv
      <4> QED
        BY <4>1 DEF TypeOK, Key, Inv, CreditedOnce
    <3>3. Code[i] \in Repeatable \/ \A k \in ledger : k[2] \notin Same(i) \/ k[2] \in overwritten
      BY <1>2, <2>1, <3>2 DEF Pays, Settles, Duplicate
    <3>4. \A k \in ledger : (i \in Same(k[2]) <=> k[2] \in Same(i))
                            /\ (k[2] \in Same(i) => Code[k[2]] = Code[i])
      BY <3>2 DEF Same
    <3> HIDE DEF key
    <3>5. ASSUME NEW k \in ledger', NEW l \in ledger',
                 k[1] = "package-credit", l[1] = "package-credit",
                 Code[k[2]] \notin Repeatable, l[2] \in Same(k[2])
          PROVE  k = l \/ {k[2], l[2]} \cap overwritten' # {}
      <4>1. CASE k \in ledger /\ l \in ledger
        BY <1>o, <3>5, <4>1 DEF Inv, OnePackage
      <4>2. CASE k = key /\ l \in ledger
        BY <1>o, <3>1, <3>3, <3>5, <4>2
      <4>3. CASE k \in ledger /\ l = key
        BY <1>o, <3>1, <3>3, <3>4, <3>5, <4>3
      <4>4. CASE k = key /\ l = key
        BY <4>4
      <4> QED
        BY <3>1, <4>1, <4>2, <4>3, <4>4
    <3>6. \A k, l \in ledger' :
            /\ k[1] = "package-credit" /\ l[1] = "package-credit"
            /\ Code[k[2]] \notin Repeatable /\ l[2] \in Same(k[2])
            => k = l \/ {k[2], l[2]} \cap overwritten' # {}
      BY <3>5
    <3> QED
      BY <3>6 DEF OnePackage, Same
  <2>2. CASE pay[i].purpose # "PACKAGE"
    <3>1. ledger' = ledger \cup {<<"wallet-topup", i>>}
      BY <1>2, <2>2 DEF Pays, Credit
    <3> QED
      BY <1>o, <3>1 DEF Inv, OnePackage, Same
  <2> QED
    BY <2>1, <2>2
<1> QED
  BY <1>1, <1>2, NextKind DEF Quiet, Rejects, Opens

LEMMA RowInvStep ==
    ASSUME TypeOK, Within, Inv, [Next]_vars
    PROVE  RowInv'
<1>1. \A i \in Invoices : pay[i].st # "NONE" => pay'[i].st # "NONE"
  <2>1. CASE Quiet
    BY <2>1 DEF Quiet
  <2>2. CASE Rejects
    BY <2>2 DEF Rejects, TypeOK, Payment
  <2>3. ASSUME NEW i \in Invoices, Opens(i) PROVE <1>1!:
    BY <2>3 DEF Opens
  <2>4. ASSUME NEW i \in Invoices, Pays(i) PROVE <1>1!:
    BY <2>4 DEF Pays, Credit, TypeOK, Payment
  <2> QED
    BY <2>1, <2>2, <2>3, <2>4, NextKind
<1>2. rejecting' # None => pay'[rejecting'].st # "NONE"
  <2>1. rejecting' # None => rejecting' \in Invoices /\ pay[rejecting'].st # "NONE"
    BY NextType, NextKind DEF TypeOK, Inv, RowInv, Quiet, Rejects, Opens, Pays
  <2> QED
    BY <1>1, <2>1
<1>4. \A i \in overwritten' : pay'[i].st = "REJECTED"
  <2>1. CASE Quiet
    BY <2>1 DEF Quiet, TypeOK, Inv, RowInv
  <2>2. CASE Rejects
    <3>1. rejecting \in Invoices
      BY <2>2 DEF Rejects, TypeOK
    <3>2. \A i \in Invoices : pay'[i].st = IF i = rejecting THEN "REJECTED" ELSE pay[i].st
      BY <2>2, <3>1 DEF Rejects, TypeOK, Payment
    <3>3. overwritten' \subseteq overwritten \cup {rejecting} /\ overwritten \subseteq Invoices
      BY <2>2 DEF Rejects, TypeOK
    <3> QED
      BY <3>1, <3>2, <3>3 DEF Inv, RowInv
  <2>3. ASSUME NEW i \in Invoices, Opens(i) PROVE <1>4!:
    BY <2>3 DEF Opens, TypeOK, Inv, RowInv
  <2>4. ASSUME NEW i \in Invoices, Pays(i) PROVE <1>4!:
    BY <2>4 DEF Pays, Settles, Credit, TypeOK, Inv, RowInv
  <2> QED
    BY <2>1, <2>2, <2>3, <2>4, NextKind
<1>3. \A d \in 1 .. Len(chain') : pay[chain'[d].inv].st # "NONE" /\ chain'[d].inv \in Invoices
  <2>1. CASE chain' = chain
    <3>1. \A d \in 1 .. Len(chain) : chain[d] \in Deposit
      BY DEF TypeOK
    <3> QED
      BY <2>1, <3>1 DEF Deposit, Inv, RowInv
  <2>2. ASSUME NEW i \in Invoices, NEW t \in now - Skew .. now, NEW exact \in BOOLEAN,
               Transfer(i, t, exact)
        PROVE  <1>3!:
    <3>1. \A d \in 1 .. Len(chain) : chain[d] \in Deposit
      BY DEF TypeOK
    <3>2. Len(chain') = Len(chain) + 1 /\ Len(chain) \in Nat /\ pay[i].st # "NONE"
      BY <2>2 DEF Transfer, TypeOK
    <3>3. \A d \in 1 .. Len(chain) : chain'[d] = chain[d]
      BY <2>2 DEF Transfer, TypeOK
    <3>4. chain'[Len(chain) + 1].inv = i
      BY <2>2 DEF Transfer, TypeOK
    <3> QED
      BY <3>1, <3>2, <3>3, <3>4 DEF Deposit, Inv, RowInv
  <2> QED
    BY <2>1, <2>2 DEF Next, vars, Request, Worker, OpenInvoice, RejectRead, AdminConfirm,
       RegisterRead, RegisterWrite, RejectWrite, DiscoverRead, DiscoverRow, DiscoverHash,
       DiscoverConfirm, DiscoverRetry, TopupWrite, TopupConfirm, DiscoverAdvance,
       SubmittedRead, SubmittedCheck, SubmittedDone, Fails, Restart, Tick
<1> QED
  BY <1>1, <1>2, <1>3, <1>4 DEF RowInv

\* What the worker is about to pass: the transaction at the cursor.
Handled(d) ==
    chain[d].exact /\ pay[chain[d].inv].created <= chain[d].time => pay[chain[d].inv].st # "PENDING"

\* The treasury's transactions keep their places when one is added.
LEMMA AppendKeeps ==
    ASSUME NEW S, NEW s \in Seq(S), NEW d \in 1 .. Len(s), NEW e \in S
    PROVE  s[d] \in S /\ Append(s, e)[d] = s[d]
  OBVIOUS

\* A step leaves what the treasury received where it is.
LEMMA ChainKeeps ==
    ASSUME TypeOK, [Next]_vars, NEW d \in 1 .. Len(chain)
    PROVE  chain[d] \in Deposit /\ chain'[d] = chain[d] /\ d \in 1 .. Len(chain')
<1>1. chain \in Seq(Deposit)
  BY DEF TypeOK
<1>2. chain' = chain \/ \E e \in Deposit : chain' = Append(chain, e)
  <2>1. ASSUME NEW i \in Invoices, NEW t \in now - Skew .. now, NEW exact \in BOOLEAN,
               Transfer(i, t, exact)
        PROVE  \E e \in Deposit : chain' = Append(chain, e)
    BY <2>1 DEF Transfer, Deposit
  <2> QED
    BY <2>1 DEF Next, vars, Request, Worker, OpenInvoice, RejectRead, AdminConfirm,
       RegisterRead, RegisterWrite, RejectWrite, DiscoverRead, DiscoverRow, DiscoverHash,
       DiscoverConfirm, DiscoverRetry, TopupWrite, TopupConfirm, DiscoverAdvance,
       SubmittedRead, SubmittedCheck, SubmittedDone, Fails, Restart, Tick
<1>3. CASE chain' = chain
  BY <1>1, <1>3
<1>4. ASSUME NEW e \in Deposit, chain' = Append(chain, e)
      PROVE  chain[d] \in Deposit /\ chain'[d] = chain[d] /\ d \in 1 .. Len(chain')
  BY <1>1, <1>4, AppendKeeps
<1> QED
  BY <1>2, <1>3, <1>4

\* A deposit that was dealt with stays dealt with: no step makes a row of an
\* existing invoice wait again, or moves its window.
LEMMA HandledStep ==
    ASSUME TypeOK, Within, Inv, [Next]_vars,
           NEW d \in 1 .. Len(chain), Handled(d)
    PROVE  Handled(d)'
<1>1. chain[d] \in Deposit /\ chain'[d] = chain[d]
  BY ChainKeeps
<1> DEFINE i == chain[d].inv
<1>2. i \in Invoices /\ pay[i].st # "NONE"
  BY <1>1 DEF Deposit, Inv, RowInv
<1>3. /\ pay'[i].created = pay[i].created
      /\ pay[i].st # "PENDING" => pay'[i].st # "PENDING"
  <2>1. CASE Quiet
    BY <1>2, <2>1 DEF Quiet
  <2>2. CASE Rejects
    BY <1>2, <2>2 DEF Rejects, TypeOK, Payment
  <2>3. ASSUME NEW j \in Invoices, Opens(j) PROVE <1>3!:
    BY <1>2, <2>3 DEF Opens
  <2>4. ASSUME NEW j \in Invoices, Pays(j) PROVE <1>3!:
    BY <1>2, <2>4 DEF Pays, Credit, TypeOK, Payment
  <2> QED
    BY <2>1, <2>2, <2>3, <2>4, NextKind
<1> QED
  BY <1>1, <1>2, <1>3 DEF Handled

LEMMA WorkerInvStep ==
    ASSUME TypeOK, Within, Inv, [Next]_vars
    PROVE  WorkerInv'
<1>1. Within'
  BY NextType
<1>2. ASSUME pc' = "advance" PROVE Handled(cursor + 1)' /\ cursor' = cursor
  <2>1. CASE pc = "advance" /\ cursor' = cursor
    <3>1. cursor + 1 \in 1 .. Len(chain)
      BY <2>1, CurrentType DEF Looking
    <3>2. Handled(cursor + 1)
      BY <2>1 DEF Inv, WorkerInv, Handled, Current, Named
    <3>3. PICK d \in 1 .. Len(chain) : d = cursor + 1
      BY <3>1
    <3>4. Handled(d)'
      BY <3>2, <3>3, HandledStep
    <3> QED
      BY <2>1, <3>3, <3>4 DEF Handled
  <2>2. CASE DiscoverRow
    <3>1. pay' = pay /\ chain' = chain /\ cursor' = cursor
      BY <2>2 DEF DiscoverRow
    <3>2. pay[Named].st # "PENDING" \/ ~Current.exact \/ Current.time < pay[Named].created
      BY <1>2, <2>2 DEF DiscoverRow
    <3>3. Current.time \in Nat /\ pay[Named].created \in Nat
      BY <2>2, CurrentType DEF DiscoverRow, Looking, TypeOK, Payment, Deposit
    <3> QED
      BY <3>1, <3>2, <3>3 DEF Handled, Current, Named
  <2>3. CASE DiscoverConfirm \/ TopupConfirm
    <3>1. chain' = chain /\ cursor' = cursor
      BY <2>3 DEF DiscoverConfirm, TopupConfirm
    <3>2. Settle(Named) /\ Named \in Invoices
      BY <1>2, <2>3, CurrentType DEF DiscoverConfirm, TopupConfirm, Looking
    <3>3. pay'[Named].st = "CONFIRMED"
      BY <3>2 DEF Settle, Credit, TypeOK, Payment
    <3> QED
      BY <3>1, <3>3 DEF Handled, Current, Named
  <2> QED
    BY <1>2, <2>1, <2>2, <2>3 DEF Next, vars, Request, Worker, OpenInvoice, Transfer,
       RejectRead, AdminConfirm, RegisterRead, RegisterWrite, RejectWrite, DiscoverRead,
       DiscoverHash, DiscoverRetry, TopupWrite, DiscoverAdvance, SubmittedRead,
       SubmittedCheck, SubmittedDone, Fails, Restart, Tick
<1> QED
  BY <1>1, <1>2 DEF WorkerInv, Within, Looking, Handled, Current, Named

LEMMA CursorStep ==
    ASSUME TypeOK, Within, Inv, [Next]_vars
    PROVE  CursorPassesSettled'
<1>1. \A d \in 1 .. cursor : Handled(d) /\ d \in 1 .. Len(chain)
  BY DEF Inv, CursorPassesSettled, Handled, TypeOK
<1>2. CASE cursor' = cursor
  BY <1>1, <1>2, HandledStep DEF CursorPassesSettled, Handled
<1>3. CASE DiscoverAdvance
  <2>1. cursor' = cursor + 1 /\ cursor + 1 \in 1 .. Len(chain) /\ cursor \in Nat
    BY <1>3, CurrentType DEF DiscoverAdvance, Looking, TypeOK
  <2>2. Handled(cursor + 1)
    BY <1>3 DEF DiscoverAdvance, Inv, WorkerInv, Handled, Current, Named
  <2>3. \A d \in 1 .. cursor' : Handled(d) /\ d \in 1 .. Len(chain)
    BY <1>1, <2>1, <2>2
  <2>4. \A d \in 1 .. cursor' : Handled(d)'
    BY <2>3, HandledStep
  <2> QED
    BY <2>4 DEF CursorPassesSettled, Handled
<1> QED
  BY <1>2, <1>3 DEF Next, vars, Request, Worker, OpenInvoice, Transfer, RejectRead,
     AdminConfirm, RegisterRead, RegisterWrite, RejectWrite, DiscoverRead, DiscoverRow,
     DiscoverHash, DiscoverConfirm, DiscoverRetry, TopupWrite, TopupConfirm, SubmittedRead,
     SubmittedCheck, SubmittedDone, Fails, Restart, Tick

-----------------------------------------------------------------------------
(* What the worker holds is on the chain. *)

\* The deposit it settles carries the right amount.
ExactInv == pc \in {"hash", "confirm", "retry", "late", "topup"} => Current.exact
\* A hash, wherever it is kept, is that of a transaction of the treasury.
HashInv ==
    /\ \A i \in Invoices : pay[i].hash \in 1 .. Len(chain) \cup {None}
    /\ route # None => route.hash \in 1 .. Len(chain)
    /\ \A r \in submitted : r.hash \in 1 .. Len(chain)

LEMMA ExactStep ==
    ASSUME TypeOK, Within, ExactInv, [Next]_vars PROVE ExactInv'
<1> SUFFICES ASSUME pc' \in {"hash", "confirm", "retry", "late", "topup"}
             PROVE  chain'[cursor' + 1].exact
  BY DEF ExactInv, Current
<1>1. pc \in Looking /\ cursor' = cursor /\ Current.exact
  <2>1. CASE DiscoverRow
    <3>1. pc \in Looking /\ cursor' = cursor
      BY <2>1 DEF DiscoverRow, Looking
    <3>2. Current.exact \in BOOLEAN
      BY <3>1, CurrentType DEF Deposit
    <3>3. CASE ~Current.exact
      BY <2>1, <3>3 DEF DiscoverRow
    <3> QED
      BY <3>1, <3>2, <3>3
  <2>2. CASE ~DiscoverRow
    BY <2>2 DEF ExactInv, Looking, Next, vars, Request, Worker, OpenInvoice, Transfer,
       RejectRead, AdminConfirm, RegisterRead, RegisterWrite, RejectWrite, DiscoverRead,
       DiscoverHash, DiscoverConfirm, DiscoverRetry, TopupWrite, TopupConfirm,
       DiscoverAdvance, SubmittedRead, SubmittedCheck, SubmittedDone, Fails, Restart, Tick
  <2> QED
    BY <2>1, <2>2
<1>2. chain'[cursor + 1] = chain[cursor + 1]
  BY <1>1, CurrentType, ChainKeeps
<1> QED
  BY <1>1, <1>2 DEF Current

LEMMA HashStep ==
    ASSUME TypeOK, Within, HashInv, [Next]_vars PROVE HashInv'
<1> DEFINE Known == 1 .. Len(chain)
<1>1. \A d \in Known : d \in 1 .. Len(chain')
  BY ChainKeeps
<1>2. \A i \in Invoices : pay'[i].hash \in Known \cup {None}
  <2>1. ASSUME NEW j \in Invoices, pay' = [pay EXCEPT ![j].st = "CONFIRMED"] PROVE <1>2
    BY <2>1 DEF HashInv, TypeOK, Payment
  <2>2. ASSUME NEW j \in Invoices, Settle(j) PROVE <1>2
    BY <2>1, <2>2 DEF Settle, Credit, HashInv
  <2>3. ASSUME NEW j \in Invoices, OpenInvoice(j) PROVE <1>2
    BY <2>3 DEF OpenInvoice, HashInv, TypeOK
  <2>4. ASSUME RegisterWrite PROVE <1>2
    <3>1. route.inv \in Invoices /\ route.hash \in Known
      BY <2>4 DEF RegisterWrite, HashInv, TypeOK, Registration
    <3> QED
      BY <2>4, <3>1 DEF RegisterWrite, HashInv, TypeOK, Payment
  <2>5. ASSUME RejectWrite PROVE <1>2
    BY <2>5 DEF RejectWrite, HashInv, TypeOK, Payment
  <2>6. ASSUME DiscoverHash PROVE <1>2
    <3>1. Named \in Invoices /\ cursor + 1 \in Known
      BY <2>6, CurrentType DEF DiscoverHash, Looking
    <3>2. pay' = pay \/ pay' = [pay EXCEPT ![Named].hash = cursor + 1]
      BY <2>6 DEF DiscoverHash
    <3> HIDE DEF Named
    <3> QED
      BY <3>1, <3>2 DEF HashInv, TypeOK, Payment
  <2>7. ASSUME TopupWrite PROVE <1>2
    <3>1. Named \in Invoices /\ cursor + 1 \in Known
      BY <2>7, CurrentType DEF TopupWrite, Looking
    <3>2. CASE Taken(cursor + 1, Named)
      BY <2>7, <3>2 DEF TopupWrite, HashInv
    <3>3. CASE ~Taken(cursor + 1, Named)
      <4> DEFINE row == [pay[Named] EXCEPT !.hash = cursor + 1, !.purpose = "WALLET_TOPUP"]
      <4>1. pay' = [pay EXCEPT ![Named] = row]
        BY <2>7, <3>1, <3>3 DEF TopupWrite, TypeOK
      <4>2. row.hash = cursor + 1
        BY <3>1 DEF TypeOK, Payment
      <4> HIDE DEF row
      <4> QED
        BY <3>1, <4>1, <4>2 DEF HashInv, TypeOK
    <3> QED
      BY <3>2, <3>3
  <2>8. CASE pay' = pay
    BY <2>8 DEF HashInv
  <2>9. ASSUME DiscoverConfirm \/ TopupConfirm PROVE <1>2
    <3>1. Named \in Invoices
      BY <2>9, CurrentType DEF DiscoverConfirm, TopupConfirm, Looking
    <3>2. Settle(Named) \/ pay' = pay
      BY <2>9 DEF DiscoverConfirm, TopupConfirm
    <3> QED
      BY <2>2, <2>8, <3>1, <3>2
  <2>10. ASSUME NEW r \in submitted, SubmittedCheck(r) PROVE <1>2
    <3>1. r.inv \in Invoices
      BY DEF TypeOK, Registration
    <3>2. Settle(r.inv) \/ pay' = pay
      BY <2>10 DEF SubmittedCheck
    <3> QED
      BY <2>2, <2>8, <3>1, <3>2
  <2>11. ASSUME NEW j \in Invoices, AdminConfirm(j) PROVE <1>2
    BY <2>2, <2>11 DEF AdminConfirm
  <2> QED
    BY <2>3, <2>4, <2>5, <2>6, <2>7, <2>8, <2>9, <2>10, <2>11
    DEF Next, vars, Request, Worker, Transfer, RejectRead, RegisterRead, DiscoverRead,
        DiscoverRow, DiscoverRetry, DiscoverAdvance, SubmittedRead, SubmittedDone, Fails,
        Restart, Tick
<1>3. route' # None => route'.hash \in Known
  <2>1. ASSUME NEW i \in Invoices, NEW h \in Known, RegisterRead(i, h) PROVE <1>3
    BY <2>1 DEF RegisterRead
  <2>2. CASE route' \in {route, None}
    BY <2>2 DEF HashInv
  <2> QED
    BY <2>1, <2>2 DEF Next, vars, Request, Worker, OpenInvoice, Transfer, RejectRead,
       AdminConfirm, RegisterWrite, RejectWrite, DiscoverRead, DiscoverRow, DiscoverHash,
       DiscoverConfirm, DiscoverRetry, TopupWrite, TopupConfirm, DiscoverAdvance,
       SubmittedRead, SubmittedCheck, SubmittedDone, Fails, Restart, Tick
<1>4. \A r \in submitted' : r.hash \in Known
  <2>1. ASSUME SubmittedRead PROVE <1>4
    BY <2>1 DEF SubmittedRead, HashInv
  <2>2. CASE submitted' \subseteq submitted
    BY <2>2 DEF HashInv
  <2> QED
    BY <2>1, <2>2 DEF Next, vars, Request, Worker, OpenInvoice, Transfer, RejectRead,
       AdminConfirm, RegisterRead, RegisterWrite, RejectWrite, DiscoverRead, DiscoverRow,
       DiscoverHash, DiscoverConfirm, DiscoverRetry, TopupWrite, TopupConfirm,
       DiscoverAdvance, SubmittedCheck, SubmittedDone, Fails, Restart, Tick
<1> QED
  BY <1>1, <1>2, <1>3, <1>4 DEF HashInv

-----------------------------------------------------------------------------
(* Theorems. *)

\* Every state is well typed, however confirmations and rejections interleave.
THEOREM TypeCorrect == Spec => []TypeOK
<1>1. Init => TypeOK /\ Within
  BY InitType
<1>2. TypeOK /\ Within /\ [Next]_vars => TypeOK' /\ Within'
  BY NextType
<1> QED
  BY <1>1, <1>2, PTL DEF Spec

LEMMA InvHolds == Spec => [](TypeOK /\ Within /\ Inv)
<1>1. Init => TypeOK /\ Within /\ Inv
  <2>1. Init => Inv
    BY DEF Init, Inv, WorkerInv, RowInv, CreditedOnce, OnePackage, CursorPassesSettled, NoPayment
  <2> QED
    BY <2>1, InitType
<1>2. TypeOK /\ Within /\ Inv /\ [Next]_vars => TypeOK' /\ Within' /\ Inv'
  BY NextType, WorkerInvStep, RowInvStep, CreditedOnceStep, OnePackageStep, CursorStep DEF Inv
<1> QED
  BY <1>1, <1>2, PTL DEF Spec

\* A payment is credited once, in one way, exactly when it is confirmed, or was
\* and a rejection wrote over it.
THEOREM CreditedOnceHolds == Spec => []CreditedOnce
<1>1. Inv => CreditedOnce
  BY DEF Inv
<1> QED
  BY <1>1, InvHolds, PTL

\* A package that is sold once is credited once to a member, unless the payment
\* of an earlier credit was written over.
THEOREM OnePackageHolds == Spec => []OnePackage
<1>1. Inv => OnePackage
  BY DEF Inv
<1> QED
  BY <1>1, InvHolds, PTL

\* No deposit the cursor has passed leaves its invoice waiting.
THEOREM CursorPassesSettledHolds == Spec => []CursorPassesSettled
<1>1. Inv => CursorPassesSettled
  BY DEF Inv
<1> QED
  BY <1>1, InvHolds, PTL

\* A confirmed or rejected payment stays so, except under a rejection that read
\* it before its confirmation.
THEOREM FinalIsFinalHolds == Spec => FinalIsFinal
<1> DEFINE Changes(i) ==
             /\ rejecting = i /\ pay'[i].st = "REJECTED"
             /\ i \in overwritten' \ overwritten
           Step == \A i \in Invoices :
             pay[i].st \in {"CONFIRMED", "REJECTED"} /\ pay'[i].st # pay[i].st => Changes(i)
<1>1. TypeOK /\ Within /\ Inv /\ [Next]_vars => Step
  <2> SUFFICES ASSUME TypeOK, Within, Inv, [Next]_vars, NEW i \in Invoices,
                      pay[i].st \in {"CONFIRMED", "REJECTED"}, pay'[i].st # pay[i].st
               PROVE  Changes(i)
    OBVIOUS
  <2>1. CASE Quiet
    BY <2>1 DEF Quiet
  <2>2. CASE Rejects
    <3>1. i = rejecting /\ pay[i].st = "CONFIRMED" /\ pay'[i].st = "REJECTED"
      BY <2>2 DEF Rejects, TypeOK, Payment
    <3>2. i \notin overwritten /\ i \in overwritten'
      BY <2>2, <3>1 DEF Rejects, Inv, RowInv
    <3> QED
      BY <3>1, <3>2
  <2>3. ASSUME NEW j \in Invoices, Opens(j) PROVE Changes(i)
    BY <2>3 DEF Opens
  <2>4. ASSUME NEW j \in Invoices, Pays(j) PROVE Changes(i)
    BY <2>4 DEF Pays, Settles, Credit, TypeOK, Payment
  <2> QED
    BY <2>1, <2>2, <2>3, <2>4, NextKind
<1> QED
  BY <1>1, InvHolds, PTL DEF Spec, FinalIsFinal

\* Whatever the worker confirms, it confirms on a deposit of that invoice with the
\* right amount, also when rejections and registrations interleave.
THEOREM WorkerProvesHolds == Spec => WorkerProves
<1> DEFINE Paid(i) == \E d \in 1 .. Len(chain) : chain[d].inv = i /\ chain[d].exact
           Step == Worker => \A i \in Invoices :
                       pay[i].st = "PENDING" /\ pay'[i].st = "CONFIRMED" => Paid(i)
           Proof == TypeOK /\ Within /\ ExactInv /\ HashInv
<1>1. Init => Proof
  BY InitType DEF Init, ExactInv, HashInv, NoPayment
<1>2. Proof /\ [Next]_vars => Proof'
  BY NextType, ExactStep, HashStep
<1>3. Proof => Step
  <2> SUFFICES ASSUME Proof, Worker, NEW i \in Invoices,
                      pay[i].st = "PENDING", pay'[i].st = "CONFIRMED"
               PROVE  Paid(i)
    OBVIOUS
  <2>1. ASSUME NEW j \in Invoices, Settle(j) PROVE i = j
    BY <2>1 DEF Settle, Credit, TypeOK
  <2>2. ASSUME DiscoverConfirm \/ TopupConfirm PROVE Paid(i)
    <3>1. /\ Named \in Invoices /\ cursor + 1 \in 1 .. Len(chain)
          /\ Current.exact
      BY <2>2, CurrentType DEF DiscoverConfirm, TopupConfirm, Looking, ExactInv
    <3>2. Settle(Named)
      BY <2>2 DEF DiscoverConfirm, TopupConfirm
    <3>3. i = Named
      BY <2>1, <3>1, <3>2
    <3> QED
      BY <3>1, <3>3 DEF Named, Current
  <2>3. ASSUME NEW r \in submitted, SubmittedCheck(r) PROVE Paid(i)
    <3>1. r.inv \in Invoices /\ r.hash \in 1 .. Len(chain)
      BY DEF TypeOK, Registration, HashInv
    <3>2. Proves(r) /\ Settle(r.inv)
      BY <2>3 DEF SubmittedCheck
    <3> QED
      BY <2>1, <3>1, <3>2 DEF Proves
  <2>4. ASSUME DiscoverHash PROVE FALSE
    <3>1. Named \in Invoices
      BY <2>4, CurrentType DEF DiscoverHash, Looking
    <3>2. pay' = pay \/ pay' = [pay EXCEPT ![Named].hash = cursor + 1]
      BY <2>4 DEF DiscoverHash
    <3> HIDE DEF Named
    <3> QED
      BY <3>1, <3>2 DEF TypeOK, Payment
  <2>5. ASSUME TopupWrite PROVE FALSE
    <3>1. Named \in Invoices
      BY <2>5, CurrentType DEF TopupWrite, Looking
    <3>2. CASE Taken(cursor + 1, Named)
      BY <2>5, <3>2 DEF TopupWrite
    <3>3. CASE ~Taken(cursor + 1, Named)
      <4> DEFINE row == [pay[Named] EXCEPT !.hash = cursor + 1, !.purpose = "WALLET_TOPUP"]
      <4>1. pay' = [pay EXCEPT ![Named] = row]
        BY <2>5, <3>1, <3>3 DEF TopupWrite, TypeOK
      <4>2. row.st = pay[Named].st
        BY <3>1 DEF TypeOK, Payment
      <4> HIDE DEF row
      <4> QED
        BY <4>1, <4>2 DEF TypeOK
    <3> QED
      BY <3>2, <3>3
  <2> QED
    BY <2>2, <2>3, <2>4, <2>5 DEF Worker, DiscoverRead, DiscoverRow, DiscoverRetry,
       DiscoverAdvance, SubmittedRead, SubmittedDone
<1> QED
  BY <1>1, <1>2, <1>3, PTL DEF Spec, WorkerProves
=============================================================================
