--------------------------- MODULE PayoutsProofs ---------------------------
(***************************************************************************)
(* What holds of Payouts for all values of its constants: every set of     *)
(* withdrawals, every amount, every number of failures and any clock.      *)
(***************************************************************************)
EXTENDS Payouts, Sums

USE DEF Goto, Locals, dbVars, ledgerVars, adminVars, workerVars, chainVars, envVars

-----------------------------------------------------------------------------
(* Type correctness. *)

\* The fee and the net amount of a withdrawal are integers.
LEMMA FeeType ==
    ASSUME NEW w \in Withdrawals
    PROVE  Fee(w) \in Int /\ Net(w) \in Int
<1>1. Amount[w] \in Int /\ FeeBps \in Int
  BY AmountAssumption
<1>2. Amount[w] * FeeBps \in Int
  BY <1>1
<1>3. (Amount[w] * FeeBps) \div 10000 \in Int
  BY <1>2
<1> QED
  BY <1>1, <1>3 DEF Fee, Net

\* The postings of a review keep the balances well typed.
LEMMA PostType ==
    ASSUME TypeOK, NEW w \in Withdrawals, NEW to, Post(w, to)
    PROVE  /\ available' \in [Users -> Nat] /\ hold' \in [Users -> Int]
           /\ withdrawn' \in [Users -> Int] /\ fees' \in Int
<1>1. Fee(w) \in Int /\ Net(w) \in Int /\ Amount[w] \in Nat /\ Owner[w] \in Users
  BY FeeType, AmountAssumption
<1> QED
  BY <1>1 DEF TypeOK, Post

LEMMA InitType == Init => TypeOK
  BY AmountAssumption, ModeAssumption, NoneAssumption
  DEF Init, TypeOK, WithdrawalStatus, Job, NoJob, JobStatus, PCs

LEMMA AdminType ==
    ASSUME TypeOK, Admin PROVE TypeOK'
<1>1. ASSUME NEW w \in Withdrawals, NEW to \in AdminStatuses, NEW h \in Hashes \cup {None},
             ReviewBegin(w, to, h)
      PROVE  TypeOK'
  BY <1>1, ModeAssumption DEF TypeOK, ReviewBegin, WithdrawalStatus, Job, JobStatus, Review
<1>2. ASSUME ReviewCommit PROVE TypeOK'
  <2>1. review.w \in Withdrawals /\ review.to \in WithdrawalStatus
        /\ review.hash \in Hashes \cup {None}
    BY <1>2, ModeAssumption DEF ReviewCommit, TypeOK, Review, WithdrawalStatus
  <2>2. CASE ReviewAllowed(review) /\ wd[review.w] = review.wdSeen
    <3>1. Post(review.w, review.to)
      BY <1>2, <2>2 DEF ReviewCommit
    <3>2. /\ available' \in [Users -> Nat] /\ hold' \in [Users -> Int]
          /\ withdrawn' \in [Users -> Int] /\ fees' \in Int
      BY <2>1, <3>1, PostType
    <3> QED
      BY <1>2, <2>1, <2>2, <3>2 DEF ReviewCommit, TypeOK
  <2>3. CASE ~(ReviewAllowed(review) /\ wd[review.w] = review.wdSeen)
    BY <1>2, <2>3 DEF ReviewCommit, TypeOK
  <2> QED
    BY <2>2, <2>3
<1> QED
  BY <1>1, <1>2 DEF Admin

LEMMA JobsCount == Cardinality(Jobs) \in Nat
<1>1. IsFiniteSet(Jobs)
  BY AmountAssumption, FS_Subset DEF Jobs
<1> QED
  BY <1>1, FS_CardinalityType

\* The loops that create jobs and confirm them.
LEMMA ConfirmType ==
    ASSUME TypeOK,
           \/ CreateRead \/ \E w \in Withdrawals : CreateJob(w)
           \/ ConfirmRead \/ \E w \in Withdrawals : ConfirmFound(w)
           \/ \E w \in Withdrawals : ConfirmMissed(w)
           \/ ConfirmSettle \/ ConfirmMark
    PROVE  ConfirmInv => TypeOK'
<1> SUFFICES ASSUME ConfirmInv PROVE TypeOK'
  OBVIOUS
<1>1. CASE CreateRead
  BY <1>1 DEF CreateRead, TypeOK, PCs
<1>2. ASSUME NEW w \in Withdrawals, CreateJob(w) PROVE TypeOK'
  <2>1. [NoJob EXCEPT !.st = "QUEUED", !.born = Cardinality(Jobs)] \in Job
    BY JobsCount DEF NoJob, Job, JobStatus
  <2> QED
    BY <1>2, <2>1 DEF CreateJob, TypeOK
<1>3. CASE ConfirmRead
  BY <1>3 DEF ConfirmRead, TypeOK, PCs, Jobs
<1>4. ASSUME NEW w \in Withdrawals, ConfirmFound(w) PROVE TypeOK'
  BY <1>4 DEF ConfirmFound, Transfers, TypeOK, PCs, Proof
<1>5. ASSUME NEW w \in Withdrawals, ConfirmMissed(w) PROVE TypeOK'
  BY <1>5 DEF ConfirmMissed, TypeOK
<1>6. CASE ConfirmSettle
  <2>1. proof \in Proof
    BY <1>6 DEF ConfirmSettle, ConfirmInv, TypeOK
  <2>2. CASE /\ ~proof.paid
             /\ wd[proof.w] = "APPROVED"
             /\ \A v \in Withdrawals \ {proof.w} : txHash[v] # proof.tx
    <3>1. Post(proof.w, "PAID")
      BY <1>6, <2>2 DEF ConfirmSettle
    <3>2. /\ available' \in [Users -> Nat] /\ hold' \in [Users -> Int]
          /\ withdrawn' \in [Users -> Int] /\ fees' \in Int
      BY <2>1, <3>1, PostType DEF Proof
    <3> QED
      BY <1>6, <2>1, <2>2, <3>2 DEF ConfirmSettle, TypeOK, PCs, WithdrawalStatus, Proof
  <2>3. CASE ~(/\ ~proof.paid
               /\ wd[proof.w] = "APPROVED"
               /\ \A v \in Withdrawals \ {proof.w} : txHash[v] # proof.tx)
    BY <1>6, <2>1, <2>3 DEF ConfirmSettle, TypeOK, PCs, Proof
  <2> QED
    BY <2>2, <2>3
<1>7. CASE ConfirmMark
  BY <1>7 DEF ConfirmMark, ConfirmInv, TypeOK, Job, JobStatus, PCs, Proof
<1> QED
  BY <1>1, <1>2, <1>3, <1>4, <1>5, <1>6, <1>7

\* The recovery of the outbox.
LEMMA RecoverType ==
    ASSUME TypeOK,
           \/ RecoverUnsent \/ RecoverLive \/ RecoverScan \/ RecoverSeqno
           \/ \E m \in expired : RecoverExpired(m)
           \/ \E m \in resend : Rebroadcast(m)
    PROVE  TypeOK'
<1>1. CASE RecoverUnsent
  BY <1>1 DEF RecoverUnsent, TypeOK, Job, JobStatus, PCs
<1>2. CASE RecoverScan
  <2>1. expired' \subseteq Message
    BY <1>2 DEF RecoverScan, TypeOK, Job, Signed, Jobs
  <2>2. pc' \in PCs
    BY <1>2 DEF RecoverScan, PCs
  <2> QED
    BY <1>2, <2>1, <2>2 DEF RecoverScan, TypeOK
<1>3. CASE RecoverSeqno
  BY <1>3 DEF RecoverSeqno, TypeOK, PCs
<1>4. ASSUME NEW m \in expired, RecoverExpired(m) PROVE TypeOK'
  <2>1. m.job \in Withdrawals /\ pc' \in PCs
    BY <1>4 DEF RecoverExpired, TypeOK, Message, PCs
  <2>2. job' \in [Withdrawals -> Job]
    BY <1>4, <2>1 DEF RecoverExpired, TypeOK, Job, JobStatus
  <2> QED
    BY <1>4, <2>1, <2>2 DEF RecoverExpired, TypeOK
<1>5. ASSUME NEW m \in resend, Rebroadcast(m) PROVE TypeOK'
  BY <1>5 DEF Rebroadcast, Deliver, TypeOK
<1>6. CASE RecoverLive
  BY <1>6 DEF RecoverLive, TypeOK, Job, Signed, Jobs, PCs
<1> QED
  BY <1>1, <1>2, <1>3, <1>4, <1>5, <1>6

\* The submission of one job.
LEMMA SubmitType ==
    ASSUME TypeOK, SubmitInv,
           \/ SubmitPick \/ SubmitLock \/ SubmitClaim \/ SubmitLoad
           \/ SubmitSave \/ SubmitSend \/ SubmitRefused \/ SubmitRetry \/ SubmitGiveUp
    PROVE  TypeOK'
<1>1. CASE SubmitPick
  BY <1>1 DEF SubmitPick, Queued, TypeOK, Job, PCs, Claim
<1>2. CASE SubmitLock
  BY <1>2 DEF SubmitLock, TypeOK, PCs
<1>3. CASE SubmitClaim
  <2>1. cand.w \in Withdrawals /\ cand.attempts \in Nat /\ cand # None
    BY <1>3 DEF SubmitClaim, SubmitInv, TypeOK, Claim
  <2>2. cand' \in Claim \cup {None}
    BY <1>3, <2>1 DEF SubmitClaim, TypeOK, Claim
  <2>3. job' \in [Withdrawals -> Job]
    BY <1>3, <2>1 DEF SubmitClaim, TypeOK, Job, JobStatus, Claim
  <2> QED
    BY <1>3, <2>2, <2>3 DEF SubmitClaim, TypeOK, PCs
<1>4. CASE SubmitLoad
  <2>1. draft' \in Message
    BY <1>4, TimeAssumption DEF SubmitLoad, SubmitInv, TypeOK, Message, Claim
  <2> QED
    BY <1>4, <2>1 DEF SubmitLoad, TypeOK, PCs
<1>5. CASE SubmitSave
  BY <1>5 DEF SubmitSave, SubmitInv, TypeOK, Job, JobStatus, PCs, Claim
<1>6. CASE SubmitSend
  BY <1>6 DEF SubmitSend, SubmitInv, Deliver, TypeOK, PCs
<1>7. CASE SubmitRefused
  BY <1>7 DEF SubmitRefused, SubmitInv, TypeOK, PCs
<1>8. CASE SubmitRetry
  BY <1>8 DEF SubmitRetry, SubmitInv, TypeOK, Job, JobStatus, PCs, Claim
<1>9. CASE SubmitGiveUp
  BY <1>9 DEF SubmitGiveUp, SubmitInv, TypeOK, Job, JobStatus, PCs, Claim
<1> QED
  BY <1>1, <1>2, <1>3, <1>4, <1>5, <1>6, <1>7, <1>8, <1>9

\* Members, failures, the chain and the clock.
LEMMA OtherType ==
    ASSUME TypeOK,
           \/ \E w \in Withdrawals : Request(w)
           \/ ProviderFails \/ Restart
           \/ \E m \in pool : Execute(m)
           \/ Tick
           \/ UNCHANGED vars
    PROVE  TypeOK'
<1>1. ASSUME NEW w \in Withdrawals, Request(w) PROVE TypeOK'
  <2>1. Owner[w] \in Users /\ Amount[w] \in Nat
    BY AmountAssumption
  <2>2. /\ available' \in [Users -> Nat] /\ hold' \in [Users -> Int]
    BY <1>1, <2>1 DEF Request, TypeOK
  <2> QED
    BY <1>1, <2>2 DEF Request, TypeOK, WithdrawalStatus
<1>2. CASE ProviderFails
  BY <1>2 DEF ProviderFails, TypeOK, PCs
<1>3. CASE Restart
  BY <1>3, ModeAssumption DEF Restart, TypeOK, PCs
<1>4. ASSUME NEW m \in pool, Execute(m) PROVE TypeOK'
  BY <1>4 DEF Execute, TypeOK
<1>5. CASE Tick
  BY <1>5 DEF Tick, TypeOK
<1>6. CASE UNCHANGED vars
  BY <1>6 DEF vars, TypeOK
<1> QED
  BY <1>1, <1>2, <1>3, <1>4, <1>5, <1>6
-----------------------------------------------------------------------------
(* The inductive invariant, one lemma per part of it. *)

\* The worker's control state.
LEMMA ControlInvStep ==
    ASSUME TypeOK, ControlInv, Next \/ UNCHANGED vars
    PROVE  ControlInv'
<1>1. ASSUME NEW w \in Withdrawals,
             NEW to \in AdminStatuses,
             NEW h \in Hashes \cup {None},
             ReviewBegin(w, to, h)
      PROVE  ControlInv'
  <2>1. review' \in Review /\ review' # None
    BY <1>1, ModeAssumption, NoneAssumption DEF ReviewBegin, Review, TypeOK,
       WithdrawalStatus, Job
  <2> QED
    BY <1>1, <2>1, NoneAssumption DEF ControlInv, ReviewBegin
<1>2. CASE ReviewCommit
  BY <1>2 DEF ControlInv, ReviewCommit, ReviewAllowed, Final, TypeOK, Job, Signed, Review
<1>3. CASE CreateRead
  BY <1>3 DEF ControlInv, CreateRead, TypeOK, Job, Signed
<1>4. ASSUME NEW w \in Withdrawals, CreateJob(w) PROVE ControlInv'
  BY <1>4, NoneAssumption DEF ControlInv, CreateJob, NoJob, TypeOK, Job, Signed
<1>5. CASE SubmitClaim
  BY <1>5, NoneAssumption DEF ControlInv, SubmitClaim, Claimable, Jobs, TypeOK, Job, Signed,
     Claim
<1>6. CASE ProviderFails
  BY <1>6 DEF ControlInv, ProviderFails, TypeOK, Job, Signed
<1>7. CASE Restart
  BY <1>7 DEF ControlInv, Restart, TypeOK, Job, Signed
<1>8. CASE \E w \in Withdrawals : Request(w)
  BY <1>8 DEF ControlInv, Request, Signed
<1>9. CASE \/ ConfirmRead
           \/ \E w \in Withdrawals : ConfirmFound(w)
           \/ \E w \in Withdrawals : ConfirmMissed(w)
           \/ ConfirmSettle
           \/ ConfirmMark
  BY <1>9 DEF ControlInv, ConfirmRead, ConfirmFound, ConfirmMissed, ConfirmSettle,
     ConfirmMark, Signed
<1>10. CASE \/ RecoverUnsent
            \/ RecoverLive
            \/ RecoverScan
            \/ RecoverSeqno
            \/ \E m \in expired : RecoverExpired(m)
            \/ \E m \in resend : Rebroadcast(m)
  BY <1>10 DEF ControlInv, RecoverUnsent, RecoverLive, RecoverScan, RecoverSeqno, RecoverExpired,
     Rebroadcast, Signed
<1>11. CASE \/ SubmitPick
            \/ SubmitLock
            \/ SubmitLoad
            \/ SubmitSave
            \/ SubmitSend
            \/ SubmitRefused
            \/ SubmitRetry
            \/ SubmitGiveUp
  BY <1>11 DEF ControlInv, SubmitPick, SubmitLock, SubmitLoad, SubmitSave, SubmitSend,
     SubmitRefused, SubmitRetry, SubmitGiveUp, Signed
<1>12. CASE \/ \E m \in pool : Execute(m)
            \/ Tick
            \/ UNCHANGED vars
  BY <1>12 DEF ControlInv, Execute, Tick, vars, Signed
<1> QED
  BY <1>1, <1>2, <1>3, <1>4, <1>5, <1>6, <1>7, <1>8, <1>9, <1>10, <1>11, <1>12 DEF Next,
     Admin, Worker

\* The proof in hand.
LEMMA ConfirmInvStep ==
    ASSUME TypeOK, ConfirmInv, Next \/ UNCHANGED vars
    PROVE  ConfirmInv'
<1>1. ASSUME NEW w \in Withdrawals, Request(w) PROVE ConfirmInv'
  BY <1>1 DEF ConfirmInv, Request, TypeOK, Job, Signed, Proof
<1>2. CASE ReviewCommit
  BY <1>2 DEF ConfirmInv, ReviewCommit, ReviewAllowed, Final, TypeOK, Job, Signed, Review,
     Proof, WithdrawalStatus
<1>3. ASSUME NEW w \in Withdrawals, ConfirmFound(w) PROVE ConfirmInv'
  <2>1. PICK m \in credited : m.job = w /\ proof' = [w |-> w, tx |-> m, paid |-> wd[w] = "PAID"]
    BY <1>3 DEF ConfirmFound, Transfers
  <2>2. m \in Message
    BY DEF TypeOK
  <2>3. proof' \in Proof
    BY <2>1, <2>2 DEF Proof
  <2>4. pc' = "settle" /\ credited' = credited /\ wd' = wd
    BY <1>3 DEF ConfirmFound
  <2> QED
    BY <2>1, <2>3, <2>4, NoneAssumption DEF ConfirmInv
<1>4. CASE ConfirmSettle
  <2>1. proof \in Proof /\ proof # None /\ proof.tx \in credited /\ proof.tx.job = proof.w
    BY <1>4 DEF ConfirmSettle, ConfirmInv, TypeOK
  <2>2. CASE ~proof.paid /\ wd[proof.w] = "APPROVED"
            /\ \A v \in Withdrawals \ {proof.w} : txHash[v] # proof.tx
    <3>1. /\ wd'[proof.w] = "PAID" /\ txHash'[proof.w] = proof.tx
          /\ proof' = proof /\ credited' = credited
      BY <1>4, <2>1, <2>2 DEF ConfirmSettle, TypeOK, Proof
    <3> QED
      BY <2>1, <3>1 DEF ConfirmInv
  <2>3. CASE proof.paid /\ txHash[proof.w] = proof.tx
    <3>1. proof' = proof /\ credited' = credited /\ wd' = wd /\ txHash' = txHash
      BY <1>4, <2>3 DEF ConfirmSettle
    <3>2. wd[proof.w] = "PAID"
      BY <1>4, <2>3 DEF ConfirmSettle, ConfirmInv
    <3> QED
      BY <2>1, <2>3, <3>1, <3>2 DEF ConfirmInv
  <2>4. CASE ~(~proof.paid /\ wd[proof.w] = "APPROVED"
               /\ \A v \in Withdrawals \ {proof.w} : txHash[v] # proof.tx)
            /\ ~(proof.paid /\ txHash[proof.w] = proof.tx)
    BY <1>4, <2>4 DEF ConfirmSettle, ConfirmInv
  <2> QED
    BY <2>2, <2>3, <2>4
<1>5. ASSUME NEW m \in pool, Execute(m) PROVE ConfirmInv'
  BY <1>5 DEF ConfirmInv, Execute, TypeOK, Job, Signed, Message, Proof
<1>6. CASE \E w \in Withdrawals, to \in AdminStatuses, h \in Hashes \cup {None} :
                 ReviewBegin(w, to, h)
  BY <1>6 DEF ConfirmInv, ReviewBegin, Signed
<1>7. CASE \/ CreateRead
           \/ \E w \in Withdrawals : CreateJob(w)
           \/ ConfirmRead
           \/ \E w \in Withdrawals : ConfirmMissed(w)
           \/ ConfirmMark
  BY <1>7 DEF ConfirmInv, CreateRead, CreateJob, ConfirmRead, ConfirmMissed, ConfirmMark, Signed
<1>8. CASE \/ RecoverUnsent
           \/ RecoverLive
           \/ RecoverScan
           \/ RecoverSeqno
           \/ \E m \in expired : RecoverExpired(m)
           \/ \E m \in resend : Rebroadcast(m)
  BY <1>8 DEF ConfirmInv, RecoverUnsent, RecoverLive, RecoverScan, RecoverSeqno, RecoverExpired,
     Rebroadcast, Signed
<1>9. CASE \/ SubmitPick
           \/ SubmitLock
           \/ SubmitClaim
           \/ SubmitLoad
           \/ SubmitSave
           \/ SubmitSend
           \/ SubmitRefused
           \/ SubmitRetry
           \/ SubmitGiveUp
  BY <1>9 DEF ConfirmInv, SubmitPick, SubmitLock, SubmitClaim, SubmitLoad, SubmitSave,
     SubmitSend, SubmitRefused, SubmitRetry, SubmitGiveUp, Signed
<1>10. CASE \/ ProviderFails
            \/ Restart
            \/ Tick
            \/ UNCHANGED vars
  BY <1>10 DEF ConfirmInv, ProviderFails, Restart, Tick, vars, Signed
<1> QED
  BY <1>1, <1>2, <1>3, <1>4, <1>5, <1>6, <1>7, <1>8, <1>9, <1>10 DEF Next, Admin, Worker

\* The messages recoverOutbox read.
LEMMA RecoverInvStep ==
    ASSUME TypeOK, RecoverInv, ControlInv, MessageInv, Next \/ UNCHANGED vars
    PROVE  RecoverInv'
<1>1. ASSUME NEW w \in Withdrawals, CreateJob(w) PROVE RecoverInv'
  BY <1>1, NoneAssumption DEF RecoverInv, CreateJob, NoJob, TypeOK, Job, Signed, ControlInv
<1>2. CASE ConfirmMark
  BY <1>2 DEF RecoverInv, ConfirmMark, TypeOK, Job, Signed, Proof, ControlInv
<1>3. CASE RecoverUnsent
  BY <1>3 DEF RecoverInv, RecoverUnsent, Unsent, TypeOK, Job, Signed, ControlInv
<1>4. CASE RecoverScan
  BY <1>4 DEF RecoverInv, RecoverScan, Jobs, TypeOK, Job, Signed, ControlInv, MessageInv,
     Message
<1>5. CASE RecoverSeqno
  BY <1>5 DEF RecoverInv, RecoverSeqno, TypeOK, Job, Signed, ControlInv, MessageInv, Message
<1>6. ASSUME NEW m \in expired, RecoverExpired(m) PROVE RecoverInv'
  <2>1. /\ m \in Message /\ m.job \in Withdrawals /\ job[m.job].msg = m /\ m.until < now
        /\ seen <= m.seqno => m \notin executed
    BY <1>6 DEF RecoverExpired, RecoverInv, TypeOK, Message
  <2>2. \A v \in Withdrawals : v # m.job => job'[v] = job[v]
    BY <1>6, <2>1 DEF RecoverExpired, TypeOK
  <2>3. expired' \subseteq expired /\ m \notin expired' /\ resend' = resend
    BY <1>6 DEF RecoverExpired
  <2>4. /\ \A n \in expired' : n.job \in Withdrawals /\ n.job # m.job
        /\ \A n \in resend : n.job \in Withdrawals /\ (n.job # m.job \/ n.until < now)
    BY <1>6, <2>1, <2>3 DEF RecoverInv, TypeOK, Message
  <2>5. now' = now /\ executed' = executed /\ seen' = seen /\ pc = "requeue"
    BY <1>6 DEF RecoverExpired
  <2> QED
    BY <2>2, <2>3, <2>4, <2>5 DEF RecoverInv
<1>7. ASSUME NEW m \in resend, Rebroadcast(m) PROVE RecoverInv'
  BY <1>7 DEF RecoverInv, Rebroadcast, Deliver, TypeOK, Job, Signed, ControlInv
<1>8. CASE SubmitClaim
  BY <1>8, NoneAssumption DEF RecoverInv, SubmitClaim, Claimable, Jobs, TypeOK, Job, Signed,
     Claim, ControlInv
<1>9. CASE SubmitSave
  BY <1>9, NoneAssumption DEF RecoverInv, SubmitSave, TypeOK, Job, Signed, Claim, ControlInv
<1>10. CASE SubmitRetry
  BY <1>10 DEF RecoverInv, SubmitRetry, TypeOK, Job, Signed, Claim, ControlInv
<1>11. CASE SubmitGiveUp
  BY <1>11 DEF RecoverInv, SubmitGiveUp, TypeOK, Job, Signed, Claim, ControlInv
<1>12. ASSUME NEW m \in pool, Execute(m) PROVE RecoverInv'
  BY <1>12 DEF RecoverInv, Execute, TypeOK, Job, Signed, Message, ControlInv
<1>13. CASE Tick
  BY <1>13 DEF RecoverInv, Tick, TypeOK, Job, Signed, Message, ControlInv
<1>18. CASE RecoverLive
  BY <1>18 DEF RecoverInv, RecoverLive, Jobs, TypeOK, Job, Signed, ControlInv, MessageInv,
     Message
<1>14. CASE \/ \E w \in Withdrawals : Request(w)
            \/ \E w \in Withdrawals, to \in AdminStatuses, h \in Hashes \cup {None} :
                     ReviewBegin(w, to, h)
            \/ ReviewCommit
  BY <1>14 DEF RecoverInv, Request, ReviewBegin, ReviewCommit, Signed
<1>15. CASE \/ CreateRead
            \/ ConfirmRead
            \/ \E w \in Withdrawals : ConfirmFound(w)
            \/ \E w \in Withdrawals : ConfirmMissed(w)
            \/ ConfirmSettle
  BY <1>15 DEF RecoverInv, CreateRead, ConfirmRead, ConfirmFound, ConfirmMissed,
     ConfirmSettle, Signed
<1>16. CASE \/ SubmitPick
            \/ SubmitLock
            \/ SubmitLoad
            \/ SubmitSend
            \/ SubmitRefused
  BY <1>16 DEF RecoverInv, SubmitPick, SubmitLock, SubmitLoad, SubmitSend, SubmitRefused, Signed
<1>17. CASE \/ ProviderFails
            \/ Restart
            \/ UNCHANGED vars
  BY <1>17 DEF RecoverInv, ProviderFails, Restart, vars, Signed
<1> QED
  BY <1>1, <1>2, <1>3, <1>4, <1>5, <1>6, <1>7, <1>8, <1>9, <1>10, <1>11, <1>12, <1>13,
     <1>14, <1>15, <1>16, <1>17, <1>18 DEF Next, Admin, Worker

\* The job being submitted.
LEMMA SubmitInvStep ==
    ASSUME TypeOK, SubmitInv, Next \/ UNCHANGED vars
    PROVE  SubmitInv'
<1>1. ASSUME NEW w \in Withdrawals, CreateJob(w) PROVE SubmitInv'
  BY <1>1, NoneAssumption DEF SubmitInv, CreateJob, NoJob, TypeOK, Job, Signed
<1>2. CASE ConfirmMark
  BY <1>2 DEF SubmitInv, ConfirmMark, TypeOK, Job, Signed, Proof
<1>3. CASE RecoverUnsent
  BY <1>3 DEF SubmitInv, RecoverUnsent, Unsent, TypeOK, Job, Signed
<1>4. ASSUME NEW m \in expired, RecoverExpired(m) PROVE SubmitInv'
  BY <1>4, NoneAssumption DEF SubmitInv, RecoverExpired, TypeOK, Job, Signed
<1>5. CASE SubmitPick
  BY <1>5, NoneAssumption DEF SubmitInv, SubmitPick, Queued, TypeOK, Job, Signed, Claim
<1>6. CASE SubmitClaim
  BY <1>6, NoneAssumption DEF SubmitInv, SubmitClaim, Claimable, Jobs, TypeOK, Job, Signed,
     Claim
<1>7. CASE SubmitLoad
  BY <1>7, TimeAssumption, NoneAssumption DEF SubmitInv, SubmitLoad, TypeOK, Job, Signed,
     Claim, Message
<1>8. CASE SubmitSave
  BY <1>8, NoneAssumption DEF SubmitInv, SubmitSave, TypeOK, Job, Signed, Claim
<1>9. CASE SubmitRetry
  BY <1>9 DEF SubmitInv, SubmitRetry, TypeOK, Job, Signed, Claim
<1>10. CASE SubmitGiveUp
  BY <1>10 DEF SubmitInv, SubmitGiveUp, TypeOK, Job, Signed, Claim
<1>11. CASE \/ \E w \in Withdrawals : Request(w)
            \/ \E w \in Withdrawals, to \in AdminStatuses, h \in Hashes \cup {None} :
                     ReviewBegin(w, to, h)
            \/ ReviewCommit
  BY <1>11 DEF SubmitInv, Request, ReviewBegin, ReviewCommit, Signed
<1>12. CASE \/ CreateRead
            \/ ConfirmRead
            \/ \E w \in Withdrawals : ConfirmFound(w)
            \/ \E w \in Withdrawals : ConfirmMissed(w)
            \/ ConfirmSettle
  BY <1>12 DEF SubmitInv, CreateRead, ConfirmRead, ConfirmFound, ConfirmMissed,
     ConfirmSettle, Signed
<1>13. CASE \/ RecoverLive
            \/ RecoverScan
            \/ RecoverSeqno
            \/ \E m \in resend : Rebroadcast(m)
  BY <1>13 DEF SubmitInv, RecoverLive, RecoverScan, RecoverSeqno, Rebroadcast, Signed
<1>14. CASE \/ SubmitLock
            \/ SubmitSend
            \/ SubmitRefused
  BY <1>14 DEF SubmitInv, SubmitLock, SubmitSend, SubmitRefused, Signed
<1>15. CASE \/ ProviderFails
            \/ Restart
            \/ \E m \in pool : Execute(m)
            \/ Tick
            \/ UNCHANGED vars
  BY <1>15 DEF SubmitInv, ProviderFails, Restart, Execute, Tick, vars, Signed
<1> QED
  BY <1>1, <1>2, <1>3, <1>4, <1>5, <1>6, <1>7, <1>8, <1>9, <1>10, <1>11, <1>12, <1>13,
     <1>14, <1>15 DEF Next, Admin, Worker

\* Saved and forgotten messages.
LEMMA MessageInvStep ==
    ASSUME TypeOK, MessageInv, ConfirmInv, RecoverInv, SubmitInv, Next \/ UNCHANGED vars
    PROVE  MessageInv'
<1>1. ASSUME NEW w \in Withdrawals, CreateJob(w) PROVE MessageInv'
  BY <1>1, NoneAssumption DEF MessageInv, CreateJob, NoJob, TypeOK, Job, Signed
<1>2. CASE ConfirmMark
  <2>1. proof.w \in Withdrawals /\ job[proof.w].msg = proof.tx /\ proof.tx \in executed
    BY <1>2 DEF ConfirmMark, ConfirmInv, MessageInv, TypeOK, Proof
  <2>2. job' = [job EXCEPT ![proof.w] = [job[proof.w] EXCEPT !.st = "CONFIRMED", !.tx = proof.tx]]
    BY <1>2, <2>1 DEF ConfirmMark, TypeOK, Job
  <2>3. \A w \in Withdrawals : job'[w].msg = job[w].msg /\ (w # proof.w => job'[w].st = job[w].st)
    BY <2>1, <2>2 DEF TypeOK, Job
  <2>4. job'[proof.w].st = "CONFIRMED"
    BY <2>1, <2>2 DEF TypeOK, Job
  <2> QED
    BY <1>2, <2>1, <2>3, <2>4 DEF MessageInv, ConfirmMark, Signed, TypeOK, Message
<1>3. CASE RecoverUnsent
  <2>1. \A w \in Withdrawals : job'[w].msg = job[w].msg /\ (Signed(w) => job'[w].st = job[w].st)
    BY <1>3 DEF RecoverUnsent, Unsent, TypeOK, Job, MessageInv, Signed
  <2>2. \A w \in Withdrawals : job'[w].st = job[w].st \/ job'[w].st = "QUEUED"
    BY <1>3 DEF RecoverUnsent, TypeOK, Job
  <2> QED
    BY <1>3, <2>1, <2>2 DEF MessageInv, RecoverUnsent, Signed, TypeOK, Message
<1>4. ASSUME NEW m \in expired, RecoverExpired(m) PROVE MessageInv'
  <2>1. /\ m \in Message /\ m.job \in Withdrawals /\ job[m.job].msg = m /\ m.until < now
        /\ seen <= m.seqno => m \notin executed
    BY <1>4 DEF RecoverExpired, RecoverInv, TypeOK, Message
  <2>2. \A v \in Withdrawals : v # m.job => job'[v] = job[v]
    BY <1>4, <2>1 DEF RecoverExpired, TypeOK
  <2>3. UNCHANGED <<pool, executed, seqno, now>>
    BY <1>4 DEF RecoverExpired
  <2>4. CASE job' = job
    BY <2>3, <2>4 DEF MessageInv, Signed
  <2>5. CASE seen <= m.seqno /\ job' = [job EXCEPT ![m.job].st = "QUEUED", ![m.job].msg = None]
    <3>1. job'[m.job].st = "QUEUED" /\ job'[m.job].msg = None
      BY <2>1, <2>5 DEF TypeOK, Job
    <3>2. \A n \in executed : n.job # m.job
      BY <2>1, <2>5 DEF MessageInv
    <3>3. \A n \in pool : n.job # m.job \/ n.until < now
      BY <2>1 DEF MessageInv
    <3> QED
      BY <2>1, <2>2, <2>3, <3>1, <3>2, <3>3 DEF MessageInv, Signed, TypeOK, Message
  <2>6. CASE job[m.job].st = "SUBMITTED" /\ job' = [job EXCEPT ![m.job].st = "MANUAL_REVIEW"]
    <3>1. job'[m.job].st = "MANUAL_REVIEW" /\ job'[m.job].msg = job[m.job].msg
      BY <2>1, <2>6 DEF TypeOK, Job
    <3> QED
      BY <2>1, <2>2, <2>3, <3>1 DEF MessageInv, Signed, TypeOK, Message
  <2> QED
    BY <1>4, <2>4, <2>5, <2>6 DEF RecoverExpired
<1>5. ASSUME NEW m \in resend, Rebroadcast(m) PROVE MessageInv'
  BY <1>5 DEF MessageInv, Rebroadcast, Deliver, TypeOK, Job, Signed, RecoverInv
<1>6. CASE SubmitClaim
  BY <1>6, NoneAssumption DEF MessageInv, SubmitClaim, Claimable, Jobs, TypeOK, Job, Signed,
     Claim
<1>7. CASE SubmitSave
  BY <1>7, NoneAssumption DEF MessageInv, SubmitSave, TypeOK, Job, Signed, Claim, SubmitInv
<1>8. CASE SubmitSend
  BY <1>8 DEF MessageInv, SubmitSend, Deliver, TypeOK, Job, Signed, SubmitInv
<1>9. CASE SubmitRefused
  BY <1>9 DEF MessageInv, SubmitRefused, TypeOK, Job, Signed, SubmitInv
<1>10. CASE SubmitRetry
  BY <1>10 DEF MessageInv, SubmitRetry, TypeOK, Job, Signed, Claim
<1>11. CASE SubmitGiveUp
  BY <1>11 DEF MessageInv, SubmitGiveUp, TypeOK, Job, Signed, Claim
<1>12. ASSUME NEW m \in pool, Execute(m) PROVE MessageInv'
  BY <1>12 DEF MessageInv, Execute, TypeOK, Job, Signed, Message
<1>13. CASE Tick
  BY <1>13 DEF MessageInv, Tick, TypeOK, Job, Signed, Message
<1>14. CASE \/ \E w \in Withdrawals : Request(w)
            \/ \E w \in Withdrawals, to \in AdminStatuses, h \in Hashes \cup {None} :
                     ReviewBegin(w, to, h)
            \/ ReviewCommit
  BY <1>14 DEF MessageInv, Request, ReviewBegin, ReviewCommit, Signed
<1>15. CASE \/ CreateRead
            \/ ConfirmRead
            \/ \E w \in Withdrawals : ConfirmFound(w)
            \/ \E w \in Withdrawals : ConfirmMissed(w)
            \/ ConfirmSettle
  BY <1>15 DEF MessageInv, CreateRead, ConfirmRead, ConfirmFound, ConfirmMissed,
     ConfirmSettle, Signed
<1>16. CASE \/ RecoverLive
            \/ RecoverScan
            \/ RecoverSeqno
  BY <1>16 DEF MessageInv, RecoverLive, RecoverScan, RecoverSeqno, Signed
<1>17. CASE \/ SubmitPick
            \/ SubmitLock
            \/ SubmitLoad
  BY <1>17 DEF MessageInv, SubmitPick, SubmitLock, SubmitLoad, Signed
<1>18. CASE \/ ProviderFails
            \/ Restart
            \/ UNCHANGED vars
  BY <1>18 DEF MessageInv, ProviderFails, Restart, vars, Signed
<1> QED
  BY <1>1, <1>2, <1>3, <1>4, <1>5, <1>6, <1>7, <1>8, <1>9, <1>10, <1>11, <1>12, <1>13,
     <1>14, <1>15, <1>16, <1>17, <1>18 DEF Next, Admin, Worker

\* One unresolved job.
LEMMA OneUnresolvedStep ==
    ASSUME TypeOK, OneUnresolved, MessageInv, SubmitInv, Next \/ UNCHANGED vars
    PROVE  OneUnresolved'
<1>1. ASSUME NEW w \in Withdrawals, CreateJob(w) PROVE OneUnresolved'
  BY <1>1, NoneAssumption DEF OneUnresolved, CreateJob, NoJob, TypeOK, Job, Signed, Unresolved
<1>2. CASE ConfirmMark
  BY <1>2 DEF OneUnresolved, ConfirmMark, TypeOK, Job, Signed, Proof, Unresolved, MessageInv
<1>3. CASE RecoverUnsent
  BY <1>3 DEF OneUnresolved, RecoverUnsent, Unsent, TypeOK, Job, Signed, Unresolved, MessageInv
<1>4. ASSUME NEW m \in expired, RecoverExpired(m) PROVE OneUnresolved'
  BY <1>4, NoneAssumption DEF OneUnresolved, RecoverExpired, TypeOK, Job, Signed,
     Unresolved, MessageInv
<1>5. CASE SubmitClaim
  BY <1>5, NoneAssumption DEF OneUnresolved, SubmitClaim, Claimable, Jobs, TypeOK, Job,
     Signed, Claim, Unresolved
<1>6. CASE SubmitSave
  BY <1>6, NoneAssumption DEF OneUnresolved, SubmitSave, TypeOK, Job, Signed, Claim,
     Unresolved, SubmitInv
<1>7. CASE SubmitRetry
  BY <1>7 DEF OneUnresolved, SubmitRetry, TypeOK, Job, Signed, Claim, Unresolved, SubmitInv
<1>8. CASE SubmitGiveUp
  BY <1>8 DEF OneUnresolved, SubmitGiveUp, TypeOK, Job, Signed, Claim, Unresolved
<1>9. CASE Tick
  BY <1>9 DEF OneUnresolved, Tick, TypeOK, Job, Signed, Message, Unresolved
<1>10. CASE \/ \E w \in Withdrawals : Request(w)
            \/ \E w \in Withdrawals, to \in AdminStatuses, h \in Hashes \cup {None} :
                     ReviewBegin(w, to, h)
            \/ ReviewCommit
  BY <1>10 DEF OneUnresolved, Request, ReviewBegin, ReviewCommit, Signed, Unresolved
<1>11. CASE \/ CreateRead
            \/ ConfirmRead
            \/ \E w \in Withdrawals : ConfirmFound(w)
            \/ \E w \in Withdrawals : ConfirmMissed(w)
            \/ ConfirmSettle
  BY <1>11 DEF OneUnresolved, CreateRead, ConfirmRead, ConfirmFound, ConfirmMissed,
     ConfirmSettle, Signed, Unresolved
<1>12. CASE \/ RecoverLive
            \/ RecoverScan
            \/ RecoverSeqno
            \/ \E m \in resend : Rebroadcast(m)
  BY <1>12 DEF OneUnresolved, RecoverLive, RecoverScan, RecoverSeqno, Rebroadcast, Signed,
     Unresolved
<1>13. CASE \/ SubmitPick
            \/ SubmitLock
            \/ SubmitLoad
            \/ SubmitSend
            \/ SubmitRefused
  BY <1>13 DEF OneUnresolved, SubmitPick, SubmitLock, SubmitLoad, SubmitSend, SubmitRefused,
     Signed, Unresolved
<1>14. CASE \/ ProviderFails
            \/ Restart
            \/ \E m \in pool : Execute(m)
            \/ UNCHANGED vars
  BY <1>14 DEF OneUnresolved, ProviderFails, Restart, Execute, vars, Signed, Unresolved
<1> QED
  BY <1>1, <1>2, <1>3, <1>4, <1>5, <1>6, <1>7, <1>8, <1>9, <1>10, <1>11, <1>12, <1>13, <1>14
     DEF Next, Admin, Worker

\* What is booked as PAID.
LEMMA PaidInvStep ==
    ASSUME TypeOK, PaidInv, ControlInv, ConfirmInv, MessageInv, SubmitInv, Next \/ UNCHANGED vars
    PROVE  PaidInv'
<1>1. ASSUME NEW w \in Withdrawals, Request(w) PROVE PaidInv'
  BY <1>1 DEF PaidInv, Request, TypeOK, Job, Signed
<1>2. CASE ReviewCommit
  BY <1>2 DEF PaidInv, ReviewCommit, ReviewAllowed, Final, TypeOK, Job, Signed, Review,
     ControlInv
<1>3. ASSUME NEW w \in Withdrawals, CreateJob(w) PROVE PaidInv'
  BY <1>3, NoneAssumption DEF PaidInv, CreateJob, NoJob, TypeOK, Job, Signed, ControlInv
<1>4. CASE ConfirmSettle
  BY <1>4 DEF PaidInv, ConfirmSettle, TypeOK, Job, Signed, Proof, ConfirmInv
<1>5. CASE ConfirmMark
  BY <1>5 DEF PaidInv, ConfirmMark, TypeOK, Job, Signed, Proof, ConfirmInv, MessageInv
<1>6. CASE RecoverUnsent
  BY <1>6 DEF PaidInv, RecoverUnsent, Unsent, TypeOK, Job, Signed
<1>7. ASSUME NEW m \in expired, RecoverExpired(m) PROVE PaidInv'
  BY <1>7, NoneAssumption DEF PaidInv, RecoverExpired, TypeOK, Job, Signed
<1>8. CASE SubmitClaim
  BY <1>8, NoneAssumption DEF PaidInv, SubmitClaim, Claimable, Jobs, TypeOK, Job, Signed, Claim
<1>9. CASE SubmitSave
  BY <1>9, NoneAssumption DEF PaidInv, SubmitSave, TypeOK, Job, Signed, Claim, SubmitInv
<1>10. CASE SubmitRetry
  BY <1>10 DEF PaidInv, SubmitRetry, TypeOK, Job, Signed, Claim
<1>11. CASE SubmitGiveUp
  BY <1>11 DEF PaidInv, SubmitGiveUp, TypeOK, Job, Signed, Claim
<1>12. ASSUME NEW m \in pool, Execute(m) PROVE PaidInv'
  BY <1>12 DEF PaidInv, Execute, TypeOK, Job, Signed, Message
<1>13. CASE \E w \in Withdrawals, to \in AdminStatuses, h \in Hashes \cup {None} :
                  ReviewBegin(w, to, h)
  BY <1>13 DEF PaidInv, ReviewBegin, Signed
<1>14. CASE \/ CreateRead
            \/ ConfirmRead
            \/ \E w \in Withdrawals : ConfirmFound(w)
            \/ \E w \in Withdrawals : ConfirmMissed(w)
  BY <1>14 DEF PaidInv, CreateRead, ConfirmRead, ConfirmFound, ConfirmMissed, Signed
<1>15. CASE \/ RecoverLive
            \/ RecoverScan
            \/ RecoverSeqno
            \/ \E m \in resend : Rebroadcast(m)
  BY <1>15 DEF PaidInv, RecoverLive, RecoverScan, RecoverSeqno, Rebroadcast, Signed
<1>16. CASE \/ SubmitPick
            \/ SubmitLock
            \/ SubmitLoad
            \/ SubmitSend
            \/ SubmitRefused
  BY <1>16 DEF PaidInv, SubmitPick, SubmitLock, SubmitLoad, SubmitSend, SubmitRefused, Signed
<1>17. CASE \/ ProviderFails
            \/ Restart
            \/ Tick
            \/ UNCHANGED vars
  BY <1>17 DEF PaidInv, ProviderFails, Restart, Tick, vars, Signed
<1> QED
  BY <1>1, <1>2, <1>3, <1>4, <1>5, <1>6, <1>7, <1>8, <1>9, <1>10, <1>11, <1>12, <1>13,
     <1>14, <1>15, <1>16, <1>17 DEF Next, Admin, Worker

\* Confirmed jobs.
LEMMA ConfirmedAgreesStep ==
    ASSUME TypeOK, ConfirmedAgrees, ConfirmInv, Next \/ UNCHANGED vars
    PROVE  ConfirmedAgrees'
<1>1. ASSUME NEW w \in Withdrawals, Request(w) PROVE ConfirmedAgrees'
  BY <1>1 DEF ConfirmedAgrees, Request, TypeOK, Job, Signed
<1>2. CASE ReviewCommit
  BY <1>2 DEF ConfirmedAgrees, ReviewCommit, ReviewAllowed, Final, TypeOK, Job, Signed, Review
<1>3. ASSUME NEW w \in Withdrawals, CreateJob(w) PROVE ConfirmedAgrees'
  BY <1>3, NoneAssumption DEF ConfirmedAgrees, CreateJob, NoJob, TypeOK, Job, Signed
<1>4. CASE ConfirmSettle
  BY <1>4 DEF ConfirmedAgrees, ConfirmSettle, TypeOK, Job, Signed, Proof
<1>5. CASE ConfirmMark
  BY <1>5 DEF ConfirmedAgrees, ConfirmMark, TypeOK, Job, Signed, Proof, ConfirmInv
<1>6. CASE RecoverUnsent
  BY <1>6 DEF ConfirmedAgrees, RecoverUnsent, Unsent, TypeOK, Job, Signed
<1>7. ASSUME NEW m \in expired, RecoverExpired(m) PROVE ConfirmedAgrees'
  BY <1>7, NoneAssumption DEF ConfirmedAgrees, RecoverExpired, TypeOK, Job, Signed
<1>8. CASE SubmitClaim
  BY <1>8, NoneAssumption DEF ConfirmedAgrees, SubmitClaim, Claimable, Jobs, TypeOK, Job,
     Signed, Claim
<1>9. CASE SubmitSave
  BY <1>9, NoneAssumption DEF ConfirmedAgrees, SubmitSave, TypeOK, Job, Signed, Claim
<1>10. CASE SubmitRetry
  BY <1>10 DEF ConfirmedAgrees, SubmitRetry, TypeOK, Job, Signed, Claim
<1>11. CASE SubmitGiveUp
  BY <1>11 DEF ConfirmedAgrees, SubmitGiveUp, TypeOK, Job, Signed, Claim
<1>12. CASE \E w \in Withdrawals, to \in AdminStatuses, h \in Hashes \cup {None} :
                  ReviewBegin(w, to, h)
  BY <1>12 DEF ConfirmedAgrees, ReviewBegin, Signed
<1>13. CASE \/ CreateRead
            \/ ConfirmRead
            \/ \E w \in Withdrawals : ConfirmFound(w)
            \/ \E w \in Withdrawals : ConfirmMissed(w)
  BY <1>13 DEF ConfirmedAgrees, CreateRead, ConfirmRead, ConfirmFound, ConfirmMissed, Signed
<1>14. CASE \/ RecoverLive
            \/ RecoverScan
            \/ RecoverSeqno
            \/ \E m \in resend : Rebroadcast(m)
  BY <1>14 DEF ConfirmedAgrees, RecoverLive, RecoverScan, RecoverSeqno, Rebroadcast, Signed
<1>15. CASE \/ SubmitPick
            \/ SubmitLock
            \/ SubmitLoad
            \/ SubmitSend
            \/ SubmitRefused
  BY <1>15 DEF ConfirmedAgrees, SubmitPick, SubmitLock, SubmitLoad, SubmitSend,
     SubmitRefused, Signed
<1>16. CASE \/ ProviderFails
            \/ Restart
            \/ \E m \in pool : Execute(m)
            \/ Tick
            \/ UNCHANGED vars
  BY <1>16 DEF ConfirmedAgrees, ProviderFails, Restart, Execute, Tick, vars, Signed
<1> QED
  BY <1>1, <1>2, <1>3, <1>4, <1>5, <1>6, <1>7, <1>8, <1>9, <1>10, <1>11, <1>12, <1>13,
     <1>14, <1>15, <1>16 DEF Next, Admin, Worker

LEMMA InitInv == Init => Inv
  BY NoneAssumption
  DEF Init, Inv, ControlInv, ConfirmInv, RecoverInv, SubmitInv, MessageInv, OneUnresolved,
      PaidInv, ConfirmedAgrees, Signed, Unresolved, NoJob

\* Types and the invariant are preserved together: the worker's locals are well
\* typed because of where its control is.
LEMMA NextType ==
    ASSUME TypeOK, Inv, Next \/ UNCHANGED vars
    PROVE  TypeOK'
  BY AdminType, ConfirmType, RecoverType, SubmitType, OtherType DEF Inv, Next, Worker

LEMMA NextInv ==
    ASSUME TypeOK, Inv, Next \/ UNCHANGED vars
    PROVE  Inv'
  BY ControlInvStep, ConfirmInvStep, RecoverInvStep, SubmitInvStep, MessageInvStep,
     OneUnresolvedStep, PaidInvStep, ConfirmedAgreesStep
  DEF Inv

\* The invariant holds of the worker and the admins as the code runs them.
THEOREM InvHolds == Spec => [](TypeOK /\ Inv)
<1>1. Init => TypeOK /\ Inv
  BY InitType, InitInv
<1>2. TypeOK /\ Inv /\ [Next]_vars => TypeOK' /\ Inv'
  BY NextType, NextInv
<1> QED
  BY <1>1, <1>2, PTL DEF Spec

-----------------------------------------------------------------------------
(* What follows from it. *)

\* Every row, balance and local of the worker is well typed; in particular no
\* member's AVAILABLE is ever negative.
THEOREM TypeCorrect == Spec => []TypeOK
  BY InvHolds, PTL

\* A withdrawal is paid on chain at most once, however often the process dies,
\* providers lose or relay its message and messages expire.
THEOREM PaidOnceHolds == Spec => []PaidOnce
<1>1. TypeOK /\ Inv => PaidOnce
  BY DEF Inv, MessageInv, PaidOnce, TypeOK
<1> QED
  BY <1>1, InvHolds, PTL

\* At most one payout message is live on the network.
THEOREM OneLiveHolds == Spec => []OneLive
<1>1. ASSUME TypeOK, Inv PROVE OneLive
  <2>1. ASSUME NEW m \in pool, Live(m)
        PROVE  m.job \in Withdrawals /\ job[m.job].msg = m /\ Unresolved(m.job)
    <3>1. m \in Message /\ m.job \in Withdrawals /\ m.until > now /\ m \notin executed
      BY <1>1, <2>1 DEF TypeOK, Message, Live
    <3>2. job[m.job].msg = m
      BY <1>1, <3>1 DEF Inv, MessageInv, TypeOK, Message
    <3>3. job[m.job].st \in {"SUBMITTED", "MANUAL_REVIEW"}
      BY <1>1, <3>1, <3>2, NoneAssumption DEF Inv, MessageInv, Signed
    <3> QED
      BY <3>1, <3>2, <3>3, NoneAssumption DEF Unresolved, Signed
  <2> QED
    BY <1>1, <2>1 DEF OneLive, Inv, OneUnresolved
<1> QED
  BY <1>1, InvHolds, PTL

\* What the books call PAID was paid exactly as they say.
THEOREM PaidIsProvedHolds == Spec => []PaidIsProved
<1>1. ASSUME TypeOK, Inv PROVE PaidIsProved
  <2>1. ASSUME NEW m \in credited PROVE m.job \in Withdrawals /\ job[m.job].st # "NONE"
    BY <1>1, <2>1, NoneAssumption DEF TypeOK, Message, Inv, MessageInv, Signed
  <2> QED
    BY <1>1, <2>1 DEF PaidIsProved, Inv, PaidInv
<1> QED
  BY <1>1, InvHolds, PTL

\* A confirmed job, its withdrawal and the chain agree.
THEOREM ConfirmedAgreesHolds == Spec => []ConfirmedAgrees
  BY InvHolds, PTL DEF Inv

\* Bytes that may have been sent are never replaced by a new signature.
THEOREM NeverResignedHolds == Spec => NeverResigned
<1> DEFINE Kept == \A w \in Withdrawals :
        Signed(w) /\ job'[w].msg # job[w].msg =>
            job[w].msg \notin executed /\ job[w].msg.until < now
<1>1. ASSUME TypeOK, Inv, Next PROVE Kept
  <2>1. ASSUME NEW w \in Withdrawals, CreateJob(w) PROVE Kept
    BY <1>1, <2>1, NoneAssumption DEF CreateJob, TypeOK, Job, Signed, Inv, MessageInv
  <2>2. CASE ConfirmMark
    BY <1>1, <2>2 DEF ConfirmMark, TypeOK, Job
  <2>3. CASE RecoverUnsent
    BY <1>1, <2>3 DEF RecoverUnsent, TypeOK, Job
  <2>4. ASSUME NEW m \in expired, RecoverExpired(m) PROVE Kept
    <3>1. m.job \in Withdrawals /\ job[m.job].msg = m /\ m.until < now
      BY <1>1, <2>4 DEF TypeOK, Message, Inv, RecoverInv
    <3>2. seen <= m.seqno => m \notin executed
      BY <1>1, <2>4 DEF RecoverExpired, Inv, RecoverInv
    <3>3. ASSUME NEW w \in Withdrawals, job'[w].msg # job[w].msg
          PROVE  w = m.job /\ seen <= m.seqno
      BY <1>1, <2>4, <3>1, <3>3 DEF RecoverExpired, TypeOK, Job
    <3> QED
      BY <3>1, <3>2, <3>3
  <2>5. CASE SubmitClaim
    BY <1>1, <2>5 DEF SubmitClaim, TypeOK, Job
  <2>6. CASE SubmitSave
    BY <1>1, <2>6, NoneAssumption DEF SubmitSave, TypeOK, Job, Signed, Inv, MessageInv
  <2>7. CASE SubmitRetry
    BY <1>1, <2>7 DEF SubmitRetry, TypeOK, Job
  <2>8. CASE SubmitGiveUp
    BY <1>1, <2>8 DEF SubmitGiveUp, TypeOK, Job
  <2>9. CASE job' = job
    BY <2>9
  <2> QED
    BY <1>1, <2>1, <2>2, <2>3, <2>4, <2>5, <2>6, <2>7, <2>8, <2>9
    DEF Next, Admin, Worker, Request, ReviewBegin, ReviewCommit, CreateRead, ConfirmRead,
        ConfirmFound, ConfirmMissed, ConfirmSettle, RecoverLive, RecoverScan,
        RecoverSeqno, Rebroadcast,
        SubmitPick, SubmitLock, SubmitLoad, SubmitSend, SubmitRefused, ProviderFails,
        Restart, Execute, Tick
<1>2. TypeOK /\ Inv /\ [Next]_vars => [Kept]_vars
  BY <1>1
<1> QED
  BY <1>2, InvHolds, PTL DEF Spec, NeverResigned

-----------------------------------------------------------------------------
(* Reviews against the worker's claim. *)

LEMMA InitReview == Init => ReviewInv
  BY DEF Init, ReviewInv, NoJob, Unclaimed

\* A review that commits: the claim it did not see is the one it overtakes.
LEMMA CommitReview ==
    ASSUME TypeOK, ReviewInv, ReviewCommit
    PROVE  ReviewInv'
<1>1. review.w \in Withdrawals /\ review \in Review /\ job' = job
  BY DEF ReviewCommit, TypeOK, Review
<1>2. CASE ReviewAllowed(review) /\ wd[review.w] = review.wdSeen
  <2>1. /\ wd' = [wd EXCEPT ![review.w] = review.to]
        /\ overtaken' = IF Overtakes(review) THEN overtaken \cup {review.w} ELSE overtaken
    BY <1>2 DEF ReviewCommit
  <2>2. wd'[review.w] = review.to /\ \A v \in Withdrawals \ {review.w} : wd'[v] = wd[v]
    BY <1>1, <2>1 DEF TypeOK
  <2>3. review.w \notin overtaken
    BY <1>1, <1>2 DEF ReviewAllowed, Final, ReviewInv
  <2>4. review.to \in {"REVIEWING", "APPROVED", "REJECTED", "PAID"}
    BY <1>1, ModeAssumption DEF Review
  <2>5. review.to = "REJECTED" => review.jobSeen \in Unclaimed
    BY <1>2 DEF ReviewAllowed, Unclaimed
  <2>6. review.to = "REJECTED" /\ job[review.w].st \notin Unclaimed => review.w \in overtaken'
    BY <2>1, <2>5 DEF Overtakes
  <2>7. \A v \in overtaken' : v \in overtaken \/ (v = review.w /\ review.to = "REJECTED")
    BY <2>1 DEF Overtakes
  <2>8. overtaken \subseteq overtaken'
    BY <2>1
  <2>9. \A w \in Withdrawals : job'[w].st \notin Unclaimed =>
          wd'[w] \in {"REVIEWING", "APPROVED", "PAID"} \/ w \in overtaken'
    BY <1>1, <2>2, <2>4, <2>6, <2>8 DEF ReviewInv
  <2>10. \A w \in overtaken' : wd'[w] = "REJECTED"
    BY <1>1, <2>2, <2>3, <2>7 DEF ReviewInv, TypeOK
  <2> QED
    BY <2>9, <2>10 DEF ReviewInv
<1>3. CASE ~(ReviewAllowed(review) /\ wd[review.w] = review.wdSeen)
  BY <1>1, <1>3 DEF ReviewCommit, ReviewInv
<1> QED
  BY <1>2, <1>3

LEMMA NextReview ==
    ASSUME TypeOK, Inv, ReviewInv, Next \/ UNCHANGED vars
    PROVE  ReviewInv'
<1> USE DEF Inv, ReviewInv, Unclaimed
<1>1. ASSUME NEW w \in Withdrawals, Request(w) PROVE ReviewInv'
  BY <1>1 DEF Request, TypeOK
<1>2. ASSUME NEW w \in Withdrawals, NEW to \in AdminStatuses, NEW h \in Hashes \cup {None},
             ReviewBegin(w, to, h)
      PROVE  ReviewInv'
  BY <1>2 DEF ReviewBegin
<1>3. CASE ReviewCommit
  BY <1>3, CommitReview
<1>4. ASSUME NEW w \in Withdrawals, CreateJob(w) PROVE ReviewInv'
  BY <1>4 DEF CreateJob, NoJob, TypeOK
<1>5. CASE ConfirmSettle
  <2>1. proof.w \in Withdrawals
    BY <1>5 DEF ConfirmSettle, ConfirmInv, TypeOK, Proof
  <2>2. \A v \in Withdrawals : wd'[v] = wd[v] \/ (wd'[v] = "PAID" /\ wd[v] = "APPROVED")
    BY <1>5, <2>1 DEF ConfirmSettle, TypeOK
  <2>3. UNCHANGED <<overtaken, job>>
    BY <1>5 DEF ConfirmSettle, adminVars
  <2> QED
    BY <2>2, <2>3 DEF TypeOK
<1>6. CASE ConfirmMark
  <2>1. proof.w \in Withdrawals /\ wd[proof.w] = "PAID"
    BY <1>6 DEF ConfirmMark, ConfirmInv, TypeOK, Proof
  <2>2. \A v \in Withdrawals : v # proof.w => job'[v] = job[v]
    BY <1>6 DEF ConfirmMark, TypeOK
  <2>3. UNCHANGED <<overtaken, wd>>
    BY <1>6 DEF ConfirmMark, adminVars
  <2> QED
    BY <2>1, <2>2, <2>3 DEF TypeOK
<1>7. CASE RecoverUnsent
  BY <1>7 DEF RecoverUnsent, Unsent, TypeOK, Job, adminVars
<1>8. ASSUME NEW m \in expired, RecoverExpired(m) PROVE ReviewInv'
  <2>1. m.job \in Withdrawals
    BY <1>8 DEF TypeOK, Message
  <2>2. \A v \in Withdrawals : job'[v].st = job[v].st
            \/ job'[v].st = "QUEUED" \/ job[v].st = "SUBMITTED"
    BY <1>8, <2>1 DEF RecoverExpired, TypeOK, Job
  <2>3. UNCHANGED <<overtaken, wd>>
    BY <1>8 DEF RecoverExpired, adminVars
  <2> QED
    BY <2>2, <2>3 DEF TypeOK
<1>9. CASE SubmitClaim
  <2>1. cand.w \in Withdrawals /\ wd' = wd /\ overtaken' = overtaken
    BY <1>9 DEF SubmitClaim, SubmitInv, TypeOK, Claim
  <2> QED
    BY <1>9, <2>1 DEF SubmitClaim, Claimable, TypeOK
<1>10. CASE SubmitSave
  BY <1>10 DEF SubmitSave, SubmitInv, TypeOK, Job, Claim, adminVars
<1>11. CASE SubmitRetry
  BY <1>11 DEF SubmitRetry, SubmitInv, TypeOK, Job, Claim, adminVars
<1>12. CASE SubmitGiveUp
  BY <1>12 DEF SubmitGiveUp, SubmitInv, TypeOK, Job, Claim, adminVars
<1>13. CASE UNCHANGED <<overtaken, job, wd>>
  BY <1>13
<1> QED
  BY <1>1, <1>2, <1>3, <1>4, <1>5, <1>6, <1>7, <1>8, <1>9, <1>10, <1>11, <1>12, <1>13
  DEF Next, Admin, Worker, CreateRead, ConfirmRead, ConfirmFound, ConfirmMissed, RecoverLive,
      RecoverScan, RecoverSeqno, Rebroadcast, SubmitPick, SubmitLock, SubmitLoad, SubmitSend,
      SubmitRefused, ProviderFails, Restart, Execute, Tick, vars, dbVars, adminVars

LEMMA ReviewHolds == Spec => [](TypeOK /\ Inv /\ ReviewInv)
<1>1. Init => ReviewInv
  BY InitReview
<1>2. TypeOK /\ Inv /\ ReviewInv /\ [Next]_vars => ReviewInv'
  BY NextReview
<1> QED
  BY <1>1, <1>2, InvHolds, PTL DEF Spec

\* The chain shows a transfer only for a withdrawal that keeps its hold or was
\* paid, or whose rejection was overtaken: its job keeps the bytes, and so is
\* past the queue.
LEMMA CreditedIsHeld ==
    ASSUME TypeOK, Inv, ReviewInv, NEW m \in credited
    PROVE  /\ m.job \in Withdrawals
           /\ wd[m.job] \in {"REVIEWING", "APPROVED", "PAID"} \/ m.job \in overtaken
<1>1. m.job \in Withdrawals /\ job[m.job].msg = m /\ Signed(m.job)
  BY NoneAssumption DEF TypeOK, Message, Inv, MessageInv, Signed
<1> QED
  BY <1>1 DEF Inv, MessageInv, ReviewInv, Unclaimed

\* The member of a rejected withdrawal, who has the hold back, is paid as well
\* only when the rejection waited for the very claim of the job.
THEOREM RejectedNeverPaidHolds == Spec => []RejectedNeverPaid
<1>1. TypeOK /\ Inv /\ ReviewInv => RejectedNeverPaid
  BY CreditedIsHeld DEF RejectedNeverPaid
<1> QED
  BY <1>1, ReviewHolds, PTL

\* The withdrawal keeps its promise: the hold is released, or transferred once
\* and settled, or settled by hand.
LEMMA InitPromise == Init => Promise!Init
  BY DEF Init, Promise!Init, Phase, Transfers

\* Steps that only change what the promise does not see.
LEMMA PromiseStutter ==
    ASSUME UNCHANGED <<wd, txHash, credited, overtaken>>
    PROVE  UNCHANGED Promise!pvars
  BY DEF Promise!pvars, Phase, Transfers

LEMMA RequestPromise ==
    ASSUME TypeOK, NEW w \in Withdrawals, Request(w)
    PROVE  Promise!Next
<1>1. Transfers(w)' = Transfers(w)
  BY DEF Request, Transfers
<1>2. [v \in Withdrawals |-> Phase(v)]' = [[v \in Withdrawals |-> Phase(v)] EXCEPT ![w] = "held"]
  BY DEF Request, Phase, TypeOK, adminVars
<1>3. [v \in Withdrawals |-> Transfers(v)]' = [v \in Withdrawals |-> Transfers(v)]
  BY DEF Request, Transfers
<1>4. Promise!Hold(w)
  BY <1>2, <1>3 DEF Promise!Hold, Request, Phase
<1> QED
  BY <1>4 DEF Promise!Next

\* An admin's review releases the hold or settles it by hand only while no
\* transfer of it exists.
LEMMA ReviewPromise ==
    ASSUME TypeOK, Inv, ReviewInv, ReviewCommit
    PROVE  Promise!Next \/ UNCHANGED Promise!pvars
<1>w. PICK w \in Withdrawals : w = review.w
  BY DEF ReviewCommit, TypeOK, Review
<1>1. review \in Review /\ credited' = credited
  BY DEF ReviewCommit, TypeOK
<1>2. [v \in Withdrawals |-> Transfers(v)]' = [v \in Withdrawals |-> Transfers(v)]
  BY <1>w, <1>1 DEF Transfers
<1>3. CASE ReviewAllowed(review) /\ wd[w] = review.wdSeen
  <2>1. /\ wd' = [wd EXCEPT ![w] = review.to]
        /\ txHash' = [txHash EXCEPT ![w] = IF review.hash # None THEN review.hash ELSE @]
    BY <1>w, <1>3 DEF ReviewCommit
  <2>2. wd[w] \notin Final /\ wd[w] # "NONE"
    BY <1>w, <1>1, <1>3 DEF ReviewAllowed, Inv, ControlInv, ReviewCommit
  <2>3. Phase(w) = "held"
    BY <1>w, <2>2 DEF Phase, Final
  <2>9. w \notin overtaken
    BY <2>2 DEF ReviewInv, Final
  <2>10. overtaken' = IF Overtakes(review) THEN overtaken \cup {w} ELSE overtaken
    BY <1>w, <1>3 DEF ReviewCommit
  <2>4. \A v \in Withdrawals : v # w => Phase(v)' = Phase(v)
    BY <1>w, <1>1, <2>1, <2>10 DEF Phase, TypeOK
  <2>5. (review.to = "REJECTED" /\ ~Overtakes(review)) \/ review.to = "PAID" => Transfers(w) = {}
    <3>1. review.to = "REJECTED" /\ ~Overtakes(review) => job[w].st \in Unclaimed
      BY <1>w, <1>1, <1>3 DEF ReviewAllowed, Overtakes, Unclaimed
    <3>2. review.to = "PAID" => job[w].st = "NONE"
      BY <1>w, <1>1, <1>3 DEF ReviewAllowed, Inv, ControlInv, ReviewCommit
    <3> QED
      BY <1>w, <3>1, <3>2, NoneAssumption
      DEF Transfers, Inv, MessageInv, TypeOK, Message, Signed, Unclaimed
  <2>6. CASE review.to = "REJECTED"
    <3>1. CASE Overtakes(review)
      <4>1. Phase(w)' = "overtaken"
        BY <1>w, <1>1, <2>1, <2>6, <2>10, <3>1 DEF Phase, TypeOK
      <4>2. Promise!Overtake(w)
        BY <1>w, <1>1, <1>2, <2>3, <2>4, <4>1 DEF Promise!Overtake
      <4> QED
        BY <1>w, <1>1, <4>2 DEF Promise!Next
    <3>2. CASE ~Overtakes(review)
      <4>1. Phase(w)' = "released"
        BY <1>w, <1>1, <2>1, <2>6, <2>9, <2>10, <3>2 DEF Phase, TypeOK
      <4>2. Promise!Release(w)
        BY <1>w, <1>1, <1>2, <2>3, <2>4, <2>5, <2>6, <3>2, <4>1 DEF Promise!Release
      <4> QED
        BY <1>w, <1>1, <4>2 DEF Promise!Next
    <3> QED
      BY <3>1, <3>2
  <2>7. CASE review.to = "PAID"
    <3>1. review.hash \in Hashes
      BY <1>w, <1>1, <2>7 DEF Review, Inv, ControlInv, ReviewCommit
    <3>2. Phase(w)' = "byHand"
      BY <1>w, <1>1, <2>1, <2>7, <3>1, NoneAssumption DEF Phase, TypeOK
    <3>3. Promise!SettleByHand(w)
      BY <1>w, <1>1, <1>2, <2>3, <2>4, <2>5, <2>7, <3>2 DEF Promise!SettleByHand
    <3> QED
      BY <1>w, <1>1, <3>3 DEF Promise!Next
  <2>8. CASE review.to \notin {"REJECTED", "PAID"}
    <3>1. review.to # "NONE"
      BY <1>1, ModeAssumption DEF Review, ReviewCommit, TypeOK
    <3>2. Phase(w)' = "held"
      BY <1>w, <1>1, <2>1, <2>8, <3>1 DEF Phase, TypeOK
    <3> QED
      BY <1>w, <1>2, <2>3, <2>4, <3>2 DEF Promise!pvars
  <2> QED
    BY <1>w, <2>6, <2>7, <2>8
<1>4. CASE ~(ReviewAllowed(review) /\ wd[w] = review.wdSeen)
  BY <1>w, <1>1, <1>4, PromiseStutter DEF ReviewCommit
<1> QED
  BY <1>3, <1>4

\* The worker settles a hold only with the transfer in hand.
LEMMA SettlePromise ==
    ASSUME TypeOK, Inv, ReviewInv, ConfirmSettle
    PROVE  Promise!Next \/ UNCHANGED Promise!pvars
<1>w. PICK w \in Withdrawals : w = proof.w
  BY DEF ConfirmSettle, Inv, ConfirmInv, TypeOK, Proof
<1>1. proof.tx \in credited /\ proof.tx.job = w /\ UNCHANGED <<credited, overtaken>>
  BY <1>w DEF ConfirmSettle, Inv, ConfirmInv, adminVars
<1>2. CASE UNCHANGED <<wd, txHash>>
  BY <1>w, <1>1, <1>2, PromiseStutter
<1>3. CASE /\ wd[w] = "APPROVED"
           /\ wd' = [wd EXCEPT ![w] = "PAID"]
           /\ txHash' = [txHash EXCEPT ![w] = proof.tx]
  <2>1. Phase(w) = "held"
    BY <1>w, <1>3 DEF Phase
  <2>2. proof.tx \notin Hashes
    BY <1>w, <1>1, NoneAssumption DEF TypeOK
  <2>3. Phase(w)' = "settled"
    BY <1>w, <1>1, <1>3, <2>2 DEF Phase, TypeOK
  <2>4. \A v \in Withdrawals : v # w => Phase(v)' = Phase(v)
    BY <1>w, <1>1, <1>3 DEF Phase, TypeOK
  <2>5. /\ [v \in Withdrawals |-> Transfers(v)]' = [v \in Withdrawals |-> Transfers(v)]
        /\ Transfers(w) # {}
    BY <1>w, <1>1 DEF Transfers
  <2>6. Promise!Settle(w)
    BY <1>w, <1>1, <2>1, <2>3, <2>4, <2>5 DEF Promise!Settle
  <2> QED
    BY <1>w, <1>1, <2>6 DEF Promise!Next
<1> QED
  BY <1>w, <1>2, <1>3 DEF ConfirmSettle

\* The chain pays only a withdrawal that is held and was not paid before.
LEMMA ExecutePromise ==
    ASSUME TypeOK, Inv, ReviewInv, NEW m \in pool, Execute(m)
    PROVE  Promise!Next \/ UNCHANGED Promise!pvars
<1>w. PICK w \in Withdrawals : w = m.job
  BY DEF TypeOK, Message
<1>1. m \in Message /\ m \notin executed /\ m.until > now
  BY <1>w DEF Execute, TypeOK, Message, Inv, MessageInv
<1>2. job[w].msg = m /\ Signed(w)
  BY <1>w, <1>1, NoneAssumption DEF Inv, MessageInv, TypeOK, Message, Signed
<1>3. /\ wd[w] \in {"REVIEWING", "APPROVED", "PAID"} \/ (wd[w] = "REJECTED" /\ w \in overtaken)
      /\ job[w].st # "NONE"
  BY <1>w, <1>1, <1>2 DEF Inv, MessageInv, ReviewInv, Unclaimed
<1>4. \A n \in credited : n.job # w
  BY <1>w, <1>1, <1>2 DEF Inv, MessageInv, TypeOK
<1>5. Phase(w) \in {"held", "overtaken"} /\ Transfers(w) = {}
  <2>1. wd[w] # "PAID"
    BY <1>w, <1>1, <1>3, <1>4 DEF Inv, PaidInv
  <2> QED
    BY <1>w, <1>3, <1>4, <2>1 DEF Phase, Transfers
<1>6. [v \in Withdrawals |-> Phase(v)]' = [v \in Withdrawals |-> Phase(v)]
  BY <1>w DEF Execute, Phase, dbVars, adminVars
<1>7. CASE credited' = credited
  BY <1>w, <1>7, PromiseStutter DEF Execute
<1>8. CASE credited' = credited \cup {m}
  <2>1. Transfers(w)' = {m}
    BY <1>w, <1>4, <1>8 DEF Transfers
  <2>2. \A v \in Withdrawals : v # w => Transfers(v)' = Transfers(v)
    BY <1>w, <1>8 DEF Transfers
  <2>3. Promise!Pay(w)
    BY <1>w, <1>1, <1>5, <1>6, <2>1, <2>2 DEF Promise!Pay
  <2> QED
    BY <1>w, <1>1, <2>3 DEF Promise!Next
<1> QED
  BY <1>w, <1>7, <1>8 DEF Execute

\* Every step of members, admins, the worker, failures and the chain is a step
\* of the promise or none at all.
THEOREM KeepsPromiseHolds == Spec => KeepsPromise
<1>1. ASSUME TypeOK, Inv, ReviewInv, Next
      PROVE  Promise!Next \/ UNCHANGED Promise!pvars
  <2>1. ASSUME NEW w \in Withdrawals, Request(w) PROVE Promise!Next
    BY <1>1, <2>1, RequestPromise
  <2>2. CASE ReviewCommit
    BY <1>1, <2>2, ReviewPromise
  <2>3. CASE ConfirmSettle
    BY <1>1, <2>3, SettlePromise
  <2>4. ASSUME NEW m \in pool, Execute(m) PROVE Promise!Next \/ UNCHANGED Promise!pvars
    BY <1>1, <2>4, ExecutePromise
  <2>5. CASE UNCHANGED <<wd, txHash, credited, overtaken>>
    BY <2>5, PromiseStutter
  <2> QED
    BY <1>1, <2>1, <2>2, <2>3, <2>4, <2>5
    DEF dbVars, adminVars, chainVars, Next, Admin, Worker, ReviewBegin, CreateRead, CreateJob, ConfirmRead,
        ConfirmFound, ConfirmMissed, ConfirmMark, RecoverUnsent, RecoverLive, RecoverScan,
        RecoverSeqno,
        RecoverExpired, Rebroadcast, SubmitPick, SubmitLock, SubmitClaim, SubmitLoad,
        SubmitSave, SubmitSend, SubmitRefused, SubmitRetry, SubmitGiveUp, ProviderFails,
        Restart, Tick
<1>2. TypeOK /\ Inv /\ ReviewInv /\ [Next]_vars => [Promise!Next]_(Promise!pvars)
  <2>1. UNCHANGED vars => UNCHANGED Promise!pvars
    BY PromiseStutter DEF vars, dbVars, adminVars, chainVars
  <2> QED
    BY <1>1, <2>1
<1> QED
  BY <1>2, InitPromise, ReviewHolds, PTL DEF Spec, KeepsPromise, Promise!Spec

-----------------------------------------------------------------------------
(* The ledger adds up. *)

HeldStatus == {"REQUESTED", "REVIEWING", "APPROVED"}

\* What a step moves between one member's accounts and the fees is not lost.
LEMMA MovedStays ==
    ASSUME TypeOK, TypeOK', NEW u \in Users,
           \A v \in Users \ {u} : /\ available'[v] = available[v] /\ hold'[v] = hold[v]
                                  /\ withdrawn'[v] = withdrawn[v],
           available'[u] + hold'[u] + withdrawn'[u] + fees'
               = available[u] + hold[u] + withdrawn[u] + fees,
           SumFunctionOnSet(Moved, Users) + fees = 0
    PROVE  (SumFunctionOnSet(Moved, Users) + fees = 0)'
<1> DEFINE f == Moved
           g == Moved'
<1>1. \A v \in Users :
          /\ available[v] \in Int /\ hold[v] \in Int /\ withdrawn[v] \in Int /\ Funds[v] \in Int
          /\ available'[v] \in Int /\ hold'[v] \in Int /\ withdrawn'[v] \in Int
  BY AmountAssumption DEF TypeOK
<1>2. fees \in Int /\ fees' \in Int /\ IsFiniteSet(Users)
  BY AmountAssumption DEF TypeOK
<1>3. /\ \A v \in Users : f[v] = available[v] + hold[v] + withdrawn[v] - Funds[v]
      /\ \A v \in Users : g[v] = available'[v] + hold'[v] + withdrawn'[v] - Funds[v]
  BY DEF Moved
<1> HIDE DEF f, g
<1>4. (\A v \in Users : f[v] \in Int) /\ g[u] \in Int /\ \A v \in Users \ {u} : g[v] = f[v]
  BY <1>1, <1>3
<1>5. SumFunctionOnSet(g, Users) = SumFunctionOnSet(f, Users) + (g[u] - f[u])
  BY <1>2, <1>4, SumChange
<1>6. SumFunctionOnSet(f, Users) \in Int
  BY <1>2, <1>4, SumInt
<1>7. g[u] - f[u] = fees - fees'
  <2>1. \A a, b, c, d, p, q, r, x, y \in Int :
            a + b + c + y = p + q + r + x => (a + b + c - d) - (p + q + r - d) = x - y
    OBVIOUS
  <2> QED
    BY <1>1, <1>2, <1>3, <2>1
<1>8. SumFunctionOnSet(f, Users) + fees = 0
  BY DEF f
<1>9. SumFunctionOnSet(g, Users) + fees' = 0
  BY <1>2, <1>5, <1>6, <1>7, <1>8
<1> QED
  BY <1>9 DEF g

\* The open withdrawals are finitely many, and their amounts are numbers.
LEMMA OpenFinite ==
    ASSUME NEW S \in SUBSET Withdrawals
    PROVE  IsFiniteSet(S) /\ \A w \in S : Amount[w] \in Int
  BY AmountAssumption, FS_Subset

\* Which withdrawals of a member are open after one of them changed.
LEMMA OpenChanges ==
    ASSUME TypeOK, NEW w \in Withdrawals, NEW to, wd' = [wd EXCEPT ![w] = to], NEW u \in Users
    PROVE  OpenOf(u)' = IF Owner[w] # u THEN OpenOf(u)
                        ELSE IF to \in HeldStatus THEN OpenOf(u) \cup {w} ELSE OpenOf(u) \ {w}
  BY DEF TypeOK, OpenOf, HeldStatus

\* A hold that is taken.
LEMMA HoldTaken ==
    ASSUME TypeOK, HoldMatches, NEW w \in Withdrawals, wd[w] \notin HeldStatus,
           NEW to \in HeldStatus, wd' = [wd EXCEPT ![w] = to],
           hold' = [hold EXCEPT ![Owner[w]] = @ + Amount[w]], NEW u \in Users
    PROVE  hold'[u] = SumFunctionOnSet(Amount, OpenOf(u)')
<1> DEFINE S == OpenOf(u)
<1>1. hold[u] = SumFunctionOnSet(Amount, S) /\ hold[u] \in Int
  BY DEF HoldMatches, TypeOK
<1>2. S \in SUBSET Withdrawals /\ w \notin S
  BY DEF OpenOf, HeldStatus
<1>3. CASE Owner[w] # u
  <2>1. OpenOf(u)' = S /\ hold'[u] = hold[u]
    BY <1>3, OpenChanges DEF TypeOK
  <2> QED
    BY <1>1, <2>1
<1>4. CASE Owner[w] = u
  <2>1. OpenOf(u)' = S \cup {w} /\ hold'[u] = hold[u] + Amount[w]
    BY <1>4, OpenChanges DEF TypeOK
  <2> HIDE DEF S
  <2>2. IsFiniteSet(S) /\ \A x \in S \cup {w} : Amount[x] \in Int
    BY <1>2, OpenFinite
  <2>3. SumFunctionOnSet(Amount, S \cup {w}) = SumFunctionOnSet(Amount, S) + Amount[w]
    BY <1>2, <2>2, SumAdd
  <2> QED
    BY <1>1, <2>1, <2>3
<1> QED
  BY <1>3, <1>4

\* A hold that is released or settled.
LEMMA HoldGiven ==
    ASSUME TypeOK, HoldMatches, NEW w \in Withdrawals, wd[w] \in HeldStatus,
           NEW to \in Final, wd' = [wd EXCEPT ![w] = to],
           hold' = [hold EXCEPT ![Owner[w]] = @ - Amount[w]], NEW u \in Users
    PROVE  hold'[u] = SumFunctionOnSet(Amount, OpenOf(u)')
<1> DEFINE S == OpenOf(u)
<1>1. hold[u] = SumFunctionOnSet(Amount, S) /\ hold[u] \in Int
  BY DEF HoldMatches, TypeOK
<1>2. S \in SUBSET Withdrawals /\ (Owner[w] = u => w \in S) /\ to \notin HeldStatus
  BY DEF OpenOf, HeldStatus, Final
<1>3. CASE Owner[w] # u
  <2>1. OpenOf(u)' = S /\ hold'[u] = hold[u]
    BY <1>3, OpenChanges DEF TypeOK
  <2> QED
    BY <1>1, <2>1
<1>4. CASE Owner[w] = u
  <2>1. OpenOf(u)' = S \ {w} /\ hold'[u] = hold[u] - Amount[w] /\ Amount[w] \in Int
    <3>1. OpenOf(u)' = S \ {w}
      BY <1>2, <1>4, OpenChanges
    <3>2. hold'[u] = hold[u] - Amount[w]
      BY <1>4 DEF TypeOK
    <3>3. Amount[w] \in Int
      BY AmountAssumption
    <3> QED
      BY <3>1, <3>2, <3>3
  <2> HIDE DEF S
  <2>2. IsFiniteSet(S) /\ IsFiniteSet(S \ {w}) /\ \A x \in S : Amount[x] \in Int
    BY <1>2, OpenFinite
  <2>3. SumFunctionOnSet(Amount, S) = Amount[w] + SumFunctionOnSet(Amount, S \ {w})
    BY <1>2, <1>4, <2>2, SumRemove
  <2>4. SumFunctionOnSet(Amount, S \ {w}) \in Int
    BY <2>2, SumInt
  <2> QED
    BY <1>1, <2>1, <2>3, <2>4
<1> QED
  BY <1>3, <1>4

\* A decision on an open withdrawal posts what its status says.
LEMMA PostMatches ==
    ASSUME TypeOK, TypeOK', HoldMatches, NEW w \in Withdrawals, wd[w] \in HeldStatus,
           NEW to \in {"REVIEWING", "APPROVED", "REJECTED", "PAID"}, Post(w, to),
           wd' = [wd EXCEPT ![w] = to]
    PROVE  HoldMatches'
<1> DEFINE u == Owner[w]
<1>1. u \in Users /\ Amount[w] \in Int /\ Fee(w) \in Int /\ Net(w) \in Int
      /\ Net(w) + Fee(w) = Amount[w]
  <2>1. u \in Users /\ Amount[w] \in Int /\ Fee(w) \in Int /\ Net(w) \in Int
    BY AmountAssumption, FeeType
  <2>2. Net(w) = Amount[w] - Fee(w)
    BY DEF Net
  <2> QED
    BY <2>1, <2>2
<1>2. /\ available' = [available EXCEPT ![u] = IF to = "REJECTED" THEN @ + Amount[w] ELSE @]
      /\ hold' = [hold EXCEPT ![u] = IF to \in Final THEN @ - Amount[w] ELSE @]
      /\ withdrawn' = [withdrawn EXCEPT ![u] = IF to = "PAID" THEN @ + Net(w) ELSE @]
      /\ fees' = IF to = "PAID" THEN fees + Fee(w) ELSE fees
  BY DEF Post
<1>3. /\ available[u] \in Int /\ hold[u] \in Int /\ withdrawn[u] \in Int /\ fees \in Int
  BY <1>1 DEF TypeOK
<1>4. /\ available'[u] = IF to = "REJECTED" THEN available[u] + Amount[w] ELSE available[u]
      /\ hold'[u] = IF to \in {"REJECTED", "PAID"} THEN hold[u] - Amount[w] ELSE hold[u]
      /\ withdrawn'[u] = IF to = "PAID" THEN withdrawn[u] + Net(w) ELSE withdrawn[u]
      /\ \A v \in Users \ {u} : /\ available'[v] = available[v] /\ hold'[v] = hold[v]
                                 /\ withdrawn'[v] = withdrawn[v]
  BY <1>1, <1>2 DEF TypeOK, Final
<1>5. available'[u] + hold'[u] + withdrawn'[u] + fees'
          = available[u] + hold[u] + withdrawn[u] + fees
  <2>1. CASE to = "REJECTED"
    BY <1>1, <1>2, <1>3, <1>4, <2>1
  <2>2. CASE to = "PAID"
    BY <1>1, <1>2, <1>3, <1>4, <2>2
  <2>3. CASE to \in {"REVIEWING", "APPROVED"}
    BY <1>1, <1>2, <1>3, <1>4, <2>3
  <2> QED
    BY <2>1, <2>2, <2>3
<1>6. (SumFunctionOnSet(Moved, Users) + fees = 0)'
  BY <1>1, <1>4, <1>5, MovedStays DEF HoldMatches
<1>7. ASSUME NEW v \in Users PROVE hold'[v] = SumFunctionOnSet(Amount, OpenOf(v)')
  <2>1. CASE to \in Final
    <3>1. hold' = [hold EXCEPT ![u] = @ - Amount[w]]
      BY <1>2, <2>1
    <3> QED
      BY <2>1, <3>1, HoldGiven
  <2>2. CASE to \notin Final
    <3>1. hold'[v] = hold[v]
      BY <1>1, <1>2, <2>2 DEF TypeOK
    <3>2. to \in HeldStatus /\ (Owner[w] = v => w \in OpenOf(v))
      BY <2>2 DEF OpenOf, HeldStatus, Final
    <3>3. OpenOf(v)' = OpenOf(v)
      <4>1. CASE Owner[w] # v
        BY <4>1, OpenChanges
      <4>2. CASE Owner[w] = v
        <5>1. OpenOf(v)' = OpenOf(v) \cup {w} /\ w \in OpenOf(v)
          BY <3>2, <4>2, OpenChanges
        <5> QED
          BY ONLY <5>1
      <4> QED
        BY <4>1, <4>2
    <3> QED
      BY <3>1, <3>3 DEF HoldMatches
  <2> QED
    BY <2>1, <2>2
<1> QED
  BY <1>6, <1>7 DEF HoldMatches

LEMMA RequestMatches ==
    ASSUME TypeOK, TypeOK', HoldMatches, NEW w \in Withdrawals, Request(w)
    PROVE  HoldMatches'
<1> DEFINE u == Owner[w]
           to == IF automatic /\ Amount[w] <= AutoMax THEN "APPROVED" ELSE "REQUESTED"
<1>1. /\ wd[w] \notin HeldStatus /\ to \in HeldStatus /\ wd' = [wd EXCEPT ![w] = to]
      /\ available' = [available EXCEPT ![u] = @ - Amount[w]]
      /\ hold' = [hold EXCEPT ![u] = @ + Amount[w]]
      /\ withdrawn' = withdrawn /\ fees' = fees
  BY DEF Request, HeldStatus
<1> HIDE DEF to
<1>2. u \in Users /\ Amount[w] \in Int
  BY AmountAssumption
<1>3. /\ available'[u] = available[u] - Amount[w] /\ hold'[u] = hold[u] + Amount[w]
      /\ \A v \in Users \ {u} : available'[v] = available[v] /\ hold'[v] = hold[v]
      /\ available[u] \in Int /\ hold[u] \in Int /\ withdrawn[u] \in Int /\ fees \in Int
  BY <1>1, <1>2 DEF TypeOK
<1>4. available'[u] + hold'[u] + withdrawn'[u] + fees'
          = available[u] + hold[u] + withdrawn[u] + fees
  BY <1>1, <1>2, <1>3
<1>5. (SumFunctionOnSet(Moved, Users) + fees = 0)'
  BY <1>1, <1>2, <1>3, <1>4, MovedStays DEF HoldMatches
<1>6. \A v \in Users : hold'[v] = SumFunctionOnSet(Amount, OpenOf(v)')
  BY <1>1, HoldTaken
<1> QED
  BY <1>5, <1>6 DEF HoldMatches

\* A withdrawal and the ledger change together, or not at all.
LEMMA NextMatches ==
    ASSUME TypeOK, TypeOK', Inv, HoldMatches, Next \/ UNCHANGED vars
    PROVE  HoldMatches'
<1>1. CASE UNCHANGED <<wd, available, hold, withdrawn, fees>>
  BY <1>1 DEF HoldMatches, OpenOf, Moved
<1>2. ASSUME NEW w \in Withdrawals, Request(w) PROVE HoldMatches'
  BY <1>2, RequestMatches
<1>3. CASE ReviewCommit
  <2> DEFINE w == review.w
  <2>1. /\ w \in Withdrawals /\ review.to \in {"REVIEWING", "APPROVED", "REJECTED", "PAID"}
        /\ review.wdSeen # "NONE" /\ review.wdSeen \in WithdrawalStatus
    BY <1>3, ModeAssumption DEF ReviewCommit, TypeOK, Review, Inv, ControlInv
  <2>2. CASE ReviewAllowed(review) /\ wd[w] = review.wdSeen
    <3>1. Post(w, review.to) /\ wd' = [wd EXCEPT ![w] = review.to]
      BY <1>3, <2>2 DEF ReviewCommit
    <3>2. wd[w] \in HeldStatus
      BY <2>1, <2>2 DEF ReviewAllowed, WithdrawalStatus, Final, HeldStatus
    <3> QED
      BY <2>1, <3>1, <3>2, PostMatches
  <2>3. CASE ~(ReviewAllowed(review) /\ wd[w] = review.wdSeen)
    BY <1>1, <1>3, <2>3 DEF ReviewCommit
  <2> QED
    BY <2>2, <2>3
<1>4. CASE ConfirmSettle
  <2>1. proof.w \in Withdrawals
    BY <1>4 DEF ConfirmSettle, TypeOK, Inv, ConfirmInv, Proof
  <2>2. CASE Post(proof.w, "PAID") /\ wd' = [wd EXCEPT ![proof.w] = "PAID"]
             /\ wd[proof.w] = "APPROVED"
    BY <2>1, <2>2, PostMatches DEF HeldStatus
  <2> QED
    BY <1>1, <1>4, <2>2 DEF ConfirmSettle
<1> QED
  BY <1>1, <1>2, <1>3, <1>4
  DEF Next, Admin, Worker, ReviewBegin, CreateRead, CreateJob, ConfirmRead, ConfirmFound,
      ConfirmMissed, ConfirmMark, RecoverUnsent, RecoverLive, RecoverScan, RecoverSeqno,
      RecoverExpired, Rebroadcast, SubmitPick, SubmitLock, SubmitClaim, SubmitLoad,
      SubmitSave, SubmitSend, SubmitRefused, SubmitRetry, SubmitGiveUp, ProviderFails,
      Restart, Execute, Tick, vars

LEMMA InitMatches == Init => HoldMatches
<1> SUFFICES ASSUME Init PROVE HoldMatches
  OBVIOUS
<1>1. \A u \in Users : OpenOf(u) = {} /\ hold[u] = 0
  BY DEF Init, OpenOf
<1>2. \A u \in Users : Moved[u] = 0
  BY AmountAssumption DEF Init, Moved
<1>3. SumFunctionOnSet(Moved, Users) = 0
  BY <1>2, AmountAssumption, SumOfZeros
<1> QED
  BY <1>1, <1>3, SumEmpty DEF HoldMatches, Init

\* For any members, amounts and fees: a member's HOLD is what his open
\* withdrawals ask for, and the accounts a payout moves money through balance,
\* whoever settles or releases it and whatever crashes in between.
THEOREM HoldMatchesHolds == Spec => []HoldMatches
<1>1. Init => HoldMatches
  BY InitMatches
<1>2. TypeOK /\ TypeOK' /\ Inv /\ HoldMatches /\ [Next]_vars => HoldMatches'
  BY NextMatches
<1> QED
  BY <1>1, <1>2, InvHolds, PTL DEF Spec
=============================================================================
