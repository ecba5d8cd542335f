------------------------------ MODULE Payouts ------------------------------
(***************************************************************************)
(* Withdrawals and the automatic payout worker: services/withdrawals.ts,   *)
(* services/payout-worker.ts, domain/payout-outbox.ts and the routes of    *)
(* server.ts that call them, together with the TON wallet they pay from.   *)
(*                                                                         *)
(* One API process runs the worker, and the admin's requests run in the    *)
(* same process; every database statement or transaction, and every call   *)
(* to a provider, is one step.  The hold of a withdrawal moves between a   *)
(* member's AVAILABLE and HOLD ledger accounts; a payout is a message      *)
(* signed for one seqno of the hot wallet, which the chain executes at     *)
(* most once and only before its deadline.                                 *)
(***************************************************************************)
EXTENDS Integers, FiniteSets, Functions

CONSTANTS
    Users,              \* members
    Withdrawals,        \* withdrawals; one per idempotency key
    Owner, Amount,      \* the member and the gross amount of a withdrawal
    Funds,              \* what a member has available at the start
    Minimum, FeeBps,    \* economics.withdrawal of config.ts
    AutoMax,            \* AUTO_PAYOUT_MAX_USDT
    Modes,              \* values payoutAutomationReady has, one per start of the process
    AdminStatuses,      \* what the admins of this instance set
    Hashes,             \* hashes an admin enters after paying by hand
    None,
    Validity,           \* 300 s: deadline of a signed message
    StaleAfter,         \* 300 s: a SENDING job older than this was interrupted
    MaxTime,            \* bound on the clock
    MaxFaults,          \* bound on crashes and provider failures
    LastFault           \* bound on the time of the last failure

JobStatus == {"NONE", "QUEUED", "SENDING", "SUBMITTED", "MANUAL_REVIEW", "CONFIRMED"}
WithdrawalStatus == {"NONE", "REQUESTED", "REVIEWING", "APPROVED", "REJECTED", "PAID"}
Final == {"REJECTED", "PAID"}
Message == [job: Withdrawals, seqno: Nat, until: Nat]
Review == [w: Withdrawals, to: AdminStatuses, hash: Hashes \cup {None},
           wdSeen: WithdrawalStatus, jobSeen: JobStatus]
Proof == [w: Withdrawals, tx: Message, paid: BOOLEAN]
Claim == [w: Withdrawals, attempts: Nat]

Fee(w) == (Amount[w] * FeeBps) \div 10000
Net(w) == Amount[w] - Fee(w)

ASSUME AmountAssumption ==
    /\ IsFiniteSet(Withdrawals) /\ IsFiniteSet(Users)
    /\ Owner \in [Withdrawals -> Users]
    /\ Amount \in [Withdrawals -> Nat]
    /\ Funds \in [Users -> Nat]
    /\ Minimum \in Nat \ {0} /\ AutoMax \in Nat
    /\ FeeBps \in 0 .. 10000
ASSUME ModeAssumption ==
    /\ Modes \subseteq BOOLEAN
    /\ AdminStatuses \subseteq {"REVIEWING", "APPROVED", "REJECTED", "PAID"}
ASSUME TimeAssumption ==
    /\ Validity \in Nat \ {0} /\ StaleAfter \in Nat
    /\ MaxTime \in Nat /\ MaxFaults \in Nat /\ LastFault \in Nat
ASSUME NoneAssumption ==
    /\ None \notin Message \cup Hashes \cup Withdrawals
    /\ None \notin Review \cup Proof \cup Claim
    /\ Hashes \cap Message = {}

VARIABLES
    automatic,  \* payoutAutomationReady of the running process
    wd,         \* Withdrawal.status; "NONE" before the row exists
    txHash,     \* Withdrawal.txHash
    job,        \* the PayoutJob row of a withdrawal
    available, hold,    \* USER:..:USDC:AVAILABLE and HOLD of a member
    withdrawn,  \* User.totalWithdrawn, and the member's share of SYSTEM:USDC:PAYOUTS
    fees,       \* SYSTEM:USDC:FEES
    review,     \* the admin's open review transaction and what its snapshot saw
    lock,       \* holder of advisory lock 718291
    overtaken,  \* history: withdrawals rejected over a claim their review did not see
    pc,         \* where the worker's iteration is
    todo,       \* withdrawals the worker's current loop has still to visit
    proof,      \* confirmation in hand: the withdrawal, the transfer, was it PAID
    expired, resend,    \* signed messages read by recoverOutbox
    seen,       \* wallet seqno read by recoverOutbox
    cand,       \* job picked by submitQueuedJobs, and its attempts
    draft,      \* message being signed and sent by submitJob
    seqno,      \* the wallet's seqno on chain
    pool,       \* messages some validator may still include
    executed,   \* messages the wallet executed
    credited,   \* those of them whose tokens reached the recipient
    now, faults

dbVars == <<wd, txHash, job>>
ledgerVars == <<available, hold, withdrawn, fees>>
adminVars == <<review, lock, overtaken>>
workerVars == <<pc, todo, proof, expired, resend, seen, cand, draft>>
chainVars == <<seqno, pool, executed, credited>>
envVars == <<automatic, now, faults>>
vars == <<dbVars, ledgerVars, adminVars, workerVars, chainVars, envVars>>

Job == [st: JobStatus, attempts: Nat, msg: Message \cup {None},
        since: Nat, born: Nat, tx: Message \cup {None}]
NoJob == [st |-> "NONE", attempts |-> 0, msg |-> None, since |-> 0, born |-> 0, tx |-> None]

PCs == {"idle", "create", "confirm", "settle", "mark", "scan", "expired", "seqno",
        "requeue", "resend", "lock", "claim", "load", "save", "send", "retry", "giveup"}

\* A job whose signed bytes are saved.
Signed(w) == job[w].msg # None
\* Jobs with a row.
Jobs == {w \in Withdrawals : job[w].st # "NONE"}
\* A provider failure or crash may still happen in this instance.
MayFail == faults < MaxFaults /\ now <= LastFault

TypeOK ==
    /\ automatic \in BOOLEAN
    /\ wd \in [Withdrawals -> WithdrawalStatus]
    /\ txHash \in [Withdrawals -> Message \cup Hashes \cup {None}]
    /\ job \in [Withdrawals -> Job]
    /\ available \in [Users -> Nat] /\ hold \in [Users -> Int]
    /\ withdrawn \in [Users -> Int] /\ fees \in Int
    /\ review \in Review \cup {None}
    /\ lock \in {"free", "worker", "admin"}
    /\ overtaken \subseteq Withdrawals
    /\ pc \in PCs
    /\ todo \subseteq Withdrawals
    /\ proof \in Proof \cup {None}
    /\ expired \subseteq Message /\ resend \subseteq Message
    /\ seen \in Nat
    /\ cand \in Claim \cup {None}
    /\ draft \in Message \cup {None}
    /\ seqno \in Nat
    /\ pool \subseteq Message /\ executed \subseteq Message /\ credited \subseteq executed
    /\ now \in Nat /\ faults \in Nat

Init ==
    /\ automatic \in Modes
    /\ wd = [w \in Withdrawals |-> "NONE"]
    /\ txHash = [w \in Withdrawals |-> None]
    /\ job = [w \in Withdrawals |-> NoJob]
    /\ available = Funds /\ hold = [u \in Users |-> 0]
    /\ withdrawn = [u \in Users |-> 0] /\ fees = 0
    /\ review = None /\ lock = "free" /\ overtaken = {}
    /\ pc = "idle" /\ todo = {} /\ proof = None
    /\ expired = {} /\ resend = {} /\ seen = 0 /\ cand = None /\ draft = None
    /\ seqno = 0 /\ pool = {} /\ executed = {} /\ credited = {}
    /\ now = 0 /\ faults = 0

-----------------------------------------------------------------------------
(* Members and admins. *)

\* requestWithdrawal: a Serializable transaction.  A repeated key answers the
\* row it finds and changes nothing; a closed switch or an unverified wallet
\* refuses, which changes nothing either.
Request(w) ==
    LET u == Owner[w] IN
    /\ wd[w] = "NONE"
    /\ Amount[w] >= Minimum /\ available[u] >= Amount[w]
    /\ wd' = [wd EXCEPT ![w] = IF automatic /\ Amount[w] <= AutoMax
                               THEN "APPROVED" ELSE "REQUESTED"]
    /\ available' = [available EXCEPT ![u] = @ - Amount[w]]
    /\ hold' = [hold EXCEPT ![u] = @ + Amount[w]]
    /\ UNCHANGED <<txHash, job, withdrawn, fees, adminVars, workerVars, chainVars, envVars>>

\* reviewWithdrawal by an admin, first statement: taking the advisory lock is
\* also what fixes the snapshot of the Serializable transaction, so a review
\* that waits for the worker's transaction has read the rows before it.
ReviewBegin(w, to, hash) ==
    /\ review = None /\ wd[w] # "NONE"
    /\ to \in AdminStatuses
    /\ to = "PAID" => hash # None /\ ~automatic
    /\ review' = [w |-> w, to |-> to, hash |-> hash, wdSeen |-> wd[w], jobSeen |-> job[w].st]
    /\ lock' = IF lock = "free" THEN "admin" ELSE lock
    /\ UNCHANGED <<dbVars, ledgerVars, overtaken, workerVars, chainVars, envVars>>

\* Bug: the check of the payout job protects PAID only.
ReviewIgnoresJob(r) ==
    /\ r.to = "PAID" => r.jobSeen = "NONE" /\ r.wdSeen = "APPROVED"
    /\ r.hash # None => \A v \in Withdrawals \ {r.w} : txHash[v] # r.hash
    /\ r.wdSeen \notin Final
\* What reviewWithdrawal checks, in the snapshot r, before it writes; the hash
\* is unique among all rows.
ReviewAllowed(r) ==
    /\ r.to = "PAID" => r.jobSeen = "NONE" /\ r.wdSeen = "APPROVED"
    /\ r.hash # None => \A v \in Withdrawals \ {r.w} : txHash[v] # r.hash
    /\ r.to # "PAID" => r.jobSeen \in {"NONE", "QUEUED"}
    /\ r.wdSeen \notin Final

\* Bug: the gross amount is booked as paid, and the fee on top of it.
PostGross(w, to) ==
    LET u == Owner[w] IN
    /\ available' = [available EXCEPT ![u] = IF to = "REJECTED" THEN @ + Amount[w] ELSE @]
    /\ hold' = [hold EXCEPT ![u] = IF to \in Final THEN @ - Amount[w] ELSE @]
    /\ withdrawn' = [withdrawn EXCEPT ![u] = IF to = "PAID" THEN @ + Amount[w] ELSE @]
    /\ fees' = IF to = "PAID" THEN fees + Fee(w) ELSE fees
\* Postings of reviewWithdrawal: REJECTED releases the hold, PAID settles it.
Post(w, to) ==
    LET u == Owner[w] IN
    /\ available' = [available EXCEPT ![u] = IF to = "REJECTED" THEN @ + Amount[w] ELSE @]
    /\ hold' = [hold EXCEPT ![u] = IF to \in Final THEN @ - Amount[w] ELSE @]
    /\ withdrawn' = [withdrawn EXCEPT ![u] = IF to = "PAID" THEN @ + Net(w) ELSE @]
    /\ fees' = IF to = "PAID" THEN fees + Fee(w) ELSE fees

\* Statuses of a job the worker has not claimed.
Unclaimed == {"NONE", "QUEUED"}
\* The worker claimed the job while the review waited for the lock.
Overtakes(r) == r.to = "REJECTED" /\ r.jobSeen \in Unclaimed /\ job[r.w].st \notin Unclaimed

\* The rest of the transaction once it has the lock.  A row that changed since
\* the snapshot aborts it with a serialization failure; the job's row is only
\* read, so a claim of it since does not.
ReviewCommit ==
    /\ review # None /\ lock = "admin"
    /\ LET r == review
           w == r.w
       IN IF ReviewAllowed(r) /\ wd[w] = r.wdSeen
          THEN /\ Post(w, r.to)
               /\ wd' = [wd EXCEPT ![w] = r.to]
               /\ txHash' = [txHash EXCEPT ![w] = IF r.hash # None THEN r.hash ELSE @]
               /\ overtaken' = IF Overtakes(r) THEN overtaken \cup {w} ELSE overtaken
          ELSE UNCHANGED <<ledgerVars, wd, txHash, overtaken>>
    /\ review' = None /\ lock' = "free"
    /\ UNCHANGED <<job, workerVars, chainVars, envVars>>

-----------------------------------------------------------------------------
(* One worker iteration: create, confirm, recover, submit. *)

Goto(l) == pc' = l
\* Local variables that only live between two steps.
Locals == <<proof, expired, resend, seen, cand, draft>>

\* createJobsForApprovedWithdrawals reads the approved withdrawals without a job.
CreateRead ==
    /\ automatic /\ pc = "idle"
    /\ todo' = {w \in Withdrawals : wd[w] = "APPROVED" /\ job[w].st = "NONE"}
    /\ Goto("create")
    /\ UNCHANGED <<dbVars, ledgerVars, adminVars, Locals, chainVars, envVars>>

\* The upsert: it creates the job whatever the withdrawal has become.
CreateJob(w) ==
    /\ pc = "create" /\ w \in todo
    /\ todo' = todo \ {w}
    /\ job' = IF job[w].st = "NONE"
              THEN [job EXCEPT ![w] = [NoJob EXCEPT !.st = "QUEUED", !.born = Cardinality(Jobs)]]
              ELSE job
    /\ UNCHANGED <<wd, txHash, ledgerVars, adminVars, pc, Locals, chainVars, envVars>>

\* confirmSubmittedJobs reads the jobs that may have been paid.
ConfirmRead ==
    /\ pc = "create" /\ todo = {}
    /\ todo' = {w \in Jobs : \/ job[w].st = "SUBMITTED" /\ Signed(w)
                             \/ job[w].st = "MANUAL_REVIEW"}
    /\ Goto("confirm")
    /\ UNCHANGED <<dbVars, ledgerVars, adminVars, Locals, chainVars, envVars>>

\* Bug: the wallet's own transaction is taken for the transfer inside it.
TransfersExecuted(w) == {m \in executed : m.job = w}
\* A transfer of job w that the chain shows: same recipient, amount and query id.
Transfers(w) == {m \in credited : m.job = w}

\* Bug: the job is confirmed before the withdrawal is settled.
FoundMarksFirst(w) ==
    /\ pc = "confirm" /\ w \in todo
    /\ todo' = todo \ {w}
    /\ \E m \in Transfers(w) :
         /\ proof' = [w |-> w, tx |-> m, paid |-> wd[w] = "PAID"]
         /\ job' = [job EXCEPT ![w].st = "CONFIRMED", ![w].tx = m]
    /\ Goto("settle")
    /\ UNCHANGED <<wd, txHash, ledgerVars, adminVars, expired, resend, seen, cand, draft,
                   chainVars, envVars>>
\* One job: the withdrawal's row, then the chain; only the worker itself makes
\* a row with a job PAID, so nothing is lost in reading both in one step.
ConfirmFound(w) ==
    /\ pc = "confirm" /\ w \in todo
    /\ todo' = todo \ {w}
    /\ \E m \in Transfers(w) : proof' = [w |-> w, tx |-> m, paid |-> wd[w] = "PAID"]
    /\ Goto("settle")
    /\ UNCHANGED <<dbVars, ledgerVars, adminVars, expired, resend, seen, cand, draft,
                   chainVars, envVars>>

\* Nothing on chain, or a provider that does not show it yet.
ConfirmMissed(w) ==
    /\ pc = "confirm" /\ w \in todo
    /\ todo' = todo \ {w}
    /\ IF Transfers(w) = {} THEN faults' = faults ELSE MayFail /\ faults' = faults + 1
    /\ UNCHANGED <<dbVars, ledgerVars, adminVars, pc, Locals, chainVars, now, automatic>>

\* Bug: a withdrawal that is PAID already is refused like any other.
SettleOnlyApproved ==
    LET w == proof.w IN
    /\ pc = "settle" /\ lock = "free"
    /\ IF wd[w] = "APPROVED"
       THEN /\ Post(w, "PAID")
            /\ wd' = [wd EXCEPT ![w] = "PAID"]
            /\ txHash' = [txHash EXCEPT ![w] = proof.tx]
            /\ Goto("mark") /\ proof' = proof
       ELSE /\ UNCHANGED <<ledgerVars, wd, txHash>>
            /\ Goto("confirm") /\ proof' = None
    /\ UNCHANGED <<job, adminVars, todo, expired, resend, seen, cand, draft, chainVars, envVars>>
\* The worker's reviewWithdrawal(PAID), which throws unless the withdrawal is
\* APPROVED and the hash unused; a PAID one is only compared with the proof.
ConfirmSettle ==
    LET w == proof.w IN
    /\ pc = "settle" /\ (proof.paid \/ lock = "free")
    /\ IF /\ ~proof.paid
          /\ wd[w] = "APPROVED"
          /\ \A v \in Withdrawals \ {w} : txHash[v] # proof.tx
       THEN /\ Post(w, "PAID")
            /\ wd' = [wd EXCEPT ![w] = "PAID"]
            /\ txHash' = [txHash EXCEPT ![w] = proof.tx]
            /\ Goto("mark") /\ proof' = proof
       ELSE /\ UNCHANGED <<ledgerVars, wd, txHash>>
            /\ IF proof.paid /\ txHash[w] = proof.tx
               THEN Goto("mark") /\ proof' = proof
               ELSE Goto("confirm") /\ proof' = None
    /\ UNCHANGED <<job, adminVars, todo, expired, resend, seen, cand, draft, chainVars, envVars>>

\* A second statement records the proof on the job.
ConfirmMark ==
    /\ pc = "mark"
    /\ job' = [job EXCEPT ![proof.w].st = "CONFIRMED", ![proof.w].tx = proof.tx]
    /\ proof' = None /\ Goto("confirm")
    /\ UNCHANGED <<wd, txHash, ledgerVars, adminVars, todo, expired, resend, seen, cand, draft,
                   chainVars, envVars>>

\* Bug: every job in MANUAL_REVIEW is queued again, signed or not.
UnsentSigned(w) ==
    \/ job[w].st = "MANUAL_REVIEW" /\ job[w].tx = None
    \/ job[w].st = "SENDING" /\ ~Signed(w) /\ job[w].since + StaleAfter < now
\* Bug: an interrupted SENDING job is left alone.
UnsentFailed(w) == job[w].st = "MANUAL_REVIEW" /\ ~Signed(w) /\ job[w].tx = None
\* recoverOutbox, the two bulk updates: jobs whose bytes were never saved.  Only
\* the worker writes jobs that exist, so they count as one step.
Unsent(w) ==
    \/ job[w].st = "MANUAL_REVIEW" /\ ~Signed(w) /\ job[w].tx = None
    \/ job[w].st = "SENDING" /\ ~Signed(w) /\ job[w].since + StaleAfter < now
RecoverUnsent ==
    /\ pc = "confirm" /\ todo = {}
    /\ job' = [w \in Withdrawals |-> IF Unsent(w) THEN [job[w] EXCEPT !.st = "QUEUED"] ELSE job[w]]
    /\ Goto("scan")
    /\ UNCHANGED <<wd, txHash, ledgerVars, adminVars, todo, Locals, chainVars, envVars>>

\* recoverOutbox reads the messages to send again, then the expired ones.
RecoverLive ==
    /\ pc = "scan"
    /\ resend' = {job[w].msg : w \in {v \in Jobs :
                    /\ job[v].st \in {"SUBMITTED", "MANUAL_REVIEW"}
                    /\ Signed(v) /\ job[v].msg.until > now}}
    /\ Goto("expired")
    /\ UNCHANGED <<dbVars, ledgerVars, adminVars, todo, proof, expired, seen, cand, draft,
                   chainVars, envVars>>
RecoverScan ==
    /\ pc = "expired"
    /\ expired' = {job[w].msg : w \in {v \in Jobs :
                    /\ job[v].st = "SUBMITTED" /\ job[v].tx = None
                    /\ Signed(v) /\ job[v].msg.until < now}}
    /\ Goto(IF expired' = {} THEN "resend" ELSE "seqno")
    /\ UNCHANGED <<dbVars, ledgerVars, adminVars, todo, proof, resend, seen, cand, draft,
                   chainVars, envVars>>

\* Bug: the seqno of an earlier iteration is used.
RecoverStaleSeqno ==
    /\ pc = "seqno" /\ Goto("requeue")
    /\ UNCHANGED <<dbVars, ledgerVars, adminVars, todo, proof, expired, resend, seen, cand,
                   draft, chainVars, envVars>>
\* getSeqno of the hot wallet.
RecoverSeqno ==
    /\ pc = "seqno"
    /\ seen' = seqno /\ Goto("requeue")
    /\ UNCHANGED <<dbVars, ledgerVars, adminVars, todo, proof, expired, resend, cand, draft,
                   chainVars, envVars>>

\* An expired message whose seqno the wallet has not passed never ran: the job
\* goes back to the queue.  Otherwise it may have run: never signed again.
RecoverExpired(m) ==
    /\ pc = "requeue" /\ m \in expired
    /\ expired' = expired \ {m}
    /\ LET w == m.job
           j == job[w]
           ok == j.st = "SUBMITTED" /\ j.tx = None
       IN job' = IF seen <= m.seqno
                 THEN IF ok /\ Signed(w) /\ j.msg.until < now
                      THEN [job EXCEPT ![w].st = "QUEUED", ![w].msg = None] ELSE job
                 ELSE IF ok THEN [job EXCEPT ![w].st = "MANUAL_REVIEW"] ELSE job
    /\ Goto(IF expired' = {} THEN "resend" ELSE "requeue")
    /\ UNCHANGED <<wd, txHash, ledgerVars, adminVars, todo, proof, resend, seen, cand, draft,
                   chainVars, envVars>>

\* Saved bytes reach the chain, or are lost on the way.
Deliver(m) ==
    \/ pool' = pool \cup {m} /\ faults' = faults
    \/ pool' = pool /\ MayFail /\ faults' = faults + 1

\* Rebroadcast of the very same bytes, unless they expired meanwhile.
Rebroadcast(m) ==
    /\ pc = "resend" /\ m \in resend
    /\ resend' = resend \ {m}
    /\ IF m.until <= now THEN UNCHANGED <<pool, faults>> ELSE Deliver(m)
    /\ UNCHANGED <<dbVars, ledgerVars, adminVars, pc, todo, proof, expired, seen, cand, draft,
                   seqno, executed, credited, now, automatic>>

\* submitQueuedJobs reads the single oldest queued job.
Queued == {w \in Withdrawals : job[w].st = "QUEUED"}
SubmitPick ==
    /\ pc = "resend" /\ resend = {}
    /\ IF Queued = {}
       THEN Goto("idle") /\ cand' = None
       ELSE /\ Goto("lock")
            /\ \E w \in Queued :
                 /\ \A v \in Queued : job[w].born <= job[v].born
                 /\ cand' = [w |-> w, attempts |-> job[w].attempts]
    /\ UNCHANGED <<dbVars, ledgerVars, adminVars, todo, proof, expired, resend, seen, draft,
                   chainVars, envVars>>

\* pg_advisory_xact_lock(718291) in the claiming transaction.
SubmitLock ==
    /\ pc = "lock" /\ lock = "free"
    /\ lock' = "worker" /\ Goto("claim")
    /\ UNCHANGED <<dbVars, ledgerVars, review, overtaken, todo, Locals, chainVars, envVars>>

\* A job that keeps every other job from being claimed.
Unresolved(w) ==
    \/ job[w].st \in {"SENDING", "SUBMITTED"}
    \/ job[w].st = "MANUAL_REVIEW" /\ Signed(w) /\ job[w].msg.until > now

\* Bug: the withdrawal's status is not read again.
ClaimsAnyStatus(w) == (\A v \in Jobs : ~Unresolved(v)) /\ job[w].st = "QUEUED"
\* Its checks, the claim and the commit, which passes the lock to a waiting review.
Claimable(w) ==
    /\ \A v \in Jobs : ~Unresolved(v)
    /\ wd[w] = "APPROVED"
    /\ job[w].st = "QUEUED"
SubmitClaim ==
    LET w == cand.w IN
    /\ pc = "claim"
    /\ IF Claimable(w)
       THEN /\ job' = [job EXCEPT ![w].st = "SENDING", ![w].attempts = @ + 1, ![w].since = now]
            /\ cand' = [cand EXCEPT !.attempts = @ + 1]
            /\ Goto("load")
       ELSE job' = job /\ cand' = None /\ Goto("idle")
    /\ lock' = IF review # None THEN "admin" ELSE "free"
    /\ UNCHANGED <<wd, txHash, ledgerVars, review, overtaken, todo, proof, expired, resend, seen,
                   draft, chainVars, envVars>>

\* submitJob up to the signature: the wallet's seqno, then a deadline from it.
SubmitLoad ==
    /\ pc = "load"
    /\ draft' = [job |-> cand.w, seqno |-> seqno, until |-> now + Validity]
    /\ Goto("save")
    /\ UNCHANGED <<dbVars, ledgerVars, adminVars, todo, proof, expired, resend, seen, cand,
                   chainVars, envVars>>

\* The exact bytes are saved before any network submission.
SubmitSave ==
    LET w == cand.w IN
    /\ pc = "save"
    /\ IF job[w].st = "SENDING" /\ job[w].attempts = cand.attempts
       THEN /\ job' = [job EXCEPT ![w].st = "SUBMITTED", ![w].msg = draft]
            /\ Goto("send") /\ UNCHANGED <<cand, draft>>
       ELSE job' = job /\ cand' = None /\ draft' = None /\ Goto("idle")
    /\ UNCHANGED <<wd, txHash, ledgerVars, adminVars, todo, proof, expired, resend, seen,
                   chainVars, envVars>>

\* The first broadcast was accepted by a provider.
SubmitSend ==
    /\ pc = "send" /\ draft.until > now
    /\ Deliver(draft)
    /\ draft' = None /\ cand' = None /\ Goto("idle")
    /\ UNCHANGED <<dbVars, ledgerVars, adminVars, todo, proof, expired, resend, seen,
                   seqno, executed, credited, now, automatic>>

\* Every provider refused it, which does not mean that none relayed it, or the
\* message expired before it was sent.
SubmitRefused ==
    /\ pc = "send"
    /\ \/ draft.until <= now /\ UNCHANGED <<pool, faults>>
       \/ /\ draft.until > now /\ MayFail /\ faults' = faults + 1
          /\ pool' \in {pool, pool \cup {draft}}
    /\ Goto("giveup")
    /\ UNCHANGED <<dbVars, ledgerVars, adminVars, todo, Locals, seqno, executed, credited, now, automatic>>

\* The catch of submitQueuedJobs: a temporary failure goes back to the queue.
SubmitRetry ==
    LET w == cand.w IN
    /\ pc = "retry"
    /\ job' = IF job[w].st = "SENDING" THEN [job EXCEPT ![w].st = "QUEUED"] ELSE job
    /\ cand' = None /\ draft' = None /\ Goto("idle")
    /\ UNCHANGED <<wd, txHash, ledgerVars, adminVars, todo, proof, expired, resend, seen,
                   chainVars, envVars>>

\* Any other failure waits for an operator.
SubmitGiveUp ==
    LET w == cand.w IN
    /\ pc = "giveup"
    /\ job' = IF job[w].attempts = cand.attempts /\ job[w].st \in {"SENDING", "SUBMITTED"}
              THEN [job EXCEPT ![w].st = "MANUAL_REVIEW"] ELSE job
    /\ cand' = None /\ draft' = None /\ Goto("idle")
    /\ UNCHANGED <<wd, txHash, ledgerVars, adminVars, todo, proof, expired, resend, seen,
                   chainVars, envVars>>

-----------------------------------------------------------------------------
(* What fails, and the chain. *)

\* A provider call throws: getSeqno of recoverOutbox ends the iteration,
\* anything in submitJob before the save goes to its catch.
ProviderFails ==
    /\ MayFail /\ faults' = faults + 1
    /\ \/ pc = "seqno" /\ Goto("idle") /\ expired' = {} /\ resend' = {}
       \/ pc = "load" /\ pc' \in {"retry", "giveup"} /\ UNCHANGED <<expired, resend>>
    /\ UNCHANGED <<dbVars, ledgerVars, adminVars, todo, proof, seen, cand, draft, chainVars, now, automatic>>

\* The process dies and starts again, perhaps with another PAYOUT_MODE: open
\* transactions roll back, locals are gone, the rows stay.
Restart ==
    /\ MayFail /\ faults' = faults + 1
    /\ automatic' \in Modes
    /\ Goto("idle") /\ todo' = {} /\ proof' = None
    /\ expired' = {} /\ resend' = {} /\ seen' = 0 /\ cand' = None /\ draft' = None
    /\ review' = None /\ lock' = "free"
    /\ UNCHANGED <<dbVars, ledgerVars, overtaken, chainVars, now>>

\* The wallet executes a message: once per seqno, only before its deadline.
\* The transfer inside it may fail (IGNORE_ERRORS) with the seqno consumed.
Execute(m) ==
    /\ m \in pool /\ m.seqno = seqno /\ now < m.until
    /\ seqno' = seqno + 1
    /\ executed' = executed \cup {m}
    /\ \/ credited' = credited \cup {m} /\ faults' = faults
       \/ credited' = credited /\ MayFail /\ faults' = faults + 1
    /\ UNCHANGED <<dbVars, ledgerVars, adminVars, workerVars, pool, now, automatic>>

\* The clock, bounded by MaxTime; it never stops on a deadline, where a saved
\* message is neither valid nor expired.
Tick ==
    /\ now < MaxTime \/ \E w \in Withdrawals : Signed(w) /\ job[w].msg.until = now
    /\ now' = now + 1
    /\ UNCHANGED <<dbVars, ledgerVars, adminVars, workerVars, chainVars, faults, automatic>>

-----------------------------------------------------------------------------
Admin ==
    \/ \E w \in Withdrawals, to \in AdminStatuses, h \in Hashes \cup {None} : ReviewBegin(w, to, h)
    \/ ReviewCommit

Worker ==
    \/ CreateRead \/ (\E w \in Withdrawals : CreateJob(w))
    \/ ConfirmRead \/ (\E w \in Withdrawals : ConfirmFound(w))
    \/ (\E w \in Withdrawals : ConfirmMissed(w))
    \/ ConfirmSettle \/ ConfirmMark
    \/ RecoverUnsent \/ RecoverLive \/ RecoverScan \/ RecoverSeqno
    \/ (\E m \in expired : RecoverExpired(m))
    \/ (\E m \in resend : Rebroadcast(m))
    \/ SubmitPick \/ SubmitLock \/ SubmitClaim \/ SubmitLoad
    \/ SubmitSave \/ SubmitSend \/ SubmitRefused \/ SubmitRetry \/ SubmitGiveUp

Next ==
    \/ \E w \in Withdrawals : Request(w)
    \/ Admin
    \/ Worker
    \/ ProviderFails \/ Restart
    \/ \E m \in pool : Execute(m)
    \/ Tick

Spec == Init /\ [][Next]_vars

\* The worker keeps polling, an admin's open transaction ends, the clock runs
\* and a validator sooner or later includes a message it may execute.  Postgres
\* queues the waiters of a lock, so a worker that waits for it gets it.
Fairness ==
    /\ WF_vars(Worker) /\ SF_vars(SubmitLock) /\ SF_vars(ConfirmSettle)
    /\ WF_vars(ReviewCommit)
    /\ WF_vars(\E m \in pool : Execute(m)) /\ WF_vars(Tick)
FairSpec == Spec /\ Fairness

-----------------------------------------------------------------------------
(* Properties. *)

\* A withdrawal is paid on chain at most once, whatever crashes, is lost, is
\* sent twice or expires: the requirement recoverOutbox is written around.
PaidOnce == \A m, n \in credited : m.job = n.job => m = n

\* A released hold is final: the member of a REJECTED withdrawal never gets the
\* tokens as well, except by the one overlap reviewWithdrawal does not see: its
\* snapshot is older than the claim it waited for.  A review that took the lock
\* at once, a rejection before the claim or a requeued job pays nothing.
RejectedNeverPaid == \A m \in credited : wd[m.job] = "REJECTED" => m.job \in overtaken

\* "A payout is in flight or needs reconciliation; its hold cannot be released"
\* of reviewWithdrawal, with no exception: what the overlap breaks.
ReleasedNeverPaid == \A m \in credited : wd[m.job] # "REJECTED"

\* What is booked as PAID was paid once: by the very transfer the withdrawal
\* records, or by hand and then never on chain, also when PAYOUT_MODE changes
\* ("a manual transfer recorded here would be paid a second time").
PaidIsProved ==
    \A w \in Withdrawals : wd[w] = "PAID" =>
        \/ txHash[w] \in credited /\ txHash[w].job = w
        \/ txHash[w] \in Hashes /\ \A m \in credited : m.job # w

\* The ledger and the withdrawals agree: a member's HOLD is the sum of the
\* open withdrawals, and nothing is lost between the accounts a payout moves
\* money through.
OpenOf(u) ==
    {w \in Withdrawals : Owner[w] = u /\ wd[w] \in {"REQUESTED", "REVIEWING", "APPROVED"}}
Moved == [u \in Users |-> available[u] + hold[u] + withdrawn[u] - Funds[u]]
HoldMatches ==
    /\ \A u \in Users : hold[u] = SumFunctionOnSet(Amount, OpenOf(u))
    /\ SumFunctionOnSet(Moved, Users) + fees = 0

\* A confirmed job, its withdrawal and the chain tell one story.
ConfirmedAgrees ==
    \A w \in Withdrawals :
        job[w].st = "CONFIRMED" => wd[w] = "PAID" /\ txHash[w] = job[w].tx

\* Only one payout is unresolved: two messages the wallet could still execute
\* are the same message.
Live(m) == m \in pool \ executed /\ now < m.until
OneLive == \A m, n \in pool : Live(m) /\ Live(n) => m = n

\* Saved bytes are forgotten only when they never ran and never can: a message
\* that may have been sent is not signed again.
NeverResigned ==
    [][\A w \in Withdrawals :
        Signed(w) /\ job'[w].msg # job[w].msg =>
            job[w].msg \notin executed /\ job[w].msg.until < now]_vars

\* The promise to the member: the phase is the withdrawal's status, the
\* transfers are the chain's.
Phase(w) ==
    CASE wd[w] = "NONE" -> "none"
      [] wd[w] = "REJECTED" -> IF w \in overtaken THEN "overtaken" ELSE "released"
      [] wd[w] = "PAID" -> IF txHash[w] \in Hashes THEN "byHand" ELSE "settled"
      [] OTHER -> "held"
Promise == INSTANCE PayoutPromise WITH
    phase <- [w \in Withdrawals |-> Phase(w)],
    transfers <- [w \in Withdrawals |-> Transfers(w)]
\* The hold of a withdrawal is released, or transferred once and then settled,
\* or settled by hand: never two of them (withdrawals.ts and payout-worker.ts
\* together, whoever acts first).  A rejection the worker's claim overtook is a
\* phase of its own, the only one in which a release and a transfer meet, and
\* even then the transfer is the only one.
KeepsPromise == Promise!Spec

-----------------------------------------------------------------------------
(* The inductive invariant behind them. *)

\* The worker's locals only live where the code has them.
ControlInv ==
    /\ ~automatic => pc = "idle"
    /\ pc = "claim" <=> lock = "worker"
    /\ lock = "admin" => review # None
    /\ review # None =>
        review.wdSeen # "NONE" /\ (review.to = "PAID" => review.hash # None)
    /\ review # None /\ review.to = "PAID" =>
           ~automatic /\ (review.jobSeen = "NONE" => job[review.w].st = "NONE")
    /\ pc = "create" => \A w \in todo : wd[w] # "PAID"
    /\ expired # {} => pc \in {"seqno", "requeue"}
    /\ resend # {} => pc \in {"expired", "seqno", "requeue", "resend"}

\* What the worker holds in hand while it confirms, recovers and submits.
ConfirmInv ==
    pc \in {"settle", "mark"} =>
        /\ proof # None
        /\ proof.tx \in credited /\ proof.tx.job = proof.w
        /\ proof.paid => wd[proof.w] = "PAID"
        /\ pc = "mark" => wd[proof.w] = "PAID" /\ txHash[proof.w] = proof.tx
RecoverInv ==
    /\ \A m \in expired :
        /\ m.until < now /\ job[m.job].msg = m
        /\ pc = "requeue" /\ seen <= m.seqno => m \notin executed
    /\ \A m \in resend : job[m.job].msg = m \/ m.until < now
SubmitInv ==
    /\ pc \in {"lock", "claim", "load", "save", "send", "retry", "giveup"} => cand # None
    /\ pc \in {"load", "save", "retry"} => job[cand.w].st = "SENDING"
    /\ pc = "save" => draft # None /\ draft.job = cand.w
    /\ pc = "send" => draft # None /\ job[draft.job].msg = draft

\* A job keeps its bytes exactly while they may run or have run; a message it
\* forgot is dead.
MessageInv ==
    /\ \A w \in Withdrawals : Signed(w) =>
        job[w].msg.job = w /\ job[w].st \in {"SUBMITTED", "MANUAL_REVIEW", "CONFIRMED"}
    /\ \A w \in Withdrawals : job[w].st = "SUBMITTED" => Signed(w)
    /\ \A w \in Withdrawals : job[w].st = "CONFIRMED" => job[w].msg \in executed
    /\ executed \subseteq pool
    /\ \A m \in executed : job[m.job].msg = m /\ m.seqno < seqno
    /\ \A m \in pool : job[m.job].msg = m \/ m.until < now
OneUnresolved ==
    \A v, w \in Withdrawals : Unresolved(v) /\ Unresolved(w) => v = w

\* A withdrawal booked as paid by hand has no job; any other has its transfer.
PaidInv ==
    \A w \in Withdrawals : wd[w] = "PAID" =>
        \/ txHash[w] \in credited /\ txHash[w].job = w
        \/ txHash[w] \in Hashes /\ job[w].st = "NONE"

Inv ==
    /\ ControlInv /\ ConfirmInv /\ RecoverInv /\ SubmitInv
    /\ MessageInv /\ OneUnresolved /\ PaidInv /\ ConfirmedAgrees

\* A job past the queue belongs to a withdrawal that is still held or was paid,
\* or whose rejection the claim overtook.
ReviewInv ==
    /\ \A w \in Withdrawals :
        job[w].st \notin Unclaimed => wd[w] \in {"REVIEWING", "APPROVED", "PAID"} \/ w \in overtaken
    /\ \A w \in overtaken : wd[w] = "REJECTED"
=============================================================================
