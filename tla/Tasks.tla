------------------------------- MODULE Tasks -------------------------------
(***************************************************************************)
(* Tasks, organizational ranks and their claims (services/task-rewards.ts, *)
(* task-verification.ts, task-metrics.ts, ranks.ts and the task routes of  *)
(* server.ts).                                                             *)
(*                                                                         *)
(* A claim asks Telegram first, outside any transaction, about the task as *)
(* it was then (Check), and goes on in a Serializable transaction that     *)
(* reads everything else (ClaimTask).  An admin may edit or archive the    *)
(* task in between, and the member may leave the channel again.            *)
(***************************************************************************)
EXTENDS Integers, FiniteSets, FiniteSetsExt, Functions

CONSTANTS
    Members, TaskIds, Windows, None,
    FirstTask,      \* the tasks at the start
    Edits,          \* what an admin may enter for a task
    Boosters,       \* members who may buy an XP boost
    StartPool, MaxEdits, MaxDay, MaxCycles, MaxResets       \* bounds

VARIABLES
    task,       \* rows of Task; version stands for updatedAt
    claim,      \* rows of TaskClaim by member, task and claimKey
    request,    \* claims under way: what was checked and when, and if Telegram
                \* found the member in the channel
    opened,     \* TASK_LINK_OPENED events: member, task, day
    joined,     \* members of the channel
    cycles,     \* Fixed Cycles of a member
    xp,
    boosted,    \* members with a running XP boost
    usdt,       \* what a member was credited
    pool,       \* SYSTEM:USDC:REWARD
    archived,   \* settled claims whose key a reset archived: usdt and xp of each
    resets,     \* GLOBAL_PROGRESS_RESET events
    day

world == <<joined, cycles, boosted, opened, day>>
history == <<archived, resets>>
rewards == <<xp, usdt, pool>>
vars == <<task, claim, request, world, rewards, history>>

Kinds == {"CHECKIN", "CHANNEL", "CYCLES", "XP", "MANUAL"}
TaskType == [status : {"PUBLISHED", "ARCHIVED"}, kind : Kinds, target : Nat,
             rank : Nat, daily : BOOLEAN, link : BOOLEAN, reward : Nat,
             version : Nat]
Quotes == [usdt : Nat, xp : Nat, verified : BOOLEAN, settled : BOOLEAN]
Inputs == [kind : Kinds, daily : BOOLEAN, reward : Nat, rank : Nat]
ASSUME TasksAssumption ==
    /\ IsFiniteSet(TaskIds) /\ None \notin Quotes
    /\ FirstTask \in [TaskIds -> TaskType] /\ Edits \in [TaskIds -> SUBSET Inputs]
    /\ {StartPool, MaxDay, MaxCycles, MaxResets} \subseteq Nat
    /\ MaxEdits \in [TaskIds -> Nat] /\ Boosters \subseteq Members
\* rankOrder is unique: a rank belongs to one task.
ASSUME RanksAssumption ==
    \A t, other \in TaskIds :
        FirstTask[t].rank > 0 /\ FirstTask[other].rank = FirstTask[t].rank => other = t

ClaimKeys == 0 .. MaxDay \cup {MaxDay + 1}
Once == MaxDay + 1
KeyOf(t, d) == IF task[t].daily THEN d ELSE Once

----------------------------------------------------------------------------
(***************************************************************************)
(* Ranks and targets                                                       *)
(***************************************************************************)
SettledOf(u) ==
    {x \in TaskIds \X ClaimKeys :
        claim[u][x[1]][x[2]] # None /\ claim[u][x[1]][x[2]].settled}

\* Bug: any rank may be claimed at any time.
RankOpenAny(u, t) == TRUE

\* The claims of lower ranks are counted.
RankOpen(u, t) ==
    task[t].rank > 0 =>
        Cardinality({x \in SettledOf(u) : task[x[1]].rank \in 1 .. task[t].rank - 1})
            = task[t].rank - 1
TargetMet(u, t) ==
    CASE task[t].kind = "CYCLES" -> cycles[u] >= task[t].target
      [] task[t].kind = "XP" -> xp[u] >= task[t].target
      [] OTHER -> TRUE
LinkOpened(u, t, d) ==
    task[t].link =>
        \E e \in opened : /\ e[1] = u /\ e[2] = t
                          /\ task[t].daily => e[3] = d

\* What the app shows of the ranks (bootstrap): published tasks only.
NextRank(done) == done + 1
CompletedRank(u) ==
    Max({task[x[1]].rank : x \in {y \in SettledOf(u) :
                                     task[y[1]].status = "PUBLISHED"}} \cup {0})
ShownLocked(u, t) == task[t].rank > NextRank(CompletedRank(u))

----------------------------------------------------------------------------
(***************************************************************************)
(* Claiming                                                                *)
(***************************************************************************)
OpenLink(u, t) ==
    /\ task[t].status = "PUBLISHED" /\ task[t].link
    /\ opened' = opened \cup {<<u, t, day>>}
    /\ UNCHANGED <<task, claim, request, joined, cycles, boosted, day, rewards, history>>

\* The route and the calls to Telegram.
Check(s, u, t) ==
    /\ request[s] = None /\ task[t].status = "PUBLISHED"
    /\ task[t].kind = "CHANNEL" => u \in joined
    /\ request' = [request EXCEPT ![s] =
           [member |-> u, task |-> t, version |-> task[t].version, day |-> day,
            found |-> task[t].kind = "CHANNEL"]]
    /\ UNCHANGED <<task, claim, world, rewards, history>>

\* Bug: the task is claimed as it is now, whatever was checked.
SameTaskAlways(q) == TRUE

SameTask(q) == task[q.task].version = q.version
Funded(c) == pool >= c.usdt
Settle(u, t, key, c) ==
    /\ Funded(c)
    /\ claim' = [claim EXCEPT ![u][t][key] =
                     [c EXCEPT !.verified = TRUE, !.settled = TRUE]]
    /\ usdt' = [usdt EXCEPT ![u] = @ + c.usdt] /\ pool' = pool - c.usdt
    /\ xp' = [xp EXCEPT ![u] = @ + c.xp]
Quote(u, t) ==
    [usdt |-> task[t].reward, xp |-> IF u \in boosted THEN 2 ELSE 1,
     verified |-> FALSE, settled |-> FALSE]

\* An earlier claim keeps its quote; it is settled by the claim only if the
\* task's kind verifies it.
ClaimTask(s) ==
    LET q == request[s]
        u == q.member
        t == q.task
        key == KeyOf(t, q.day)
        earlier == claim[u][t][key]
        c == IF earlier = None THEN Quote(u, t) ELSE earlier
    IN  /\ q # None /\ SameTask(q) /\ task[t].status = "PUBLISHED"
        /\ RankOpen(u, t)
        /\ earlier # None => ~earlier.settled
        /\ LinkOpened(u, t, q.day) /\ TargetMet(u, t)
        /\ request' = [request EXCEPT ![s] = None]
        /\ \/ /\ task[t].kind # "MANUAL"
              /\ Settle(u, t, key, c)
           \/ /\ task[t].kind = "MANUAL"
              /\ claim' = [claim EXCEPT ![u][t][key] = c]
              /\ UNCHANGED rewards
        /\ UNCHANGED <<task, world, history>>

\* Refused, aborted or settled before: nothing is written.
Refuse(s) ==
    /\ request[s] # None
    /\ request' = [request EXCEPT ![s] = None]
    /\ UNCHANGED <<task, claim, world, rewards, history>>

\* Bug: a claim may be approved again.
ApprovableAgain(c) == c # None

Approvable(c) == c # None /\ ~c.settled
ApproveTaskClaim(u, t, key) ==
    /\ Approvable(claim[u][t][key])
    /\ Settle(u, t, key, claim[u][t][key])
    /\ UNCHANGED <<task, request, world, history>>

----------------------------------------------------------------------------
(***************************************************************************)
(* Administration, and the world                                           *)
(***************************************************************************)
RankFree(t, n) == n > 0 => \A other \in TaskIds \ {t} : task[other].rank # n
EditTask(t, entry) ==
    /\ task[t].version < MaxEdits[t]
    /\ entry.rank > 0 => entry.kind = "CYCLES"
    /\ RankFree(t, entry.rank)
    /\ task' = [task EXCEPT
           ![t].kind = entry.kind, ![t].daily = entry.daily, ![t].reward = entry.reward,
           ![t].rank = entry.rank, ![t].version = @ + 1, ![t].status = "PUBLISHED"]
    /\ UNCHANGED <<claim, request, world, rewards, history>>
ArchiveTask(t) ==
    /\ task[t].version < MaxEdits[t] /\ task[t].status # "ARCHIVED"
    /\ task' = [task EXCEPT ![t].status = "ARCHIVED", ![t].version = @ + 1]
    /\ UNCHANGED <<claim, request, world, rewards, history>>

\* resetProgress: nothing may be pending; rank claims stay, "they ARE the user's
\* level".
Kept(t) == task[t].rank > 0
Quoted(u, X) ==
    [usdt |-> SumFunctionOnSet([x \in X |-> claim[u][x[1]][x[2]].usdt], X),
     xp |-> SumFunctionOnSet([x \in X |-> claim[u][x[1]][x[2]].xp], X)]
ResetProgress ==
    /\ resets < MaxResets /\ resets' = resets + 1
    /\ \A u \in Members, t \in TaskIds, k \in ClaimKeys :
           claim[u][t][k] # None => claim[u][t][k].settled
    /\ claim' = [u \in Members |-> [t \in TaskIds |->
                   IF Kept(t) THEN claim[u][t] ELSE [k \in ClaimKeys |-> None]]]
    /\ archived' = [u \in Members |->
           LET gone == Quoted(u, {x \in SettledOf(u) : ~Kept(x[1])})
           IN  [usdt |-> archived[u].usdt + gone.usdt, xp |-> archived[u].xp + gone.xp]]
    /\ UNCHANGED <<task, request, world, rewards>>

JoinOrLeave(u) ==
    /\ joined' = IF u \in joined THEN joined \ {u} ELSE joined \cup {u}
    /\ UNCHANGED <<task, claim, request, cycles, boosted, opened, day, rewards, history>>
Cycle(u) ==
    /\ cycles[u] < MaxCycles /\ cycles' = [cycles EXCEPT ![u] = @ + 1]
    /\ UNCHANGED <<task, claim, request, joined, boosted, opened, day, rewards, history>>
BoostChanges(u) ==
    /\ u \in Boosters
    /\ boosted' = IF u \in boosted THEN boosted \ {u} ELSE boosted \cup {u}
    /\ UNCHANGED <<task, claim, request, joined, cycles, opened, day, rewards, history>>
Noon ==
    /\ day < MaxDay /\ day' = day + 1
    /\ UNCHANGED <<task, claim, request, joined, cycles, boosted, opened, rewards, history>>

Init ==
    /\ task = FirstTask
    /\ claim = [u \in Members |-> [t \in TaskIds |-> [k \in ClaimKeys |-> None]]]
    /\ request = [s \in Windows |-> None]
    /\ opened = {} /\ joined = {} /\ boosted = {} /\ day = 0
    /\ cycles = [u \in Members |-> 0] /\ xp = [u \in Members |-> 0]
    /\ usdt = [u \in Members |-> 0] /\ pool = StartPool
    /\ archived = [u \in Members |-> [usdt |-> 0, xp |-> 0]] /\ resets = 0

Claiming ==
    \/ \E s \in Windows : \/ \E u \in Members, t \in TaskIds : Check(s, u, t)
                          \/ ClaimTask(s) \/ Refuse(s)
    \/ \E u \in Members, t \in TaskIds :
           \/ OpenLink(u, t)
           \/ \E key \in ClaimKeys : ApproveTaskClaim(u, t, key)
Administration ==
    \/ \E t \in TaskIds :
           \/ \E entry \in Edits[t] : EditTask(t, entry)
           \/ ArchiveTask(t)
    \/ ResetProgress
World == Noon \/ \E u \in Members : JoinOrLeave(u) \/ Cycle(u) \/ BoostChanges(u)
Next == Claiming \/ Administration \/ World
Spec == Init /\ [][Next]_vars

----------------------------------------------------------------------------
(***************************************************************************)
(* Properties                                                              *)
(***************************************************************************)
\* Every row has its type, and the reward pool is never overdrawn: a claim
\* that the pool cannot pay writes nothing.
TypeOK ==
    /\ task \in [TaskIds -> TaskType]
    /\ \A u \in Members, t \in TaskIds, k \in ClaimKeys :
           claim[u][t][k] = None \/ claim[u][t][k] \in Quotes
    /\ \A s \in Windows : request[s] = None \/ request[s] \in
           [member : Members, task : TaskIds, version : Nat, day : Nat, found : BOOLEAN]
    /\ opened \subseteq Members \X TaskIds \X (0 .. MaxDay)
    /\ joined \subseteq Members /\ boosted \subseteq Members
    /\ cycles \in [Members -> Nat] /\ xp \in [Members -> Nat]
    /\ usdt \in [Members -> Nat] /\ pool \in Nat /\ day \in 0 .. MaxDay
    /\ archived \in [Members -> [usdt : Nat, xp : Nat]] /\ resets \in 0 .. MaxResets

\* "All three assets commit or roll back together": what a member was credited
\* is what his settled claims were quoted, each of them once, although claims
\* in two windows and approvals overlap, admins change the reward and a reset
\* archives the claims; and the pool is never overdrawn.
PaidAsQuoted ==
    /\ TypeOK
    /\ \A u \in Members :
        /\ usdt[u] = archived[u].usdt + Quoted(u, SettledOf(u)).usdt
        /\ xp[u] = archived[u].xp + Quoted(u, SettledOf(u)).xp

\* "Nothing is credited until verified": a claim of a channel task is settled by a
\* member's call only if Telegram found him in the channel during that call, although
\* an admin may turn another kind of task into a channel task between the call to
\* Telegram, or the lack of one, and the transaction.
SettledAsChecked ==
    [][\A s \in Windows : request[s] # None /\ request'[s] = None =>
           LET q == request[s]
           IN  task[q.task].kind = "CHANNEL" /\ claim' # claim => q.found]_vars

\* "Complete the previous organizational rank first." (task-rewards.ts:142) although
\* the check counts claims of lower ranks while admins move, remove, archive and
\* restore ranks: a member's call puts down a claim of a rank only if he holds
\* every rank below it, and if those are published the app, which asks otherwise,
\* showed the rank unlocked.  The count means this only for a member with at most
\* one settled claim of each lower rank: nothing keeps an admin from making a rank
\* daily, and two days of the first rank then stand for the second.
LowerHeld(u, n) == {x \in SettledOf(u) : task[x[1]].rank \in 1 .. n - 1}
EachOnce(X) == \A x, y \in X : x[1] = y[1] => x = y
RanksInOrder ==
    [][\A s \in Windows : request[s] # None /\ request'[s] = None /\ claim' # claim =>
           LET u == request[s].member
               t == request[s].task
               held == LowerHeld(u, task[t].rank)
           IN  EachOnce(held) =>
                   /\ \A n \in 1 .. task[t].rank - 1 :
                          \E x \in held : task[x[1]].rank = n
                   /\ (\A x \in held : task[x[1]].status = "PUBLISHED")
                          => ~ShownLocked(u, t)]_vars
=============================================================================
