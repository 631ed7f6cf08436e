------------------------------ MODULE Ledger -------------------------------
(***************************************************************************)
(* The money of the farm: deposits and withdrawals (handlers_wallet.go),   *)
(* the charge for an upload (handlers_jobs.go), and the scheduler's balance*)
(* check, penalties and rewards (balance.go).                              *)
(*                                                                         *)
(* Every change of a balance is a SQL transaction of changeUserBalance or  *)
(* transferUserBalance.  Txs are the database sessions that run them, one  *)
(* statement at a time: an UPDATE of a users row takes the row's lock and  *)
(* keeps it to the end, a reader (the balance check, the guard of a later  *)
(* UPDATE) sees committed balances.  A failed statement, a timeout or the  *)
(* database's deadlock detector rolls the transaction back.                *)
(*                                                                         *)
(* The scheduler is reduced to what decides who pays whom: which worker    *)
(* has a shard, and verdicts that are good or bad.  Every verified shard   *)
(* of a job is rewarded, each with the whole reward of the job.  Scheduler *)
(* has the rest.                                                           *)
(***************************************************************************)
EXTENDS Integers, FiniteSets, Functions

CONSTANTS
    Users, Workers, Jobs, Shards,
    Txs,             \* database sessions
    Nobody,
    UserOf,          \* [Workers -> Users]: owner of the connection's API token
    ClientOf,        \* [Jobs -> Users]: jobs.user_id
    JobOf,           \* [Shards -> Jobs]: job_shards.job_id
    SatShards,       \* the shards whose verified result decides their job
    SizeOf,          \* [Jobs -> Nat]: bytes of the upload
    VarsOf, ClausesOf, \* the "p cnf" header of the job's file
    depositSatc, withdrawSatc, perKB,
    workerPenaltySatc, rewardPerVarSatc, rewardPerClauseSatc,
    MaxWallet,       \* bound: deposits and withdrawals started
    MaxBad,          \* bound: results that fail verification
    MaxFaults        \* bound: statements that fail or time out

ASSUME LedgerAssumption ==
    /\ IsFiniteSet(Users) /\ IsFiniteSet(Shards)
    /\ Nobody \notin Users \cup Workers \cup Txs
    /\ UserOf \in [Workers -> Users] /\ ClientOf \in [Jobs -> Users]
    /\ JobOf \in [Shards -> Jobs] /\ SatShards \subseteq Shards
    /\ SizeOf \in [Jobs -> Nat] /\ ClausesOf \in [Jobs -> Nat]
    /\ VarsOf \in [Jobs -> Nat \ {0}]
    /\ depositSatc \in Nat \ {0} /\ withdrawSatc \in Nat \ {0} /\ perKB \in Nat
    /\ workerPenaltySatc \in Nat \ {0}
    /\ rewardPerVarSatc \in Nat \ {0} /\ rewardPerClauseSatc \in Nat
    /\ MaxWallet \in Nat /\ MaxBad \in Nat /\ MaxFaults \in Nat

VARIABLES
    \* committed database state
    balance,   \* [Users -> Int]: users.balance_satc
    booked,    \* [Users -> Int]: sum of the user's rows in transactions
    \* open transactions
    st,        \* [Txs -> the next statement, "idle" when there is none]
    op,        \* [Txs -> what the transaction does and for whom]
    upd,       \* [Txs -> [Users -> Int]]: its uncommitted UPDATEs of users
    ins,       \* [Txs -> [Users -> Int]]: its uncommitted INSERTs, by user
    lock,      \* [Users -> Txs or Nobody]: holder of the users row's lock
    \* jobs and workers
    stage,     \* [Jobs -> where the upload is, until the job is in the farm]
    shard,     \* [Shards -> where the shard is, from its job's INSERT to its verdict]
    lease,     \* [Shards -> Workers or Nobody]: worker that has the shard, or had it last
    reward,    \* [Shards -> "none", "due", "paying", "paid" or "lost"]
    online,    \* worker connections in the registry
    \* history and bounds
    moved,     \* [Kinds -> Nat]: committed amounts by reason
    fees,      \* [Jobs -> Nat]: committed 'upload_cnf' rows of a job
    wallet, bad, faults

dbVars   == <<balance, booked>>
txVars   == <<st, op, upd, ins, lock>>
farmVars == <<stage, shard, lease, reward, online>>
histVars == <<moved, fees, wallet, bad, faults>>
vars == <<dbVars, txVars, farmVars, histVars>>

Kinds == {"deposit", "withdraw", "upload_cnf", "worker_penalty", "worker_reward"}

(* uploadCostSatc: ceil(size * perKB / 1024).                              *)
UploadCost(size) == IF size <= 0 THEN 0 ELSE (size * perKB + 1023) \div 1024

RewardFor(j) == VarsOf[j] * rewardPerVarSatc + ClausesOf[j] * rewardPerClauseSatc

minWorkerBalanceSatc == workerPenaltySatc

Zero == [u \in Users |-> 0]
NoOp == [kind |-> "none", about |-> Nobody, from |-> Nobody, to |-> Nobody, amount |-> 0]

(* changeUserBalance debits when delta < 0 and credits otherwise, so that  *)
(* a free upload is booked as a credit of 0.  x is the job or the shard the *)
(* change is about.                                                        *)
MutSigned(kind, x, u, delta) ==
    [kind |-> kind, about |-> x, from |-> Nobody, to |-> u, amount |-> delta]

Change(kind, x, u, delta) ==
    IF delta < 0
    THEN [kind |-> kind, about |-> x, from |-> u, to |-> Nobody, amount |-> -delta]
    ELSE [kind |-> kind, about |-> x, from |-> Nobody, to |-> u, amount |-> delta]

Transfer(kind, x, from, to, amount) ==
    [kind |-> kind, about |-> x, from |-> from, to |-> to, amount |-> amount]

Init ==
    /\ balance = Zero /\ booked = Zero
    /\ st = [t \in Txs |-> "idle"] /\ op = [t \in Txs |-> NoOp]
    /\ upd = [t \in Txs |-> Zero] /\ ins = [t \in Txs |-> Zero]
    /\ lock = [u \in Users |-> Nobody]
    /\ stage = [j \in Jobs |-> "new"] /\ shard = [s \in Shards |-> "none"]
    /\ lease = [s \in Shards |-> Nobody] /\ reward = [s \in Shards |-> "none"]
    /\ online = Workers
    /\ moved = [k \in Kinds |-> 0] /\ fees = [j \in Jobs |-> 0]
    /\ wallet = 0 /\ bad = 0 /\ faults = 0

---------------------------------------------------------------------------
(* One SQL transaction.                                                    *)

Begin(t, o) ==
    /\ st[t] = "idle"
    /\ st' = [st EXCEPT ![t] = IF o.from = Nobody THEN "credit" ELSE "debit"]
    /\ op' = [op EXCEPT ![t] = o]
    /\ UNCHANGED <<upd, ins, lock>>

(* An UPDATE waits for the row's lock; a second UPDATE of a row the        *)
(* transaction has locked does not.                                        *)
Available(t, u) == lock[u] \in {Nobody, t}

(* WHERE balance_satc >= amount, on the row's current version.             *)
MutAnyBalance(t) == TRUE
Covered(t) == balance[op[t].from] + upd[t][op[t].from] >= op[t].amount

Write(t, u, delta, next) ==
    /\ Available(t, u)
    /\ lock' = [lock EXCEPT ![u] = t]
    /\ upd' = [upd EXCEPT ![t][u] = @ + delta]
    /\ st' = [st EXCEPT ![t] = next]
    /\ UNCHANGED <<op, ins>>

Debit(t) ==
    /\ st[t] = "debit" /\ Covered(t)
    /\ Write(t, op[t].from, -op[t].amount, IF op[t].to = Nobody THEN "insert" ELSE "credit")
    /\ UNCHANGED <<dbVars, farmVars, histVars>>

Credit(t) ==
    /\ st[t] = "credit"
    /\ Write(t, op[t].to, op[t].amount, "insert")
    /\ UNCHANGED <<dbVars, farmVars, histVars>>

(* The rows of transactions: one for each side that there is.              *)
MutDebitRowOnly(o) == [u \in Users |-> IF u = o.from THEN -o.amount ELSE 0]
Entries(o) ==
    [u \in Users |-> (IF u = o.to THEN o.amount ELSE 0) - (IF u = o.from THEN o.amount ELSE 0)]

InsertRows(t) ==
    /\ st[t] = "insert"
    /\ ins' = [ins EXCEPT ![t] = Entries(op[t])]
    /\ st' = [st EXCEPT ![t] = "commit"]
    /\ UNCHANGED <<dbVars, op, upd, lock, farmVars, histVars>>

(* Commit, or the deferred Rollback every return passes, ends the session *)
(* and frees its rows.                                                     *)
MutKeepLocks(t) == lock
Released(t) == [u \in Users |-> IF lock[u] = t THEN Nobody ELSE lock[u]]

End(t) ==
    /\ st' = [st EXCEPT ![t] = "idle"] /\ op' = [op EXCEPT ![t] = NoOp]
    /\ upd' = [upd EXCEPT ![t] = Zero] /\ ins' = [ins EXCEPT ![t] = Zero]
    /\ lock' = Released(t)

(* What the caller does with the outcome.  An upload is rejected unless    *)
(* it is charged; a penalty is followed by ReenqueueShard whatever became  *)
(* of it; a reward that fails is a log line.                               *)
MutChargeIgnored(ok) == "charged"
Billed(ok) == IF ok THEN "charged" ELSE "rejected"

MutPaidAnyway(o, ok) ==
    /\ stage' = IF o.kind = "upload_cnf" THEN [stage EXCEPT ![o.about] = Billed(ok)] ELSE stage
    /\ shard' = IF o.kind = "worker_penalty" THEN [shard EXCEPT ![o.about] = "queued"]
                ELSE shard
    /\ lease' = IF o.kind = "worker_penalty" THEN [lease EXCEPT ![o.about] = Nobody]
                ELSE lease
    /\ reward' = IF o.kind = "worker_reward" THEN [reward EXCEPT ![o.about] = "paid"] ELSE reward
    /\ UNCHANGED online

Continue(o, ok) ==
    /\ stage' = IF o.kind = "upload_cnf" THEN [stage EXCEPT ![o.about] = Billed(ok)] ELSE stage
    /\ shard' = IF o.kind = "worker_penalty" THEN [shard EXCEPT ![o.about] = "queued"]
                ELSE shard
    /\ lease' = IF o.kind = "worker_penalty" THEN [lease EXCEPT ![o.about] = Nobody]
                ELSE lease
    /\ reward' = IF o.kind = "worker_reward"
                 THEN [reward EXCEPT ![o.about] = IF ok THEN "paid" ELSE "lost"]
                 ELSE reward
    /\ UNCHANGED online

MutLostUpdate(t, u) == upd[t][u]
NewBalance(t, u) == balance[u] + upd[t][u]

Commit(t) ==
    LET o == op[t] IN
    /\ st[t] = "commit"
    /\ balance' = [u \in Users |-> NewBalance(t, u)]
    /\ booked' = [u \in Users |-> booked[u] + ins[t][u]]
    /\ moved' = [moved EXCEPT ![o.kind] = @ + o.amount]
    /\ fees' = IF o.kind = "upload_cnf" THEN [fees EXCEPT ![o.about] = @ + 1] ELSE fees
    /\ End(t) /\ Continue(o, TRUE)
    /\ UNCHANGED <<wallet, bad, faults>>

(* RowsAffected is 0, whoever may have the row locked.                     *)
Insufficient(t) ==
    /\ st[t] = "debit" /\ ~Covered(t)
    /\ End(t) /\ Continue(op[t], FALSE)
    /\ UNCHANGED <<dbVars, histVars>>

(* A statement or the Commit fails, or the context of 5s or 10s runs out.  *)
TxFails(t) ==
    /\ st[t] # "idle"
    /\ faults < MaxFaults /\ faults' = faults + 1
    /\ End(t) /\ Continue(op[t], FALSE)
    /\ UNCHANGED <<dbVars, moved, fees, wallet, bad>>

(* Two transfers in opposite directions wait for each other: the database  *)
(* rolls one of them back.                                                 *)
Blocked(t, d) == st[t] = "credit" /\ lock[op[t].to] = d

DeadlockVictim(t) ==
    /\ \E d \in Txs \ {t} : Blocked(t, d) /\ Blocked(d, t)
    /\ End(t) /\ Continue(op[t], FALSE)
    /\ UNCHANGED <<dbVars, histVars>>

---------------------------------------------------------------------------
(* The web handlers.                                                       *)

HandleDeposit(t, u) ==
    /\ wallet < MaxWallet /\ wallet' = wallet + 1
    /\ Begin(t, Change("deposit", Nobody, u, depositSatc))
    /\ UNCHANGED <<dbVars, farmVars, moved, fees, bad, faults>>

HandleWithdraw(t, u) ==
    /\ wallet < MaxWallet /\ wallet' = wallet + 1
    /\ Begin(t, Change("withdraw", Nobody, u, -withdrawSatc))
    /\ UNCHANGED <<dbVars, farmVars, moved, fees, bad, faults>>

(* HandleCreateJob charges first ...                                       *)
HandleCreateJob(t, j) ==
    /\ stage[j] = "new"
    /\ stage' = [stage EXCEPT ![j] = "billing"]
    /\ Begin(t, Change("upload_cnf", j, ClientOf[j], -UploadCost(SizeOf[j])))
    /\ UNCHANGED <<dbVars, shard, lease, reward, online, histVars>>

(* ... inserts the job in a transaction of its own and enqueues its shards *)
(* ...                                                                     *)
InsertJob(j) ==
    /\ stage[j] = "charged"
    /\ stage' = [stage EXCEPT ![j] = "farmed"]
    /\ shard' = [s \in Shards |-> IF JobOf[s] = j THEN "queued" ELSE shard[s]]
    /\ UNCHANGED <<dbVars, txVars, lease, reward, online, histVars>>

(* ... and when that transaction fails, keeps the money.                   *)
InsertJobFails(j) ==
    /\ stage[j] = "charged"
    /\ faults < MaxFaults /\ faults' = faults + 1
    /\ stage' = [stage EXCEPT ![j] = "dropped"]
    /\ UNCHANGED <<dbVars, txVars, shard, lease, reward, online, moved, fees, wallet, bad>>

---------------------------------------------------------------------------
(* The scheduler.                                                          *)

HasMinBalance(w) == balance[UserOf[w]] >= minWorkerBalanceSatc

Has(w, s, places) == shard[s] \in places /\ lease[s] = w

(* completedJobs, set when a model is stored.                              *)
HasModel(j) == \E s \in SatShards : JobOf[s] = j /\ shard[s] = "done"

MaybeAssignWork(w, s) ==
    /\ w \in online /\ \A q \in Shards : ~Has(w, q, {"running"})
    /\ shard[s] = "queued" /\ ~HasModel(JobOf[s]) /\ HasMinBalance(w)
    /\ shard' = [shard EXCEPT ![s] = "running"]
    /\ lease' = [lease EXCEPT ![s] = w]
    /\ UNCHANGED <<dbVars, txVars, stage, reward, online, histVars>>

(* HandleJobResult, verified: every such shard, SAT or UNSAT, the first of *)
(* its job or not, gets a reward, in a goroutine of its own.               *)
GoodResult(w, s) ==
    /\ w \in online /\ Has(w, s, {"running"})
    /\ shard' = [shard EXCEPT ![s] = "done"]
    /\ reward' = [reward EXCEPT ![s] = "due"]
    /\ UNCHANGED <<dbVars, txVars, stage, lease, online, histVars>>

(* penalizeWorker, for the user the shard was assigned to.                 *)
BadResult(t, w, s) ==
    /\ w \in online /\ Has(w, s, {"running"})
    /\ bad < MaxBad /\ bad' = bad + 1
    /\ shard' = [shard EXCEPT ![s] = "judging"]
    /\ Begin(t, Change("worker_penalty", s, UserOf[w], -workerPenaltySatc))
    /\ UNCHANGED <<dbVars, stage, lease, reward, online, moved, fees, wallet, faults>>

(* The connection ends; a handler that still runs delays that.             *)
Disconnect(w) ==
    /\ w \in online /\ \A s \in Shards : ~Has(w, s, {"judging"})
    /\ online' = online \ {w}
    /\ shard' = [s \in Shards |-> IF Has(w, s, {"running"}) THEN "queued" ELSE shard[s]]
    /\ lease' = [s \in Shards |-> IF Has(w, s, {"running"}) THEN Nobody ELSE lease[s]]
    /\ UNCHANGED <<dbVars, txVars, stage, reward, histVars>>

(* rewardWorkerForJob: the amount is that of the job's header, whatever    *)
(* other shards of the job were paid; getWorkerUserID needs the connection.*)
RewardWorkerForJob(t, s) ==
    LET j == JobOf[s] IN
    /\ reward[s] = "due" /\ lease[s] \in online
    /\ reward' = [reward EXCEPT ![s] = "paying"]
    /\ Begin(t, Transfer("worker_reward", s, ClientOf[j], UserOf[lease[s]], RewardFor(j)))
    /\ UNCHANGED <<dbVars, stage, shard, lease, online, histVars>>

NoWorkerConn(s) ==
    /\ reward[s] = "due" /\ lease[s] \notin online
    /\ reward' = [reward EXCEPT ![s] = "lost"]
    /\ UNCHANGED <<dbVars, txVars, stage, shard, lease, online, histVars>>

---------------------------------------------------------------------------
Statement(t) == Debit(t) \/ Credit(t) \/ InsertRows(t) \/ Commit(t) \/ Insufficient(t)

Payout(s) == NoWorkerConn(s) \/ \E t \in Txs : RewardWorkerForJob(t, s)

Next ==
    \/ \E t \in Txs :
          \/ Statement(t) \/ TxFails(t) \/ DeadlockVictim(t)
          \/ \E u \in Users : HandleDeposit(t, u) \/ HandleWithdraw(t, u)
          \/ \E j \in Jobs : HandleCreateJob(t, j)
          \/ \E w \in Workers, s \in Shards : BadResult(t, w, s)
    \/ \E j \in Jobs : InsertJob(j) \/ InsertJobFails(j)
    \/ \E s \in Shards :
          \/ Payout(s)
          \/ \E w \in Workers : MaybeAssignWork(w, s) \/ GoodResult(w, s)
    \/ \E w \in Workers : Disconnect(w)

Spec == Init /\ [][Next]_vars

(* Statements that can run do, deadlocks are found, and the goroutine that *)
(* pays a reward runs.  Nobody has to deposit, submit, solve or stay.      *)
Fairness ==
    /\ \A t \in Txs : WF_vars(Statement(t)) /\ WF_vars(DeadlockVictim(t))
    /\ \A s \in Shards : WF_vars(Payout(s))

FairSpec == Spec /\ Fairness
---------------------------------------------------------------------------
(* Correctness.                                                            *)

Ops ==
    [kind : Kinds \cup {"none"}, about : Jobs \cup Shards \cup {Nobody},
     from : Users \cup {Nobody}, to : Users \cup {Nobody}, amount : Nat]

(* Every variable has its type.                                            *)
TypeOK ==
    /\ balance \in [Users -> Int] /\ booked \in [Users -> Int]
    /\ st \in [Txs -> {"idle", "debit", "credit", "insert", "commit"}]
    /\ op \in [Txs -> Ops]
    /\ upd \in [Txs -> [Users -> Int]] /\ ins \in [Txs -> [Users -> Int]]
    /\ lock \in [Users -> Txs \cup {Nobody}]
    /\ stage \in [Jobs -> {"new", "billing", "charged", "rejected", "dropped", "farmed"}]
    /\ shard \in [Shards -> {"none", "queued", "running", "judging", "done"}]
    /\ lease \in [Shards -> Workers \cup {Nobody}]
    /\ reward \in [Shards -> {"none", "due", "paying", "paid", "lost"}]
    /\ online \subseteq Workers
    /\ moved \in [Kinds -> Nat] /\ fees \in [Jobs -> Nat]
    /\ wallet \in Nat /\ bad \in Nat /\ faults \in Nat

(* No account is overdrawn, however the debits of several uploads,         *)
(* withdrawals, penalties and rewards of one user interleave.              *)
NoOverdraft == \A u \in Users : balance[u] >= 0

(* The amounts Ledger ever moves.                                          *)
MovedAmounts ==
    {depositSatc, withdrawSatc, workerPenaltySatc}
        \cup {UploadCost(SizeOf[j]) : j \in Jobs} \cup {RewardFor(j) : j \in Jobs}

(* The statement-by-statement transactions implement one atomic posting    *)
(* each: a committed change is covered at that moment, both sides of a     *)
(* transfer change together, and the rows say the same as the balances.    *)
Abstract == INSTANCE Bank WITH Amounts <- MovedAmounts
ImplementsBank == Abstract!Spec

(* A job is in the farm exactly when its upload has been charged, and      *)
(* charged once; only a failed INSERT of the job keeps a fee for nothing.  *)
(* No shard is worked on before that.                                      *)
FeeForJob ==
    /\ \A j \in Jobs :
          fees[j] = IF stage[j] \in {"new", "billing", "rejected"} THEN 0 ELSE 1
    /\ \A s \in Shards : shard[s] # "none" => stage[JobOf[s]] = "farmed"

(* Money comes from deposits only and leaves by withdrawals, fees and      *)
(* penalties only: rewards move it from client to worker.                  *)
Conserved ==
    SumFunctionOnSet(balance, Users) =
        moved["deposit"] - moved["withdraw"] - moved["upload_cnf"] - moved["worker_penalty"]

(* The rewards booked are those of the shards whose reward the scheduler   *)
(* takes for paid, each shard once and with the whole reward of its job,   *)
(* whatever became of the transactions.  (So a job of k verified shards    *)
(* may book k rewards.)                                                    *)
RewardsBooked ==
    moved["worker_reward"] =
        SumFunctionOnSet([s \in Shards |-> IF reward[s] = "paid" THEN RewardFor(JobOf[s]) ELSE 0],
                         Shards)

(* Every transaction ends, no session waits for a row for ever, and a      *)
(* verified result is in the end rewarded or the reward is given up.       *)
MoneySettles ==
    /\ \A t \in Txs : st[t] # "idle" ~> st[t] = "idle"
    /\ \A s \in Shards : reward[s] = "due" ~> reward[s] \in {"paid", "lost"}

---------------------------------------------------------------------------
(* What makes them inductive.                                              *)

(* What a session may be doing: a change of one user's balance or a        *)
(* transfer, of an amount the farm moves.                                  *)
GoodOp(o) ==
    /\ o \in Ops /\ o.kind \in Kinds /\ o.amount \in MovedAmounts
    /\ o.from = Nobody => o.to \in Users
    /\ o.kind = "upload_cnf" => o.about \in Jobs
    /\ o.kind \in {"worker_penalty", "worker_reward"} => o.about \in Shards

(* What a session has updated when it is at a statement, and all else it   *)
(* has done by then.                                                       *)
Done(s, o) ==
    CASE s = "credit" -> Entries([o EXCEPT !.to = Nobody])
      [] s \in {"insert", "commit"} -> Entries(o)
      [] OTHER -> Zero

Session(t) ==
    /\ st[t] # "idle" => GoodOp(op[t])
    /\ st[t] = "debit" => op[t].from \in Users
    /\ st[t] = "credit" => op[t].to \in Users
    /\ upd[t] = Done(st[t], op[t])
    /\ ins[t] = IF st[t] = "commit" THEN Entries(op[t]) ELSE Zero
    /\ st[t] \in {"credit", "insert", "commit"} /\ op[t].from \in Users =>
          lock[op[t].from] = t /\ balance[op[t].from] >= op[t].amount
    /\ st[t] \in {"insert", "commit"} /\ op[t].to \in Users => lock[op[t].to] = t

TxInv == \A t \in Txs : Session(t)

(* What kind of transaction a session runs, and for which job or shard.    *)
Runs(t, kind, x) == st[t] # "idle" /\ op[t].kind = kind /\ op[t].about = x

OneSession(kind, x) == \A t, d \in Txs : Runs(t, kind, x) /\ Runs(d, kind, x) => t = d

(* A job that waits for its charge and a shard that waits for a penalty    *)
(* wait for one session each.                                              *)
JobInv ==
    /\ \A j \in Jobs :
          /\ OneSession("upload_cnf", j)
          /\ \A t \in Txs : Runs(t, "upload_cnf", j) => stage[j] = "billing"
    /\ \A s \in Shards :
          /\ OneSession("worker_penalty", s)
          /\ \A t \in Txs : Runs(t, "worker_penalty", s) => shard[s] = "judging"

LedgerInv == TypeOK /\ TxInv /\ JobInv /\ NoOverdraft /\ FeeForJob

(* What a task does to the sum of all balances, by its sides and by its    *)
(* kind.                                                                   *)
Net(o) ==
    (IF o.to \in Users THEN o.amount ELSE 0) - (IF o.from \in Users THEN o.amount ELSE 0)

Earned(o) ==
    CASE o.kind = "deposit" -> o.amount
      [] o.kind = "worker_reward" -> 0
      [] OTHER -> -o.amount

MoneyInv == Conserved /\ \A t \in Txs : st[t] # "idle" => Net(op[t]) = Earned(op[t])

(* A reward under way is of one session, for its amount.                   *)
RewardInv ==
    /\ RewardsBooked
    /\ \A s \in Shards :
          /\ reward[s] # "none" => shard[s] = "done"
          /\ OneSession("worker_reward", s)
          /\ \A t \in Txs : Runs(t, "worker_reward", s) =>
                reward[s] = "paying" /\ op[t].amount = RewardFor(JobOf[s])

=============================================================================
