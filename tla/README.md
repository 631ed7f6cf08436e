# SatFarm, formally

SatFarm is a farm of SAT solvers with a wallet. A user uploads a DIMACS file
and pays for it; the server splits the formula into cubes ("shards") and hands
them to worker processes over one gRPC stream each; workers run kissat and
return a model, or upload a DRAT proof; the server verifies either, decides the
job, pays for verified results and fines bad ones. This directory holds TLA+
models of those mechanisms, the TLC instances that check them and TLAPS proofs.
Paths below are relative to the repository.

## 1. The system

| component | code | state | operations |
|---|---|---|---|
| scheduler | `internal/grpc/scheduler.go` | `pending`, `workerShard`, `completedJobs` under one mutex; rows of `jobs`, `job_shards`, `shard_results`, `job_results` | `EnqueueJob`, `MaybeAssignWork`, `HandleJobResult`, `VerifyUnsatShard`, `ReenqueueShard`, `HandleDisconnect`, goroutines `markShardAssigned`, `rewardWorkerForJob` |
| registry | `internal/grpc/registry.go` | connections by id | `Set`, `Get`, `Delete`, `IDs` |
| connection loop | `internal/grpc/worker_service.go` | one goroutine per stream | `Work` with its deferred `Delete` and `HandleDisconnect` |
| balances | `internal/grpc/balance.go`, `internal/web/handlers_wallet.go` | `users.balance_satc`, `transactions` | deposit, withdraw, penalty, reward, balance check |
| submission | `internal/web/handlers_jobs.go` | the stored file, `cnf_files`, `jobs` | `HandleCreateJob`: normalise, charge, insert, enqueue |
| formulas | `internal/sat/*.go` | none (pure) | validate, split, CNF and cube, verify model or proof |
| worker | `cmd/worker/main.go` | `currentJob`, its context | receive loop, `startJob`, `cancelJob`, `handleAssignJob` |
| worker HTTP | `internal/web/handlers_worker.go` | `drat_files` | bearer check, CNF download, proof upload |
| worker authentication | `internal/grpc/auth.go` | `api_tokens.revoked`, read | the token lookup that opens a stream |
| test worker | `cmd/testworker/main.go` | `shardsProcessed`, its failure mode | receive loop, `handleAssignJob`, `executeFail` |
| accounts | `internal/web/handlers_auth.go`, `handlers_tokens.go`, `handlers_dashboard.go`, `session.go` | `users`, `api_tokens`, sessions in memory, cookies | signup, login, logout, dashboard, create and revoke tokens |
| page of a job | `handlers_job_json.go`, `handlers_jobs.go`, `templates/job_detail.html` | what the browser shows, its timer | two queries per poll, `tick` |

How they interact. The web server calls `go EnqueueJob`; the scheduler sends
`AssignJob` and `CancelJob` on a stream, from whatever goroutine has something
to say; the connection's goroutine receives `Hello` and `JobResult` and runs
the whole handler (verification included) before it reads again. Scheduler and
web server share the database, under READ COMMITTED. Scheduler and rewards
share the registry. A worker proves who it is once per stream and once per HTTP
request, with a token that its owner may revoke in a browser at any time. The
page of a job polls the tables that the scheduler's handlers write.

What is hard: every lock section ends before the database is asked, so a shard
lives in a handler's local variables between two of them; messages cross
(assignment against disconnect, cancellation against result); two goroutines
(`markShardAssigned`, `rewardWorkerForJob`) run whenever they like; transactions
of several verifiers, and of several debits of one user, overlap; the server
may fail or restart between any two steps, a worker at any moment; a browser
keeps cookies and pages that the server has forgotten.
`PROJECT.json` lists the hazards line by line with the properties that watch
them.

## 2. Modules

| module | what | code |
|---|---|---|
| `Scheduler` | goroutines of the server, their memory, the job tables, the far end of each stream as a set of debts | `scheduler.go`, `registry.go`, `worker_service.go` |
| `Owing` | abstract: what the ends of one connection owe each other | the interface between `Scheduler` and `Worker` |
| `Verdicts` | abstract: how shard results and verdicts may change | the interface between `Scheduler` and `JobView` |
| `Worker` | one worker process, both FIFO directions of its stream, its token, the connection's view of the server | `cmd/worker/main.go`, `kissat.go`, `auth.go`, `handlers_worker.go` |
| `TestWorker` | the worker that fails on purpose, or `Worker`, on that stream | `cmd/testworker/main.go` |
| `Bank` | abstract: atomic postings that never overdraw | the promise of `changeUserBalance` and `transferUserBalance` |
| `Ledger` | the SQL transactions statement by statement, web handlers, penalties, rewards | `balance.go`, `handlers_wallet.go`, `handlers_jobs.go` |
| `Cubes` | one job from the upload to its verdict: the pure functions of `internal/sat` over lines of tokens | `internal/sat`, `handlers_jobs.go`, `EnqueueJob` |
| `Accounts` | users, sessions, tokens, and browsers with stale cookies and pages | `handlers_auth.go`, `handlers_tokens.go`, `handlers_dashboard.go`, `session.go` |
| `JobView` | the page of a job against tables that change between its two queries | `handlers_job_json.go`, `job_detail.html` |
| `MC*` | instances for TLC | |
| `Counting` | lemmas on induction over numbers and finite sets, cardinality, powers of two, sums | |
| `SchedulerProofs`, `VerdictProofs`, `PaymentProofs`, `LedgerProofs`, `WorkerProofs`, `WebProofs`, `CubesProofs` | theorems (section 6) | |

`Scheduler` implements one `Owing` per connection and `Verdicts`; `Worker` and
`TestWorker` implement `Owing`; `Ledger` implements `Bank`; `JobView` runs on top
of `Verdicts`. Each component is thereby checked against what its neighbours
promise and not against a second model of them.

### Scheduler

`pc` holds where each goroutine is: a connection (`absent`, `recv`, the
handler steps, `try` for the `MaybeAssignWork` that follows each message,
`leave`, `gone`, `requeue`, `closed`) or a job's `EnqueueJob`. One action is one
critical section of `s.mu`, one database transaction or one `Send`:

* `MaybeAssignWork` holds the mutex from end to end and is one action, with its
  branches as `Busy`, `NothingLive`, `PutBack` and `Assign`. It drops queued
  shards of completed jobs on the way, as the code does.
* `EnqueueJob` of a file the validator refuses is `EnqueueInvalid`, the UPDATE of
  `jobs.status`, which may fail with a log line, and `SealInvalid`, the lock section
  that sets `completedJobs`: other goroutines, or a crash, come in between.
* `HandleJobResult` is `RecvResult` (clears `workerShard`) and then, by
  `Branch`, storing a model (`StoreSat`, `MarkJobCompleted`, `SendCancel`,
  `FinishSat`) or the transaction of `VerifyUnsatShard`: `CountShards` reads,
  `SealJob` sets `completedJobs`, `CommitShard`/`CommitJob` make it visible.
  `RowLocked` is the lock its UPDATE of the shard's row holds meanwhile.
* `ReenqueueShard` and the end of `EnqueueJob` share `RequeueRow`/`EnqueueRows`,
  `AppendPending`, `SnapshotIDs` and `NudgeWorker`, the loop over worker ids.
* `Fail` is a database or file error at any step, with the `return` that
  follows it. `Crash` empties memory and streams and keeps the rows.
* The worker is `client[c]`, the shards it may still answer for. It may answer
  well, badly (`bad`) or not (`GiveUp`, a cancellation).

What verification decides is a constant (`SatShards`): how it does so is `Cubes`.
Money is the number of booked rewards per shard: how it is booked is `Ledger`.

### Owing, between Scheduler and Worker

`Scheduler` treats a worker as a set of debts. `Owing` says what that assumes:
one record, at most one debt, for the shard on record, answered at most once.
`Scheduler` implements it for every connection (`LinksAreKept`), and the workers
implement it with their messages, goroutines, cancellations and exits
(`WorkerKeepsContract`); both are checked and proved, and so is that an answer on
the stream is for the shard on record (`WorkerOwesTheRecord`). The scheduler's use of
`res.ShardId` without a comparison is right because of it (`AnswersMatchRecord`).

### Verdicts, between Scheduler and JobView

A shard's result is written once; the first model decides a job; the UNSAT
verdict is written with the last shard's result; a rejected upload has none. The
scheduler commits result, verdict and status in one transaction each, which is
why a reader may combine a job and the shards of a later moment.
`Tables!Spec` is checked on `Scheduler` with errors and restarts, and proved.

### Ledger

`Txs` are database sessions; `st`, `op`, `upd` and `ins` are the next statement,
the task, and the uncommitted effects of each. `lock` is the row lock a users
row has after an UPDATE. The guard `balance_satc >= amount` reads the row's
current version (`Covered`). `Insufficient`, `TxFails` (a failed statement or
the context's timeout) and `DeadlockVictim` (PostgreSQL's detector) roll back;
`Continue` is what each caller does with the outcome. Commit publishes the rows
at once. A job has the shards `JobOf` gives it, and verdicts are good or bad; a
verified shard of `SatShards` ends the assignment of its job's shards.

Every verified shard makes a reward of its own `due` (`GoodResult`), for the whole
amount of the job's header, in a goroutine of its own (`RewardWorkerForJob`): the
rewards of one job may be under way together, and a job of k shards may book k of
them. The check for an earlier reward is left out, since it matches no row.

The guard is checked on `balance` plus the session's own update. That is the
row PostgreSQL re-reads after a lock wait, as only the holder of the lock can
commit a change of it. `Insufficient` does not wait for the lock: the row that
fails the guard is not locked.

`moved` counts what the `transactions` table holds of each reason, `reward` what the
scheduler thinks of each shard's reward. `Conserved` ties the balances to the first,
`RewardsBooked` the second to it: no reward is booked for a shard that does not
count as paid, none twice for a shard, and none is missing. It does not say that a
job is rewarded once, which is not so (finding 3).

### Worker

`down` and `up` are the stream. `step` is where `handleAssignJob` is and `ctx`
its context; each long step looks at the context the way the code does
(`Unless`), each may fail (`Fail`). `Clear` (resetting `currentJob`) comes after the
answer is sent: an assignment that arrives in between is ignored by `startJob`,
and the model does so. A cancellation is decided by the server under its lock
(`OtherCompletes`) and sent later (`SendCancel`).

`link` is the server's end of a stream: `opening` until `AuthStreamInterceptor`
has looked the token up, `known` until `Work` registers the connection, then
`open`. `Revoke` is the owner's click, at any time. Nothing tells the stream, so
shards still go to the worker (history variable `late`); what stops it is that
each HTTP request asks for the token again (`Authorized` in `Request`).

### TestWorker

`failMode` is fixed by the command line: `worker` runs the actions of `Worker`, the
others those of the test worker, which reads no message while it works and logs
cancellations only. Its requests and its runs of kissat are the actions of
`Worker` with a context that is never cancelled. A made-up model or proof may
happen to be right (`Lucky`).

### Cubes

A file is a sequence of lines of tokens with a kind (`note`, `p`, `%`,
`clause`). `HandleCreateJob` cuts the file at `%`; `ValidDIMACS`,
`GenerateCubes`, `ApplyCube`, `UpToTrailer`, `VerifySatAssignment` are the
functions of `internal/sat`. kissat and drat-trim are external: `KissatModels`
reads all clauses, `VerifyDratProof` as many as the header announces.
Properties are stated against a definition of its own of what the file means
(`Declared`, `Models`) and not with the code's functions.

What a function reads of a file is a set of line numbers (`Content`,
`ClauseLines`, `Clauses`), and "the first n of them" are those whose `Rank` is at
most n, where the code counts lines as it scans (`seenClauses`). `Plain` says that
the header announces all clauses or 0: other files have a finding of their own
(section 5), and the verdict properties are about `Plain` uploads.

### Accounts

A browser is a cookie, the Revoke buttons its dashboard shows and the user who
logged in last. A request looks its session up in the store and asks the database
later; `call` is the request in between, when another tab may log out or in.
Responses may be lost after the handler has done its work, so that the browser
keeps an old cookie; `Restart` empties the session store and nothing else.

### JobView

`FarmStep` is any step of `Verdicts`. A poll is `PollJob`, then `PollShards`, in the
order of the two queries; `tick` sets its timer again after an answer of any
status, unless the job is decided (`Final`), and not after a rejected fetch.
Another tab may change whose session the page has.

## 3. Runs

Bounds are constants named in each module; every bound is a guard on a counter.

| run | instance | what it shows |
|---|---|---|
| `SchedulerRaces` | 2 connections, 1 job of 2 SAT shards, 1 bad result, 1 error, 1 restart, refusals | records match debts (`DebtOnRecord`, `ImplementsOwing`) and connections (`NoOrphan`), no lost wake-up, first verdict stays, cancels follow durable verdicts |
| `SchedulerCrash` | as Races with 2 UNSAT shards, workers that give up | exclusivity (`OnePlace`), one error loses one shard at most, verdicts are backed, one payment per shard, memory agrees with the tables outside the windows the code has, the tables change as `Verdicts` allows |
| `SchedulerLive` | 2 connections that come and go, 1 bad result | a satisfiable job finishes |
| `Ledger` | 2 users each client and worker of the other, a job of 2 shards (1 SAT) and a job of 1, 2 sessions, 2 deposits or withdrawals, 1 bad result, 1 failure | no overdraft, conservation, one fee per job, the reward of each verified shard booked once, transactions are atomic postings and end, rewards are settled |
| `Worker` | 3 shards of 2 jobs, cmd/worker and each failure mode of the test worker, 1 shard before it fails, 2 errors, 2 exits, 1 revocation | late cancels, proof before result, the interface, nothing earned after a revocation, the worker frees itself, what is started is answered; of the test worker's modes only the one that hangs keeps a shard, errors and a revoked token exempted |
| `Web` | `Accounts`: 2 users, 2 browsers, 2 session ids, 2 tokens, 1 error, 1 lost response, 1 restart; `JobView`: 3 shards of 2 jobs, 1 error, 1 rejected request | sessions and tokens stay with their users; the page shows backed verdicts, stops on final ones and gets there |
| `Cubes` | files of up to 3 lines from a stock of 7, 1 to 3 variables, headers 0 to 2, 3 trailers, 0 to 5 workers, cap 2 | partition, shard count, verdict, honest answers accepted, accepted models exist |
| `Find*` | smallest instance that shows it | see Findings |

Why the bounds are enough. Two connections are what it takes for each race of
the scheduler (a shard moves from one to another, one handler against another
handler, a nudge or a disconnect); a worker that reconnects gets a
new id until the server restarts, so ids bound the reconnections. Two shards make
the count of the UNSAT check and the race of two results. One bad result, error
and crash each hit any step. Several jobs, which meet in the queue, in
`completedJobs` and at idle workers, are left to the proofs: every safety
property that the `Scheduler*` runs check is proved for any number of connections,
jobs and shards. In `Ledger`, two sessions and two
users who owe each other are the smallest cycle of locks, two deposits let a
balance be enough for one of two debits, and two shards of one job let both of
its rewards be under way or paid; again the proofs cover the rest. In
`Worker`, three shards let the worker be at a shard of the same job, or of the
other job, when a cancellation arrives, and two exits a second life of the worker
with its token revoked before or after. `Web` checks two modules that share no
state in one run; `focus` says which one moves, so that their state spaces add
and do not multiply. Two users on two browsers are what a stale cookie or a stale
Revoke button takes, with a third drawn id left out since the argument of
`OnlyDrawn` is about one. In `Cubes`, the depth ends at the number of variables
(1 or 2 of them) or at the cap of 2 (3 variables, 5 workers), or before either; the
code's cap of 20 is the theorem's.

Deadlock is not checked where all runs may end: jobs are decided, workers are
gone, bounds are used up.

Symmetry is used for connections only, in runs without liveness properties.

## 4. Fairness

* `Scheduler`: weak fairness of each goroutine's next step (the Go scheduler
  runs runnable goroutines, the mutex is released by every section), of a
  worker's `Hello` and of a verifiable answer for a shard it owes and that was
  not cancelled (kissat ends). Connecting, staying, failing, giving bad answers
  and restarting have none. `SatJobFinishes` further assumes that from some time
  on some worker is connected, which it states. In its run workers do not give
  up silently: the server has no lease, so nothing could be shown if they did.
* `Ledger`: weak fairness of statements (PostgreSQL grants a free row), of the
  deadlock detector, and of the reward goroutine.
* `Worker`, `TestWorker`: weak fairness of the server's receive loop and its
  handling of a new stream, and of the loops of the program that runs, the
  crashes the test worker is told to have included. Errors, exits, revocation
  and assignments have none.
* `JobView`: weak fairness of the poll of an open page (the browser runs its
  timers, queries end). `PageCatchesUp` assumes that the user stays logged in, and
  exempts rejected requests.

## 5. Findings

Each has a run whose property quotes what a comment promises.

1. `FindWriteSkew`: two proofs verified at once each count the other's row as
   unfinished (`scheduler.go:719-742`, READ COMMITTED): the UNSAT job is never
   completed.
2. `FindLateMark`: `markShardAssigned` overwrites `completed` with `running`
   (`scheduler.go:425-432`) when it runs after a fast worker's verdict; an UNSAT
   job with such a row is never completed either.
3. `FindTwoRewards`: two SAT shards of one job are both rewarded, since the check
   (`balance.go:311-319`) looks for a reason that is never written. The same run
   contradicts another comment, "idempotent / per-job" (`scheduler.go:398-400`): a
   reward is started for every verified shard (`scheduler.go:318`, `:401`), each with
   the whole amount of the job's header (`balance.go:346-373`). With `SatShards = {}`
   TLC shows it for two UNSAT shards: a job of k of them books k rewards.
4. `FindStuckIdle`: a cancelled worker sends no result and stays on record
   (`scheduler.go:528-576`): it gets no work any more while it is connected.
5. `FindTrailingZero`: the validator ignores lines after the declared clauses,
   "some benchmarks have a trailing 0" (`dimacs.go:66`), everybody else reads
   them: a satisfiable file is judged UNSAT.

Also met, without a promise they would break: shards queued before a restart are
never read back; a fee is kept when the job's INSERT fails; a worker's user can
spend the balance that was checked before the penalty comes; a worker refused
for its balance is not woken by a deposit; an assignment that reaches a worker
before it has cleared `currentJob` is ignored and stays on record; a job page
whose `fetch` rejects stops polling for good (`Rejected`); a database error on the
dashboard ends the user's session (`DashboardLogsOut`); the test worker counts a
shard as processed when its upload failed (`WasSolved`).

## 6. Proofs

All for any constants that satisfy the modules' named assumptions (in `Scheduler`,
`ConfigAssumption` and `CubesAssumption`: every shard is a cube of its own job once,
ids are distinct; in `Cubes`, `CubesAssumption`: an upload is a finite sequence of
lines, and a `p` line has two numbers; `LedgerAssumption`: amounts are positive
where the code's constants are; `WorkerAssumption`, `TestWorkerAssumption`,
`AccountsAssumption`, `ViewAssumption`: the markers for "none" are no shard, user or
token).

`SchedulerProofs`. `OnePlace` is not inductive: whether a result may be handled
depends on what the worker owes. The invariant `IndInv` adds: a handler past
`Recv` has a task; what is owed is on record (`DebtOnRecord`); only a live
registered connection owes; nobody gone is registered; no orphan. `VerdictInv`
adds: `completed` rows have results; a transaction about to complete a job
has seen all others UNSAT (nobody can change them: results are written once,
because a shard is in one place); a handler that cancels has stored a model.
Each layer is a lemma with one step per action: `TypeNext`, `SideNext`,
`PlacesNext` (actions keep every shard in place or make one of five moves, a
lemma each), `VerdictNext`, `WakeupNext`. Theorems: `Inductive`, `TypeCorrect`,
`ShardInOnePlace`, `AssignmentsMatch`, `NoOrphans`, `NoWakeupLost`,
`VerdictSound`, `CancelsFollowVerdict`, `VerdictNeverChanges`, `LinksAreKept`.

`VerdictProofs`: `TablesAreKept`, that `Scheduler` implements `Verdicts`. A step may
write a result only for a shard without one, and never for a rejected job. The
first is `OnePlace`; the second needs `RowInv`: what the scheduler deals with has a
row, and a job that is new or rejected has none.

`PaymentProofs`: `PaidAtMostOnce` follows a shard from its verdict through the
reward goroutine to its payment (`PaidInv`): deciding happens once because a
handler's shard is undecided, so nobody was paid for it. `MemoryAgrees` needs that
a job is sealed before its commit, and that an upload is rejected in the database
before it is in memory (`RejectedFirst`). It finds the states where memory and tables
differ at three control points: a handler between `SealJob` and its commit, one
between `StoreSat` and `MarkJobCompleted`, and `EnqueueJob` between `EnqueueInvalid`
and `SealInvalid`. `ErrorsLoseOneEach` classifies every step by the
shards it loses (`LossStep`: none, or one to an error). Its hard case is the queue,
which drops the shards of completed jobs: `NothingToDrop` says that a job which only
memory takes for completed has no shard in the queue or on the way there.

`WorkerProofs`. `WorkerInv` says that an answer is owed by one of an assignment in
the stream, the goroutine, and a result in the stream, and by one only
(`OneDebt`), that a closed stream owes none (`Quiet`), that a cancellation under way
is for a completed job (`CancelsAreDue`), what an answer takes (`AnswerReady`) and
that work past the download was authorised (`Timely`). Steps of the two programs
that do the same share a lemma. Each lemma also says what the step does to the
debt (`DebtStep`: keeps it, drops it, takes one on when there is none, or clears
the record), and `OwedIsRecord` turns that into a step of `Owing`. Theorems:
`WorkerInductive`, `WorkerTypeCorrect`, `LateCancelsMiss`, `ProofsComeFirst`,
`RevokedTokensEarnNothing`, `WorkerKeepsContract`, and about the interface itself
`AnswersMatchRecord`, which the refinement carries over to the worker
(`WorkerOwesTheRecord`).

`WebProofs`. Accounts: `SessionsStayOwn` and `RevocationIsOwn`. A stale cookie is
harmless because an id in use was drawn and is not drawn again (`OnlyDrawn`); a
stale button because the UPDATE compares the owner with the session (`CallIsOwn`).
Job view: `PagesAreBacked`, `StopsWhenFinal`. What was read of the job stays backed
by the shards until they are read (`HalfRead`), since `Verdicts` changes nothing a
verdict rests on (`FarmKeeps`). With `TablesAreKept` this is about the tables the
scheduler writes. `WebInductive` and `WebTypeCorrect` are about both parts together,
as the run composes them.

`LedgerProofs`. `NoOverdraft` needs to know what a session has done by each
statement (`Session`: its updates are a prefix of its entries, it holds the lock
of every row it has updated, and a debited row still covers the debit) and
`FeeForJob` that one session at most works on a job's charge or a shard's penalty
(`JobInv`). From `LedgerInv`: `LedgerTypeCorrect`, `NeverOverdrawn`,
`OneFeePerJob`, and `LedgerImplementsBank`, where `Commit` is one `Post` and all
else stutters. `UploadCostRoundsUp` is the arithmetic of the price.

The sum of all balances: `MoneyConserved` for any finite set of users. What a
transaction adds to the sum is what its kind brings in or takes out
(`MoneyInv`: the two sides of a transfer cancel out); `Commit` is the only step
that changes a balance. `RewardsPaidOnce` sums over the shards, each with the
whole reward of its job. It needs that the reward of a shard that is under way is of
one session, for its amount, and of a shard that is verified and not paid yet
(`RewardInv`); other shards of the job may be at any stage of theirs.

`CubesProofs`, for uploads of any length, any number of variables and workers and
any depth cap:

* the loop of `chooseDepthCeil` ends at the least depth that will do
  (`DepthIsLeast`), and each choice of signs for the variables 1..depth is the
  binary form of exactly one mask (`OneMask`, by induction on the depth). Hence
  `CubesArePartition` and `ShardsAreEnough`;
* the header is the first line of the content, and the validator has seen every
  clause of a plain file (`AllWellFormed`); `ApplyCube` gives a file with the same
  clauses, a unit per literal of the cube, and a header that announces just these
  (`CubeApplied`), so kissat's models of a shard are those of the formula within the
  cube (`CubeModels`) and drat-trim reads the same clauses as kissat (`DratAgrees`).
  Hence `HonestAreAccepted`;
* `CubesInv` adds what is true between the answers: what is stored and split is what
  was validated (`FileInv`), and the shards closed so far have no model (`ShardInv`).
  With the partition, `VerdictIsRight`;
* `AnyAcceptedHaveModels`: whatever sequence of literals passes `VerifySatAssignment`
  extends to a model in the cube (`AcceptedModel`: variables without an assignment
  take the sign of the cube). The run tries answers of two literals at most.

`Counting` holds what these proofs need and the provers do not know. Induction is
stated for a set instead of a predicate (`NatInduct`, `FiniteInduct`), which has no
operator for a parameter; it follows from the well-foundedness of finite sets.
From it: the k-th element of a set of line numbers (`FirstOnes`), powers of two by
the number of subsets (`PowerStep`), and that `SumFunctionOnSet` adds as it should
(`SumPlus`, `SumPoint`).

Every invariant and every safety action property of the passing runs is a theorem,
and so are the refinements. Model-checked only are the liveness properties
(`SatJobFinishes`, `MoneySettles`, `WorkerFreesUp`, `StartedIsAnswered`,
`OnlyHangsBlock`, `PageCatchesUp`): liveness under fairness and ENABLED are out of
the prover's reach. The theorems stay within one module: that the rewards of
`Scheduler` are those of `Ledger` is an agreement of the two models, not a theorem.

## 7. Not modelled

Generated protocol code; Docker files and scripts; the landing page and the lists
of jobs and transactions, which render one query; the timestamp columns that the
benchmarks read; password hashing and forms that are refused before any effect;
the unary interceptor, which guards no method; keep-alive and TLS settings. Disk
errors in the web handlers end the request before it has an effect, except
between the charge and the insert, which is `InsertJobFails`. The limits
of `bufio.Scanner` on the length of a line (64 KB in `PrepareCNFForSolving`,
`ApplyCube` and `readNumVars`, which keep the default, 1 or 4 MB in the others): lines
have any length in `Cubes`. Two goroutines that
call `Send` on one stream at once (`scheduler.go:562` and `:212`) are misuse of gRPC
whose outcome is undefined; here a `Send` is atomic.

## 8. Plan

In place, most important first: `Scheduler`, `Bank` and `Ledger`, `Owing` and
`Worker`, `Cubes`, `Verdicts` and `JobView`, `Accounts`, `TestWorker`, with the proofs
above. What is left:

1. `Farm`: rewards of `Scheduler` against sessions of `Ledger` in one composition,
   so that "paid once" is about booked money.
2. The composition of `JobView` with `Scheduler` itself in place of `Verdicts`, as a
   theorem that cites `TablesAreKept`.
