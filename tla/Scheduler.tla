----------------------------- MODULE Scheduler -----------------------------
(***************************************************************************)
(* The shard scheduler of the satfarm server: SimpleScheduler              *)
(* (internal/grpc/scheduler.go), the worker registry it consults           *)
(* (registry.go) and the per-connection loop that drives it                *)
(* (worker_service.go).                                                    *)
(*                                                                         *)
(* Processes.  Every worker connection runs WorkerService.Work in its own  *)
(* goroutine, every submitted job runs EnqueueJob in its own goroutine.    *)
(* pc says where each of them stands.  An action is what runs between two  *)
(* points at which another goroutine can be seen: one critical section of  *)
(* s.mu, one database transaction, one Send.  "go f()" leaves a record in  *)
(* marks or rewarding that an action of its own consumes.                  *)
(*                                                                         *)
(* Database rows (shardStatus, shardRes, jobStatus, jobRes, paid) survive  *)
(* Crash, everything else is lost.  Amounts of money are in Ledger.        *)
(***************************************************************************)
EXTENDS Naturals, Sequences, FiniteSets

CONSTANTS
    Conns,       \* worker connection ids handed out by WorkerRegistry.NewID
    Jobs,        \* jobs submitted through the web server
    Shards,      \* rows of job_shards
    JobOf,       \* [Shards -> Jobs]: job_shards.job_id
    Cubes,       \* [Jobs -> Seq(Shards)]: the shards EnqueueJob creates, in order
    SatShards,   \* the shards whose CNF /\ cube is satisfiable
    None, Unsat, \* "no shard", and the UNSAT verdict of a job
    MayRefuse,   \* TRUE: a balance check or a Send can fail
    MayGiveUp,   \* TRUE: a worker can drop a shard without telling the server
    MaxBad,      \* bound: results that fail verification
    MaxFaults,   \* bound: database or file errors on the server
    MaxCrashes   \* bound: restarts of the server

(* A shard occurs at most once, in the cubes of its own job, ...           *)
ASSUME ConfigAssumption ==
    /\ JobOf \in [Shards -> Jobs]
    /\ Cubes \in [Jobs -> Seq(Shards)]
    /\ \A j \in Jobs : \A i \in 1..Len(Cubes[j]) : JobOf[Cubes[j][i]] = j
    /\ \A j \in Jobs : \A i, k \in 1..Len(Cubes[j]) :
          Cubes[j][i] = Cubes[j][k] => i = k
    /\ SatShards \subseteq Shards
    /\ Conns \cap Jobs = {}
    /\ None \notin Shards /\ Unsat \notin Shards /\ None # Unsat
    /\ MayRefuse \in BOOLEAN /\ MayGiveUp \in BOOLEAN
    /\ MaxBad \in Nat /\ MaxFaults \in Nat /\ MaxCrashes \in Nat

(* ... and every shard occurs.                                             *)
ASSUME CubesAssumption ==
    \A s \in Shards : \E i \in 1..Len(Cubes[JobOf[s]]) : Cubes[JobOf[s]][i] = s

VARIABLES
    \* goroutines
    pc,           \* [Conns \cup Jobs -> control point]
    task,         \* [Conns -> Shards or None]: shard a handler is dealing with
    nudge,        \* [Conns \cup Jobs -> SUBSET Conns]: ids left in a nudge loop
    targets,      \* [Conns -> SUBSET Conns]: CancelJob messages left to send
    marks,        \* [Shards -> Nat]: markShardAssigned goroutines not yet run
    rewarding,    \* {<<shard, conn>>}: rewardWorkerForJob goroutines not yet run
    \* memory of the server
    registry,     \* WorkerRegistry.data
    workerShard,  \* SimpleScheduler.workerShard (None when nil)
    pending,      \* SimpleScheduler.pending
    completed,    \* SimpleScheduler.completedJobs
    \* the worker's end of each stream
    hello,        \* connections whose Hello is still unread
    client,       \* [Conns -> SUBSET Shards]: shards the worker owes a result for
    cancelled,    \* [Conns -> SUBSET Jobs]: CancelJob messages it was sent
    \* database
    shardStatus,  \* job_shards.status ("none": no row)
    shardRes,     \* shard_results.is_sat ("none": no row)
    jobStatus,    \* jobs.status
    jobRes,       \* job_results: None, Unsat, or the shard whose model it holds
    paid,         \* [Shards -> Nat]: reward transfers booked for a shard
    \* history, read by properties and bounds only
    refused,      \* connections whose last attempt put a live shard back
    bad, faults, crashes

procVars   == <<task, nudge, targets, marks, rewarding>>
memVars    == <<registry, workerShard, pending, completed>>
clientVars == <<hello, client, cancelled>>
dbVars     == <<shardStatus, shardRes, jobStatus, jobRes, paid>>
ghostVars  == <<refused, bad, faults, crashes>>
vars == <<pc, procVars, memVars, clientVars, dbVars, ghostVars>>

Procs == Conns \cup Jobs
ShardsOf(j) == {s \in Shards : JobOf[s] = j}

Init ==
    /\ pc = [p \in Procs |-> IF p \in Jobs THEN "new" ELSE "absent"]
    /\ task = [c \in Conns |-> None]
    /\ nudge = [p \in Procs |-> {}]
    /\ targets = [c \in Conns |-> {}]
    /\ marks = [s \in Shards |-> 0]
    /\ rewarding = {}
    /\ registry = {}
    /\ workerShard = [c \in Conns |-> None]
    /\ pending = << >>
    /\ completed = {}
    /\ hello = {}
    /\ client = [c \in Conns |-> {}]
    /\ cancelled = [c \in Conns |-> {}]
    /\ shardStatus = [s \in Shards |-> "none"]
    /\ shardRes = [s \in Shards |-> "none"]
    /\ jobStatus = [j \in Jobs |-> "pending"]
    /\ jobRes = [j \in Jobs |-> None]
    /\ paid = [s \in Shards |-> 0]
    /\ refused = {} /\ bad = 0 /\ faults = 0 /\ crashes = 0

Goto(p, l) == pc' = [pc EXCEPT ![p] = l]

(* Where a goroutine continues when ReenqueueShard, EnqueueJob or          *)
(* HandleJobResult returns: the Work loop makes another attempt for the    *)
(* connection itself, a deferred HandleDisconnect ends it.                 *)
After(p) == IF p \in Jobs THEN "done" ELSE IF p \in registry THEN "try" ELSE "closed"

---------------------------------------------------------------------------
(* MaybeAssignWork: one critical section of s.mu.                          *)

MutSkipLive(k) == JobOf[pending[k]] \notin completed
MutNotPopped(k) == SubSeq(pending, k, Len(pending))
MutNeverBusy(w) == FALSE
MutAnyone(w) == TRUE

Busy(w) == workerShard[w] # None

(* registry.Get, behind the balance check's own getWorkerUserID.           *)
Reachable(w) == w \in registry

IsFirstLive(k) ==
    /\ JobOf[pending[k]] \notin completed
    /\ \A i \in 1..(k - 1) : JobOf[pending[i]] \in completed

(* The queue without the completed jobs' shards before k, and without k.   *)
Popped(k) == SubSeq(pending, k + 1, Len(pending))

(* The candidate goes back to the front: the connection has vanished, its  *)
(* owner's balance is below the minimum, or Send failed.                   *)
PutBack(w, k) ==
    /\ ~Reachable(w) \/ MayRefuse
    /\ pending' = SubSeq(pending, k, Len(pending))
    /\ refused' = refused \cup {w}
    /\ UNCHANGED <<workerShard, client, marks>>

(* A stream whose worker is gone may still accept the message.             *)
Assign(w, k) ==
    LET s == pending[k] IN
    /\ Reachable(w)
    /\ pending' = Popped(k)
    /\ workerShard' = [workerShard EXCEPT ![w] = s]
    /\ client' = IF pc[w] = "leave" THEN client
                 ELSE [client EXCEPT ![w] = @ \cup {s}]
    /\ marks' = [marks EXCEPT ![s] = @ + 1]
    /\ refused' = refused \ {w}

NothingLive(w) ==
    /\ \A k \in 1..Len(pending) : JobOf[pending[k]] \in completed
    /\ pending' = << >>
    /\ refused' = refused \ {w}
    /\ UNCHANGED <<workerShard, client, marks>>

MaybeAssignWork(w) ==
    \/ /\ Busy(w)
       /\ UNCHANGED <<pending, workerShard, client, marks, refused>>
    \/ /\ ~Busy(w)
       /\ \/ NothingLive(w)
          \/ \E k \in 1..Len(pending) :
                IsFirstLive(k) /\ (PutBack(w, k) \/ Assign(w, k))

---------------------------------------------------------------------------
(* The Work loop of one connection.                                        *)

(* NewID, registry.Set.                                                    *)
Connect(c) ==
    /\ pc[c] = "absent"
    /\ registry' = registry \cup {c}
    /\ hello' = hello \cup {c}
    /\ Goto(c, "try")
    /\ UNCHANGED <<procVars, workerShard, pending, completed, client, cancelled,
                   dbVars, ghostVars>>

(* The call Work makes for its own connection.                             *)
TrySelf(c) ==
    /\ pc[c] = "try"
    /\ MaybeAssignWork(c)
    /\ Goto(c, "recv")
    /\ UNCHANGED <<task, nudge, targets, rewarding, registry, completed, hello,
                   cancelled, dbVars, bad, faults, crashes>>

(* The first message of every worker.                                      *)
RecvHello(c) ==
    /\ pc[c] = "recv" /\ c \in hello
    /\ hello' = hello \ {c}
    /\ Goto(c, "try")
    /\ UNCHANGED <<procVars, memVars, client, cancelled, dbVars, ghostVars>>

(* Recv fails: the stream broke or the worker exited.                      *)
Disconnect(c) ==
    /\ pc[c] = "recv"
    /\ hello' = hello \ {c}
    /\ client' = [client EXCEPT ![c] = {}]
    /\ cancelled' = [cancelled EXCEPT ![c] = {}]
    /\ Goto(c, "leave")
    /\ UNCHANGED <<procVars, memVars, dbVars, ghostVars>>

(* Deferred: registry.Delete, then HandleDisconnect.                       *)
Delete(c) ==
    /\ pc[c] = "leave"
    /\ registry' = registry \ {c}
    /\ Goto(c, "gone")
    /\ UNCHANGED <<procVars, workerShard, pending, completed, clientVars, dbVars,
                   ghostVars>>

MutNoNilCheck(c) == "requeue"

Unclaimed(c) == IF workerShard[c] = None THEN "closed" ELSE "requeue"

HandleDisconnect(c) ==
    /\ pc[c] = "gone"
    /\ task' = [task EXCEPT ![c] = workerShard[c]]
    /\ workerShard' = [workerShard EXCEPT ![c] = None]
    /\ Goto(c, Unclaimed(c))
    /\ UNCHANGED <<nudge, targets, marks, rewarding, registry, pending, completed,
                   clientVars, dbVars, ghostVars>>

---------------------------------------------------------------------------
(* HandleJobResult.                                                        *)

(* Recv returns a JobResult; the connection is marked idle before anything *)
(* is verified.  A verified model leads to storeSatShardResult, a verified *)
(* proof to the commit of VerifyUnsatShard, all else to ReenqueueShard.    *)
MutCancelFirst == [sat |-> "announce", unsat |-> "count", bad |-> "requeue"]

Branch == [sat |-> "store", unsat |-> "count", bad |-> "requeue"]

Verdicts(s) == {"bad", IF s \in SatShards THEN "sat" ELSE "unsat"}

RecvResult(c, s, v) ==
    /\ pc[c] = "recv" /\ c \notin hello
    /\ s \in client[c] /\ v \in Verdicts(s)
    /\ v = "bad" => bad < MaxBad
    /\ bad' = IF v = "bad" THEN bad + 1 ELSE bad
    /\ client' = [client EXCEPT ![c] = @ \ {s}]
    /\ workerShard' = [workerShard EXCEPT ![c] = None]
    /\ task' = [task EXCEPT ![c] = s]
    /\ Goto(c, Branch[v])
    /\ UNCHANGED <<nudge, targets, marks, rewarding, registry, pending, completed,
                   hello, cancelled, dbVars, refused, faults, crashes>>

(* INSERT INTO job_results ... ON CONFLICT (job_id) DO NOTHING.            *)
MutOverwrite(old, new) == new

InsertOnce(old, new) == IF old = None THEN new ELSE old

(* storeSatShardResult: one transaction.                                   *)
StoreSat(c) ==
    LET s == task[c]  j == JobOf[s] IN
    /\ pc[c] = "store"
    /\ shardRes' = [shardRes EXCEPT ![s] = "sat"]
    /\ shardStatus' = [shardStatus EXCEPT ![s] = "completed"]
    /\ jobRes' = [jobRes EXCEPT ![j] = InsertOnce(@, s)]
    /\ jobStatus' = [jobStatus EXCEPT ![j] = "completed"]
    /\ Goto(c, "announce")
    /\ UNCHANGED <<procVars, memVars, clientVars, paid, ghostVars>>

(* markJobCompletedAndCancelOthers: the critical section ...               *)
MarkJobCompleted(c) ==
    LET j == JobOf[task[c]] IN
    /\ pc[c] = "announce"
    /\ completed' = completed \cup {j}
    /\ targets' = [targets EXCEPT ![c] =
          {w \in Conns \ {c} : workerShard[w] # None /\ JobOf[workerShard[w]] = j}]
    /\ Goto(c, "cancel")
    /\ UNCHANGED <<task, nudge, marks, rewarding, registry, workerShard, pending,
                   clientVars, dbVars, ghostVars>>

(* ... then one Send per target, without the lock.                         *)
SendCancel(c, w) ==
    /\ pc[c] = "cancel" /\ w \in targets[c]
    /\ targets' = [targets EXCEPT ![c] = @ \ {w}]
    /\ cancelled' = IF w \in registry /\ pc[w] # "leave"
                    THEN [cancelled EXCEPT ![w] = @ \cup {JobOf[task[c]]}]
                    ELSE cancelled
    /\ UNCHANGED <<pc, task, nudge, marks, rewarding, memVars, hello, client,
                   dbVars, ghostVars>>

(* "go rewardWorkerForJob" and return to the loop.                         *)
Reward(c) ==
    /\ rewarding' = rewarding \cup {<<task[c], c>>}
    /\ task' = [task EXCEPT ![c] = None]
    /\ Goto(c, After(c))

FinishSat(c) ==
    /\ pc[c] = "cancel" /\ targets[c] = {}
    /\ Reward(c)
    /\ UNCHANGED <<nudge, targets, marks, memVars, clientVars, dbVars, ghostVars>>

(* VerifyUnsatShard, a READ COMMITTED transaction: the counts see the rows *)
(* committed so far and the transaction's own.  When every shard is        *)
(* completed and none is SAT the job is sealed in memory before Commit.    *)
MutNoneSat(s) == \A t \in ShardsOf(JobOf[s]) \ {s} : shardRes[t] # "sat"

AllUnsat(s) ==
    \A t \in ShardsOf(JobOf[s]) \ {s} :
        shardStatus[t] = "completed" /\ shardRes[t] # "sat"

MutNeverSealed(s) == IF AllUnsat(s) THEN "commitJob" ELSE "commitShard"

CommitPath(s) == IF AllUnsat(s) THEN "seal" ELSE "commitShard"

CountShards(c) ==
    /\ pc[c] = "count"
    /\ Goto(c, CommitPath(task[c]))
    /\ UNCHANGED <<procVars, memVars, clientVars, dbVars, ghostVars>>

SealJob(c) ==
    /\ pc[c] = "seal"
    /\ completed' = completed \cup {JobOf[task[c]]}
    /\ Goto(c, "commitJob")
    /\ UNCHANGED <<procVars, registry, workerShard, pending, clientVars, dbVars,
                   ghostVars>>

CommitRow(c) ==
    /\ shardRes' = [shardRes EXCEPT ![task[c]] = "unsat"]
    /\ shardStatus' = [shardStatus EXCEPT ![task[c]] = "completed"]
    /\ Reward(c)
    /\ UNCHANGED <<nudge, targets, marks, memVars, clientVars, paid, ghostVars>>

CommitShard(c) ==
    /\ pc[c] = "commitShard"
    /\ CommitRow(c)
    /\ UNCHANGED <<jobStatus, jobRes>>

CommitJob(c) ==
    LET j == JobOf[task[c]] IN
    /\ pc[c] = "commitJob"
    /\ CommitRow(c)
    /\ jobRes' = [jobRes EXCEPT ![j] = InsertOnce(@, Unsat)]
    /\ jobStatus' = [jobStatus EXCEPT ![j] = "completed"]

(* A lookup, a file operation, a statement or the Commit fails: the error  *)
(* is logged and the handler returns without the shard.                    *)
Fail(c) ==
    /\ pc[c] \in {"store", "count", "commitShard", "commitJob", "requeue"}
    /\ faults < MaxFaults
    /\ faults' = faults + 1
    /\ task' = [task EXCEPT ![c] = None]
    /\ Goto(c, After(c))
    /\ UNCHANGED <<nudge, targets, marks, rewarding, memVars, clientVars, dbVars,
                   refused, bad, crashes>>

---------------------------------------------------------------------------
(* ReenqueueShard and EnqueueJob.                                          *)

(* ReenqueueShard resets the row first ...                                 *)
RequeueRow(c) ==
    /\ pc[c] = "requeue"
    /\ shardStatus' = [shardStatus EXCEPT ![task[c]] = "pending"]
    /\ Goto(c, "append")
    /\ UNCHANGED <<procVars, memVars, clientVars, shardRes, jobStatus, jobRes, paid,
                   ghostVars>>

(* ... EnqueueJob inserts the rows of all cubes in one transaction.        *)
EnqueueRows(j) ==
    /\ pc[j] = "new"
    /\ shardStatus' = [s \in Shards |->
                          IF JobOf[s] = j THEN "pending" ELSE shardStatus[s]]
    /\ Goto(j, "append")
    /\ UNCHANGED <<procVars, memVars, clientVars, shardRes, jobStatus, jobRes, paid,
                   ghostVars>>

(* ValidateDIMACSFile rejects the upload; an error of the UPDATE that      *)
(* records it is a log line.  The critical section that ends the job in    *)
(* memory is a step of its own and follows in either case.                 *)
EnqueueInvalid(j) ==
    /\ pc[j] = "new"
    /\ \/ jobStatus' = [jobStatus EXCEPT ![j] = "failed"] /\ UNCHANGED faults
       \/ faults < MaxFaults /\ faults' = faults + 1 /\ UNCHANGED jobStatus
    /\ Goto(j, "reject")
    /\ UNCHANGED <<procVars, memVars, clientVars, shardStatus, shardRes, jobRes, paid,
                   refused, bad, crashes>>

SealInvalid(j) ==
    /\ pc[j] = "reject"
    /\ completed' = completed \cup {j}
    /\ Goto(j, "done")
    /\ UNCHANGED <<procVars, registry, workerShard, pending, clientVars, dbVars,
                   ghostVars>>

(* Cube generation or the transaction fails: nothing but a log line.       *)
EnqueueFails(j) ==
    /\ pc[j] = "new"
    /\ faults < MaxFaults
    /\ faults' = faults + 1
    /\ Goto(j, "done")
    /\ UNCHANGED <<procVars, memVars, clientVars, dbVars, refused, bad, crashes>>

MutRowOnly(p) == IF p \in Jobs THEN Cubes[p] ELSE << >>

Batch(p) == IF p \in Jobs THEN Cubes[p] ELSE <<task[p]>>

AppendPending(p) ==
    /\ pc[p] = "append"
    /\ pending' = pending \o Batch(p)
    /\ task' = IF p \in Conns THEN [task EXCEPT ![p] = None] ELSE task
    /\ Goto(p, "snapshot")
    /\ UNCHANGED <<nudge, targets, marks, rewarding, registry, workerShard, completed,
                   clientVars, dbVars, ghostVars>>

(* registry.IDs(), then MaybeAssignWork for each of them in map order.     *)
MutNudgeNone(p, rest) == nudge' = [nudge EXCEPT ![p] = {}] /\ Goto(p, After(p))

NudgeRest(p, rest) ==
    /\ nudge' = [nudge EXCEPT ![p] = rest]
    /\ Goto(p, IF rest = {} THEN After(p) ELSE "nudge")

SnapshotIDs(p) ==
    /\ pc[p] = "snapshot"
    /\ NudgeRest(p, registry)
    /\ UNCHANGED <<task, targets, marks, rewarding, memVars, clientVars, dbVars,
                   ghostVars>>

NudgeWorker(p, w) ==
    /\ pc[p] = "nudge" /\ w \in nudge[p]
    /\ MaybeAssignWork(w)
    /\ NudgeRest(p, nudge[p] \ {w})
    /\ UNCHANGED <<task, targets, rewarding, registry, completed, hello, cancelled,
                   dbVars, bad, faults, crashes>>

---------------------------------------------------------------------------
(* Goroutines started with "go", the worker, and the server process.       *)

(* An open transaction of VerifyUnsatShard holds the row lock of its shard.*)
RowLocked(s) ==
    \E c \in Conns : task[c] = s /\ pc[c] \in {"seal", "commitShard", "commitJob"}

(* markShardAssigned: status, whatever it is now, becomes 'running', unless*)
(* the UPDATE fails, which is a log line.                                  *)
MarkShardAssigned(s) ==
    /\ marks[s] > 0 /\ ~RowLocked(s)
    /\ marks' = [marks EXCEPT ![s] = @ - 1]
    /\ \/ shardStatus' = [shardStatus EXCEPT ![s] = "running"] /\ UNCHANGED faults
       \/ faults < MaxFaults /\ faults' = faults + 1 /\ UNCHANGED shardStatus
    /\ UNCHANGED <<pc, task, nudge, targets, rewarding, memVars, clientVars, shardRes,
                   jobStatus, jobRes, paid, refused, bad, crashes>>

(* rewardWorkerForJob: the worker's user is found through the registry;    *)
(* the "already rewarded" query looks for a reason that is never written.  *)
(* The client may also lack the funds.                                     *)
RewardWorkerForJob(r) ==
    /\ r \in rewarding
    /\ rewarding' = rewarding \ {r}
    /\ \/ UNCHANGED paid
       \/ r[2] \in registry /\ paid' = [paid EXCEPT ![r[1]] = @ + 1]
    /\ UNCHANGED <<pc, task, nudge, targets, marks, memVars, clientVars, shardStatus,
                   shardRes, jobStatus, jobRes, ghostVars>>

(* The worker stops without a JobResult: it was cancelled, or failed.      *)
GiveUp(c, s) ==
    /\ s \in client[c]
    /\ JobOf[s] \in cancelled[c] \/ MayGiveUp
    /\ client' = [client EXCEPT ![c] = @ \ {s}]
    /\ UNCHANGED <<pc, procVars, memVars, hello, cancelled, dbVars, ghostVars>>

(* The process dies and is started again; only the database survives.      *)
Crash ==
    /\ crashes < MaxCrashes
    /\ crashes' = crashes + 1
    /\ pc' = [p \in Procs |-> IF p \in Conns THEN "absent"
                              ELSE IF pc[p] = "new" THEN "new" ELSE "done"]
    /\ task' = [c \in Conns |-> None]
    /\ nudge' = [p \in Procs |-> {}]
    /\ targets' = [c \in Conns |-> {}]
    /\ marks' = [s \in Shards |-> 0]
    /\ rewarding' = {}
    /\ registry' = {} /\ completed' = {} /\ pending' = << >>
    /\ workerShard' = [c \in Conns |-> None]
    /\ hello' = {}
    /\ client' = [c \in Conns |-> {}]
    /\ cancelled' = [c \in Conns |-> {}]
    /\ refused' = {}
    /\ UNCHANGED <<dbVars, bad, faults>>

---------------------------------------------------------------------------
(* One step of the goroutine of connection c that needs no outside event.  *)
ConnStep(c) ==
    \/ TrySelf(c) \/ Delete(c) \/ HandleDisconnect(c)
    \/ StoreSat(c) \/ MarkJobCompleted(c) \/ FinishSat(c)
    \/ \E w \in Conns : SendCancel(c, w)
    \/ CountShards(c) \/ SealJob(c) \/ CommitShard(c) \/ CommitJob(c)
    \/ RequeueRow(c)

(* The tail that EnqueueJob and ReenqueueShard share.                      *)
QueueStep(p) ==
    \/ AppendPending(p) \/ SnapshotIDs(p)
    \/ \E w \in Conns : NudgeWorker(p, w)

Next ==
    \/ \E c \in Conns :
          \/ Connect(c) \/ RecvHello(c) \/ Disconnect(c) \/ Fail(c)
          \/ ConnStep(c)
          \/ \E s \in Shards : GiveUp(c, s) \/ \E v \in Verdicts(s) : RecvResult(c, s, v)
    \/ \E j \in Jobs : EnqueueRows(j) \/ EnqueueInvalid(j) \/ SealInvalid(j) \/ EnqueueFails(j)
    \/ \E p \in Procs : QueueStep(p)
    \/ \E s \in Shards : MarkShardAssigned(s)
    \/ \E r \in rewarding : RewardWorkerForJob(r)
    \/ Crash

Spec == Init /\ [][Next]_vars

(* Goroutines that can run do run; a connected worker sends its Hello and, *)
(* unless the job was cancelled, in the end a verifiable result.  Nothing  *)
(* forces a worker to connect, to stay, or to fail.                        *)
Answer(c) ==
    \E s \in client[c] :
        /\ JobOf[s] \notin cancelled[c]
        /\ \E v \in Verdicts(s) \ {"bad"} : RecvResult(c, s, v)

Fairness ==
    /\ \A c \in Conns : /\ WF_vars(ConnStep(c))
                        /\ WF_vars(RecvHello(c))
                        /\ WF_vars(Answer(c))
    /\ \A p \in Procs : WF_vars(QueueStep(p))
    /\ \A j \in Jobs : WF_vars(SealInvalid(j))
    /\ \A s \in Shards : WF_vars(MarkShardAssigned(s))
    /\ WF_vars(\E r \in rewarding : RewardWorkerForJob(r))

FairSpec == Spec /\ Fairness
---------------------------------------------------------------------------
(* Correctness.                                                            *)

(* Every variable has its type.                                            *)
TypeOK ==
    /\ pc \in [Procs -> {"absent", "try", "recv", "store", "announce", "cancel",
                         "count", "seal", "commitShard", "commitJob", "requeue",
                         "append", "snapshot", "nudge", "leave", "gone", "closed",
                         "new", "reject", "done"}]
    /\ task \in [Conns -> Shards \cup {None}]
    /\ nudge \in [Procs -> SUBSET Conns]
    /\ targets \in [Conns -> SUBSET Conns]
    /\ marks \in [Shards -> Nat]
    /\ rewarding \subseteq Shards \X Conns
    /\ registry \subseteq Conns
    /\ workerShard \in [Conns -> Shards \cup {None}]
    /\ pending \in Seq(Shards)
    /\ completed \subseteq Jobs
    /\ hello \subseteq Conns
    /\ client \in [Conns -> SUBSET Shards]
    /\ cancelled \in [Conns -> SUBSET Jobs]
    /\ shardStatus \in [Shards -> {"none", "pending", "running", "completed"}]
    /\ shardRes \in [Shards -> {"none", "sat", "unsat"}]
    /\ jobStatus \in [Jobs -> {"pending", "completed", "failed"}]
    /\ jobRes \in [Jobs -> {None, Unsat} \cup Shards]
    /\ paid \in [Shards -> Nat]
    /\ refused \subseteq Conns
    /\ bad \in Nat /\ faults \in Nat /\ crashes \in Nat

(* The places a shard can be: not queued yet, in the queue, assigned to a  *)
(* connection, in the hands of a handler, or decided for good.             *)
BeforeVerdict == {"store", "count", "seal", "commitShard", "commitJob", "requeue", "append"}
Holds(c, s) == task[c] = s /\ pc[c] \in BeforeVerdict

Fresh(s)   == pc[JobOf[s]] \in {"new", "append"}
Queued(s)  == \E i \in 1..Len(pending) : pending[i] = s
Leased(s)  == \E c \in Conns : workerShard[c] = s
Handled(s) == \E c \in Conns : Holds(c, s)
Decided(s) == shardRes[s] # "none"

QueuedOnce  == \A i, k \in 1..Len(pending) : pending[i] = pending[k] => i = k
LeasedOnce  == \A c, d \in Conns :
                  workerShard[c] # None /\ workerShard[c] = workerShard[d] => c = d
HandledOnce == \A s \in Shards : \A c, d \in Conns : Holds(c, s) /\ Holds(d, s) => c = d

(* A shard is never in two places: it is not handed to two connections,    *)
(* queued twice, queued while a worker still has it, or queued again after *)
(* its verdict, whatever disconnects, bad results, database errors and     *)
(* restarts come between.                                                  *)
OnePlace ==
    /\ QueuedOnce /\ LeasedOnce /\ HandledOnce
    /\ \A s \in Shards :
          /\ Fresh(s)   => ~Queued(s) /\ ~Leased(s) /\ ~Handled(s) /\ ~Decided(s)
          /\ Queued(s)  => ~Leased(s) /\ ~Handled(s) /\ ~Decided(s)
          /\ Leased(s)  => ~Handled(s) /\ ~Decided(s)
          /\ Handled(s) => ~Decided(s)

(* A worker owes at most one result, and for the shard the server has on   *)
(* record: HandleJobResult trusts res.ShardId instead of comparing it with *)
(* workerShard, and clears workerShard whatever the id was.                *)
DebtOnRecord == \A c \in Conns : \A s \in client[c] : workerShard[c] = s

(* The same as a promise between the two ends of each connection: every    *)
(* step of the farm is at most one step of the interface Worker implements.*)
Link(c) == INSTANCE Owing WITH record <- workerShard[c], owed <- client[c]
ImplementsOwing ==
    /\ \A c \in Conns : Link(c)!Init
    /\ [][\A c \in Conns : Link(c)!Next \/ UNCHANGED Link(c)!owingVars]_vars

(* A shard is never left assigned to a connection that is gone: whoever    *)
(* assigns between Delete and HandleDisconnect is still noticed.           *)
NoOrphan ==
    \A c \in Conns : workerShard[c] # None => c \in registry \/ pc[c] = "gone"

(* No lost wake-up.  While a live shard is queued, every registered idle   *)
(* connection has an attempt ahead of it, its own or in some nudge loop,   *)
(* or was refused (balance, Send) at its last one.                         *)
AttemptAhead(c) ==
    \/ pc[c] \in {"try", "leave"} \/ task[c] # None
    \/ pc[c] \in {"snapshot", "nudge"}
    \/ \E p \in Procs : c \in nudge[p] \/ pc[p] = "snapshot"

LiveQueued == \E i \in 1..Len(pending) : JobOf[pending[i]] \notin completed

NoLostWakeup ==
    LiveQueued =>
        \A c \in registry \ refused : workerShard[c] = None => AttemptAhead(c)

(* Without a restart, each database error loses at most one shard: a shard *)
(* with a row and no verdict, of an unfinished job, that is nowhere.       *)
Lost == {s \in Shards : /\ shardStatus[s] # "none"
                        /\ jobStatus[JobOf[s]] = "pending"
                        /\ ~Fresh(s) /\ ~Queued(s) /\ ~Leased(s)
                        /\ ~Handled(s) /\ ~Decided(s)}

LossesAreFaults == crashes = 0 => Cardinality(Lost) <= faults

(* The verdict a client sees is backed by verified shards: UNSAT by all of *)
(* the job's, SAT by the one whose model is stored.  Holds across restarts *)
(* and with stale, late and racing results.                                *)
VerdictBacked ==
    \A j \in Jobs :
        /\ jobRes[j] = Unsat => \A s \in ShardsOf(j) : shardRes[s] = "unsat"
        /\ jobRes[j] \in Shards => JobOf[jobRes[j]] = j /\ shardRes[jobRes[j]] = "sat"
        /\ jobRes[j] # None <=> jobStatus[j] = "completed"

(* The verdict of a job, and the model that goes with it, never changes,   *)
(* although two SAT shards of a job may both be stored.                    *)
VerdictStable ==
    [][\A j \in Jobs : jobRes[j] # None => jobRes'[j] = jobRes[j]]_vars

(* The result tables change only as the readers of them are promised, in   *)
(* every interleaving, after errors and across restarts: a shard's result  *)
(* is written once, a rejected upload gets none, the first model decides a *)
(* job, and UNSAT is written with the last of its shards.                  *)
Tables == INSTANCE Verdicts
ImplementsVerdicts == Tables!Spec

(* completedJobs and the jobs table agree except while a handler, or       *)
(* EnqueueJob with a rejected upload, is between the two, and except after *)
(* an error there or a restart.                                            *)
Between(l, j) == \E c \in Conns : pc[c] = l /\ JobOf[task[c]] = j

MemoryMatchesDB ==
    faults = 0 /\ crashes = 0 =>
        \A j \in Jobs :
            /\ j \in completed => jobStatus[j] # "pending" \/ Between("commitJob", j)
            /\ jobStatus[j] # "pending" =>
                  j \in completed \/ Between("announce", j) \/ pc[j] = "reject"

(* A verified shard is paid at most once, and nothing is paid for a shard  *)
(* without a stored verdict, although the query that is to find earlier    *)
(* payments never does and the payment runs in a goroutine of its own.     *)
Due(s) == {r \in rewarding : r[1] = s}

PaidOnce ==
    \A s \in Shards :
        /\ paid[s] + Cardinality(Due(s)) <= 1
        /\ paid[s] > 0 \/ Due(s) # {} => Decided(s)

(* A worker is told to drop a job only after the job's verdict is durable. *)
CancelAfterVerdict ==
    \A c \in Conns : \A j \in cancelled[c] : jobRes[j] \in Shards

(* Once the shards of a satisfiable job are queued, the job is completed,  *)
(* provided that from some time on there always is a connected worker.     *)
SatJobFinishes ==
    <>[](registry # {}) =>
        \A j \in {JobOf[s] : s \in SatShards} :
            pc[j] = "append" ~> jobStatus[j] = "completed"

---------------------------------------------------------------------------
(* What makes OnePlace inductive.                                          *)

(* A handler that is past Recv has the shard it deals with.                *)
HandlerHasTask ==
    \A c \in Conns :
        pc[c] \in BeforeVerdict \cup {"announce", "cancel"} => task[c] \in Shards

(* Only a registered connection whose stream still works owes anything.    *)
DebtIsLive ==
    \A c \in Conns : client[c] # {} => c \in registry /\ pc[c] # "leave"

(* HandleDisconnect runs after Delete.                                     *)
GoneIsUnregistered == \A c \in Conns : pc[c] = "gone" => c \notin registry

(* The control points of the two kinds of goroutines.                      *)
JobControl == {"new", "reject", "append", "snapshot", "nudge", "done"}
ControlOK ==
    /\ \A j \in Jobs : pc[j] \in JobControl
    /\ \A c \in Conns : pc[c] \notin {"new", "reject", "done"}

IndInv ==
    /\ TypeOK /\ ControlOK /\ HandlerHasTask
    /\ DebtIsLive /\ GoneIsUnregistered /\ DebtOnRecord /\ NoOrphan
    /\ OnePlace

(* What makes VerdictBacked and CancelAfterVerdict inductive, on top of    *)
(* IndInv: a row is 'completed' only with a verdict; a transaction that    *)
(* completes a job has seen all other shards of it UNSAT; a handler that   *)
(* cancels has stored a model; a job with a verdict has been enqueued.     *)
CompletedHasVerdict ==
    \A s \in Shards : shardStatus[s] = "completed" => Decided(s)

SealSeesAll ==
    \A c \in Conns : pc[c] \in {"seal", "commitJob"} =>
        \A t \in ShardsOf(JobOf[task[c]]) \ {task[c]} : shardRes[t] = "unsat"

AnnounceHasModel ==
    \A c \in Conns : pc[c] \in {"announce", "cancel"} => jobRes[JobOf[task[c]]] \in Shards

VerdictOfEnqueued == \A j \in Jobs : jobRes[j] # None => pc[j] # "new"

VerdictInv ==
    /\ CompletedHasVerdict /\ SealSeesAll /\ AnnounceHasModel /\ VerdictOfEnqueued
    /\ VerdictBacked /\ CancelAfterVerdict

(* What ImplementsVerdicts needs on top of both: whatever the scheduler    *)
(* deals with has a row, and a new or a rejected job has none.             *)
NeedsRow(s) ==
    \/ Queued(s) \/ Leased(s) \/ Handled(s) \/ Decided(s)
    \/ marks[s] > 0 \/ pc[JobOf[s]] = "append"

RowExists == \A s \in Shards : NeedsRow(s) => shardStatus[s] # "none"

WithoutRows(j) == \A s \in ShardsOf(j) : shardStatus[s] = "none"

NewHasNoRows ==
    \A j \in Jobs :
        /\ pc[j] = "new" => jobStatus[j] = "pending"
        /\ pc[j] \in {"new", "reject"} => WithoutRows(j)
FailedHasNoRows == \A j \in Jobs : jobStatus[j] = "failed" => WithoutRows(j)

RowInv == RowExists /\ NewHasNoRows /\ FailedHasNoRows

(* What makes MemoryMatchesDB inductive: a job is sealed before its commit,*)
(* and a rejected one is in the database before it is sealed.              *)
SealedFirst == \A c \in Conns : pc[c] = "commitJob" => JobOf[task[c]] \in completed
RejectedFirst ==
    faults = 0 /\ crashes = 0 =>
        \A j \in Jobs : pc[j] = "reject" => jobStatus[j] # "pending"

(* What makes PaidOnce inductive: a stored model is announced by one       *)
(* handler, which has not paid it yet.                                     *)
Announces(c, s) == task[c] = s /\ pc[c] \in {"announce", "cancel"}
Unpaid(s) == paid[s] = 0 /\ Due(s) = {}

PaidInv ==
    \A s \in Shards :
        /\ paid[s] > 0 => paid[s] = 1 /\ Due(s) = {}
        /\ \A q, r \in Due(s) : q = r
        /\ ~Unpaid(s) => Decided(s)
        /\ \A c \in Conns : Announces(c, s) =>
              Decided(s) /\ Unpaid(s) /\ \A d \in Conns : Announces(d, s) => d = c

(* What makes LossesAreFaults inductive: the queue drops the shards of     *)
(* completed jobs, and a job that is completed in memory only has none in  *)
(* it, nor any that could get there.  (What was lost is finite.)           *)
MayBeQueued(s) ==
    Fresh(s) \/ Queued(s) \/ Leased(s) \/ \E c \in Conns : Holds(c, s) /\ pc[c] # "commitJob"

NothingToDrop ==
    \A s \in Shards :
        JobOf[s] \in completed /\ jobStatus[JobOf[s]] = "pending" => ~MayBeQueued(s)

LossInv == NothingToDrop /\ (crashes = 0 => IsFiniteSet(Lost) /\ LossesAreFaults)

---------------------------------------------------------------------------
(* What comments promise and the code does not keep.                       *)

(* "Check whether ALL shards completed & none SAT": when every row of a    *)
(* job is 'completed', none is SAT and no handler is at work, the job is   *)
(* completed.                                                              *)
UnsatRecorded ==
    faults = 0 /\ (\A c \in Conns : task[c] = None) =>
        \A j \in Jobs :
            (\A s \in ShardsOf(j) : shardStatus[s] = "completed" /\ shardRes[s] = "unsat")
                => jobStatus[j] = "completed"

(* "Mark the shard completed": a verified shard is 'completed'.            *)
VerifiedIsCompleted ==
    \A s \in Shards : shardRes[s] # "none" => shardStatus[s] = "completed"

(* "To avoid double-paying when multiple SAT shards race" (balance.go), and*)
(* "idempotent / per-job" (scheduler.go, of UNSAT shards): at most one     *)
(* shard of a job is paid.                                                 *)
OneRewardPerJob ==
    \A s, t \in Shards : paid[s] > 0 /\ paid[t] > 0 /\ JobOf[s] = JobOf[t] => s = t

(* workerShard is "nil if idle": a worker that owes nothing is in the end  *)
(* idle for the server too, or has left, or got work.                      *)
IdleIsSeen ==
    \A c \in Conns :
        (c \in registry /\ client[c] = {}) ~>
            (c \notin registry \/ client[c] # {} \/ workerShard[c] = None)
=============================================================================
