--------------------------- MODULE VerdictProofs ---------------------------
(***************************************************************************)
(* Scheduler implements Verdicts: whatever the scheduler does to the       *)
(* result tables is one of the four changes their readers are promised.    *)
(*                                                                         *)
(* On top of the invariant of SchedulerProofs the argument needs RowInv: a *)
(* shard that is queued, leased, handled, marked or decided has a row, and *)
(* a job whose upload is new or was rejected has no shard rows at all, so  *)
(* no result can ever reach it.                                            *)
(***************************************************************************)
EXTENDS SchedulerProofs

---------------------------------------------------------------------------
(* Rows.                                                                   *)

Rowless(s) == shardStatus[s] = "none"

(* Steps that create no row, decide no job, and bring in no shard.         *)
LEMMA KeepRows ==
    ASSUME RowInv, UNCHANGED jobStatus,
           \A s \in Shards : Rowless(s)' <=> Rowless(s),
           \A s \in Shards : NeedsRow(s)' => NeedsRow(s),
           \A j \in Jobs : pc'[j] \in {"new", "reject"} => pc'[j] = pc[j]
    PROVE  RowInv'
BY DEF RowInv, RowExists, NewHasNoRows, FailedHasNoRows, WithoutRows, ShardsOf, Rowless

(* The same for steps that complete the job of a shard that has a row.     *)
LEMMA CompleteRows ==
    ASSUME TypeOK, RowInv, NEW s \in Shards, NeedsRow(s),
           jobStatus' = [jobStatus EXCEPT ![JobOf[s]] = "completed"],
           \A t \in Shards : Rowless(t)' <=> Rowless(t),
           \A t \in Shards : NeedsRow(t)' => NeedsRow(t),
           \A j \in Jobs : pc'[j] \in {"new", "reject"} => pc'[j] = pc[j]
    PROVE  RowInv'
<1>1. ~Rowless(s) /\ JobOf[s] \in Jobs /\ s \in ShardsOf(JobOf[s])
  BY ConfigAssumption DEF RowInv, RowExists, Rowless, ShardsOf
<1>2. pc[JobOf[s]] \notin {"new", "reject"} /\ jobStatus[JobOf[s]] # "failed"
  BY <1>1 DEF RowInv, NewHasNoRows, FailedHasNoRows, WithoutRows, Rowless
<1>3. \A j \in Jobs : jobStatus'[j] = IF j = JobOf[s] THEN "completed" ELSE jobStatus[j]
  BY <1>1 DEF TypeOK
<1>4. RowExists'
  BY DEF RowInv, RowExists, Rowless
<1>5. NewHasNoRows' /\ FailedHasNoRows'
  BY <1>2, <1>3 DEF RowInv, NewHasNoRows, FailedHasNoRows, WithoutRows, ShardsOf, Rowless
<1> QED
  BY <1>4, <1>5 DEF RowInv

(* MaybeAssignWork leases and marks only what was queued.                  *)
LEMMA AssignRows ==
    ASSUME TypeOK, NEW w \in Conns, MaybeAssignWork(w), NEW s \in Shards
    PROVE  /\ Queued(s)' => Queued(s)
           /\ Leased(s)' => Leased(s) \/ Queued(s)
           /\ marks'[s] > 0 => marks[s] > 0 \/ Queued(s)
<1>1. ASSUME NEW k \in 1..Len(pending) + 1, pending' = SubSeq(pending, k, Len(pending))
      PROVE  Queued(s)' => Queued(s)
  <2>0. pending \in Seq(Shards) /\ Len(pending) \in Nat
    BY DEF TypeOK
  <2>1. /\ Len(pending') = Len(pending) - k + 1
        /\ \A i \in 1..Len(pending') : pending'[i] = pending[k + i - 1]
    BY <1>1, <2>0, SubSeqProperties
  <2>2. \A i \in 1..Len(pending') : k + i - 1 \in 1..Len(pending)
    BY <2>0, <2>1
  <2> QED
    BY <2>1, <2>2 DEF Queued
<1>2. ASSUME NEW k \in 1..Len(pending)
      PROVE  k \in 1..Len(pending) + 1 /\ k + 1 \in 1..Len(pending) + 1
  BY DEF TypeOK
<1>3. CASE UNCHANGED <<pending, workerShard, marks>>
  BY <1>3 DEF Queued, Leased
<1>4. CASE NothingLive(w)
  BY <1>4 DEF NothingLive, Queued, Leased
<1>5. ASSUME NEW k \in 1..Len(pending), PutBack(w, k)
      PROVE  (Queued(s)' => Queued(s)) /\ UNCHANGED <<workerShard, marks>>
  BY <1>1, <1>2, <1>5 DEF PutBack
<1>6. ASSUME NEW k \in 1..Len(pending), Assign(w, k)
      PROVE  /\ Queued(s)' => Queued(s)
             /\ Leased(s)' => Leased(s) \/ Queued(s)
             /\ marks'[s] > 0 => marks[s] > 0 \/ Queued(s)
  <2>1. pending[k] \in Shards /\ Queued(pending[k])
    BY DEF TypeOK, Queued
  <2>2. Queued(s)' => Queued(s)
    BY <1>1, <1>2, <1>6 DEF Assign, Popped
  <2>3. Leased(s)' => Leased(s) \/ s = pending[k]
    BY <1>6 DEF Assign, Leased, TypeOK
  <2>4. marks'[s] > 0 => marks[s] > 0 \/ s = pending[k]
    BY <1>6, <2>1 DEF Assign, TypeOK
  <2> QED
    BY <2>1, <2>2, <2>3, <2>4
<1> QED
  BY <1>3, <1>4, <1>5, <1>6 DEF MaybeAssignWork, Leased

(* Every action keeps the rows in order.                                   *)
LEMMA RowNext == TypeOK /\ Side /\ OnePlace /\ RowInv /\ Next => RowInv'
<1> SUFFICES ASSUME TypeOK, Side, OnePlace, RowInv, Next PROVE RowInv'
  OBVIOUS
<1> USE ConfigAssumption
    DEF Goto, Procs, After, procVars, memVars, clientVars, dbVars, ghostVars
<1>1. ASSUME UNCHANGED <<pending, workerShard, marks, shardStatus, shardRes, jobStatus>>,
             \A c \in Conns, s \in Shards : Holds(c, s)' => Holds(c, s),
             \A j \in Jobs : pc'[j] \in {"new", "reject", "append"} => pc'[j] = pc[j]
      PROVE  RowInv'
  BY <1>1, KeepRows DEF NeedsRow, Queued, Leased, Handled, Decided, Rowless
<1>2. ASSUME NEW c \in Conns, Connect(c) PROVE RowInv'
  BY <1>1, <1>2 DEF Connect, TypeOK, Holds, BeforeVerdict, Side, ControlOK, JobControl
<1>3. ASSUME NEW w \in Conns, MaybeAssignWork(w), UNCHANGED <<shardStatus, shardRes, jobStatus>>,
             \A c \in Conns, s \in Shards : Holds(c, s)' => Holds(c, s),
             \A j \in Jobs : pc'[j] \in {"new", "reject", "append"} => pc'[j] = pc[j]
      PROVE  RowInv'
  <2>1. \A s \in Shards : NeedsRow(s)' => NeedsRow(s)
    BY <1>3, AssignRows DEF NeedsRow, Handled, Decided
  <2> QED
    BY <1>3, <2>1, KeepRows DEF Rowless
<1>4. ASSUME NEW c \in Conns, TrySelf(c) PROVE RowInv'
  BY <1>3, <1>4 DEF TrySelf, TypeOK, Holds, BeforeVerdict, Side, ControlOK, JobControl
<1>5. ASSUME NEW c \in Conns, RecvHello(c) \/ Disconnect(c) \/ Delete(c) PROVE RowInv'
  BY <1>1, <1>5 DEF RecvHello, Disconnect, Delete, TypeOK, Holds, BeforeVerdict, Side,
     ControlOK, JobControl
<1>6. ASSUME NEW c \in Conns, HandleDisconnect(c) PROVE RowInv'
  <2>1. \A s \in Shards : Leased(s)' => Leased(s)
    BY <1>6 DEF HandleDisconnect, Leased, TypeOK
  <2>2. \A s \in Shards : Handled(s)' => Handled(s) \/ Leased(s)
    BY <1>6 DEF HandleDisconnect, Unclaimed, Handled, Leased, Holds, BeforeVerdict, TypeOK
  <2>3. UNCHANGED <<pending, marks, shardStatus, shardRes, jobStatus>>
    BY <1>6 DEF HandleDisconnect
  <2>4. \A j \in Jobs : pc'[j] = pc[j]
    BY <1>6 DEF HandleDisconnect, TypeOK, Side, ControlOK, JobControl
  <2>5. \A s \in Shards : NeedsRow(s)' => NeedsRow(s)
    BY <2>1, <2>2, <2>3, <2>4 DEF NeedsRow, Queued, Decided
  <2> QED
    BY <2>3, <2>4, <2>5, KeepRows DEF Rowless
<1>7. ASSUME NEW c \in Conns, NEW s \in Shards, NEW v \in Verdicts(s), RecvResult(c, s, v)
      PROVE  RowInv'
  <2>1. Leased(s)
    BY <1>7 DEF RecvResult, Side, DebtOnRecord, Leased
  <2>2. \A t \in Shards : Leased(t)' => Leased(t)
    BY <1>7 DEF RecvResult, Leased, TypeOK
  <2>3. \A t \in Shards : Handled(t)' => Handled(t) \/ t = s
    BY <1>7 DEF RecvResult, Handled, Holds, BeforeVerdict, TypeOK
  <2>4. UNCHANGED <<pending, marks, shardStatus, shardRes, jobStatus>>
    BY <1>7 DEF RecvResult
  <2>5. \A j \in Jobs : pc'[j] = pc[j]
    BY <1>7 DEF RecvResult, TypeOK, Side, ControlOK, JobControl
  <2>6. \A t \in Shards : NeedsRow(t)' => NeedsRow(t)
    BY <2>1, <2>2, <2>3, <2>4, <2>5 DEF NeedsRow, Queued, Decided
  <2> QED
    BY <2>4, <2>5, <2>6, KeepRows DEF Rowless
<1>8. ASSUME NEW c \in Conns, NEW v \in {"sat", "unsat"}, task[c] \in Shards,
             Holds(c, task[c]), shardStatus' = [shardStatus EXCEPT ![task[c]] = "completed"],
             shardRes' = [shardRes EXCEPT ![task[c]] = v],
             UNCHANGED <<pending, workerShard, marks>>,
             \A d \in Conns, s \in Shards : Holds(d, s)' => Holds(d, s),
             \A j \in Jobs : pc'[j] = pc[j]
      PROVE  /\ \A s \in Shards : Rowless(s)' <=> Rowless(s)
             /\ \A s \in Shards : NeedsRow(s)' => NeedsRow(s)
             /\ NeedsRow(task[c])
  <2>1. NeedsRow(task[c])
    BY <1>8 DEF NeedsRow, Handled
  <2>2. \A s \in Shards : Rowless(s)' <=> Rowless(s)
    BY <1>8, <2>1 DEF RowInv, RowExists, Rowless, TypeOK
  <2>3. \A s \in Shards : Decided(s)' => Decided(s) \/ s = task[c]
    BY <1>8 DEF Decided, TypeOK
  <2> QED
    BY <1>8, <2>1, <2>2, <2>3 DEF NeedsRow, Queued, Leased, Handled
<1>9. ASSUME NEW c \in Conns, StoreSat(c) PROVE RowInv'
  <2>1. task[c] \in Shards /\ Holds(c, task[c])
    BY <1>9 DEF StoreSat, Side, HandlerHasTask, Holds, BeforeVerdict
  <2>2. /\ \A d \in Conns, s \in Shards : Holds(d, s)' => Holds(d, s)
        /\ \A j \in Jobs : pc'[j] = pc[j]
    BY <1>9 DEF StoreSat, TypeOK, Holds, BeforeVerdict, Side, ControlOK, JobControl
  <2>3. /\ \A s \in Shards : Rowless(s)' <=> Rowless(s)
        /\ \A s \in Shards : NeedsRow(s)' => NeedsRow(s)
        /\ NeedsRow(task[c])
    BY <1>8, <1>9, <2>1, <2>2 DEF StoreSat
  <2> QED
    BY <1>9, <2>1, <2>2, <2>3, CompleteRows DEF StoreSat
<1>10. ASSUME NEW c \in Conns, MarkJobCompleted(c) \/ FinishSat(c) \/ CountShards(c) \/ SealJob(c)
       PROVE  RowInv'
  BY <1>1, <1>10 DEF MarkJobCompleted, FinishSat, Reward, CountShards, CommitPath, SealJob,
     TypeOK, Holds, BeforeVerdict, Side, ControlOK, JobControl
<1>11. ASSUME NEW c \in Conns, NEW w \in Conns, SendCancel(c, w) PROVE RowInv'
  BY <1>1, <1>11 DEF SendCancel, Holds
<1>12. ASSUME NEW c \in Conns, CommitShard(c) \/ CommitJob(c) PROVE RowInv'
  <2>1. task[c] \in Shards /\ Holds(c, task[c])
    BY <1>12 DEF CommitShard, CommitJob, Side, HandlerHasTask, Holds, BeforeVerdict
  <2>2. CommitRow(c)
    BY <1>12 DEF CommitShard, CommitJob
  <2>3. /\ \A d \in Conns, s \in Shards : Holds(d, s)' => Holds(d, s)
        /\ \A j \in Jobs : pc'[j] = pc[j]
    BY <2>2 DEF CommitRow, Reward, TypeOK, Holds, BeforeVerdict, Side, ControlOK, JobControl
  <2>4. /\ \A s \in Shards : Rowless(s)' <=> Rowless(s)
        /\ \A s \in Shards : NeedsRow(s)' => NeedsRow(s)
        /\ NeedsRow(task[c])
    BY <1>8, <2>1, <2>2, <2>3 DEF CommitRow
  <2>5. ASSUME CommitShard(c) PROVE RowInv'
    BY <2>3, <2>4, <2>5, KeepRows DEF CommitShard
  <2>6. ASSUME CommitJob(c) PROVE RowInv'
    BY <2>1, <2>3, <2>4, <2>6, CompleteRows DEF CommitJob
  <2> QED
    BY <1>12, <2>5, <2>6
<1>13. ASSUME NEW c \in Conns, Fail(c) PROVE RowInv'
  BY <1>1, <1>13 DEF Fail, TypeOK, Holds, BeforeVerdict, Side, ControlOK, JobControl
<1>14. ASSUME NEW c \in Conns, RequeueRow(c) PROVE RowInv'
  <2>1. task[c] \in Shards /\ Holds(c, task[c])
    BY <1>14 DEF RequeueRow, Side, HandlerHasTask, Holds, BeforeVerdict
  <2>2. NeedsRow(task[c])
    BY <2>1 DEF NeedsRow, Handled
  <2>3. \A s \in Shards : Rowless(s)' <=> Rowless(s)
    BY <1>14, <2>1, <2>2 DEF RequeueRow, RowInv, RowExists, Rowless, TypeOK
  <2>4. \A d \in Conns, s \in Shards : Holds(d, s)' => Holds(d, s)
    BY <1>14 DEF RequeueRow, TypeOK, Holds, BeforeVerdict
  <2>5. \A j \in Jobs : pc'[j] = pc[j]
    BY <1>14 DEF RequeueRow, TypeOK, Side, ControlOK, JobControl
  <2>6. \A s \in Shards : NeedsRow(s)' => NeedsRow(s)
    BY <1>14, <2>4, <2>5 DEF RequeueRow, NeedsRow, Queued, Leased, Handled, Decided
  <2> QED
    BY <1>14, <2>3, <2>5, <2>6, KeepRows DEF RequeueRow
<1>15. ASSUME NEW j \in Jobs, EnqueueRows(j) PROVE RowInv'
  <2>1. \A s \in Shards : shardStatus'[s] = IF JobOf[s] = j THEN "pending" ELSE shardStatus[s]
    BY <1>15 DEF EnqueueRows
  <2>2. \A k \in Jobs : pc'[k] = IF k = j THEN "append" ELSE pc[k]
    BY <1>15 DEF EnqueueRows, TypeOK
  <2>3. \A d \in Conns, s \in Shards : Holds(d, s)' => Holds(d, s)
    BY <1>15 DEF EnqueueRows, TypeOK, Holds, BeforeVerdict
  <2>4. \A s \in Shards : NeedsRow(s)' => NeedsRow(s) \/ JobOf[s] = j
    BY <1>15, <2>2, <2>3 DEF EnqueueRows, NeedsRow, Queued, Leased, Handled, Decided
  <2>5. RowExists'
    BY <2>1, <2>4 DEF RowInv, RowExists
  <2>6. jobStatus[j] = "pending"
    BY <1>15 DEF EnqueueRows, RowInv, NewHasNoRows
  <2>7. NewHasNoRows' /\ FailedHasNoRows'
    BY <1>15, <2>1, <2>2, <2>6
       DEF EnqueueRows, RowInv, NewHasNoRows, FailedHasNoRows, WithoutRows, ShardsOf
  <2> QED
    BY <2>5, <2>7 DEF RowInv
<1>16. ASSUME NEW j \in Jobs, EnqueueInvalid(j) PROVE RowInv'
  <2>1. UNCHANGED <<pending, workerShard, marks, shardStatus, shardRes, task>>
    BY <1>16 DEF EnqueueInvalid
  <2>2. \A k \in Jobs : pc'[k] = IF k = j THEN "reject" ELSE pc[k]
    BY <1>16 DEF EnqueueInvalid, TypeOK
  <2>3. \A k \in Jobs : k # j => jobStatus'[k] = jobStatus[k]
    BY <1>16 DEF EnqueueInvalid, TypeOK
  <2>4. \A d \in Conns, s \in Shards : Holds(d, s)' => Holds(d, s)
    BY <1>16, <2>1 DEF EnqueueInvalid, TypeOK, Holds, BeforeVerdict
  <2>5. \A s \in Shards : NeedsRow(s)' => NeedsRow(s)
    BY <2>1, <2>2, <2>4 DEF NeedsRow, Queued, Leased, Handled, Decided
  <2>6. WithoutRows(j)
    BY <1>16 DEF EnqueueInvalid, RowInv, NewHasNoRows
  <2> QED
    BY <2>1, <2>2, <2>3, <2>5, <2>6
       DEF RowInv, RowExists, NewHasNoRows, FailedHasNoRows, WithoutRows
<1>17. ASSUME NEW j \in Jobs, EnqueueFails(j) PROVE RowInv'
  BY <1>1, <1>17 DEF EnqueueFails, TypeOK, Holds, BeforeVerdict
<1>18. ASSUME NEW p \in Procs, AppendPending(p) PROVE RowInv'
  <2>1. \A i \in 1..Len(Batch(p)) : Batch(p)[i] \in Shards /\ NeedsRow(Batch(p)[i])
    <3>1. CASE p \in Jobs
      <4>1. Batch(p) = Cubes[p] /\ Cubes[p] \in Seq(Shards)
        BY <3>1 DEF Batch
      <4>2. \A i \in 1..Len(Cubes[p]) : Cubes[p][i] \in Shards /\ JobOf[Cubes[p][i]] = p
        BY <3>1, <4>1
      <4>3. pc[p] = "append"
        BY <1>18 DEF AppendPending
      <4> QED
        BY <4>1, <4>2, <4>3 DEF NeedsRow
    <3>2. CASE p \in Conns
      <4>1. task[p] \in Shards /\ Handled(task[p])
        BY <1>18, <3>2 DEF AppendPending, Side, HandlerHasTask, Handled, Holds, BeforeVerdict
      <4>2. Batch(p) = <<task[p]>>
        BY <3>2 DEF Batch
      <4> QED
        BY <4>1, <4>2 DEF NeedsRow
    <3> QED
      BY <3>1, <3>2
  <2>2. Batch(p) \in Seq(Shards)
    BY <1>18 DEF Batch, AppendPending, TypeOK, Side, HandlerHasTask, BeforeVerdict
  <2>3. \A s \in Shards : Queued(s)' => Queued(s) \/ \E i \in 1..Len(Batch(p)) : Batch(p)[i] = s
    <3>1. /\ pending' = pending \o Batch(p)
          /\ Len(pending) \in Nat /\ Len(Batch(p)) \in Nat
          /\ pending \in Seq(Shards)
      BY <1>18, <2>2 DEF AppendPending, TypeOK
    <3>2. Len(pending') = Len(pending) + Len(Batch(p))
      BY <2>2, <3>1
    <3>3. \A i \in 1..Len(pending') :
             pending'[i] = IF i <= Len(pending) THEN pending[i] ELSE Batch(p)[i - Len(pending)]
      BY <2>2, <3>1
    <3>4. \A i \in 1..Len(pending') :
             i \in 1..Len(pending) \/ i - Len(pending) \in 1..Len(Batch(p))
      BY <3>1, <3>2
    <3> QED
      BY <3>1, <3>3, <3>4 DEF Queued
  <2>4. \A d \in Conns, s \in Shards : Holds(d, s)' => Holds(d, s)
    BY <1>18 DEF AppendPending, TypeOK, Holds, BeforeVerdict
  <2>5. \A j \in Jobs : pc'[j] \in {"new", "reject", "append"} => pc'[j] = pc[j]
    BY <1>18 DEF AppendPending, TypeOK
  <2>6. UNCHANGED <<workerShard, marks, shardStatus, shardRes, jobStatus>>
    BY <1>18 DEF AppendPending
  <2>7. ASSUME NEW s \in Shards, Queued(s)' PROVE NeedsRow(s)
    <3>1. CASE Queued(s)
      BY <3>1 DEF NeedsRow
    <3>2. CASE ~Queued(s)
      <4>1. PICK i \in 1..Len(Batch(p)) : Batch(p)[i] = s
        BY <2>3, <2>7, <3>2
      <4>2. NeedsRow(Batch(p)[i])
        BY <2>1
      <4> QED
        BY <4>1, <4>2
    <3> QED
      BY <3>1, <3>2
  <2>8. \A s \in Shards : JobOf[s] \in Jobs
    OBVIOUS
  <2>9. \A s \in Shards : NeedsRow(s)' => NeedsRow(s)
    BY <2>4, <2>5, <2>6, <2>7, <2>8 DEF NeedsRow, Leased, Handled, Decided
  <2> QED
    BY <2>5, <2>6, <2>9, KeepRows DEF Rowless
<1>19. ASSUME NEW p \in Procs, SnapshotIDs(p) PROVE RowInv'
  BY <1>1, <1>19 DEF SnapshotIDs, NudgeRest, TypeOK, Holds, BeforeVerdict, Side, ControlOK, JobControl
<1>20. ASSUME NEW p \in Procs, NEW w \in Conns, NudgeWorker(p, w) PROVE RowInv'
  BY <1>3, <1>20 DEF NudgeWorker, NudgeRest, TypeOK, Holds, BeforeVerdict, Side, ControlOK, JobControl
<1>21. ASSUME NEW s \in Shards, MarkShardAssigned(s) PROVE RowInv'
  <2>1. marks[s] > 0 /\ marks' = [marks EXCEPT ![s] = @ - 1]
    BY <1>21 DEF MarkShardAssigned
  <2>2. UNCHANGED <<pc, task, pending, workerShard, shardRes, jobStatus>>
    BY <1>21 DEF MarkShardAssigned
  <2>3. shardStatus' \in {shardStatus, [shardStatus EXCEPT ![s] = "running"]}
    BY <1>21 DEF MarkShardAssigned
  <2>4. NeedsRow(s)
    BY <2>1 DEF NeedsRow
  <2>5. \A t \in Shards : Rowless(t)' <=> Rowless(t)
    BY <2>3, <2>4 DEF RowInv, RowExists, Rowless, TypeOK
  <2>6. \A t \in Shards : marks'[t] > 0 => marks[t] > 0
    BY <2>1 DEF TypeOK
  <2>7. \A t \in Shards : NeedsRow(t)' => NeedsRow(t)
    BY <2>2, <2>6 DEF NeedsRow, Queued, Leased, Handled, Holds, Decided
  <2> QED
    BY <2>2, <2>5, <2>7, KeepRows
<1>22. ASSUME NEW r \in rewarding, RewardWorkerForJob(r) PROVE RowInv'
  BY <1>1, <1>22 DEF RewardWorkerForJob, Holds
<1>23. ASSUME NEW c \in Conns, NEW s \in Shards, GiveUp(c, s) PROVE RowInv'
  BY <1>1, <1>23 DEF GiveUp, Holds
<1>24. CASE Crash
  <2>1. \A s \in Shards : NeedsRow(s)' => NeedsRow(s)
    BY <1>24 DEF Crash, NeedsRow, Queued, Leased, Handled, Holds, Decided
  <2>2. \A j \in Jobs : pc'[j] \in {"new", "reject"} => pc'[j] = pc[j]
    BY <1>24 DEF Crash
  <2> QED
    BY <1>24, <2>1, <2>2, KeepRows DEF Crash, Rowless
<1>25. ASSUME NEW j \in Jobs, SealInvalid(j) PROVE RowInv'
  BY <1>1, <1>25 DEF SealInvalid, TypeOK, Holds, BeforeVerdict
<1> QED
  BY <1>2, <1>4, <1>5, <1>6, <1>7, <1>9, <1>10, <1>11, <1>12, <1>13, <1>14, <1>15, <1>16,
     <1>17, <1>18, <1>19, <1>20, <1>21, <1>22, <1>23, <1>24, <1>25
     DEF Next, ConnStep, QueueStep

---------------------------------------------------------------------------
(* The refinement.                                                         *)

(* The rows are in order in every reachable state.                         *)
THEOREM RowsInOrder == Spec => []RowInv
<1>1. Init => RowInv
  BY ConfigAssumption
     DEF Init, RowInv, RowExists, NeedsRow, NewHasNoRows, FailedHasNoRows, WithoutRows, ShardsOf,
         Queued, Leased, Handled, Holds, BeforeVerdict, Decided, Procs
<1>2. IndInv /\ RowInv /\ [Next]_vars => RowInv'
  <2> SUFFICES ASSUME IndInv, RowInv, [Next]_vars PROVE RowInv'
    OBVIOUS
  <2>1. CASE Next
    BY <2>1, RowNext DEF IndInv, Side
  <2>2. CASE UNCHANGED vars
    BY <2>2, KeepRows DEF vars, procVars, memVars, clientVars, dbVars, ghostVars, NeedsRow,
       Queued, Leased, Handled, Holds, Decided, Rowless
  <2> QED
    BY <2>1, <2>2
<1> QED
  BY <1>1, <1>2, Inductive, PTL DEF Spec

(* A handler's shard may still be decided: it is undecided, and its job    *)
(* was not rejected.                                                       *)
LEMMA HandledIsUndecided ==
    ASSUME TypeOK, OnePlace, RowInv, NEW c \in Conns, NEW s \in Shards, Holds(c, s)
    PROVE  Tables!Undecided(s)
<1>1. ~Decided(s) /\ NeedsRow(s)
  BY DEF OnePlace, Handled, NeedsRow
<1>2. s \in ShardsOf(JobOf[s]) /\ JobOf[s] \in Jobs
  BY ConfigAssumption DEF ShardsOf
<1> QED
  BY <1>1, <1>2 DEF RowInv, RowExists, FailedHasNoRows, WithoutRows, Decided, Tables!Undecided

(* The transactions of the scheduler are the changes its readers are       *)
(* promised: storeSatShardResult and VerifyUnsatShard write one undecided  *)
(* shard each, EnqueueJob rejects only a job without results.              *)
THEOREM TablesAreKept == Spec => ImplementsVerdicts
<1>1. Init => Tables!Init
  BY DEF Init, Tables!Init
<1>2. IndInv /\ VerdictInv /\ RowInv /\ [Next]_vars => [Tables!Next]_(Tables!verdictVars)
  <2> SUFFICES ASSUME IndInv, VerdictInv, RowInv, [Next]_vars
               PROVE  Tables!Next \/ UNCHANGED Tables!verdictVars
    OBVIOUS
  <2> USE DEF dbVars
  <2>1. ASSUME UNCHANGED <<shardRes, jobStatus, jobRes>>
        PROVE  UNCHANGED Tables!verdictVars
    BY <2>1 DEF Tables!verdictVars
  <2>2. ASSUME NEW c \in Conns, StoreSat(c) PROVE Tables!Next
    <3>1. task[c] \in Shards /\ Holds(c, task[c])
      BY <2>2 DEF StoreSat, IndInv, HandlerHasTask, Holds, BeforeVerdict
    <3>2. Tables!Undecided(task[c])
      BY <3>1, HandledIsUndecided DEF IndInv
    <3>3. InsertOnce(jobRes[JobOf[task[c]]], task[c]) = Tables!FirstModel(task[c])
      BY DEF InsertOnce, Tables!FirstModel
    <3>4. Tables!StoreSat(task[c])
      BY <2>2, <3>2, <3>3 DEF StoreSat, Tables!StoreSat, IndInv, TypeOK
    <3> QED
      BY <3>1, <3>4 DEF Tables!Next
  <2>3. ASSUME NEW c \in Conns, CommitShard(c) PROVE Tables!Next
    <3>1. task[c] \in Shards /\ Holds(c, task[c])
      BY <2>3 DEF CommitShard, IndInv, HandlerHasTask, Holds, BeforeVerdict
    <3>2. Tables!Undecided(task[c])
      BY <3>1, HandledIsUndecided DEF IndInv
    <3>3. Tables!CommitShard(task[c])
      BY <2>3, <3>2 DEF CommitShard, CommitRow, Tables!CommitShard
    <3> QED
      BY <3>1, <3>3 DEF Tables!Next
  <2>4. ASSUME NEW c \in Conns, CommitJob(c) PROVE Tables!Next
    <3> DEFINE s == task[c]  j == JobOf[task[c]]
    <3>1. s \in Shards /\ Holds(c, s) /\ j \in Jobs
      BY <2>4, ConfigAssumption DEF CommitJob, IndInv, HandlerHasTask, Holds, BeforeVerdict
    <3>2. Tables!Undecided(s)
      BY <3>1, HandledIsUndecided DEF IndInv
    <3>3. \A t \in ShardsOf(j) \ {s} : shardRes[t] = "unsat"
      BY <2>4 DEF CommitJob, VerdictInv, SealSeesAll
    <3>4. Tables!LastOne(s)
      BY <3>3 DEF ShardsOf, Tables!LastOne, Tables!Siblings
    <3>5. jobRes[j] # Unsat
      BY <3>1, <3>2 DEF VerdictInv, VerdictBacked, ShardsOf, Tables!Undecided
    <3>6. jobRes[j] \notin Shards
      BY <3>1, <3>2, <3>3 DEF VerdictInv, VerdictBacked, ShardsOf, Tables!Undecided
    <3>7. jobRes[j] = None
      BY <3>1, <3>5, <3>6 DEF IndInv, TypeOK
    <3>8. Tables!CommitJob(s)
      BY <2>4, <3>2, <3>4, <3>7 DEF CommitJob, CommitRow, InsertOnce, IndInv, TypeOK,
         Tables!CommitJob
    <3> QED
      BY <3>1, <3>8 DEF Tables!Next
  <2>5. ASSUME NEW j \in Jobs, EnqueueInvalid(j)
        PROVE  Tables!Next \/ UNCHANGED Tables!verdictVars
    <3>1. jobStatus[j] = "pending" /\ \A s \in Shards : JobOf[s] = j => shardRes[s] = "none"
      BY <2>5 DEF EnqueueInvalid, RowInv, RowExists, NewHasNoRows, WithoutRows, ShardsOf,
         NeedsRow, Decided
    <3>2. UNCHANGED <<shardRes, jobRes>>
      BY <2>5 DEF EnqueueInvalid
    <3>3. jobStatus' \in {jobStatus, [jobStatus EXCEPT ![j] = "failed"]}
      BY <2>5 DEF EnqueueInvalid
    <3> QED
      BY <3>1, <3>2, <3>3 DEF Tables!Next, Tables!Reject, Tables!verdictVars
  <2> HIDE DEF dbVars
  <2>6. ASSUME NEW c \in Conns, ConnStep(c)
        PROVE  Tables!Next \/ UNCHANGED Tables!verdictVars
    BY <2>1, <2>2, <2>3, <2>4, <2>6
       DEF ConnStep, TrySelf, Delete, HandleDisconnect, MarkJobCompleted, FinishSat, SendCancel,
           CountShards, SealJob, RequeueRow, dbVars
  <2>7. ASSUME NEW c \in Conns,
               \/ Connect(c) \/ RecvHello(c) \/ Disconnect(c) \/ Fail(c)
               \/ \E s \in Shards : GiveUp(c, s) \/ \E v \in Verdicts(s) : RecvResult(c, s, v)
        PROVE  UNCHANGED Tables!verdictVars
    BY <2>1, <2>7 DEF Connect, RecvHello, Disconnect, Fail, GiveUp, RecvResult, dbVars
  <2>8. ASSUME NEW p \in Procs, QueueStep(p) PROVE UNCHANGED Tables!verdictVars
    BY <2>1, <2>8 DEF QueueStep, AppendPending, SnapshotIDs, NudgeWorker, dbVars
  <2>9. ASSUME NEW j \in Jobs, EnqueueRows(j) \/ SealInvalid(j) \/ EnqueueFails(j)
        PROVE  UNCHANGED Tables!verdictVars
    BY <2>1, <2>9 DEF EnqueueRows, SealInvalid, EnqueueFails, dbVars
  <2>10. CASE \/ \E s \in Shards : MarkShardAssigned(s)
              \/ \E r \in rewarding : RewardWorkerForJob(r)
              \/ Crash \/ UNCHANGED vars
    BY <2>1, <2>10 DEF MarkShardAssigned, RewardWorkerForJob, Crash, vars, dbVars
  <2> QED
    BY <2>5, <2>6, <2>7, <2>8, <2>9, <2>10 DEF Next
<1> QED
  BY <1>1, <1>2, Inductive, RowsInOrder, PTL DEF Spec, ImplementsVerdicts, Tables!Spec
=============================================================================
