--------------------------- MODULE PaymentProofs ---------------------------
(***************************************************************************)
(* Three more invariants of Scheduler, for any number of connections, jobs *)
(* and shards: a shard is paid once, the server's memory of completed jobs *)
(* agrees with the database, and only errors and restarts lose shards.     *)
(*                                                                         *)
(* Paying once rests on OnePlace: a handler still has an undecided shard,  *)
(* so nobody was paid for it, and deciding it and handing it to the reward *)
(* goroutine happens once.  PaidInv follows a shard through these stages.  *)
(***************************************************************************)
EXTENDS VerdictProofs, FiniteSetTheorems

---------------------------------------------------------------------------
(* Payments.                                                               *)

(* Steps that pay nothing and announce no other shard.                     *)
LEMMA KeepPaid ==
    ASSUME PaidInv, UNCHANGED <<paid, rewarding>>,
           \A s \in Shards : Decided(s) => Decided(s)',
           \A c \in Conns, s \in Shards : Announces(c, s)' => Announces(c, s)
    PROVE  PaidInv'
<1>1. \A s \in Shards : Due(s)' = Due(s) /\ (Unpaid(s)' <=> Unpaid(s))
  BY DEF Due, Unpaid
<1> QED
  BY <1>1 DEF PaidInv

(* A decided shard goes to its reward goroutine, and to no other.          *)
LEMMA PayOne ==
    ASSUME PaidInv, NEW c \in Conns, NEW s \in Shards, Unpaid(s), Decided(s)',
           rewarding' = rewarding \cup {<<s, c>>}, UNCHANGED paid,
           \A t \in Shards : Decided(t) => Decided(t)',
           \A d \in Conns : ~Announces(d, s)',
           \A d \in Conns, t \in Shards \ {s} : Announces(d, t)' => Announces(d, t)
    PROVE  PaidInv'
<1>1. Due(s)' = {<<s, c>>} /\ paid'[s] = 0
  BY DEF Unpaid, Due
<1>2. \A t \in Shards \ {s} : Due(t)' = Due(t) /\ (Unpaid(t)' <=> Unpaid(t))
  BY DEF Unpaid, Due
<1> QED
  BY <1>1, <1>2 DEF PaidInv

(* A shard in the hands of a handler is undecided, unpaid and unannounced. *)
LEMMA HandledIsUnpaid ==
    ASSUME OnePlace, PaidInv, NEW c \in Conns, NEW s \in Shards, Holds(c, s)
    PROVE  Unpaid(s) /\ \A d \in Conns : ~Announces(d, s)
BY DEF OnePlace, Handled, PaidInv

(* Every action keeps the payments in order.                               *)
LEMMA PaidNext == TypeOK /\ Side /\ OnePlace /\ PaidInv /\ Next => PaidInv'
<1> SUFFICES ASSUME TypeOK, Side, OnePlace, PaidInv, Next PROVE PaidInv'
  OBVIOUS
<1> USE DEF Goto, Procs, procVars, memVars, clientVars, dbVars, ghostVars
<1>1. ASSUME UNCHANGED <<paid, rewarding, shardRes>>,
             \A c \in Conns, s \in Shards : Announces(c, s)' => Announces(c, s)
      PROVE  PaidInv'
  BY <1>1, KeepPaid DEF Decided
<1>2. ASSUME NEW c \in Conns, NEW l, l \notin {"announce", "cancel"},
             pc' = [pc EXCEPT ![c] = l], UNCHANGED <<paid, rewarding, shardRes>>,
             \A d \in Conns \ {c} : task'[d] = task[d]
      PROVE  PaidInv'
  BY <1>1, <1>2 DEF Announces, TypeOK
<1>3. ASSUME NEW c \in Conns,
             Connect(c) \/ TrySelf(c) \/ RecvHello(c) \/ Disconnect(c) \/ Delete(c)
               \/ CountShards(c) \/ SealJob(c) \/ RequeueRow(c)
      PROVE  PaidInv'
  BY <1>2, <1>3 DEF Connect, TrySelf, RecvHello, Disconnect, Delete, CountShards, CommitPath,
     SealJob, RequeueRow
<1>4. ASSUME NEW c \in Conns, HandleDisconnect(c) PROVE PaidInv'
  BY <1>2, <1>4 DEF HandleDisconnect, Unclaimed, TypeOK
<1>5. ASSUME NEW c \in Conns, Fail(c) PROVE PaidInv'
  BY <1>2, <1>5 DEF Fail, After, TypeOK
<1>6. ASSUME NEW c \in Conns, NEW s \in Shards, NEW v \in Verdicts(s), RecvResult(c, s, v)
      PROVE  PaidInv'
  <2>1. Branch[v] \notin {"announce", "cancel"}
    BY <1>6 DEF Verdicts, Branch
  <2>2. \A d \in Conns \ {c} : task'[d] = task[d]
    BY <1>6 DEF RecvResult, TypeOK
  <2> QED
    BY <1>2, <1>6, <2>1, <2>2 DEF RecvResult
<1>7. ASSUME NEW c \in Conns, NEW w \in Conns, SendCancel(c, w) PROVE PaidInv'
  BY <1>1, <1>7 DEF SendCancel, Announces
<1>8. ASSUME NEW c \in Conns, MarkJobCompleted(c) PROVE PaidInv'
  BY <1>1, <1>8 DEF MarkJobCompleted, Announces, TypeOK
<1>9. ASSUME NEW c \in Conns, StoreSat(c) PROVE PaidInv'
  <2>0. task[c] \in Shards
    BY <1>9 DEF StoreSat, Side, HandlerHasTask, BeforeVerdict
  <2> PICK s \in Shards : s = task[c]
    BY <2>0
  <2>1. s \in Shards /\ Holds(c, s)
    BY <1>9 DEF StoreSat, Side, HandlerHasTask, Holds, BeforeVerdict
  <2>2. Unpaid(s) /\ \A d \in Conns : ~Announces(d, s)
    BY <2>1, HandledIsUnpaid
  <2>3. shardRes' = [shardRes EXCEPT ![s] = "sat"] /\ UNCHANGED <<paid, rewarding, task>>
    BY <1>9 DEF StoreSat
  <2>4. Decided(s)' /\ \A t \in Shards : Decided(t) => Decided(t)'
    BY <2>1, <2>3 DEF Decided, TypeOK
  <2>5. \A t \in Shards : Due(t)' = Due(t) /\ (Unpaid(t)' <=> Unpaid(t))
    BY <2>3 DEF Due, Unpaid
  <2>6. \A d \in Conns, t \in Shards : Announces(d, t)' => Announces(d, t) \/ (d = c /\ t = s)
    BY <1>9, <2>3 DEF StoreSat, Announces, TypeOK
  <2>7. \A d \in Conns : Announces(d, s)' => d = c
    BY <2>2, <2>6
  <2>8. Decided(s)' /\ Unpaid(s)' /\ Due(s)' = {}
    BY <2>2, <2>4, <2>5 DEF Unpaid
  <2>9. \A t \in Shards, d \in Conns : Announces(d, t)' /\ t # s => Announces(d, t)
    BY <2>6
  <2> QED
    BY <2>3, <2>4, <2>5, <2>7, <2>8, <2>9 DEF PaidInv, Unpaid
<1>10. ASSUME NEW c \in Conns, FinishSat(c) PROVE PaidInv'
  <2>0. task[c] \in Shards
    BY <1>10 DEF FinishSat, Side, HandlerHasTask
  <2> PICK s \in Shards : s = task[c]
    BY <2>0
  <2>1. s \in Shards /\ Announces(c, s)
    BY <1>10 DEF FinishSat, Side, HandlerHasTask, Announces
  <2>2. Unpaid(s) /\ Decided(s) /\ \A d \in Conns : Announces(d, s) => d = c
    BY <2>1 DEF PaidInv
  <2>3. rewarding' = rewarding \cup {<<s, c>>} /\ UNCHANGED <<paid, shardRes>>
    BY <1>10 DEF FinishSat, Reward
  <2>4. \A d \in Conns, t \in Shards : Announces(d, t)' => d # c /\ Announces(d, t)
    BY <1>10, ConfigAssumption DEF FinishSat, Reward, After, Announces, TypeOK
  <2> QED
    BY <2>1, <2>2, <2>3, <2>4, PayOne DEF Decided
<1>11. ASSUME NEW c \in Conns, CommitShard(c) \/ CommitJob(c) PROVE PaidInv'
  <2>0. task[c] \in Shards
    BY <1>11 DEF CommitShard, CommitJob, Side, HandlerHasTask, BeforeVerdict
  <2> PICK s \in Shards : s = task[c]
    BY <2>0
  <2>1. s \in Shards /\ Holds(c, s)
    BY <1>11 DEF CommitShard, CommitJob, Side, HandlerHasTask, Holds, BeforeVerdict
  <2>2. Unpaid(s) /\ \A d \in Conns : ~Announces(d, s)
    BY <2>1, HandledIsUnpaid
  <2>3. CommitRow(c)
    BY <1>11 DEF CommitShard, CommitJob
  <2>4. rewarding' = rewarding \cup {<<s, c>>} /\ UNCHANGED paid
    BY <2>3 DEF CommitRow, Reward
  <2>5. Decided(s)' /\ \A t \in Shards : Decided(t) => Decided(t)'
    BY <2>1, <2>3 DEF CommitRow, Decided, TypeOK
  <2>6. \A d \in Conns, t \in Shards : Announces(d, t)' => Announces(d, t)
    BY <2>3, ConfigAssumption DEF CommitRow, Reward, After, Announces, TypeOK
  <2>7. \A d \in Conns : ~Announces(d, s)'
    BY <2>1, <2>2, <2>6
  <2> QED
    BY <2>1, <2>2, <2>4, <2>5, <2>6, <2>7, PayOne
<1>12. ASSUME NEW j \in Jobs,
              EnqueueRows(j) \/ EnqueueInvalid(j) \/ SealInvalid(j) \/ EnqueueFails(j)
       PROVE  PaidInv'
  BY <1>1, <1>12 DEF EnqueueRows, EnqueueInvalid, SealInvalid, EnqueueFails, Announces, TypeOK
<1>13. ASSUME NEW p \in Procs, NEW l, l \notin {"announce", "cancel"},
              pc' = [pc EXCEPT ![p] = l], UNCHANGED <<paid, rewarding, shardRes>>,
              \A d \in Conns \ {p} : task'[d] = task[d]
       PROVE  PaidInv'
  BY <1>1, <1>13 DEF Announces, TypeOK
<1>14. ASSUME NEW p \in Procs, AppendPending(p) PROVE PaidInv'
  BY <1>13, <1>14 DEF AppendPending, TypeOK
<1>15. ASSUME NEW p \in Procs, SnapshotIDs(p) PROVE PaidInv'
  BY <1>13, <1>15 DEF SnapshotIDs, NudgeRest, After
<1>16. ASSUME NEW p \in Procs, NEW w \in Conns, NudgeWorker(p, w) PROVE PaidInv'
  BY <1>13, <1>16 DEF NudgeWorker, NudgeRest, After
<1>17. ASSUME NEW s \in Shards, MarkShardAssigned(s) PROVE PaidInv'
  BY <1>1, <1>17 DEF MarkShardAssigned, Announces
<1>18. ASSUME NEW r \in rewarding, RewardWorkerForJob(r) PROVE PaidInv'
  <2> DEFINE s == r[1]
  <2>1. s \in Shards /\ r \in Due(s) /\ paid \in [Shards -> Nat]
    BY <1>18 DEF TypeOK, Due
  <2>2. Due(s) = {r} /\ paid[s] = 0 /\ Decided(s) /\ \A c \in Conns : ~Announces(c, s)
    BY <2>1 DEF PaidInv, Unpaid
  <2>3. rewarding' = rewarding \ {r} /\ UNCHANGED <<pc, task, shardRes>>
    BY <1>18 DEF RewardWorkerForJob
  <2>4. Due(s)' = {} /\ \A t \in Shards \ {s} : Due(t)' = Due(t)
    BY <2>2, <2>3 DEF Due
  <2>5. paid'[s] \in {0, 1} /\ \A t \in Shards \ {s} : paid'[t] = paid[t]
    BY <1>18, <2>1, <2>2 DEF RewardWorkerForJob
  <2>6. \A t \in Shards \ {s} : Unpaid(t)' <=> Unpaid(t)
    BY <2>4, <2>5 DEF Unpaid
  <2>7. \A t \in Shards : (Decided(t)' <=> Decided(t))
                          /\ \A c \in Conns : Announces(c, t)' <=> Announces(c, t)
    BY <2>3 DEF Decided, Announces
  <2> QED
    BY <2>2, <2>4, <2>5, <2>6, <2>7 DEF PaidInv
<1>19. ASSUME NEW c \in Conns, NEW s \in Shards, GiveUp(c, s) PROVE PaidInv'
  BY <1>1, <1>19 DEF GiveUp, Announces
<1>20. CASE Crash
  <2>1. rewarding' = {} /\ UNCHANGED <<paid, shardRes>>
    BY <1>20 DEF Crash
  <2>2. \A c \in Conns, s \in Shards : ~Announces(c, s)'
    BY <1>20, ConfigAssumption DEF Crash, Announces
  <2> QED
    BY <2>1, <2>2 DEF PaidInv, Unpaid, Due, Decided
<1> QED
  BY <1>3, <1>4, <1>5, <1>6, <1>7, <1>8, <1>9, <1>10, <1>11, <1>12, <1>14, <1>15, <1>16,
     <1>17, <1>18, <1>19, <1>20
     DEF Next, ConnStep, QueueStep

(* rewardWorkerForJob books a shard at most once, although its query for   *)
(* an earlier payment never finds one, and only for a stored verdict.      *)
THEOREM PaidAtMostOnce == Spec => []PaidOnce
<1>1. Init => PaidInv
  BY DEF Init, PaidInv, Due, Unpaid, Announces, Procs
<1>2. IndInv /\ PaidInv /\ [Next]_vars => PaidInv'
  <2> SUFFICES ASSUME IndInv, PaidInv, [Next]_vars PROVE PaidInv'
    OBVIOUS
  <2>1. CASE Next
    BY <2>1, PaidNext DEF IndInv, Side
  <2>2. CASE UNCHANGED vars
    BY <2>2, KeepPaid DEF vars, procVars, dbVars, Decided, Announces
  <2> QED
    BY <2>1, <2>2
<1>3. IndInv /\ PaidInv => PaidOnce
  <2> SUFFICES ASSUME IndInv, PaidInv, NEW s \in Shards
               PROVE  /\ paid[s] + Cardinality(Due(s)) <= 1
                      /\ paid[s] > 0 \/ Due(s) # {} => Decided(s)
    BY DEF PaidOnce
  <2>1. paid[s] \in Nat
    BY DEF IndInv, TypeOK
  <2>2. paid[s] > 0 \/ Due(s) # {} => Decided(s)
    BY DEF PaidInv, Unpaid
  <2>3. CASE Due(s) = {}
    <3>1. Cardinality(Due(s)) = 0
      BY <2>3, FS_EmptySet
    <3> QED
      BY <2>1, <2>2, <3>1 DEF PaidInv
  <2>4. CASE Due(s) # {}
    <3>1. PICK r : Due(s) = {r}
      BY <2>4 DEF PaidInv
    <3>2. Cardinality(Due(s)) = 1
      BY <3>1, FS_Singleton
    <3>3. paid[s] = 0
      BY <2>1, <2>4 DEF PaidInv
    <3> QED
      BY <2>2, <3>2, <3>3
  <2> QED
    BY <2>3, <2>4
<1> QED
  BY <1>1, <1>2, <1>3, Inductive, PTL DEF Spec

---------------------------------------------------------------------------
(* Memory and database.                                                    *)

Unhurt == faults = 0 /\ crashes = 0
MemoryInv == SealedFirst /\ RejectedFirst /\ MemoryMatchesDB

(* Steps that complete no job, in memory or in the database.               *)
LEMMA KeepMemory ==
    ASSUME MemoryInv, UNCHANGED <<completed, jobStatus>>, Unhurt' => Unhurt,
           \A c \in Conns : pc[c] \in {"commitJob", "announce"} /\ Unhurt' =>
               pc'[c] = pc[c] /\ task'[c] = task[c],
           \A c \in Conns : pc'[c] = "commitJob" => pc[c] = "commitJob" /\ task'[c] = task[c],
           \A j \in Jobs : pc'[j] = "reject" <=> pc[j] = "reject"
    PROVE  MemoryInv'
<1>1. SealedFirst'
  BY DEF MemoryInv, SealedFirst
<1>2. RejectedFirst' /\ MemoryMatchesDB'
  <2>1. CASE ~Unhurt'
    BY <2>1 DEF RejectedFirst, MemoryMatchesDB, Unhurt
  <2>2. CASE Unhurt'
    <3>1. \A j \in Jobs : /\ Between("commitJob", j) => Between("commitJob", j)'
                          /\ Between("announce", j) => Between("announce", j)'
      BY <2>2 DEF Between
    <3> QED
      BY <2>2, <3>1 DEF MemoryInv, RejectedFirst, MemoryMatchesDB, Unhurt
  <2> QED
    BY <2>1, <2>2
<1> QED
  BY <1>1, <1>2 DEF MemoryInv

(* Every action keeps memory and database together.                        *)
LEMMA MemoryNext == TypeOK /\ Side /\ VerdictInv /\ MemoryInv /\ Next => MemoryInv'
<1> SUFFICES ASSUME TypeOK, Side, VerdictInv, MemoryInv, Next PROVE MemoryInv'
  OBVIOUS
<1> USE ConfigAssumption DEF Goto, Procs, procVars, memVars, clientVars, dbVars, ghostVars
<1>1. ASSUME NEW p \in Procs, NEW l, l \notin {"commitJob", "reject"},
             pc' = [pc EXCEPT ![p] = l], pc[p] # "reject",
             pc[p] \notin {"commitJob", "announce"} \/ ~Unhurt',
             UNCHANGED <<completed, jobStatus>>, Unhurt' => Unhurt,
             \A d \in Conns \ {p} : task'[d] = task[d]
      PROVE  MemoryInv'
  BY <1>1, KeepMemory DEF TypeOK
<1>2. ASSUME UNCHANGED <<pc, task, completed, jobStatus>>, Unhurt' => Unhurt PROVE MemoryInv'
  BY <1>2, KeepMemory
<1>3. ASSUME NEW c \in Conns, Connect(c) \/ TrySelf(c) \/ RecvHello(c) \/ Disconnect(c) \/ Delete(c)
               \/ RequeueRow(c)
      PROVE  MemoryInv'
  BY <1>1, <1>3 DEF Connect, TrySelf, RecvHello, Disconnect, Delete, RequeueRow, Unhurt
<1>4. ASSUME NEW c \in Conns, HandleDisconnect(c) PROVE MemoryInv'
  BY <1>1, <1>4 DEF HandleDisconnect, Unclaimed, TypeOK, Unhurt
<1>5. ASSUME NEW c \in Conns, Fail(c) PROVE MemoryInv'
  <2>1. ~Unhurt'
    BY <1>5 DEF Fail, Unhurt, TypeOK
  <2>2. /\ pc' = [pc EXCEPT ![c] = After(c)] /\ UNCHANGED <<completed, jobStatus>>
        /\ \A d \in Conns \ {c} : task'[d] = task[d]
    BY <1>5 DEF Fail, TypeOK
  <2>3. After(c) \notin {"commitJob", "reject"} /\ pc[c] # "reject"
    BY <1>5 DEF After, Fail
  <2> QED
    BY <1>1, <2>1, <2>2, <2>3
<1>6. ASSUME NEW c \in Conns, NEW s \in Shards, NEW v \in Verdicts(s), RecvResult(c, s, v)
      PROVE  MemoryInv'
  <2>1. Branch[v] \notin {"commitJob", "reject"}
    BY <1>6 DEF Verdicts, Branch
  <2>2. \A d \in Conns \ {c} : task'[d] = task[d]
    BY <1>6 DEF RecvResult, TypeOK
  <2> QED
    BY <1>1, <1>6, <2>1, <2>2 DEF RecvResult, Unhurt
<1>7. ASSUME NEW c \in Conns, NEW w \in Conns, SendCancel(c, w) PROVE MemoryInv'
  BY <1>2, <1>7 DEF SendCancel, Unhurt
<1>8. ASSUME NEW c \in Conns, CountShards(c) \/ FinishSat(c) \/ CommitShard(c) PROVE MemoryInv'
  <2>1. CASE CountShards(c)
    BY <1>1, <2>1 DEF CountShards, CommitPath, Unhurt
  <2>2. CASE FinishSat(c) \/ CommitShard(c)
    <3>1. /\ pc' = [pc EXCEPT ![c] = After(c)] /\ pc[c] \in {"cancel", "commitShard"}
          /\ UNCHANGED <<completed, jobStatus, faults, crashes>>
          /\ \A d \in Conns \ {c} : task'[d] = task[d]
      BY <2>2 DEF FinishSat, CommitShard, CommitRow, Reward, TypeOK
    <3>2. After(c) \notin {"commitJob", "reject"}
      BY DEF After
    <3> QED
      BY <1>1, <3>1, <3>2 DEF Unhurt
  <2> QED
    BY <1>8, <2>1, <2>2
<1>9. ASSUME NEW c \in Conns, SealJob(c) PROVE MemoryInv'
  <2> DEFINE j == JobOf[task[c]]
  <2>1. /\ completed' = completed \cup {j} /\ UNCHANGED <<task, jobStatus, faults, crashes>>
        /\ \A d \in Conns : pc'[d] = IF d = c THEN "commitJob" ELSE pc[d]
        /\ pc[c] = "seal"
    BY <1>9 DEF SealJob, TypeOK
  <2>2. SealedFirst'
    BY <2>1 DEF MemoryInv, SealedFirst
  <2>3. \A k \in Jobs : /\ Between("commitJob", k) \/ k = j => Between("commitJob", k)'
                        /\ Between("announce", k) => Between("announce", k)'
    BY <2>1 DEF Between
  <2>4. \A k \in Jobs : pc'[k] = pc[k]
    BY <1>9 DEF SealJob, TypeOK, Side, ControlOK, JobControl
  <2>5. RejectedFirst' /\ MemoryMatchesDB'
    BY <2>1, <2>3, <2>4 DEF MemoryInv, RejectedFirst, MemoryMatchesDB
  <2> QED
    BY <2>2, <2>5 DEF MemoryInv
<1>10. ASSUME NEW c \in Conns, StoreSat(c) PROVE MemoryInv'
  <2> DEFINE j == JobOf[task[c]]
  <2>1. /\ UNCHANGED <<task, completed, faults, crashes>>
        /\ \A k \in Jobs : jobStatus'[k] = IF k = j THEN "completed" ELSE jobStatus[k]
        /\ \A d \in Conns : pc'[d] = IF d = c THEN "announce" ELSE pc[d]
        /\ pc[c] = "store"
    BY <1>10 DEF StoreSat, TypeOK
  <2>2. SealedFirst'
    BY <2>1 DEF MemoryInv, SealedFirst
  <2>3. \A k \in Jobs : /\ Between("commitJob", k) => Between("commitJob", k)'
                        /\ Between("announce", k) \/ k = j => Between("announce", k)'
    BY <2>1 DEF Between
  <2>4. \A k \in Jobs : pc'[k] = pc[k]
    BY <1>10 DEF StoreSat, TypeOK, Side, ControlOK, JobControl
  <2>5. RejectedFirst' /\ MemoryMatchesDB'
    BY <2>1, <2>3, <2>4 DEF MemoryInv, RejectedFirst, MemoryMatchesDB
  <2> QED
    BY <2>2, <2>5 DEF MemoryInv
<1>11. ASSUME NEW c \in Conns, MarkJobCompleted(c) PROVE MemoryInv'
  <2> DEFINE j == JobOf[task[c]]
  <2>1. /\ completed' = completed \cup {j} /\ UNCHANGED <<task, jobStatus, faults, crashes>>
        /\ \A d \in Conns : pc'[d] = IF d = c THEN "cancel" ELSE pc[d]
        /\ pc[c] = "announce"
    BY <1>11 DEF MarkJobCompleted, TypeOK
  <2>2. j \in Jobs /\ jobRes[j] \in Shards
    BY <2>1 DEF Side, HandlerHasTask, VerdictInv, AnnounceHasModel
  <2>3. jobStatus[j] = "completed"
    BY <2>2 DEF VerdictInv, VerdictBacked
  <2>4. SealedFirst'
    BY <2>1 DEF MemoryInv, SealedFirst
  <2>5. \A k \in Jobs : /\ Between("commitJob", k) => Between("commitJob", k)'
                        /\ Between("announce", k) => Between("announce", k)' \/ k = j
    BY <2>1 DEF Between
  <2>6. \A k \in Jobs : pc'[k] = pc[k]
    BY <1>11 DEF MarkJobCompleted, TypeOK, Side, ControlOK, JobControl
  <2>7. RejectedFirst' /\ MemoryMatchesDB'
    BY <2>1, <2>3, <2>5, <2>6 DEF MemoryInv, RejectedFirst, MemoryMatchesDB
  <2> QED
    BY <2>4, <2>7 DEF MemoryInv
<1>12. ASSUME NEW c \in Conns, CommitJob(c) PROVE MemoryInv'
  <2> DEFINE j == JobOf[task[c]]
  <2>1. /\ UNCHANGED <<completed, faults, crashes>>
        /\ \A k \in Jobs : jobStatus'[k] = IF k = j THEN "completed" ELSE jobStatus[k]
        /\ pc[c] = "commitJob"
    BY <1>12 DEF CommitJob, CommitRow, Reward, TypeOK
  <2>2. /\ pc'[c] \notin {"commitJob", "announce"}
        /\ \A d \in Conns \ {c} : pc'[d] = pc[d] /\ task'[d] = task[d]
    BY <1>12 DEF CommitJob, CommitRow, Reward, After, TypeOK
  <2>3. SealedFirst' /\ j \in completed
    BY <2>1, <2>2 DEF MemoryInv, SealedFirst
  <2>4. \A k \in Jobs : /\ Between("commitJob", k) => Between("commitJob", k)' \/ k = j
                        /\ Between("announce", k) => Between("announce", k)'
    BY <2>1, <2>2 DEF Between
  <2>5. \A k \in Jobs : pc'[k] = pc[k]
    BY <1>12 DEF CommitJob, CommitRow, Reward, TypeOK, Side, ControlOK, JobControl
  <2>6. RejectedFirst' /\ MemoryMatchesDB'
    BY <2>1, <2>3, <2>4, <2>5 DEF MemoryInv, RejectedFirst, MemoryMatchesDB
  <2> QED
    BY <2>3, <2>6 DEF MemoryInv
<1>13. ASSUME NEW j \in Jobs, EnqueueRows(j) \/ EnqueueFails(j) PROVE MemoryInv'
  <2>1. PICK l \in {"append", "done"} : pc' = [pc EXCEPT ![j] = l]
    BY <1>13 DEF EnqueueRows, EnqueueFails
  <2>2. pc[j] = "new" /\ UNCHANGED <<task, completed, jobStatus, crashes>>
    BY <1>13 DEF EnqueueRows, EnqueueFails
  <2>3. faults' = 0 => faults = 0
    BY <1>13 DEF EnqueueRows, EnqueueFails, TypeOK
  <2> QED
    BY <1>1, <2>1, <2>2, <2>3 DEF Unhurt
<1>14. ASSUME NEW j \in Jobs, EnqueueInvalid(j) PROVE MemoryInv'
  <2>1. /\ UNCHANGED <<task, completed, crashes>>
        /\ \A d \in Conns : pc'[d] = pc[d]
        /\ \A k \in Jobs : pc'[k] = IF k = j THEN "reject" ELSE pc[k]
    BY <1>14 DEF EnqueueInvalid, TypeOK
  <2>2. /\ \A l \in {"commitJob", "announce"}, k \in Jobs : Between(l, k)' <=> Between(l, k)
        /\ SealedFirst'
    BY <2>1 DEF Between, MemoryInv, SealedFirst
  <2>3. CASE jobStatus' = [jobStatus EXCEPT ![j] = "failed"] /\ UNCHANGED faults
    <3>1. \A k \in Jobs : jobStatus'[k] = IF k = j THEN "failed" ELSE jobStatus[k]
      BY <2>3 DEF TypeOK
    <3>2. RejectedFirst'
      <4> SUFFICES ASSUME faults = 0, crashes = 0, NEW k \in Jobs, pc'[k] = "reject"
                   PROVE  jobStatus'[k] # "pending"
        BY <2>1, <2>3 DEF RejectedFirst
      <4>1. k # j => pc[k] = "reject" /\ jobStatus'[k] = jobStatus[k]
        BY <2>1, <3>1
      <4> QED
        BY <3>1, <4>1 DEF MemoryInv, RejectedFirst
    <3>3. MemoryMatchesDB'
      <4> SUFFICES ASSUME faults = 0, crashes = 0, NEW k \in Jobs
                   PROVE  /\ k \in completed =>
                                jobStatus'[k] # "pending" \/ Between("commitJob", k)'
                          /\ jobStatus'[k] # "pending" =>
                                \/ k \in completed \/ Between("announce", k)'
                                \/ pc'[k] = "reject"
        BY <2>1, <2>3 DEF MemoryMatchesDB
      <4>1. CASE k = j
        BY <2>1, <3>1, <4>1
      <4>2. CASE k # j
        BY <2>1, <2>2, <3>1, <4>2 DEF MemoryInv, MemoryMatchesDB
      <4> QED
        BY <4>1, <4>2
    <3> QED
      BY <2>2, <3>2, <3>3 DEF MemoryInv
  <2>4. CASE faults' = faults + 1
    BY <2>2, <2>4 DEF MemoryInv, RejectedFirst, MemoryMatchesDB, TypeOK
  <2> QED
    BY <1>14, <2>3, <2>4 DEF EnqueueInvalid
<1>22. ASSUME NEW j \in Jobs, SealInvalid(j) PROVE MemoryInv'
  <2>1. /\ completed' = completed \cup {j}
        /\ UNCHANGED <<task, jobStatus, faults, crashes>> /\ pc[j] = "reject"
        /\ \A d \in Conns : pc'[d] = pc[d]
        /\ \A k \in Jobs : pc'[k] = IF k = j THEN "done" ELSE pc[k]
    BY <1>22 DEF SealInvalid, TypeOK
  <2>2. /\ \A l \in {"commitJob", "announce"}, k \in Jobs : Between(l, k)' <=> Between(l, k)
        /\ SealedFirst' /\ RejectedFirst'
    BY <2>1 DEF Between, MemoryInv, SealedFirst, RejectedFirst
  <2>3. MemoryMatchesDB'
    BY <2>1, <2>2 DEF MemoryInv, RejectedFirst, MemoryMatchesDB
  <2> QED
    BY <2>2, <2>3 DEF MemoryInv
<1>15. ASSUME NEW p \in Procs, AppendPending(p) PROVE MemoryInv'
  BY <1>1, <1>15 DEF AppendPending, TypeOK, Unhurt
<1>16. ASSUME NEW p \in Procs, SnapshotIDs(p) PROVE MemoryInv'
  BY <1>1, <1>16 DEF SnapshotIDs, NudgeRest, After, Unhurt
<1>17. ASSUME NEW p \in Procs, NEW w \in Conns, NudgeWorker(p, w) PROVE MemoryInv'
  BY <1>1, <1>17 DEF NudgeWorker, NudgeRest, After, Unhurt
<1>18. ASSUME NEW s \in Shards, MarkShardAssigned(s) PROVE MemoryInv'
  <2>1. UNCHANGED <<pc, task, completed, jobStatus, crashes>> /\ (faults' = 0 => faults = 0)
    BY <1>18 DEF MarkShardAssigned, TypeOK
  <2> QED
    BY <1>2, <2>1 DEF Unhurt
<1>19. ASSUME NEW r \in rewarding, RewardWorkerForJob(r) PROVE MemoryInv'
  BY <1>2, <1>19 DEF RewardWorkerForJob, Unhurt
<1>20. ASSUME NEW c \in Conns, NEW s \in Shards, GiveUp(c, s) PROVE MemoryInv'
  BY <1>2, <1>20 DEF GiveUp, Unhurt
<1>21. CASE Crash
  BY <1>21 DEF Crash, TypeOK, MemoryInv, SealedFirst, RejectedFirst, MemoryMatchesDB
<1> QED
  BY <1>3, <1>4, <1>5, <1>6, <1>7, <1>8, <1>9, <1>10, <1>11, <1>12, <1>13, <1>14, <1>15,
     <1>16, <1>17, <1>18, <1>19, <1>20, <1>21, <1>22
     DEF Next, ConnStep, QueueStep

(* Without errors and restarts, completedJobs and the jobs table agree but *)
(* for three windows, however many jobs are decided at a time: the table   *)
(* is ahead until markJobCompletedAndCancelOthers and, for a rejected      *)
(* upload, until EnqueueJob seals it, and behind until the commit of       *)
(* VerifyUnsatShard.                                                       *)
THEOREM MemoryAgrees == Spec => []MemoryMatchesDB
<1>1. Init => MemoryInv
  BY ConfigAssumption DEF Init, MemoryInv, SealedFirst, RejectedFirst, MemoryMatchesDB, Procs
<1>2. IndInv /\ VerdictInv /\ MemoryInv /\ [Next]_vars => MemoryInv'
  <2> SUFFICES ASSUME IndInv, VerdictInv, MemoryInv, [Next]_vars PROVE MemoryInv'
    OBVIOUS
  <2>1. CASE Next
    BY <2>1, MemoryNext DEF IndInv, Side
  <2>2. CASE UNCHANGED vars
    BY <2>2, KeepMemory DEF vars, procVars, memVars, dbVars, ghostVars, Unhurt
  <2> QED
    BY <2>1, <2>2
<1>3. MemoryInv => MemoryMatchesDB
  BY DEF MemoryInv
<1> QED
  BY <1>1, <1>2, <1>3, Inductive, PTL DEF Spec

---------------------------------------------------------------------------
(* Losses.                                                                 *)

Placed(s) == Fresh(s) \/ Queued(s) \/ Leased(s) \/ Handled(s) \/ Decided(s)

(* A shard is lost when it is in none of the places work may be.         *)
LEMMA LostIsNowhere ==
    Lost = {s \in Shards : shardStatus[s] # "none" /\ jobStatus[JobOf[s]] = "pending" /\ ~Placed(s)}
BY DEF Lost, Placed

(* What a step may do: lose nothing, or one shard to an error.             *)
LossStep ==
    crashes' = 0 =>
        /\ crashes = 0
        /\ \/ Lost' \subseteq Lost /\ faults' \in {faults, faults + 1}
           \/ faults' = faults + 1 /\ \E s \in Shards : Lost' \subseteq Lost \cup {s}

(* Only shards in X lose their place, except for those the queue may drop. *)
LEMMA KeepLost ==
    ASSUME NothingToDrop, NEW X,
           \A j \in Jobs : jobStatus'[j] = "pending" => jobStatus[j] = "pending",
           \A s \in Shards : Placed(s) /\ shardStatus'[s] # "none" =>
               Placed(s)' \/ s \in X \/ (MayBeQueued(s) /\ JobOf[s] \in completed),
           \A s \in Shards : shardStatus'[s] # "none" => shardStatus[s] # "none" \/ Placed(s)'
    PROVE  Lost' \subseteq Lost \cup X
<1>1. Lost' = {s \in Shards : /\ shardStatus'[s] # "none" /\ jobStatus'[JobOf[s]] = "pending"
                              /\ ~Placed(s)'}
  BY DEF Lost, Placed
<1> SUFFICES ASSUME NEW s \in Shards, shardStatus'[s] # "none",
                    jobStatus'[JobOf[s]] = "pending", ~Placed(s)', s \notin X
             PROVE  s \in Lost
  BY <1>1
<1>2. jobStatus[JobOf[s]] = "pending" /\ shardStatus[s] # "none"
  BY ConfigAssumption
<1>3. ~Placed(s)
  BY <1>2 DEF NothingToDrop
<1> QED
  BY <1>2, <1>3, LostIsNowhere

(* Steps that queue nothing and reopen no job keep NothingToDrop.        *)
LEMMA KeepDrop ==
    ASSUME NothingToDrop, completed' \subseteq completed,
           \A j \in Jobs : jobStatus'[j] = "pending" => jobStatus[j] = "pending",
           \A s \in Shards : MayBeQueued(s)' => MayBeQueued(s)
    PROVE  NothingToDrop'
BY ConfigAssumption DEF NothingToDrop

(* Steps that move no shard.                                               *)
LEMMA StayPut ==
    ASSUME NothingToDrop, UNCHANGED <<pending, workerShard, shardRes, crashes>>,
           faults' \in {faults, faults + 1},
           \A j \in Jobs : jobStatus'[j] = "pending" => jobStatus[j] = "pending",
           \A s \in Shards : Fresh(s)' <=> Fresh(s),
           \A c \in Conns, s \in Shards : Holds(c, s)' <=> Holds(c, s),
           \A c \in Conns : pc[c] = "commitJob" => pc'[c] = "commitJob",
           \A s \in Shards : shardStatus'[s] # "none" => shardStatus[s] # "none" \/ Placed(s)
    PROVE  /\ LossStep
           /\ \A s \in Shards : MayBeQueued(s)' => MayBeQueued(s)
           /\ completed' \subseteq completed => NothingToDrop'
<1>1. \A s \in Shards : Placed(s)' <=> Placed(s)
  BY DEF Placed, Queued, Leased, Handled, Decided
<1>2. \A s \in Shards : MayBeQueued(s)' => MayBeQueued(s)
  BY DEF MayBeQueued, Queued, Leased
<1>3. Lost' \subseteq Lost \cup {}
  BY <1>1, KeepLost
<1> QED
  BY <1>2, <1>3, KeepDrop DEF LossStep

(* The rest of the queue, from k on.                                       *)
LEMMA RestOfQueue ==
    ASSUME TypeOK, NEW k \in 1..Len(pending) + 1, pending' = SubSeq(pending, k, Len(pending))
    PROVE  \A s \in Shards : Queued(s)' <=> \E i \in k..Len(pending) : pending[i] = s
<1>1. /\ Len(pending) \in Nat
      /\ Len(pending') = Len(pending) - k + 1
      /\ \A i \in 1..Len(pending') : pending'[i] = pending[k + i - 1]
  BY SubSeqProperties DEF TypeOK
<1>2. \A i \in k..Len(pending) : i - k + 1 \in 1..Len(pending') /\ pending'[i - k + 1] = pending[i]
  <2> SUFFICES ASSUME NEW i \in k..Len(pending)
               PROVE  i - k + 1 \in 1..Len(pending') /\ pending'[i - k + 1] = pending[i]
    OBVIOUS
  <2>1. i - k + 1 \in 1..Len(pending') /\ k + (i - k + 1) - 1 = i
    BY <1>1
  <2> QED
    BY <1>1, <2>1
<1>3. \A i \in 1..Len(pending') : k + i - 1 \in k..Len(pending)
  BY <1>1
<1>4. ASSUME NEW s \in Shards, Queued(s)' PROVE \E i \in k..Len(pending) : pending[i] = s
  <2>1. PICK i \in 1..Len(pending') : pending'[i] = s
    BY <1>4 DEF Queued
  <2> QED
    BY <1>1, <1>3, <2>1
<1>5. ASSUME NEW s \in Shards, NEW i \in k..Len(pending), pending[i] = s PROVE Queued(s)'
  BY <1>2, <1>5 DEF Queued
<1> QED
  BY <1>4, <1>5

(* MaybeAssignWork drops shards of completed jobs; all others stay in the  *)
(* queue, but for the one that it assigns.                                 *)
LEMMA AssignLoss ==
    ASSUME TypeOK, NothingToDrop, NEW w \in Conns, MaybeAssignWork(w),
           UNCHANGED <<shardRes, shardStatus, jobStatus, completed, crashes, faults>>,
           \A s \in Shards : Fresh(s)' <=> Fresh(s),
           \A c \in Conns, s \in Shards : Holds(c, s)' <=> Holds(c, s),
           \A c \in Conns : pc[c] = "commitJob" => pc'[c] = "commitJob"
    PROVE  NothingToDrop' /\ LossStep
<1>1. ASSUME \A s \in Shards : Leased(s)' => Leased(s) \/ Queued(s),
             \A s \in Shards : Leased(s) => Leased(s)',
             \A s \in Shards : Queued(s)' => Queued(s),
             \A s \in Shards : Queued(s) => \/ Queued(s)' \/ Leased(s)'
                                            \/ JobOf[s] \in completed
      PROVE  NothingToDrop' /\ LossStep
  <2>1. \A s \in Shards : MayBeQueued(s)' => MayBeQueued(s)
    BY <1>1 DEF MayBeQueued
  <2>2. \A s \in Shards : Placed(s) => Placed(s)' \/ (MayBeQueued(s) /\ JobOf[s] \in completed)
    BY <1>1 DEF Placed, MayBeQueued, Handled, Decided
  <2>3. Lost' \subseteq Lost \cup {}
    BY <2>2, KeepLost
  <2>4. NothingToDrop'
    BY <2>1, KeepDrop
  <2> QED
    BY <2>3, <2>4 DEF LossStep
<1>2. \A k \in 1..Len(pending) :
         k \in 1..Len(pending) + 1 /\ k + 1 \in 1..Len(pending) + 1 /\ Len(pending) \in Nat
  BY DEF TypeOK
<1>3. CASE UNCHANGED <<pending, workerShard>>
  BY <1>1, <1>3 DEF Queued, Leased
<1>4. CASE NothingLive(w)
  <2>1. \A s \in Shards : ~Queued(s)' /\ (Leased(s)' <=> Leased(s))
    BY <1>4 DEF NothingLive, Queued, Leased
  <2>2. \A s \in Shards : Queued(s) => JobOf[s] \in completed
    BY <1>4 DEF NothingLive, Queued
  <2> QED
    BY <1>1, <2>1, <2>2
<1>5. ASSUME NEW k \in 1..Len(pending), IsFirstLive(k), PutBack(w, k)
      PROVE  NothingToDrop' /\ LossStep
  <2>1. \A s \in Shards : Queued(s)' <=> \E i \in k..Len(pending) : pending[i] = s
    BY <1>2, <1>5, RestOfQueue DEF PutBack
  <2>2. \A s \in Shards : Queued(s)' => Queued(s)
    BY <1>2, <2>1 DEF Queued
  <2>3. \A i \in 1..Len(pending) : i \in k..Len(pending) \/ i \in 1..(k - 1)
    BY <1>2
  <2>4. \A s \in Shards : Queued(s) => Queued(s)' \/ JobOf[s] \in completed
    BY <1>5, <2>1, <2>3 DEF Queued, IsFirstLive
  <2>5. \A s \in Shards : Leased(s)' <=> Leased(s)
    BY <1>5 DEF PutBack, Leased
  <2> QED
    BY <1>1, <2>2, <2>4, <2>5
<1>6. ASSUME ~Busy(w), NEW k \in 1..Len(pending), IsFirstLive(k), Assign(w, k)
      PROVE  NothingToDrop' /\ LossStep
  <2>1. \A s \in Shards : Queued(s)' <=> \E i \in (k + 1)..Len(pending) : pending[i] = s
    BY <1>2, <1>6, RestOfQueue DEF Assign, Popped
  <2>2. \A s \in Shards : Queued(s)' => Queued(s)
    BY <1>2, <2>1 DEF Queued
  <2>3. \A i \in 1..Len(pending) :
           i \in (k + 1)..Len(pending) \/ i \in 1..(k - 1) \/ i = k
    BY <1>2
  <2>4. /\ workerShard[w] = None
        /\ \A c \in Conns : workerShard'[c] = IF c = w THEN pending[k] ELSE workerShard[c]
    BY <1>6 DEF Assign, Busy, TypeOK
  <2>5. \A s \in Shards : Leased(s)' => Leased(s) \/ Queued(s)
    BY <2>4 DEF Leased, Queued
  <2>6. \A s \in Shards : Leased(s) => Leased(s)'
    BY <2>4, ConfigAssumption DEF Leased
  <2>7. \A s \in Shards : Queued(s) => Queued(s)' \/ Leased(s)' \/ JobOf[s] \in completed
    <3> SUFFICES ASSUME NEW s \in Shards, NEW i \in 1..Len(pending), pending[i] = s
                 PROVE  Queued(s)' \/ Leased(s)' \/ JobOf[s] \in completed
      BY DEF Queued
    <3>1. CASE i \in (k + 1)..Len(pending)
      BY <2>1, <3>1
    <3>2. CASE i \in 1..(k - 1)
      BY <1>6, <3>2 DEF IsFirstLive
    <3>3. CASE i = k
      BY <2>4, <3>3 DEF Leased
    <3> QED
      BY <2>3, <3>1, <3>2, <3>3
  <2> QED
    BY <1>1, <2>2, <2>5, <2>6, <2>7
<1> QED
  BY <1>3, <1>4, <1>5, <1>6 DEF MaybeAssignWork, Busy

(* A queue that is extended.                                               *)
LEMMA AppendedQueue ==
    ASSUME TypeOK, NEW b \in Seq(Shards), pending' = pending \o b
    PROVE  \A s \in Shards : Queued(s)' <=> Queued(s) \/ \E i \in 1..Len(b) : b[i] = s
<1>1. /\ Len(pending') = Len(pending) + Len(b)
      /\ Len(pending) \in Nat /\ Len(b) \in Nat
      /\ \A i \in 1..Len(pending') :
            pending'[i] = IF i <= Len(pending) THEN pending[i] ELSE b[i - Len(pending)]
  BY ConcatProperties DEF TypeOK
<1>2. \A i \in 1..Len(pending') :
          \/ i \in 1..Len(pending) /\ pending'[i] = pending[i]
          \/ i - Len(pending) \in 1..Len(b) /\ pending'[i] = b[i - Len(pending)]
  BY <1>1
<1>3. \A i \in 1..Len(pending) : i \in 1..Len(pending') /\ pending'[i] = pending[i]
  BY <1>1
<1>4. \A i \in 1..Len(b) : /\ Len(pending) + i \in 1..Len(pending')
                           /\ pending'[Len(pending) + i] = b[i]
  <2> SUFFICES ASSUME NEW i \in 1..Len(b)
               PROVE  /\ Len(pending) + i \in 1..Len(pending')
                      /\ pending'[Len(pending) + i] = b[i]
    OBVIOUS
  <2>1. /\ Len(pending) + i \in 1..Len(pending')
        /\ ~(Len(pending) + i <= Len(pending)) /\ (Len(pending) + i) - Len(pending) = i
    BY <1>1
  <2> QED
    BY <1>1, <2>1
<1>5. ASSUME NEW s \in Shards, Queued(s)'
      PROVE  Queued(s) \/ \E i \in 1..Len(b) : b[i] = s
  BY <1>2, <1>5 DEF Queued
<1>6. ASSUME NEW s \in Shards, Queued(s) PROVE Queued(s)'
  BY <1>3, <1>6 DEF Queued
<1>7. ASSUME NEW s \in Shards, NEW i \in 1..Len(b), b[i] = s PROVE Queued(s)'
  BY <1>4, <1>7 DEF Queued
<1> QED
  BY <1>5, <1>6, <1>7

(* From a connection's record to the handler that clears it.               *)
LEMMA TakeLoss ==
    ASSUME TypeOK, NothingToDrop, NEW c \in Conns, NEW s \in Shards, workerShard[c] = s,
           workerShard' = [workerShard EXCEPT ![c] = None],
           Holds(c, s)', \A t \in Shards : ~Holds(c, t),
           UNCHANGED <<pending, completed, shardRes, shardStatus, jobStatus, crashes, faults>>,
           \A t \in Shards : Fresh(t)' <=> Fresh(t),
           \A d \in Conns \ {c}, t \in Shards : Holds(d, t)' <=> Holds(d, t),
           \A d \in Conns \ {c} : pc'[d] = pc[d]
    PROVE  NothingToDrop' /\ LossStep
<1>1. \A d \in Conns : workerShard'[d] = IF d = c THEN None ELSE workerShard[d]
  BY DEF TypeOK
<1>2. \A t \in Shards : Leased(t) => Leased(t)' \/ Handled(t)'
  BY <1>1 DEF Leased, Handled
<1>3. \A t \in Shards : Leased(t)' => Leased(t)
  BY <1>1, ConfigAssumption DEF Leased
<1>4. Leased(s) /\ \A t \in Shards : Holds(c, t)' => t = s
  BY DEF Holds, Leased
<1>5. \A t \in Shards : MayBeQueued(t)' => MayBeQueued(t)
  BY <1>3, <1>4 DEF MayBeQueued, Queued
<1>6. \A t \in Shards : Placed(t) => Placed(t)'
  BY <1>2 DEF Placed, Queued, Handled, Decided
<1>7. Lost' \subseteq Lost \cup {}
  BY <1>6, KeepLost
<1>8. NothingToDrop'
  BY <1>5, KeepDrop
<1> QED
  BY <1>7, <1>8 DEF LossStep

(* From a handler to the database.                                         *)
LEMMA DecideLoss ==
    ASSUME TypeOK, NothingToDrop, NEW c \in Conns, NEW s \in Shards, NEW v \in {"sat", "unsat"},
           shardRes' = [shardRes EXCEPT ![s] = v],
           UNCHANGED <<pending, workerShard, completed, crashes, faults>>,
           \A j \in Jobs : jobStatus'[j] = "pending" => jobStatus[j] = "pending",
           \A t \in Shards : Fresh(t)' <=> Fresh(t),
           \A t \in Shards : Holds(c, t) => t = s,
           \A t \in Shards : ~Holds(c, t)',
           \A d \in Conns \ {c}, t \in Shards : Holds(d, t)' <=> Holds(d, t),
           \A d \in Conns \ {c} : pc'[d] = pc[d],
           \A t \in Shards \ {s} : shardStatus'[t] = shardStatus[t]
    PROVE  NothingToDrop' /\ LossStep
<1>1. \A t \in Shards : shardRes'[t] = IF t = s THEN v ELSE shardRes[t]
  BY DEF TypeOK
<1>2. Placed(s)' /\ \A t \in Shards : Decided(t) => Decided(t)'
  BY <1>1 DEF Placed, Decided
<1>3. \A t \in Shards : Placed(t) => Placed(t)'
  BY <1>2 DEF Placed, Queued, Leased, Handled
<1>4. \A t \in Shards : MayBeQueued(t)' => MayBeQueued(t)
  BY DEF MayBeQueued, Queued, Leased
<1>5. Lost' \subseteq Lost \cup {}
  BY <1>2, <1>3, KeepLost
<1>6. NothingToDrop'
  BY <1>4, KeepDrop
<1> QED
  BY <1>5, <1>6 DEF LossStep

(* Only errors lose shards, one each.                                      *)
LEMMA LossNext ==
    TypeOK /\ Side /\ OnePlace /\ VerdictInv /\ RowInv /\ NothingToDrop /\ Next
        => NothingToDrop' /\ LossStep
<1> SUFFICES ASSUME TypeOK, Side, OnePlace, VerdictInv, RowInv, NothingToDrop, Next
             PROVE  NothingToDrop' /\ LossStep
  OBVIOUS
<1> USE ConfigAssumption
    DEF Goto, Procs, After, procVars, memVars, clientVars, dbVars, ghostVars
<1>0. \A s \in Shards : Placed(s) /\ ~Fresh(s) => shardStatus[s] # "none"
  BY DEF Placed, RowInv, RowExists, NeedsRow
<1>1. ASSUME NEW c \in Conns, Connect(c)
      PROVE  NothingToDrop' /\ LossStep
  BY <1>1, StayPut DEF Connect, TypeOK, Fresh, Holds, BeforeVerdict
<1>2. ASSUME NEW c \in Conns, TrySelf(c) PROVE NothingToDrop' /\ LossStep
  BY <1>2, AssignLoss DEF TrySelf, TypeOK, Fresh, Holds, BeforeVerdict
<1>3. ASSUME NEW c \in Conns, RecvHello(c)
      PROVE  NothingToDrop' /\ LossStep
  BY <1>3, StayPut DEF RecvHello, TypeOK, Fresh, Holds, BeforeVerdict
<1>4. ASSUME NEW c \in Conns, Disconnect(c)
      PROVE  NothingToDrop' /\ LossStep
  BY <1>4, StayPut DEF Disconnect, TypeOK, Fresh, Holds, BeforeVerdict
<1>5. ASSUME NEW c \in Conns, Delete(c)
      PROVE  NothingToDrop' /\ LossStep
  BY <1>5, StayPut DEF Delete, TypeOK, Fresh, Holds, BeforeVerdict
<1>6. ASSUME NEW c \in Conns, HandleDisconnect(c) PROVE NothingToDrop' /\ LossStep
  <2>1. CASE workerShard[c] = None
    <3>1. workerShard' = workerShard
      BY <1>6, <2>1 DEF HandleDisconnect, TypeOK
    <3> QED
      BY <1>6, <2>1, <3>1, StayPut
         DEF HandleDisconnect, Unclaimed, TypeOK, Fresh, Holds, BeforeVerdict
  <2>2. CASE workerShard[c] # None
    <3>1. PICK s \in Shards : workerShard[c] = s
      BY <2>2 DEF TypeOK
    <3>2. /\ Holds(c, s)' /\ \A t \in Shards : ~Holds(c, t)
          /\ \A d \in Conns \ {c}, t \in Shards : Holds(d, t)' <=> Holds(d, t)
          /\ \A d \in Conns \ {c} : pc'[d] = pc[d]
      BY <1>6, <2>2, <3>1 DEF HandleDisconnect, Unclaimed, TypeOK, Holds, BeforeVerdict
    <3>3. \A t \in Shards : Fresh(t)' <=> Fresh(t)
      BY <1>6 DEF HandleDisconnect, Unclaimed, TypeOK, Fresh
    <3> QED
      BY <1>6, <3>1, <3>2, <3>3, TakeLoss DEF HandleDisconnect
  <2> QED
    BY <2>1, <2>2
<1>7. ASSUME NEW c \in Conns, NEW s \in Shards, NEW v \in Verdicts(s), RecvResult(c, s, v)
      PROVE  NothingToDrop' /\ LossStep
  <2>1. workerShard[c] = s
    BY <1>7 DEF RecvResult, Side, DebtOnRecord
  <2>2. Branch[v] \in {"store", "count", "requeue"}
    BY DEF Branch, Verdicts
  <2>3. /\ Holds(c, s)' /\ \A t \in Shards : ~Holds(c, t)
        /\ \A d \in Conns \ {c}, t \in Shards : Holds(d, t)' <=> Holds(d, t)
        /\ \A d \in Conns \ {c} : pc'[d] = pc[d]
    BY <1>7, <2>2 DEF RecvResult, TypeOK, Holds, BeforeVerdict
  <2>4. \A t \in Shards : Fresh(t)' <=> Fresh(t)
    BY <1>7 DEF RecvResult, TypeOK, Fresh
  <2>5. workerShard' = [workerShard EXCEPT ![c] = None]
        /\ UNCHANGED <<pending, completed, shardRes, shardStatus, jobStatus, crashes, faults>>
    BY <1>7 DEF RecvResult
  <2> QED
    BY <2>1, <2>3, <2>4, <2>5, TakeLoss
<1>8. ASSUME NEW c \in Conns, StoreSat(c) PROVE NothingToDrop' /\ LossStep
  <2>1. task[c] \in Shards
    BY <1>8 DEF StoreSat, Side, HandlerHasTask, BeforeVerdict
  <2>2. /\ \A t \in Shards : Holds(c, t) => t = task[c]
        /\ \A t \in Shards : ~Holds(c, t)'
        /\ \A d \in Conns \ {c}, t \in Shards : Holds(d, t)' <=> Holds(d, t)
        /\ \A d \in Conns \ {c} : pc'[d] = pc[d]
        /\ \A t \in Shards : Fresh(t)' <=> Fresh(t)
    BY <1>8 DEF StoreSat, TypeOK, Fresh, Holds, BeforeVerdict
  <2>3. /\ \A j \in Jobs : jobStatus'[j] = "pending" => jobStatus[j] = "pending"
        /\ \A t \in Shards \ {task[c]} : shardStatus'[t] = shardStatus[t]
    BY <1>8, <2>1 DEF StoreSat, TypeOK
  <2>4. shardRes' = [shardRes EXCEPT ![task[c]] = "sat"]
        /\ UNCHANGED <<pending, workerShard, completed, crashes, faults>>
    BY <1>8 DEF StoreSat
  <2> QED
    BY <2>1, <2>2, <2>3, <2>4, DecideLoss
<1>9. ASSUME NEW c \in Conns, MarkJobCompleted(c) PROVE NothingToDrop' /\ LossStep
  <2>1. LossStep /\ \A s \in Shards : MayBeQueued(s)' => MayBeQueued(s)
    BY <1>9, StayPut DEF MarkJobCompleted, TypeOK, Fresh, Holds, BeforeVerdict
  <2>2. task[c] \in Shards /\ jobRes[JobOf[task[c]]] \in Shards
    BY <1>9 DEF MarkJobCompleted, Side, HandlerHasTask, VerdictInv, AnnounceHasModel
  <2>3. jobStatus[JobOf[task[c]]] = "completed"
    BY <2>2 DEF VerdictInv, VerdictBacked
  <2>4. completed' = completed \cup {JobOf[task[c]]} /\ jobStatus' = jobStatus
    BY <1>9 DEF MarkJobCompleted
  <2> QED
    BY <2>1, <2>3, <2>4 DEF NothingToDrop
<1>10. ASSUME NEW c \in Conns, NEW w \in Conns, SendCancel(c, w) PROVE NothingToDrop' /\ LossStep
  BY <1>10, StayPut DEF SendCancel, TypeOK, Fresh, Holds, BeforeVerdict
<1>11. ASSUME NEW c \in Conns, FinishSat(c)
      PROVE  NothingToDrop' /\ LossStep
  BY <1>11, StayPut DEF FinishSat, Reward, TypeOK, Fresh, Holds, BeforeVerdict
<1>12. ASSUME NEW c \in Conns, CountShards(c)
      PROVE  NothingToDrop' /\ LossStep
  BY <1>12, StayPut DEF CountShards, CommitPath, TypeOK, Fresh, Holds, BeforeVerdict
<1>13. ASSUME NEW c \in Conns, SealJob(c) PROVE NothingToDrop' /\ LossStep
  <2>0. PICK s \in Shards : task[c] = s
    BY <1>13 DEF SealJob, Side, HandlerHasTask, BeforeVerdict
  <2>1. LossStep /\ \A t \in Shards : MayBeQueued(t)' => MayBeQueued(t)
    BY <1>13, StayPut DEF SealJob, TypeOK, Fresh, Holds, BeforeVerdict
  <2>2. s \in Shards /\ Holds(c, s) /\ Handled(s)
    BY <1>13, <2>0 DEF SealJob, Side, HandlerHasTask, Holds, Handled, BeforeVerdict
  <2>3. \A t \in Shards : JobOf[t] = JobOf[s] /\ t # s => Decided(t)
    BY <1>13, <2>0 DEF SealJob, VerdictInv, SealSeesAll, ShardsOf, Decided
  <2>4. \A t \in Shards : Decided(t) => ~MayBeQueued(t)
    BY DEF OnePlace, MayBeQueued, Handled
  <2>5. ~MayBeQueued(s)'
    <3>1. ~Fresh(s) /\ ~Queued(s) /\ ~Leased(s)
      BY <2>2 DEF OnePlace
    <3>2. ~Fresh(s)' /\ ~Queued(s)' /\ ~Leased(s)'
      BY <1>13, <3>1 DEF SealJob, TypeOK, Fresh, Queued, Leased
    <3>3. \A d \in Conns : Holds(d, s)' => Holds(d, s)
      BY <1>13 DEF SealJob, TypeOK, Holds, BeforeVerdict
    <3>4. \A d \in Conns : Holds(d, s)' => d = c
      BY <2>2, <3>3 DEF OnePlace, HandledOnce
    <3>5. pc'[c] = "commitJob"
      BY <1>13 DEF SealJob, TypeOK
    <3> QED
      BY <3>2, <3>4, <3>5 DEF MayBeQueued
  <2>6. completed' = completed \cup {JobOf[s]} /\ jobStatus' = jobStatus /\ task' = task
    BY <1>13, <2>0 DEF SealJob
  <2>7. ASSUME NEW t \in Shards, JobOf[t] \in completed', jobStatus'[JobOf[t]] = "pending"
        PROVE  ~MayBeQueued(t)'
    <3>1. CASE JobOf[t] \in completed
      BY <2>1, <2>6, <2>7, <3>1 DEF NothingToDrop
    <3>2. CASE t = s
      BY <2>5, <3>2
    <3>3. CASE JobOf[t] = JobOf[s] /\ t # s
      BY <2>1, <2>3, <2>4, <3>3
    <3> QED
      BY <2>6, <2>7, <3>1, <3>2, <3>3
  <2> QED
    BY <2>1, <2>7 DEF NothingToDrop
<1>14. ASSUME NEW c \in Conns, CommitShard(c) PROVE NothingToDrop' /\ LossStep
  <2>1. task[c] \in Shards
    BY <1>14 DEF CommitShard, Side, HandlerHasTask, BeforeVerdict
  <2>2. /\ \A t \in Shards : Holds(c, t) => t = task[c]
        /\ \A t \in Shards : ~Holds(c, t)'
        /\ \A d \in Conns \ {c}, t \in Shards : Holds(d, t)' <=> Holds(d, t)
        /\ \A d \in Conns \ {c} : pc'[d] = pc[d]
        /\ \A t \in Shards : Fresh(t)' <=> Fresh(t)
    BY <1>14 DEF CommitShard, CommitRow, Reward, TypeOK, Fresh, Holds, BeforeVerdict
  <2>3. /\ \A j \in Jobs : jobStatus'[j] = "pending" => jobStatus[j] = "pending"
        /\ \A t \in Shards \ {task[c]} : shardStatus'[t] = shardStatus[t]
    BY <1>14, <2>1 DEF CommitShard, CommitRow, Reward, TypeOK
  <2>4. shardRes' = [shardRes EXCEPT ![task[c]] = "unsat"]
        /\ UNCHANGED <<pending, workerShard, completed, crashes, faults>>
    BY <1>14 DEF CommitShard, CommitRow, Reward
  <2> QED
    BY <2>1, <2>2, <2>3, <2>4, DecideLoss
<1>15. ASSUME NEW c \in Conns, CommitJob(c) PROVE NothingToDrop' /\ LossStep
  <2>1. task[c] \in Shards
    BY <1>15 DEF CommitJob, Side, HandlerHasTask, BeforeVerdict
  <2>2. /\ \A t \in Shards : Holds(c, t) => t = task[c]
        /\ \A t \in Shards : ~Holds(c, t)'
        /\ \A d \in Conns \ {c}, t \in Shards : Holds(d, t)' <=> Holds(d, t)
        /\ \A d \in Conns \ {c} : pc'[d] = pc[d]
        /\ \A t \in Shards : Fresh(t)' <=> Fresh(t)
    BY <1>15 DEF CommitJob, CommitRow, Reward, TypeOK, Fresh, Holds, BeforeVerdict
  <2>3. /\ \A j \in Jobs : jobStatus'[j] = "pending" => jobStatus[j] = "pending"
        /\ \A t \in Shards \ {task[c]} : shardStatus'[t] = shardStatus[t]
    BY <1>15, <2>1 DEF CommitJob, CommitRow, Reward, TypeOK
  <2>4. shardRes' = [shardRes EXCEPT ![task[c]] = "unsat"]
        /\ UNCHANGED <<pending, workerShard, completed, crashes, faults>>
    BY <1>15 DEF CommitJob, CommitRow, Reward
  <2> QED
    BY <2>1, <2>2, <2>3, <2>4, DecideLoss
<1>16. ASSUME NEW c \in Conns, Fail(c) PROVE NothingToDrop' /\ LossStep
  <2> DEFINE s == task[c]
  <2>1. s \in Shards
    BY <1>16 DEF Fail, Side, HandlerHasTask, BeforeVerdict
  <2>2. /\ UNCHANGED <<pending, workerShard, completed, shardRes, shardStatus, jobStatus, crashes>>
        /\ faults' = faults + 1
    BY <1>16 DEF Fail
  <2>3. \A t \in Shards : Fresh(t)' <=> Fresh(t)
    BY <1>16 DEF Fail, TypeOK, Fresh
  <2>4. /\ \A d \in Conns, t \in Shards : Holds(d, t)' <=> Holds(d, t) /\ d # c
        /\ \A d \in Conns \ {c} : pc'[d] = pc[d]
        /\ \A t \in Shards : Holds(c, t) => t = s
    BY <1>16 DEF Fail, TypeOK, Holds, BeforeVerdict
  <2>5. \A t \in Shards : MayBeQueued(t)' => MayBeQueued(t)
    BY <2>2, <2>3, <2>4 DEF MayBeQueued, Queued, Leased
  <2>6. \A t \in Shards : Placed(t) => Placed(t)' \/ t \in {s}
    BY <2>2, <2>3, <2>4 DEF Placed, Queued, Leased, Handled, Decided
  <2>7. Lost' \subseteq Lost \cup {s}
    <3> HIDE DEF s
    <3> QED
      BY <2>2, <2>6, KeepLost
  <2>8. NothingToDrop'
    BY <2>2, <2>5, KeepDrop
  <2> QED
    BY <2>1, <2>2, <2>7, <2>8 DEF LossStep
<1>17. ASSUME NEW c \in Conns, RequeueRow(c) PROVE NothingToDrop' /\ LossStep
  <2>1. Placed(task[c]) /\ task[c] \in Shards
    BY <1>17 DEF RequeueRow, Side, HandlerHasTask, Placed, Handled, Holds, BeforeVerdict
  <2>2. \A s \in Shards : shardStatus'[s] # "none" => shardStatus[s] # "none" \/ Placed(s)
    BY <1>17, <2>1 DEF RequeueRow, TypeOK
  <2> QED
    BY <1>17, <2>2, StayPut DEF RequeueRow, TypeOK, Fresh, Holds, BeforeVerdict
<1>18. ASSUME NEW j \in Jobs, EnqueueRows(j) PROVE NothingToDrop' /\ LossStep
  <2>1. \A s \in Shards : shardStatus'[s] # "none" => shardStatus[s] # "none" \/ Placed(s)
    BY <1>18 DEF EnqueueRows, Placed, Fresh
  <2> QED
    BY <1>18, <2>1, StayPut DEF EnqueueRows, TypeOK, Fresh, Holds, BeforeVerdict
<1>19. ASSUME NEW j \in Jobs, pc[j] \in {"new", "reject"},
             NEW l \in {"reject", "done"}, pc' = [pc EXCEPT ![j] = l],
             UNCHANGED <<task, pending, workerShard, shardRes, shardStatus, crashes>>,
             \A k \in Jobs : jobStatus'[k] = "pending" => jobStatus[k] = "pending",
             completed' \subseteq completed \cup {j}, faults' \in {faults, faults + 1}
      PROVE  NothingToDrop' /\ LossStep
  <2>1. \A s \in Shards : JobOf[s] = j => shardStatus[s] = "none"
    BY <1>19 DEF RowInv, NewHasNoRows, WithoutRows, ShardsOf
  <2>2. /\ \A s \in Shards : Fresh(s)' <=> Fresh(s) /\ JobOf[s] # j
        /\ \A c \in Conns, s \in Shards : Holds(c, s)' <=> Holds(c, s)
        /\ \A c \in Conns : pc'[c] = pc[c]
    BY <1>19 DEF TypeOK, Fresh, Holds
  <2>3. \A s \in Shards : Placed(s) /\ JobOf[s] # j => Placed(s)'
    BY <1>19, <2>2 DEF Placed, Queued, Leased, Handled, Decided
  <2>4. \A s \in Shards : MayBeQueued(s)' => MayBeQueued(s) /\ JobOf[s] # j
    <3>1. \A s \in Shards : MayBeQueued(s)' => (MayBeQueued(s) /\ ~Fresh(s)) \/ JobOf[s] # j
      BY <1>19, <2>2 DEF MayBeQueued, Queued, Leased, OnePlace, Handled
    <3>2. \A s \in Shards : MayBeQueued(s)' => MayBeQueued(s)
      BY <1>19, <2>2 DEF MayBeQueued, Queued, Leased
    <3>3. \A s \in Shards : MayBeQueued(s) => Placed(s)
      BY DEF MayBeQueued, Placed, Handled
    <3> QED
      BY <1>0, <2>1, <3>1, <3>2, <3>3
  <2>5. Lost' \subseteq Lost \cup {}
    BY <1>19, <2>1, <2>3, KeepLost
  <2>6. NothingToDrop'
    BY <1>19, <2>4 DEF NothingToDrop
  <2> QED
    BY <1>19, <2>5, <2>6 DEF LossStep
<1>20. ASSUME NEW j \in Jobs, EnqueueInvalid(j) \/ SealInvalid(j)
       PROVE  NothingToDrop' /\ LossStep
  BY <1>19, <1>20 DEF EnqueueInvalid, SealInvalid, TypeOK
<1>21. ASSUME NEW j \in Jobs, EnqueueFails(j) PROVE NothingToDrop' /\ LossStep
  BY <1>19, <1>21 DEF EnqueueFails
<1>22. ASSUME NEW p \in Procs, AppendPending(p) PROVE NothingToDrop' /\ LossStep
  <2> DEFINE b == Batch(p)
  <2>1. b \in Seq(Shards) /\ \A i \in 1..Len(b) : b[i] \in Shards /\ (Fresh(b[i]) \/ (p \in Conns /\ Holds(p, b[i])))
    <3>1. CASE p \in Jobs
      BY <1>22, <3>1 DEF Batch, AppendPending, Fresh
    <3>2. CASE p \in Conns
      BY <1>22, <3>2 DEF Batch, AppendPending, Side, HandlerHasTask, Holds, BeforeVerdict
    <3> QED
      BY <3>1, <3>2
  <2> HIDE DEF b
  <2>2. pending' = pending \o b /\ pc[p] = "append" /\ pc' = [pc EXCEPT ![p] = "snapshot"]
        /\ UNCHANGED <<workerShard, shardRes, shardStatus, jobStatus, completed, crashes, faults>>
    BY <1>22 DEF AppendPending, b
  <2>3. \A s \in Shards : Queued(s)' <=> Queued(s) \/ \E i \in 1..Len(b) : b[i] = s
    BY <2>1, <2>2, AppendedQueue
  <2>4. /\ \A s \in Shards : Fresh(s)' => Fresh(s)
        /\ \A c \in Conns, s \in Shards : Holds(c, s)' => Holds(c, s) /\ pc'[c] = pc[c]
    BY <1>22 DEF AppendPending, TypeOK, Fresh, Holds, BeforeVerdict
  <2>5. /\ \A s \in Shards : Fresh(s) => Fresh(s)' \/ \E i \in 1..Len(b) : b[i] = s
        /\ \A c \in Conns, s \in Shards :
              Holds(c, s) => Holds(c, s)' \/ \E i \in 1..Len(b) : b[i] = s
    <3>1. CASE p \in Jobs
      <4>1. \A s \in Shards : JobOf[s] = p => \E i \in 1..Len(b) : b[i] = s
        BY <3>1, CubesAssumption DEF Batch, b
      <4>2. /\ \A s \in Shards : Fresh(s) /\ JobOf[s] # p => Fresh(s)'
            /\ \A c \in Conns, s \in Shards : Holds(c, s) => Holds(c, s)'
        BY <1>22, <3>1 DEF AppendPending, TypeOK, Fresh, Holds
      <4> QED
        BY <4>1, <4>2
    <3>2. CASE p \in Conns
      <4>1. \A s \in Shards : Holds(p, s) => \E i \in 1..Len(b) : b[i] = s
        <5> SUFFICES ASSUME NEW s \in Shards, Holds(p, s) PROVE \E i \in 1..Len(b) : b[i] = s
          OBVIOUS
        <5>1. b = <<s>>
          BY <3>2 DEF Batch, b, Holds
        <5> QED
          BY <5>1
      <4>2. /\ \A s \in Shards : Fresh(s) => Fresh(s)'
            /\ \A c \in Conns \ {p}, s \in Shards : Holds(c, s) => Holds(c, s)'
        BY <1>22, <3>2 DEF AppendPending, TypeOK, Fresh, Holds
      <4> QED
        BY <4>1, <4>2
    <3> QED
      BY <3>1, <3>2
  <2>6. \A s \in Shards : MayBeQueued(s)' => MayBeQueued(s)
    <3>1. \A s \in Shards : (\E i \in 1..Len(b) : b[i] = s) => MayBeQueued(s)
      BY <2>1, <2>2 DEF MayBeQueued
    <3> QED
      BY <2>2, <2>3, <2>4, <3>1 DEF MayBeQueued, Leased
  <2>7. \A s \in Shards : Placed(s) => Placed(s)'
    BY <2>2, <2>3, <2>5 DEF Placed, Leased, Handled, Decided
  <2>8. Lost' \subseteq Lost \cup {}
    BY <2>2, <2>7, KeepLost
  <2>9. NothingToDrop'
    BY <2>2, <2>6, KeepDrop
  <2> QED
    BY <2>2, <2>8, <2>9 DEF LossStep
<1>23. ASSUME NEW p \in Procs, SnapshotIDs(p)
      PROVE  NothingToDrop' /\ LossStep
  BY <1>23, StayPut DEF SnapshotIDs, NudgeRest, TypeOK, Fresh, Holds, BeforeVerdict
<1>24. ASSUME NEW p \in Procs, NEW w \in Conns, NudgeWorker(p, w) PROVE NothingToDrop' /\ LossStep
  <2>1. \A s \in Shards : Fresh(s)' <=> Fresh(s)
    BY <1>24 DEF NudgeWorker, NudgeRest, TypeOK, Fresh
  <2>2. /\ \A c \in Conns, s \in Shards : Holds(c, s)' <=> Holds(c, s)
        /\ \A c \in Conns : pc[c] = "commitJob" => pc'[c] = "commitJob"
    BY <1>24 DEF NudgeWorker, NudgeRest, TypeOK, Holds, BeforeVerdict
  <2> QED
    BY <1>24, <2>1, <2>2, AssignLoss DEF NudgeWorker
<1>25. ASSUME NEW s \in Shards, MarkShardAssigned(s) PROVE NothingToDrop' /\ LossStep
  <2>1. shardStatus[s] # "none"
    BY <1>25 DEF MarkShardAssigned, RowInv, RowExists, NeedsRow
  <2>2. \A t \in Shards : shardStatus'[t] # "none" => shardStatus[t] # "none"
    BY <1>25, <2>1 DEF MarkShardAssigned, TypeOK
  <2> QED
    BY <1>25, <2>2, StayPut DEF MarkShardAssigned, TypeOK, Fresh, Holds
<1>26. ASSUME NEW r \in rewarding, RewardWorkerForJob(r) PROVE NothingToDrop' /\ LossStep
  BY <1>26, StayPut DEF RewardWorkerForJob, TypeOK, Fresh, Holds
<1>27. ASSUME NEW c \in Conns, NEW s \in Shards, GiveUp(c, s) PROVE NothingToDrop' /\ LossStep
  BY <1>27, StayPut DEF GiveUp, TypeOK, Fresh, Holds
<1>28. CASE Crash
  BY <1>28 DEF Crash, TypeOK, NothingToDrop, LossStep
<1> QED
  BY <1>1, <1>2, <1>3, <1>4, <1>5, <1>6, <1>7, <1>8, <1>9, <1>10, <1>11, <1>12, <1>13,
     <1>14, <1>15, <1>16, <1>17, <1>18, <1>20, <1>21, <1>22, <1>23, <1>24, <1>25, <1>26,
     <1>27, <1>28
     DEF Next, ConnStep, QueueStep

(* While the server is not restarted, each database or file error costs at *)
(* most one shard its verdict, in any farm.                                *)
THEOREM ErrorsLoseOneEach == Spec => []LossesAreFaults
<1>1. Init => LossInv
  <2> SUFFICES ASSUME Init PROVE LossInv
    OBVIOUS
  <2>1. Lost = {}
    BY DEF Init, Lost
  <2> QED
    BY <2>1, FS_EmptySet DEF Init, LossInv, NothingToDrop, LossesAreFaults
<1>2. IndInv /\ VerdictInv /\ RowInv /\ LossInv /\ [Next]_vars => LossInv'
  <2> SUFFICES ASSUME IndInv, VerdictInv, RowInv, LossInv, [Next]_vars PROVE LossInv'
    OBVIOUS
  <2>1. NothingToDrop' /\ LossStep
    <3>1. CASE Next
      BY <3>1, LossNext DEF IndInv, Side, LossInv
    <3>2. CASE UNCHANGED vars
      BY <3>2, StayPut DEF vars, procVars, memVars, dbVars, ghostVars, LossInv, Fresh, Holds
    <3> QED
      BY <3>1, <3>2
  <2>2. ASSUME crashes' = 0
        PROVE  IsFiniteSet(Lost') /\ Cardinality(Lost') <= faults'
    <3>1. IsFiniteSet(Lost) /\ Cardinality(Lost) <= faults /\ faults \in Nat
      BY <2>1, <2>2 DEF LossInv, LossesAreFaults, LossStep, IndInv, TypeOK
    <3>2. Cardinality(Lost) \in Nat
      BY <3>1, FS_CardinalityType
    <3>3. CASE Lost' \subseteq Lost /\ faults' \in {faults, faults + 1}
      <4>1. IsFiniteSet(Lost') /\ Cardinality(Lost') <= Cardinality(Lost)
        BY <3>1, <3>3, FS_Subset
      <4>2. Cardinality(Lost') \in Nat
        BY <4>1, FS_CardinalityType
      <4> QED
        BY <3>1, <3>2, <3>3, <4>1, <4>2
    <3>4. ASSUME NEW s \in Shards, Lost' \subseteq Lost \cup {s}, faults' = faults + 1
          PROVE  IsFiniteSet(Lost') /\ Cardinality(Lost') <= faults'
      <4>1. /\ IsFiniteSet(Lost \cup {s})
            /\ Cardinality(Lost \cup {s}) \in {Cardinality(Lost), Cardinality(Lost) + 1}
        BY <3>1, FS_AddElement
      <4>2. IsFiniteSet(Lost') /\ Cardinality(Lost') <= Cardinality(Lost \cup {s})
        BY <3>4, <4>1, FS_Subset
      <4>3. Cardinality(Lost') \in Nat
        BY <4>2, FS_CardinalityType
      <4> QED
        BY <3>1, <3>2, <3>4, <4>1, <4>2, <4>3
    <3> QED
      BY <2>1, <2>2, <3>3, <3>4 DEF LossStep
  <2> QED
    BY <2>1, <2>2 DEF LossInv, LossesAreFaults
<1>3. LossInv => LossesAreFaults
  BY DEF LossInv, LossesAreFaults
<1> QED
  BY <1>1, <1>2, <1>3, Inductive, RowsInOrder, PTL DEF Spec
=============================================================================
