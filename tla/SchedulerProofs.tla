-------------------------- MODULE SchedulerProofs --------------------------
(***************************************************************************)
(* Proofs about Scheduler, for every value of its constants that satisfies *)
(* ConfigAssumption.                                                       *)
(*                                                                         *)
(* The invariant is proved in five layers, each with one step per action   *)
(* of Next: types (TypeNext); the side conditions that tie a connection's  *)
(* control point to its task and to what its worker owes (SideNext); that  *)
(* a shard is in one place (PlacesNext), where an action either keeps      *)
(* every shard where it is or moves one shard by one of five moves, each   *)
(* of which has a lemma; the verdicts (VerdictNext), which rest on a shard *)
(* being decided once; and the wake-ups (WakeupNext).                      *)
(***************************************************************************)
EXTENDS Scheduler, SequenceTheorems, TLAPS

---------------------------------------------------------------------------
(* Types.                                                                  *)

(* The initial state is well typed.                                        *)
LEMMA InitType == Init => TypeOK
BY ConfigAssumption DEF Init, TypeOK, Procs

(* What MaybeAssignWork writes has its type: the queue stays a sequence of *)
(* shards whichever prefix is dropped.                                     *)
LEMMA AssignType ==
    ASSUME TypeOK, NEW w \in Conns, MaybeAssignWork(w)
    PROVE  /\ pending' \in Seq(Shards)
           /\ workerShard' \in [Conns -> Shards \cup {None}]
           /\ client' \in [Conns -> SUBSET Shards]
           /\ marks' \in [Shards -> Nat]
           /\ refused' \subseteq Conns
<1>1. CASE Busy(w)
  BY <1>1 DEF MaybeAssignWork, TypeOK
<1>2. CASE NothingLive(w)
  BY <1>2 DEF NothingLive, TypeOK
<1>3. ASSUME NEW k \in 1..Len(pending)
      PROVE  /\ pending[k] \in Shards
             /\ SubSeq(pending, k, Len(pending)) \in Seq(Shards)
             /\ SubSeq(pending, k + 1, Len(pending)) \in Seq(Shards)
  BY DEF TypeOK
<1>4. ASSUME NEW k \in 1..Len(pending), PutBack(w, k)
      PROVE  pending' \in Seq(Shards) /\ refused' \subseteq Conns
  BY <1>3, <1>4 DEF PutBack, TypeOK
<1>5. ASSUME NEW k \in 1..Len(pending), Assign(w, k)
      PROVE  /\ pending' \in Seq(Shards)
             /\ workerShard' \in [Conns -> Shards \cup {None}]
             /\ client' \in [Conns -> SUBSET Shards]
             /\ marks' \in [Shards -> Nat]
             /\ refused' \subseteq Conns
  BY <1>3, <1>5 DEF Assign, Popped, TypeOK
<1> QED
  BY <1>1, <1>2, <1>4, <1>5 DEF MaybeAssignWork, PutBack, TypeOK, Busy

(* Every action keeps the types, given that a handler past Recv has a task.*)
LEMMA TypeNext == TypeOK /\ ControlOK /\ HandlerHasTask /\ Next => TypeOK'
<1> SUFFICES ASSUME TypeOK, ControlOK, HandlerHasTask, Next PROVE TypeOK'
  OBVIOUS
<1> USE DEF Goto, Procs, After, procVars, memVars, clientVars, dbVars, ghostVars
<1>1. ASSUME NEW c \in Conns, Connect(c) PROVE TypeOK'
  BY <1>1 DEF Connect, TypeOK
<1>2. ASSUME NEW c \in Conns, TrySelf(c) PROVE TypeOK'
  BY <1>2, AssignType DEF TrySelf, TypeOK
<1>3. ASSUME NEW c \in Conns, RecvHello(c) PROVE TypeOK'
  BY <1>3 DEF RecvHello, TypeOK
<1>4. ASSUME NEW c \in Conns, Disconnect(c) PROVE TypeOK'
  BY <1>4 DEF Disconnect, TypeOK
<1>5. ASSUME NEW c \in Conns, Delete(c) PROVE TypeOK'
  BY <1>5 DEF Delete, TypeOK
<1>6. ASSUME NEW c \in Conns, HandleDisconnect(c) PROVE TypeOK'
  BY <1>6 DEF HandleDisconnect, Unclaimed, TypeOK
<1>7. ASSUME NEW c \in Conns, NEW s \in Shards, NEW v \in Verdicts(s), RecvResult(c, s, v)
      PROVE  TypeOK'
  BY <1>7, ConfigAssumption DEF RecvResult, TypeOK, Verdicts, Branch
<1>8. ASSUME NEW c \in Conns, StoreSat(c) PROVE TypeOK'
  BY <1>8, ConfigAssumption DEF StoreSat, TypeOK, HandlerHasTask, InsertOnce, BeforeVerdict
<1>9. ASSUME NEW c \in Conns, MarkJobCompleted(c) PROVE TypeOK'
  BY <1>9, ConfigAssumption DEF MarkJobCompleted, TypeOK, HandlerHasTask
<1>10. ASSUME NEW c \in Conns, NEW w \in Conns, SendCancel(c, w) PROVE TypeOK'
  BY <1>10, ConfigAssumption DEF SendCancel, TypeOK, HandlerHasTask
<1>11. ASSUME NEW c \in Conns, FinishSat(c) PROVE TypeOK'
  BY <1>11 DEF FinishSat, Reward, TypeOK, HandlerHasTask
<1>12. ASSUME NEW c \in Conns, CountShards(c) PROVE TypeOK'
  BY <1>12 DEF CountShards, CommitPath, TypeOK
<1>13. ASSUME NEW c \in Conns, SealJob(c) PROVE TypeOK'
  BY <1>13, ConfigAssumption DEF SealJob, TypeOK, HandlerHasTask, BeforeVerdict
<1>14. ASSUME NEW c \in Conns, CommitShard(c) PROVE TypeOK'
  BY <1>14 DEF CommitShard, CommitRow, Reward, TypeOK, HandlerHasTask, BeforeVerdict
<1>15. ASSUME NEW c \in Conns, CommitJob(c) PROVE TypeOK'
  <2>1. task[c] \in Shards
    BY <1>15 DEF CommitJob, HandlerHasTask, BeforeVerdict
  <2>2. jobRes' \in [Jobs -> {None, Unsat} \cup Shards]
    BY <1>15 DEF CommitJob, InsertOnce, TypeOK
  <2>3. jobStatus' \in [Jobs -> {"pending", "completed", "failed"}]
    BY <1>15 DEF CommitJob, TypeOK
  <2> QED
    BY <1>15, <2>1, <2>2, <2>3 DEF CommitJob, CommitRow, Reward, TypeOK
<1>16. ASSUME NEW c \in Conns, Fail(c) PROVE TypeOK'
  BY <1>16 DEF Fail, TypeOK
<1>17. ASSUME NEW c \in Conns, RequeueRow(c) PROVE TypeOK'
  BY <1>17 DEF RequeueRow, TypeOK
<1>18. ASSUME NEW j \in Jobs, EnqueueRows(j) PROVE TypeOK'
  BY <1>18 DEF EnqueueRows, TypeOK
<1>19. ASSUME NEW j \in Jobs, EnqueueInvalid(j) PROVE TypeOK'
  <2>1. jobStatus' \in {jobStatus, [jobStatus EXCEPT ![j] = "failed"]}
    BY <1>19 DEF EnqueueInvalid
  <2>2. jobStatus' \in [Jobs -> {"pending", "completed", "failed"}]
    BY <2>1 DEF TypeOK
  <2>3. faults' \in Nat
    BY <1>19 DEF EnqueueInvalid, TypeOK
  <2> QED
    BY <1>19, <2>2, <2>3 DEF EnqueueInvalid, TypeOK
<1>20. ASSUME NEW j \in Jobs, EnqueueFails(j) PROVE TypeOK'
  BY <1>20 DEF EnqueueFails, TypeOK
<1>21. ASSUME NEW p \in Procs, AppendPending(p) PROVE TypeOK'
  <2>1. Batch(p) \in Seq(Shards)
    BY <1>21, ConfigAssumption DEF Batch, AppendPending, TypeOK, HandlerHasTask, BeforeVerdict
  <2> QED BY <2>1, <1>21 DEF AppendPending, TypeOK
<1>22. ASSUME NEW p \in Procs, SnapshotIDs(p) PROVE TypeOK'
  BY <1>22 DEF SnapshotIDs, NudgeRest, TypeOK
<1>23. ASSUME NEW p \in Procs, NEW w \in Conns, NudgeWorker(p, w) PROVE TypeOK'
  BY <1>23, AssignType DEF NudgeWorker, NudgeRest, TypeOK
<1>24. ASSUME NEW s \in Shards, MarkShardAssigned(s) PROVE TypeOK'
  <2>1. marks' \in [Shards -> Nat]
    BY <1>24 DEF MarkShardAssigned, TypeOK
  <2>2. faults' \in Nat
    BY <1>24 DEF MarkShardAssigned, TypeOK
  <2>3. shardStatus' \in [Shards -> {"none", "pending", "running", "completed"}]
    <3>1. shardStatus' \in {shardStatus, [shardStatus EXCEPT ![s] = "running"]}
      BY <1>24 DEF MarkShardAssigned
    <3> QED
      BY <3>1 DEF TypeOK
  <2>4. UNCHANGED <<pc, task, nudge, targets, rewarding, memVars, clientVars,
                    shardRes, jobStatus, jobRes, paid, refused, bad, crashes>>
    BY <1>24 DEF MarkShardAssigned
  <2> QED
    BY <2>1, <2>2, <2>3, <2>4 DEF TypeOK
<1>25. ASSUME NEW r \in rewarding, RewardWorkerForJob(r) PROVE TypeOK'
  <2>1. r[1] \in Shards /\ rewarding' \subseteq rewarding
    BY <1>25 DEF RewardWorkerForJob, TypeOK
  <2>2. paid' \in [Shards -> Nat]
    <3>1. PICK s \in Shards : paid' = paid \/ paid' = [paid EXCEPT ![s] = paid[s] + 1]
      BY <1>25, <2>1 DEF RewardWorkerForJob
    <3>2. paid \in [Shards -> Nat]
      BY DEF TypeOK
    <3> QED
      BY <3>1, <3>2
  <2>3. UNCHANGED <<pc, task, nudge, targets, marks, memVars, clientVars, shardStatus,
                    shardRes, jobStatus, jobRes, ghostVars>>
    BY <1>25 DEF RewardWorkerForJob
  <2> QED
    BY <2>1, <2>2, <2>3 DEF TypeOK
<1>26. ASSUME NEW c \in Conns, NEW s \in Shards, GiveUp(c, s) PROVE TypeOK'
  BY <1>26 DEF GiveUp, TypeOK
<1>27. CASE Crash
  BY <1>27 DEF Crash, TypeOK
<1>28. ASSUME NEW j \in Jobs, SealInvalid(j) PROVE TypeOK'
  BY <1>28 DEF SealInvalid, TypeOK
<1> QED
  BY <1>1, <1>2, <1>3, <1>4, <1>5, <1>6, <1>7, <1>8, <1>9, <1>10, <1>11, <1>12, <1>13, <1>14,
     <1>15, <1>16, <1>17, <1>18, <1>19, <1>20, <1>21, <1>22, <1>23, <1>24, <1>25, <1>26, <1>27,
     <1>28
     DEF Next, ConnStep, QueueStep

---------------------------------------------------------------------------
(* Side conditions.                                                        *)

(* MaybeAssignWork assigns to registered connections only, and the shard   *)
(* it sends is the one it records.                                         *)
LEMMA AssignDebt ==
    ASSUME TypeOK, DebtOnRecord, DebtIsLive, NEW w \in Conns, MaybeAssignWork(w)
    PROVE  /\ \A c \in Conns : workerShard'[c] = workerShard[c] \/ c \in registry
           /\ \A c \in Conns : \A s \in client'[c] : workerShard'[c] = s
           /\ \A c \in Conns : client'[c] # {} => c \in registry /\ pc[c] # "leave"
<1>1. ASSUME UNCHANGED <<workerShard, client>>
      PROVE  /\ \A c \in Conns : workerShard'[c] = workerShard[c] \/ c \in registry
             /\ \A c \in Conns : \A s \in client'[c] : workerShard'[c] = s
             /\ \A c \in Conns : client'[c] # {} => c \in registry /\ pc[c] # "leave"
  BY <1>1 DEF DebtOnRecord, DebtIsLive
<1>2. ASSUME ~Busy(w), NEW k \in 1..Len(pending), Assign(w, k)
      PROVE  /\ \A c \in Conns : workerShard'[c] = workerShard[c] \/ c \in registry
             /\ \A c \in Conns : \A s \in client'[c] : workerShard'[c] = s
             /\ \A c \in Conns : client'[c] # {} => c \in registry /\ pc[c] # "leave"
  <2>1. pending[k] \in Shards
    BY DEF TypeOK
  <2>2. client[w] = {}
    BY <1>2, ConfigAssumption DEF Busy, DebtOnRecord, TypeOK
  <2> QED
    BY <1>2, <2>1, <2>2 DEF Assign, Reachable, TypeOK, DebtOnRecord, DebtIsLive
<1> QED
  BY <1>1, <1>2 DEF MaybeAssignWork, Busy, NothingLive, PutBack

(* All of IndInv but the types and the places.                             *)
Side ==
    /\ ControlOK /\ HandlerHasTask /\ DebtIsLive /\ GoneIsUnregistered
    /\ DebtOnRecord /\ NoOrphan

(* Every action keeps the side conditions.                                 *)
LEMMA SideNext == TypeOK /\ Side /\ Next => Side'
<1> SUFFICES ASSUME TypeOK, Side, Next PROVE Side'
  OBVIOUS
<1> USE ConfigAssumption
    DEF Goto, Procs, After, procVars, memVars, clientVars, dbVars, ghostVars
<1>1. ASSUME NEW c \in Conns, Connect(c) PROVE Side'
  BY <1>1 DEF Connect,
     TypeOK, Side, ControlOK, JobControl, HandlerHasTask, BeforeVerdict, DebtIsLive,
     GoneIsUnregistered, DebtOnRecord, NoOrphan
<1>2. ASSUME NEW c \in Conns, TrySelf(c) PROVE Side'
  BY <1>2, AssignDebt DEF TrySelf,
     TypeOK, Side, ControlOK, JobControl, HandlerHasTask, BeforeVerdict, DebtIsLive,
     GoneIsUnregistered, DebtOnRecord, NoOrphan
<1>3. ASSUME NEW c \in Conns, RecvHello(c) PROVE Side'
  BY <1>3 DEF RecvHello,
     TypeOK, Side, ControlOK, JobControl, HandlerHasTask, BeforeVerdict, DebtIsLive,
     GoneIsUnregistered, DebtOnRecord, NoOrphan
<1>4. ASSUME NEW c \in Conns, Disconnect(c) PROVE Side'
  BY <1>4 DEF Disconnect,
     TypeOK, Side, ControlOK, JobControl, HandlerHasTask, BeforeVerdict, DebtIsLive,
     GoneIsUnregistered, DebtOnRecord, NoOrphan
<1>5. ASSUME NEW c \in Conns, Delete(c) PROVE Side'
  BY <1>5 DEF Delete,
     TypeOK, Side, ControlOK, JobControl, HandlerHasTask, BeforeVerdict, DebtIsLive,
     GoneIsUnregistered, DebtOnRecord, NoOrphan
<1>6. ASSUME NEW c \in Conns, HandleDisconnect(c) PROVE Side'
  BY <1>6 DEF HandleDisconnect, Unclaimed,
     TypeOK, Side, ControlOK, JobControl, HandlerHasTask, BeforeVerdict, DebtIsLive,
     GoneIsUnregistered, DebtOnRecord, NoOrphan
<1>7. ASSUME NEW c \in Conns, NEW s \in Shards, NEW v \in Verdicts(s), RecvResult(c, s, v)
      PROVE  Side'
  BY <1>7 DEF RecvResult, Verdicts, Branch,
     TypeOK, Side, ControlOK, JobControl, HandlerHasTask, BeforeVerdict, DebtIsLive,
     GoneIsUnregistered, DebtOnRecord, NoOrphan
<1>8. ASSUME NEW c \in Conns, StoreSat(c) PROVE Side'
  BY <1>8 DEF StoreSat,
     TypeOK, Side, ControlOK, JobControl, HandlerHasTask, BeforeVerdict, DebtIsLive,
     GoneIsUnregistered, DebtOnRecord, NoOrphan
<1>9. ASSUME NEW c \in Conns, MarkJobCompleted(c) PROVE Side'
  BY <1>9 DEF MarkJobCompleted,
     TypeOK, Side, ControlOK, JobControl, HandlerHasTask, BeforeVerdict, DebtIsLive,
     GoneIsUnregistered, DebtOnRecord, NoOrphan
<1>10. ASSUME NEW c \in Conns, NEW w \in Conns, SendCancel(c, w) PROVE Side'
  BY <1>10 DEF SendCancel,
     TypeOK, Side, ControlOK, JobControl, HandlerHasTask, BeforeVerdict, DebtIsLive,
     GoneIsUnregistered, DebtOnRecord, NoOrphan
<1>11. ASSUME NEW c \in Conns, FinishSat(c) PROVE Side'
  BY <1>11 DEF FinishSat, Reward,
     TypeOK, Side, ControlOK, JobControl, HandlerHasTask, BeforeVerdict, DebtIsLive,
     GoneIsUnregistered, DebtOnRecord, NoOrphan
<1>12. ASSUME NEW c \in Conns, CountShards(c) PROVE Side'
  BY <1>12 DEF CountShards, CommitPath,
     TypeOK, Side, ControlOK, JobControl, HandlerHasTask, BeforeVerdict, DebtIsLive,
     GoneIsUnregistered, DebtOnRecord, NoOrphan
<1>13. ASSUME NEW c \in Conns, SealJob(c) PROVE Side'
  BY <1>13 DEF SealJob,
     TypeOK, Side, ControlOK, JobControl, HandlerHasTask, BeforeVerdict, DebtIsLive,
     GoneIsUnregistered, DebtOnRecord, NoOrphan
<1>14. ASSUME NEW c \in Conns, CommitShard(c) PROVE Side'
  BY <1>14 DEF CommitShard, CommitRow, Reward,
     TypeOK, Side, ControlOK, JobControl, HandlerHasTask, BeforeVerdict, DebtIsLive,
     GoneIsUnregistered, DebtOnRecord, NoOrphan
<1>15. ASSUME NEW c \in Conns, CommitJob(c) PROVE Side'
  BY <1>15 DEF CommitJob, CommitRow, Reward,
     TypeOK, Side, ControlOK, JobControl, HandlerHasTask, BeforeVerdict, DebtIsLive,
     GoneIsUnregistered, DebtOnRecord, NoOrphan
<1>16. ASSUME NEW c \in Conns, Fail(c) PROVE Side'
  BY <1>16 DEF Fail,
     TypeOK, Side, ControlOK, JobControl, HandlerHasTask, BeforeVerdict, DebtIsLive,
     GoneIsUnregistered, DebtOnRecord, NoOrphan
<1>17. ASSUME NEW c \in Conns, RequeueRow(c) PROVE Side'
  BY <1>17 DEF RequeueRow,
     TypeOK, Side, ControlOK, JobControl, HandlerHasTask, BeforeVerdict, DebtIsLive,
     GoneIsUnregistered, DebtOnRecord, NoOrphan
<1>18. ASSUME NEW j \in Jobs, EnqueueRows(j) PROVE Side'
  BY <1>18 DEF EnqueueRows,
     TypeOK, Side, ControlOK, JobControl, HandlerHasTask, BeforeVerdict, DebtIsLive,
     GoneIsUnregistered, DebtOnRecord, NoOrphan
<1>19. ASSUME NEW j \in Jobs, EnqueueInvalid(j) PROVE Side'
  BY <1>19 DEF EnqueueInvalid,
     TypeOK, Side, ControlOK, JobControl, HandlerHasTask, BeforeVerdict, DebtIsLive,
     GoneIsUnregistered, DebtOnRecord, NoOrphan
<1>20. ASSUME NEW j \in Jobs, EnqueueFails(j) PROVE Side'
  BY <1>20 DEF EnqueueFails,
     TypeOK, Side, ControlOK, JobControl, HandlerHasTask, BeforeVerdict, DebtIsLive,
     GoneIsUnregistered, DebtOnRecord, NoOrphan
<1>21. ASSUME NEW p \in Procs, AppendPending(p) PROVE Side'
  BY <1>21 DEF AppendPending,
     TypeOK, Side, ControlOK, JobControl, HandlerHasTask, BeforeVerdict, DebtIsLive,
     GoneIsUnregistered, DebtOnRecord, NoOrphan
<1>22. ASSUME NEW p \in Procs, SnapshotIDs(p) PROVE Side'
  BY <1>22 DEF SnapshotIDs, NudgeRest,
     TypeOK, Side, ControlOK, JobControl, HandlerHasTask, BeforeVerdict, DebtIsLive,
     GoneIsUnregistered, DebtOnRecord, NoOrphan
<1>23. ASSUME NEW p \in Procs, NEW w \in Conns, NudgeWorker(p, w) PROVE Side'
  BY <1>23, AssignDebt DEF NudgeWorker, NudgeRest,
     TypeOK, Side, ControlOK, JobControl, HandlerHasTask, BeforeVerdict, DebtIsLive,
     GoneIsUnregistered, DebtOnRecord, NoOrphan
<1>24. ASSUME NEW s \in Shards, MarkShardAssigned(s) PROVE Side'
  BY <1>24 DEF MarkShardAssigned,
     TypeOK, Side, ControlOK, JobControl, HandlerHasTask, BeforeVerdict, DebtIsLive,
     GoneIsUnregistered, DebtOnRecord, NoOrphan
<1>25. ASSUME NEW r \in rewarding, RewardWorkerForJob(r) PROVE Side'
  BY <1>25 DEF RewardWorkerForJob,
     TypeOK, Side, ControlOK, JobControl, HandlerHasTask, BeforeVerdict, DebtIsLive,
     GoneIsUnregistered, DebtOnRecord, NoOrphan
<1>26. ASSUME NEW c \in Conns, NEW s \in Shards, GiveUp(c, s) PROVE Side'
  BY <1>26 DEF GiveUp,
     TypeOK, Side, ControlOK, JobControl, HandlerHasTask, BeforeVerdict, DebtIsLive,
     GoneIsUnregistered, DebtOnRecord, NoOrphan
<1>27. CASE Crash
  BY <1>27 DEF Crash,
     TypeOK, Side, ControlOK, JobControl, HandlerHasTask, BeforeVerdict, DebtIsLive,
     GoneIsUnregistered, DebtOnRecord, NoOrphan
<1>28. ASSUME NEW j \in Jobs, SealInvalid(j) PROVE Side'
  BY <1>28 DEF SealInvalid,
     TypeOK, Side, ControlOK, JobControl, HandlerHasTask, BeforeVerdict, DebtIsLive,
     GoneIsUnregistered, DebtOnRecord, NoOrphan
<1> QED
  BY <1>1, <1>2, <1>3, <1>4, <1>5, <1>6, <1>7, <1>8, <1>9, <1>10, <1>11, <1>12, <1>13, <1>14,
     <1>15, <1>16, <1>17, <1>18, <1>19, <1>20, <1>21, <1>22, <1>23, <1>24, <1>25, <1>26, <1>27,
     <1>28
     DEF Next, ConnStep, QueueStep

---------------------------------------------------------------------------
(* One place per shard.                                                    *)

(* Nothing moves: a handler may drop its shard, a job may fail.            *)
LEMMA KeepPlaces ==
    ASSUME TypeOK, OnePlace, UNCHANGED <<pending, workerShard, shardRes>>,
           \A s \in Shards : Fresh(s)' => Fresh(s),
           \A c \in Conns, s \in Shards : Holds(c, s)' => Holds(c, s)
    PROVE  OnePlace'
BY DEF OnePlace, QueuedOnce, LeasedOnce, HandledOnce, Queued, Leased, Handled, Decided

(* From a connection to the handler that clears it.                        *)
LEMMA TakePlaces ==
    ASSUME TypeOK, OnePlace, NEW c \in Conns, workerShard[c] \in Shards,
           workerShard' = [workerShard EXCEPT ![c] = None],
           UNCHANGED <<pending, shardRes>>,
           \A t \in Shards : Fresh(t)' => Fresh(t),
           \A d \in Conns, t \in Shards :
               Holds(d, t)' => Holds(d, t) \/ (d = c /\ t = workerShard[c])
    PROVE  OnePlace'
<1> DEFINE s == workerShard[c]
<1>1. s # None /\ \A d \in Conns : workerShard'[d] = IF d = c THEN None ELSE workerShard[d]
  BY ConfigAssumption DEF TypeOK
<1>2. LeasedOnce' /\ \A t \in Shards : Leased(t)' => Leased(t) /\ t # s
  <2>1. LeasedOnce'
    BY <1>1 DEF OnePlace, LeasedOnce
  <2>2. ASSUME NEW t \in Shards, NEW d \in Conns, workerShard'[d] = t
        PROVE  workerShard[d] = t /\ t # s
    BY <1>1, <2>2, ConfigAssumption DEF OnePlace, LeasedOnce
  <2> QED
    BY <2>1, <2>2 DEF Leased
<1>3. Leased(s)
  BY DEF Leased
<1>4. HandledOnce' /\ \A t \in Shards : Handled(t)' => Handled(t) \/ t = s
  BY <1>3 DEF OnePlace, HandledOnce, Handled
<1> QED
  BY <1>2, <1>3, <1>4 DEF OnePlace, QueuedOnce, Queued, Decided

(* From a handler to the database: the verdict is stored.                  *)
LEMMA DecidePlaces ==
    ASSUME TypeOK, OnePlace, NEW c \in Conns, NEW s \in Shards, Holds(c, s), NEW v,
           shardRes' = [shardRes EXCEPT ![s] = v],
           UNCHANGED <<pending, workerShard>>,
           \A t \in Shards : Fresh(t)' => Fresh(t),
           \A d \in Conns, t \in Shards : Holds(d, t)' => Holds(d, t) /\ d # c
    PROVE  OnePlace'
BY DEF TypeOK, OnePlace, QueuedOnce, LeasedOnce, HandledOnce, Queued, Leased, Handled, Decided

(* From a handler, or from the job being enqueued, to the end of the queue.*)
LEMMA QueuePlaces ==
    ASSUME TypeOK, OnePlace, NEW b \in Seq(Shards),
           \A i, k \in 1..Len(b) : b[i] = b[k] => i = k,
           \A t \in Shards : (\E i \in 1..Len(b) : b[i] = t) =>
               /\ ~Queued(t) /\ ~Leased(t) /\ ~Decided(t)
               /\ ~Fresh(t)' /\ ~Handled(t)',
           pending' = pending \o b,
           UNCHANGED <<workerShard, shardRes>>,
           \A t \in Shards : Fresh(t)' => Fresh(t),
           \A d \in Conns, t \in Shards : Holds(d, t)' => Holds(d, t)
    PROVE  OnePlace'
<1>1. /\ Len(pending') = Len(pending) + Len(b)
      /\ Len(pending) \in Nat /\ Len(b) \in Nat
      /\ \A i \in 1..Len(pending') :
            pending'[i] = IF i <= Len(pending) THEN pending[i] ELSE b[i - Len(pending)]
  BY ConcatProperties DEF TypeOK
<1>2. \A i \in 1..Len(pending') :
          \/ i \in 1..Len(pending) /\ pending'[i] = pending[i]
          \/ i - Len(pending) \in 1..Len(b) /\ pending'[i] = b[i - Len(pending)]
  BY <1>1
<1>3. QueuedOnce'
  <2> SUFFICES ASSUME NEW i \in 1..Len(pending'), NEW k \in 1..Len(pending'),
                      pending'[i] = pending'[k]
               PROVE  i = k
    BY DEF QueuedOnce
  <2>1. CASE i \in 1..Len(pending) /\ k \in 1..Len(pending)
    BY <1>1, <2>1 DEF OnePlace, QueuedOnce
  <2>2. CASE i - Len(pending) \in 1..Len(b) /\ k - Len(pending) \in 1..Len(b)
    <3>1. pending'[i] = b[i - Len(pending)] /\ pending'[k] = b[k - Len(pending)]
      BY <1>1, <2>2
    <3>2. i - Len(pending) = k - Len(pending)
      BY <2>2, <3>1
    <3> QED
      BY <1>1, <3>2
  <2>3. ASSUME NEW m \in 1..Len(pending), NEW n \in 1..Len(pending'),
               n - Len(pending) \in 1..Len(b)
        PROVE  pending'[m] # pending'[n]
    <3>1. pending'[m] = pending[m] /\ pending'[n] = b[n - Len(pending)]
      BY <1>1, <2>3
    <3>2. b[n - Len(pending)] \in Shards
      BY <2>3
    <3> QED
      BY <2>3, <3>1, <3>2 DEF Queued
  <2> QED
    BY <1>2, <2>1, <2>2, <2>3
<1>4. \A s \in Shards : Queued(s)' => Queued(s) \/ \E i \in 1..Len(b) : b[i] = s
  BY <1>2 DEF Queued
<1> QED
  BY <1>3, <1>4 DEF OnePlace, LeasedOnce, HandledOnce, Leased, Handled, Decided

(* From the queue to a connection.                                         *)
LEMMA AssignPlaces ==
    ASSUME TypeOK, OnePlace, NEW w \in Conns, MaybeAssignWork(w), UNCHANGED shardRes,
           \A t \in Shards : Fresh(t)' => Fresh(t),
           \A d \in Conns, t \in Shards : Holds(d, t)' => Holds(d, t)
    PROVE  OnePlace'
<1>1. ASSUME NEW k \in 1..Len(pending) + 1, pending' = SubSeq(pending, k, Len(pending))
      PROVE  /\ QueuedOnce'
             /\ \A s \in Shards : Queued(s)' => \E i \in k..Len(pending) : pending[i] = s
  <2>1. /\ Len(pending) \in Nat
        /\ Len(pending') = Len(pending) - k + 1
        /\ \A i \in 1..Len(pending') : pending'[i] = pending[k + i - 1]
    BY <1>1, SubSeqProperties DEF TypeOK
  <2>2. \A i \in 1..Len(pending') : k + i - 1 \in 1..Len(pending)
    BY <2>1
  <2>3. QueuedOnce'
    BY <2>1, <2>2 DEF OnePlace, QueuedOnce
  <2>4. \A i \in 1..Len(pending') : k + i - 1 \in k..Len(pending)
    BY <2>1
  <2> QED
    BY <2>1, <2>3, <2>4 DEF Queued
<1>2. ASSUME NEW k \in 1..Len(pending)
      PROVE  k \in 1..Len(pending) + 1 /\ k + 1 \in 1..Len(pending) + 1
  BY DEF TypeOK
<1>3. CASE UNCHANGED <<pending, workerShard>>
  BY <1>3, KeepPlaces
<1>4. CASE NothingLive(w)
  <2>1. QueuedOnce' /\ \A s \in Shards : ~Queued(s)'
    BY <1>4 DEF NothingLive, QueuedOnce, Queued
  <2> QED
    BY <1>4, <2>1 DEF NothingLive, OnePlace, LeasedOnce, HandledOnce, Leased, Handled, Decided
<1>5. ASSUME NEW k \in 1..Len(pending), PutBack(w, k) PROVE OnePlace'
  <2>1. QueuedOnce' /\ \A s \in Shards : Queued(s)' => Queued(s)
    BY <1>1, <1>2, <1>5 DEF PutBack, Queued, TypeOK
  <2> QED
    BY <1>5, <2>1 DEF PutBack, OnePlace, LeasedOnce, HandledOnce, Leased, Handled, Decided
<1>6. ASSUME ~Busy(w), NEW k \in 1..Len(pending), Assign(w, k) PROVE OnePlace'
  <2> DEFINE s == pending[k]
  <2>1. s \in Shards /\ Queued(s)
    BY DEF TypeOK, Queued
  <2>2. /\ QueuedOnce'
        /\ \A t \in Shards : Queued(t)' => \E i \in (k + 1)..Len(pending) : pending[i] = t
    BY <1>1, <1>2, <1>6 DEF Assign, Popped
  <2>3. ASSUME NEW t \in Shards, Queued(t)' PROVE Queued(t) /\ t # s
    <3>1. PICK i \in (k + 1)..Len(pending) : pending[i] = t
      BY <2>2, <2>3
    <3>2. i \in 1..Len(pending) /\ i # k
      BY DEF TypeOK
    <3> QED
      BY <3>1, <3>2 DEF Queued, OnePlace, QueuedOnce
  <2>4. /\ workerShard' = [workerShard EXCEPT ![w] = s]
        /\ workerShard[w] = None
    BY <1>6 DEF Assign, Busy
  <2>5. LeasedOnce' /\ \A t \in Shards : Leased(t)' => Leased(t) \/ t = s
    BY <2>1, <2>4 DEF OnePlace, LeasedOnce, Leased, TypeOK
  <2> QED
    BY <2>1, <2>2, <2>3, <2>5 DEF OnePlace, HandledOnce, Handled, Decided
<1> QED
  BY <1>3, <1>4, <1>5, <1>6 DEF MaybeAssignWork, Busy

(* Every action keeps a shard in one place.                                *)
LEMMA PlacesNext == TypeOK /\ Side /\ OnePlace /\ Next => OnePlace'
<1> SUFFICES ASSUME TypeOK, Side, OnePlace, Next PROVE OnePlace'
  OBVIOUS
<1> USE ConfigAssumption
    DEF Goto, Procs, After, procVars, memVars, clientVars, dbVars, ghostVars
<1>1. ASSUME NEW c \in Conns, Connect(c) PROVE OnePlace'
  BY <1>1, KeepPlaces DEF Connect, TypeOK, Fresh, Holds, BeforeVerdict
<1>2. ASSUME NEW c \in Conns, TrySelf(c) PROVE OnePlace'
  BY <1>2, AssignPlaces DEF TrySelf, TypeOK, Fresh, Holds, BeforeVerdict
<1>3. ASSUME NEW c \in Conns, RecvHello(c) PROVE OnePlace'
  BY <1>3, KeepPlaces DEF RecvHello, TypeOK, Fresh, Holds, BeforeVerdict
<1>4. ASSUME NEW c \in Conns, Disconnect(c) PROVE OnePlace'
  BY <1>4, KeepPlaces DEF Disconnect, TypeOK, Fresh, Holds, BeforeVerdict
<1>5. ASSUME NEW c \in Conns, Delete(c) PROVE OnePlace'
  BY <1>5, KeepPlaces DEF Delete, TypeOK, Fresh, Holds, BeforeVerdict
<1>6. ASSUME NEW c \in Conns, HandleDisconnect(c) PROVE OnePlace'
  <2>1. CASE workerShard[c] = None
    <3>1. workerShard' = workerShard
      BY <1>6, <2>1 DEF HandleDisconnect, Unclaimed, TypeOK
    <3> QED
      BY <1>6, <2>1, <3>1, KeepPlaces
         DEF HandleDisconnect, Unclaimed, TypeOK, Fresh, Holds, BeforeVerdict
  <2>2. CASE workerShard[c] # None
    <3>1. workerShard[c] \in Shards
      BY <2>2 DEF TypeOK
    <3>2. \A d \in Conns, t \in Shards :
             Holds(d, t)' => Holds(d, t) \/ (d = c /\ t = workerShard[c])
      BY <1>6 DEF HandleDisconnect, Unclaimed, TypeOK, Holds, BeforeVerdict
    <3>3. \A t \in Shards : Fresh(t)' => Fresh(t)
      BY <1>6 DEF HandleDisconnect, Unclaimed, TypeOK, Fresh
    <3> QED
      BY <1>6, <3>1, <3>2, <3>3, TakePlaces DEF HandleDisconnect, Unclaimed
  <2> QED
    BY <2>1, <2>2
<1>7. ASSUME NEW c \in Conns, NEW s \in Shards, NEW v \in Verdicts(s), RecvResult(c, s, v)
      PROVE  OnePlace'
  <2>1. workerShard[c] = s
    BY <1>7 DEF RecvResult, Side, DebtOnRecord
  <2>2. \A d \in Conns, t \in Shards :
           Holds(d, t)' => Holds(d, t) \/ (d = c /\ t = workerShard[c])
    BY <1>7, <2>1 DEF RecvResult, TypeOK, Holds, BeforeVerdict
  <2>3. \A t \in Shards : Fresh(t)' => Fresh(t)
    BY <1>7 DEF RecvResult, TypeOK, Fresh
  <2>4. workerShard' = [workerShard EXCEPT ![c] = None] /\ UNCHANGED <<pending, shardRes>>
    BY <1>7 DEF RecvResult
  <2> QED
    BY <2>1, <2>2, <2>3, <2>4, TakePlaces
<1>8. ASSUME NEW c \in Conns, StoreSat(c) PROVE OnePlace'
  <2>1. task[c] \in Shards /\ Holds(c, task[c])
    BY <1>8 DEF StoreSat, Side, HandlerHasTask, Holds, BeforeVerdict
  <2>2. /\ \A t \in Shards : Fresh(t)' => Fresh(t)
        /\ \A d \in Conns, t \in Shards : Holds(d, t)' => Holds(d, t) /\ d # c
    BY <1>8 DEF StoreSat, TypeOK, Fresh, Holds, BeforeVerdict
  <2> QED
    BY <1>8, <2>1, <2>2, DecidePlaces DEF StoreSat
<1>9. ASSUME NEW c \in Conns, MarkJobCompleted(c) PROVE OnePlace'
  BY <1>9, KeepPlaces DEF MarkJobCompleted, TypeOK, Fresh, Holds, BeforeVerdict
<1>10. ASSUME NEW c \in Conns, NEW w \in Conns, SendCancel(c, w) PROVE OnePlace'
  BY <1>10, KeepPlaces DEF SendCancel, TypeOK, Fresh, Holds, BeforeVerdict
<1>11. ASSUME NEW c \in Conns, FinishSat(c) PROVE OnePlace'
  BY <1>11, KeepPlaces DEF FinishSat, Reward, TypeOK, Fresh, Holds, BeforeVerdict
<1>12. ASSUME NEW c \in Conns, CountShards(c) PROVE OnePlace'
  BY <1>12, KeepPlaces DEF CountShards, CommitPath, TypeOK, Fresh, Holds, BeforeVerdict
<1>13. ASSUME NEW c \in Conns, SealJob(c) PROVE OnePlace'
  BY <1>13, KeepPlaces DEF SealJob, TypeOK, Fresh, Holds, BeforeVerdict
<1>14. ASSUME NEW c \in Conns, CommitShard(c) PROVE OnePlace'
  <2>1. task[c] \in Shards /\ Holds(c, task[c])
    BY <1>14 DEF CommitShard, Side, HandlerHasTask, Holds, BeforeVerdict
  <2>2. /\ \A t \in Shards : Fresh(t)' => Fresh(t)
        /\ \A d \in Conns, t \in Shards : Holds(d, t)' => Holds(d, t) /\ d # c
    BY <1>14 DEF CommitShard, CommitRow, Reward, TypeOK, Fresh, Holds, BeforeVerdict
  <2> QED
    BY <1>14, <2>1, <2>2, DecidePlaces DEF CommitShard, CommitRow, Reward
<1>15. ASSUME NEW c \in Conns, CommitJob(c) PROVE OnePlace'
  <2>1. task[c] \in Shards /\ Holds(c, task[c])
    BY <1>15 DEF CommitJob, Side, HandlerHasTask, Holds, BeforeVerdict
  <2>2. /\ \A t \in Shards : Fresh(t)' => Fresh(t)
        /\ \A d \in Conns, t \in Shards : Holds(d, t)' => Holds(d, t) /\ d # c
    BY <1>15 DEF CommitJob, CommitRow, Reward, TypeOK, Fresh, Holds, BeforeVerdict
  <2> QED
    BY <1>15, <2>1, <2>2, DecidePlaces DEF CommitJob, CommitRow, Reward
<1>16. ASSUME NEW c \in Conns, Fail(c) PROVE OnePlace'
  BY <1>16, KeepPlaces DEF Fail, TypeOK, Fresh, Holds, BeforeVerdict
<1>17. ASSUME NEW c \in Conns, RequeueRow(c) PROVE OnePlace'
  BY <1>17, KeepPlaces DEF RequeueRow, TypeOK, Fresh, Holds, BeforeVerdict
<1>18. ASSUME NEW j \in Jobs, EnqueueRows(j) PROVE OnePlace'
  BY <1>18, KeepPlaces DEF EnqueueRows, TypeOK, Fresh, Holds, BeforeVerdict
<1>19. ASSUME NEW j \in Jobs, EnqueueInvalid(j) PROVE OnePlace'
  BY <1>19, KeepPlaces DEF EnqueueInvalid, TypeOK, Fresh, Holds, BeforeVerdict
<1>20. ASSUME NEW j \in Jobs, EnqueueFails(j) PROVE OnePlace'
  BY <1>20, KeepPlaces DEF EnqueueFails, TypeOK, Fresh, Holds, BeforeVerdict
<1>21. ASSUME NEW p \in Procs, AppendPending(p) PROVE OnePlace'
  <2>1. ASSUME NEW i \in 1..Len(Batch(p)) PROVE Batch(p)[i] \in Shards
    BY <1>21, ConfigAssumption
       DEF Batch, AppendPending, TypeOK, Side, HandlerHasTask, BeforeVerdict
  <2>2. Batch(p) \in Seq(Shards)
    BY <1>21, ConfigAssumption
       DEF Batch, AppendPending, TypeOK, Side, HandlerHasTask, BeforeVerdict
  <2>3. \A i, k \in 1..Len(Batch(p)) : Batch(p)[i] = Batch(p)[k] => i = k
    BY ConfigAssumption DEF Batch
  <2>4. /\ \A t \in Shards : Fresh(t)' => Fresh(t)
        /\ \A d \in Conns, t \in Shards : Holds(d, t)' => Holds(d, t)
    BY <1>21 DEF AppendPending, TypeOK, Fresh, Holds, BeforeVerdict
  <2>5. ASSUME NEW t \in Shards, NEW i \in 1..Len(Batch(p)), Batch(p)[i] = t
        PROVE  /\ ~Queued(t) /\ ~Leased(t) /\ ~Decided(t)
               /\ ~Fresh(t)' /\ ~Handled(t)'
    <3>1. CASE p \in Jobs
      <4>1. Fresh(t) /\ ~Fresh(t)'
        BY <1>21, <2>5, <3>1 DEF Batch, AppendPending, Fresh, TypeOK
      <4>2. ~Handled(t)'
        BY <2>4, <4>1 DEF OnePlace, Handled
      <4> QED
        BY <4>1, <4>2 DEF OnePlace
    <3>2. CASE p \in Conns
      <4>1. Holds(p, t)
        BY <1>21, <2>5, <3>2
           DEF Batch, AppendPending, Side, HandlerHasTask, Holds, BeforeVerdict
      <4>2. Handled(t)
        BY <3>2, <4>1 DEF Handled
      <4>3. ~Fresh(t)'
        BY <2>4, <4>2 DEF OnePlace
      <4>4. ~Holds(p, t)'
        BY <1>21, <3>2 DEF AppendPending, TypeOK, Holds, BeforeVerdict
      <4>5. ~Handled(t)'
        BY <2>4, <3>2, <4>1, <4>4 DEF OnePlace, HandledOnce, Handled
      <4> QED
        BY <4>2, <4>3, <4>5 DEF OnePlace
    <3> QED
      BY <3>1, <3>2
  <2>6. pending' = pending \o Batch(p) /\ UNCHANGED <<workerShard, shardRes>>
    BY <1>21 DEF AppendPending
  <2> QED
    BY <2>2, <2>3, <2>4, <2>5, <2>6, QueuePlaces
<1>22. ASSUME NEW p \in Procs, SnapshotIDs(p) PROVE OnePlace'
  BY <1>22, KeepPlaces DEF SnapshotIDs, NudgeRest, TypeOK, Fresh, Holds, BeforeVerdict
<1>23. ASSUME NEW p \in Procs, NEW w \in Conns, NudgeWorker(p, w) PROVE OnePlace'
  BY <1>23, AssignPlaces DEF NudgeWorker, NudgeRest, TypeOK, Fresh, Holds, BeforeVerdict
<1>24. ASSUME NEW s \in Shards, MarkShardAssigned(s) PROVE OnePlace'
  BY <1>24, KeepPlaces DEF MarkShardAssigned, TypeOK, Fresh, Holds, BeforeVerdict
<1>25. ASSUME NEW r \in rewarding, RewardWorkerForJob(r) PROVE OnePlace'
  BY <1>25, KeepPlaces DEF RewardWorkerForJob, TypeOK, Fresh, Holds, BeforeVerdict
<1>26. ASSUME NEW c \in Conns, NEW s \in Shards, GiveUp(c, s) PROVE OnePlace'
  BY <1>26, KeepPlaces DEF GiveUp, TypeOK, Fresh, Holds, BeforeVerdict
<1>27. CASE Crash
  BY <1>27 DEF Crash, TypeOK, Fresh, Holds, BeforeVerdict, OnePlace, QueuedOnce, LeasedOnce,
     HandledOnce, Queued, Leased, Handled, Decided
<1>28. ASSUME NEW j \in Jobs, SealInvalid(j) PROVE OnePlace'
  BY <1>28, KeepPlaces DEF SealInvalid, TypeOK, Fresh, Holds, BeforeVerdict
<1> QED
  BY <1>1, <1>2, <1>3, <1>4, <1>5, <1>6, <1>7, <1>8, <1>9, <1>10, <1>11, <1>12, <1>13, <1>14,
     <1>15, <1>16, <1>17, <1>18, <1>19, <1>20, <1>21, <1>22, <1>23, <1>24, <1>25, <1>26, <1>27,
     <1>28
     DEF Next, ConnStep, QueueStep

---------------------------------------------------------------------------
(* Verdicts.                                                               *)

(* Steps that store nothing and enter no transaction.                      *)
LEMMA KeepVerdict ==
    ASSUME TypeOK, VerdictInv, UNCHANGED <<shardRes, jobRes, jobStatus>>,
           \A s \in Shards : shardStatus'[s] = "completed" => shardStatus[s] = "completed",
           \A c \in Conns : pc'[c] \in {"seal", "commitJob", "announce", "cancel"} =>
                               pc'[c] = pc[c] /\ task'[c] = task[c],
           \A j \in Jobs : pc'[j] = "new" => pc[j] = "new",
           \A c \in Conns : cancelled'[c] \subseteq cancelled[c]
    PROVE  VerdictInv'
BY DEF VerdictInv, CompletedHasVerdict, SealSeesAll, AnnounceHasModel, VerdictOfEnqueued,
         VerdictBacked, CancelAfterVerdict, Decided, ShardsOf

(* Every action keeps the verdicts backed.                                 *)
LEMMA VerdictNext == TypeOK /\ Side /\ OnePlace /\ VerdictInv /\ Next => VerdictInv'
<1> SUFFICES ASSUME TypeOK, Side, OnePlace, VerdictInv, Next PROVE VerdictInv'
  OBVIOUS
<1> USE ConfigAssumption
    DEF Goto, Procs, After, procVars, memVars, clientVars, dbVars, ghostVars
<1>1. ASSUME NEW c \in Conns, Connect(c) PROVE VerdictInv'
  BY <1>1, KeepVerdict DEF Connect, TypeOK, Side, ControlOK, JobControl
<1>2. ASSUME NEW c \in Conns, TrySelf(c) PROVE VerdictInv'
  BY <1>2, KeepVerdict DEF TrySelf, TypeOK, Side, ControlOK, JobControl
<1>3. ASSUME NEW c \in Conns, RecvHello(c) PROVE VerdictInv'
  BY <1>3, KeepVerdict DEF RecvHello, TypeOK, Side, ControlOK, JobControl
<1>4. ASSUME NEW c \in Conns, Disconnect(c) PROVE VerdictInv'
  BY <1>4, KeepVerdict DEF Disconnect, TypeOK, Side, ControlOK, JobControl
<1>5. ASSUME NEW c \in Conns, Delete(c) PROVE VerdictInv'
  BY <1>5, KeepVerdict DEF Delete, TypeOK, Side, ControlOK, JobControl
<1>6. ASSUME NEW c \in Conns, HandleDisconnect(c) PROVE VerdictInv'
  BY <1>6, KeepVerdict DEF HandleDisconnect, Unclaimed, TypeOK, Side, ControlOK, JobControl
<1>7. ASSUME NEW c \in Conns, NEW s \in Shards, NEW v \in Verdicts(s), RecvResult(c, s, v)
      PROVE  VerdictInv'
  BY <1>7, KeepVerdict DEF RecvResult, Verdicts, Branch, TypeOK, Side, ControlOK, JobControl
<1>8. ASSUME NEW c \in Conns, StoreSat(c) PROVE VerdictInv'
  <2>1. task[c] \in Shards /\ Holds(c, task[c])
    BY <1>8 DEF StoreSat, Side, HandlerHasTask, Holds, BeforeVerdict
  <2>2. ~Fresh(task[c]) /\ ~Decided(task[c])
    BY <2>1 DEF OnePlace, Handled
  <2>3. jobRes[JobOf[task[c]]] \in {None} \cup Shards
    BY <2>1, <2>2 DEF VerdictInv, VerdictBacked, ShardsOf, Decided, TypeOK
  <2>4. \A t \in Shards : shardRes'[t] = IF t = task[c] THEN "sat" ELSE shardRes[t]
    BY <1>8 DEF StoreSat, TypeOK
  <2>5. CompletedHasVerdict' /\ VerdictOfEnqueued'
    BY <1>8, <2>1, <2>2, <2>4
       DEF StoreSat, TypeOK, VerdictInv, CompletedHasVerdict, VerdictOfEnqueued, Decided,
           Fresh, InsertOnce
  <2>6. SealSeesAll'
    BY <1>8, <2>1, <2>2, <2>4
       DEF StoreSat, TypeOK, VerdictInv, SealSeesAll, ShardsOf, Decided
  <2>7. AnnounceHasModel' /\ CancelAfterVerdict'
    BY <1>8, <2>1, <2>3
       DEF StoreSat, TypeOK, VerdictInv, AnnounceHasModel, CancelAfterVerdict, InsertOnce
  <2>8. VerdictBacked'
    BY <1>8, <2>1, <2>2, <2>3, <2>4
       DEF StoreSat, TypeOK, VerdictInv, VerdictBacked, ShardsOf, Decided, InsertOnce
  <2> QED
    BY <2>5, <2>6, <2>7, <2>8 DEF VerdictInv
<1>9. ASSUME NEW c \in Conns, MarkJobCompleted(c) PROVE VerdictInv'
  BY <1>9 DEF MarkJobCompleted, TypeOK, VerdictInv,
         CompletedHasVerdict, SealSeesAll, AnnounceHasModel, VerdictOfEnqueued,
         VerdictBacked, CancelAfterVerdict, Decided, ShardsOf
<1>10. ASSUME NEW c \in Conns, NEW w \in Conns, SendCancel(c, w) PROVE VerdictInv'
  BY <1>10 DEF SendCancel, TypeOK, Side, HandlerHasTask, BeforeVerdict, VerdictInv,
         CompletedHasVerdict, SealSeesAll, AnnounceHasModel, VerdictOfEnqueued,
         VerdictBacked, CancelAfterVerdict, Decided, ShardsOf
<1>11. ASSUME NEW c \in Conns, FinishSat(c) PROVE VerdictInv'
  BY <1>11, KeepVerdict DEF FinishSat, Reward, TypeOK, Side, ControlOK, JobControl
<1>12. ASSUME NEW c \in Conns, CountShards(c) PROVE VerdictInv'
  <2>1. task[c] \in Shards
    BY <1>12 DEF CountShards, Side, HandlerHasTask, BeforeVerdict
  <2>2. AllUnsat(task[c]) =>
            \A t \in ShardsOf(JobOf[task[c]]) \ {task[c]} : shardRes[t] = "unsat"
    BY DEF AllUnsat, ShardsOf, VerdictInv, CompletedHasVerdict, Decided, TypeOK
  <2> QED
    BY <1>12, <2>1, <2>2 DEF CountShards, CommitPath, TypeOK, VerdictInv,
         CompletedHasVerdict, SealSeesAll, AnnounceHasModel, VerdictOfEnqueued,
         VerdictBacked, CancelAfterVerdict, Decided, ShardsOf
<1>13. ASSUME NEW c \in Conns, SealJob(c) PROVE VerdictInv'
  BY <1>13 DEF SealJob, TypeOK, VerdictInv,
         CompletedHasVerdict, SealSeesAll, AnnounceHasModel, VerdictOfEnqueued,
         VerdictBacked, CancelAfterVerdict, Decided, ShardsOf
<1>14. ASSUME NEW c \in Conns, CommitShard(c) PROVE VerdictInv'
  <2>1. task[c] \in Shards /\ Holds(c, task[c])
    BY <1>14 DEF CommitShard, Side, HandlerHasTask, Holds, BeforeVerdict
  <2>2. ~Fresh(task[c]) /\ ~Decided(task[c])
    BY <2>1 DEF OnePlace, Handled
  <2>3. \A t \in Shards : shardRes'[t] = IF t = task[c] THEN "unsat" ELSE shardRes[t]
    BY <1>14 DEF CommitShard, CommitRow, TypeOK
  <2>4. CompletedHasVerdict' /\ VerdictOfEnqueued'
    BY <1>14, <2>1, <2>2, <2>3
       DEF CommitShard, CommitRow, Reward, TypeOK, VerdictInv, CompletedHasVerdict,
           VerdictOfEnqueued, Decided, Fresh
  <2>5. SealSeesAll'
    BY <1>14, <2>1, <2>2, <2>3
       DEF CommitShard, CommitRow, Reward, TypeOK, VerdictInv, SealSeesAll, ShardsOf, Decided
  <2>6. AnnounceHasModel' /\ CancelAfterVerdict'
    BY <1>14, <2>1
       DEF CommitShard, CommitRow, Reward, TypeOK, VerdictInv, AnnounceHasModel,
           CancelAfterVerdict
  <2>7. VerdictBacked'
    BY <1>14, <2>1, <2>2, <2>3
       DEF CommitShard, CommitRow, TypeOK, VerdictInv, VerdictBacked, SealSeesAll, ShardsOf,
           Decided
  <2> QED
    BY <2>4, <2>5, <2>6, <2>7 DEF VerdictInv
<1>15. ASSUME NEW c \in Conns, CommitJob(c) PROVE VerdictInv'
  <2>1. task[c] \in Shards /\ Holds(c, task[c])
    BY <1>15 DEF CommitJob, Side, HandlerHasTask, Holds, BeforeVerdict
  <2>2. ~Fresh(task[c]) /\ ~Decided(task[c])
    BY <2>1 DEF OnePlace, Handled
  <2>3. \A t \in Shards : shardRes'[t] = IF t = task[c] THEN "unsat" ELSE shardRes[t]
    BY <1>15 DEF CommitJob, CommitRow, TypeOK
  <2>4. CompletedHasVerdict' /\ VerdictOfEnqueued'
    BY <1>15, <2>1, <2>2, <2>3
       DEF CommitJob, CommitRow, Reward, TypeOK, VerdictInv, CompletedHasVerdict,
           VerdictOfEnqueued, Decided, Fresh, InsertOnce
  <2>5. SealSeesAll'
    BY <1>15, <2>1, <2>2, <2>3
       DEF CommitJob, CommitRow, Reward, TypeOK, VerdictInv, SealSeesAll, ShardsOf, Decided
  <2>6. AnnounceHasModel' /\ CancelAfterVerdict'
    BY <1>15, <2>1
       DEF CommitJob, CommitRow, Reward, TypeOK, VerdictInv, AnnounceHasModel,
           CancelAfterVerdict, InsertOnce
  <2>7. VerdictBacked'
    BY <1>15, <2>1, <2>2, <2>3
       DEF CommitJob, CommitRow, TypeOK, VerdictInv, VerdictBacked, SealSeesAll, ShardsOf,
           Decided, InsertOnce
  <2> QED
    BY <2>4, <2>5, <2>6, <2>7 DEF VerdictInv
<1>16. ASSUME NEW c \in Conns, Fail(c) PROVE VerdictInv'
  BY <1>16, KeepVerdict DEF Fail, TypeOK, Side, ControlOK, JobControl
<1>17. ASSUME NEW c \in Conns, RequeueRow(c) PROVE VerdictInv'
  BY <1>17, KeepVerdict DEF RequeueRow, TypeOK, Side, ControlOK, JobControl
<1>18. ASSUME NEW j \in Jobs, EnqueueRows(j) PROVE VerdictInv'
  BY <1>18, KeepVerdict DEF EnqueueRows, TypeOK, Side, ControlOK, JobControl
<1>19. ASSUME NEW j \in Jobs, EnqueueInvalid(j) PROVE VerdictInv'
  BY <1>19 DEF EnqueueInvalid, TypeOK, VerdictInv, Side, ControlOK,
         CompletedHasVerdict, SealSeesAll, AnnounceHasModel, VerdictOfEnqueued,
         VerdictBacked, CancelAfterVerdict, Decided, ShardsOf
<1>20. ASSUME NEW j \in Jobs, EnqueueFails(j) PROVE VerdictInv'
  BY <1>20, KeepVerdict DEF EnqueueFails, TypeOK, Side, ControlOK, JobControl
<1>21. ASSUME NEW p \in Procs, AppendPending(p) PROVE VerdictInv'
  BY <1>21, KeepVerdict DEF AppendPending, TypeOK, Side, ControlOK, JobControl
<1>22. ASSUME NEW p \in Procs, SnapshotIDs(p) PROVE VerdictInv'
  BY <1>22, KeepVerdict DEF SnapshotIDs, NudgeRest, TypeOK, Side, ControlOK, JobControl
<1>23. ASSUME NEW p \in Procs, NEW w \in Conns, NudgeWorker(p, w) PROVE VerdictInv'
  BY <1>23, KeepVerdict DEF NudgeWorker, NudgeRest, TypeOK, Side, ControlOK, JobControl
<1>24. ASSUME NEW s \in Shards, MarkShardAssigned(s) PROVE VerdictInv'
  <2>1. UNCHANGED <<pc, task, cancelled, shardRes, jobRes, jobStatus>>
    BY <1>24 DEF MarkShardAssigned
  <2>2. \A t \in Shards : shardStatus'[t] = "completed" => shardStatus[t] = "completed"
    BY <1>24 DEF MarkShardAssigned, TypeOK
  <2> QED
    BY <2>1, <2>2, KeepVerdict
<1>25. ASSUME NEW r \in rewarding, RewardWorkerForJob(r) PROVE VerdictInv'
  BY <1>25, KeepVerdict DEF RewardWorkerForJob, TypeOK, Side, ControlOK, JobControl
<1>26. ASSUME NEW c \in Conns, NEW s \in Shards, GiveUp(c, s) PROVE VerdictInv'
  BY <1>26, KeepVerdict DEF GiveUp, TypeOK, Side, ControlOK, JobControl
<1>27. CASE Crash
  BY <1>27, KeepVerdict DEF Crash, TypeOK, Side, ControlOK, JobControl
<1>28. ASSUME NEW j \in Jobs, SealInvalid(j) PROVE VerdictInv'
  BY <1>28, KeepVerdict DEF SealInvalid, TypeOK, Side, ControlOK, JobControl
<1> QED
  BY <1>1, <1>2, <1>3, <1>4, <1>5, <1>6, <1>7, <1>8, <1>9, <1>10, <1>11, <1>12, <1>13, <1>14,
     <1>15, <1>16, <1>17, <1>18, <1>19, <1>20, <1>21, <1>22, <1>23, <1>24, <1>25, <1>26, <1>27,
     <1>28
     DEF Next, ConnStep, QueueStep

---------------------------------------------------------------------------
(* Wake-ups.                                                               *)

(* After an attempt for w either nothing live is queued, or w is busy, or  *)
(* w was refused; nobody else is affected.                                 *)
LEMMA AttemptOutcome ==
    ASSUME TypeOK, NEW w \in Conns, MaybeAssignWork(w), completed' = completed
    PROVE  /\ LiveQueued' => LiveQueued
           /\ LiveQueued' => workerShard'[w] # None \/ w \in refused'
           /\ \A d \in Conns \ {w} :
                 workerShard'[d] = workerShard[d] /\ (d \in refused' <=> d \in refused)
<1>1. ASSUME NEW k \in 1..(Len(pending) + 1), pending' = SubSeq(pending, k, Len(pending))
      PROVE  LiveQueued' => LiveQueued
  <2>1. /\ Len(pending) \in Nat
        /\ Len(pending') = Len(pending) - k + 1
        /\ \A i \in 1..Len(pending') : pending'[i] = pending[k + i - 1]
    BY <1>1, SubSeqProperties DEF TypeOK
  <2>2. \A i \in 1..Len(pending') : k + i - 1 \in 1..Len(pending)
    BY <2>1
  <2> QED
    BY <2>1, <2>2 DEF LiveQueued
<1>2. CASE Busy(w)
  BY <1>2 DEF MaybeAssignWork, Busy, LiveQueued
<1>3. CASE NothingLive(w)
  BY <1>3 DEF NothingLive, LiveQueued
<1>4. ASSUME NEW k \in 1..Len(pending), PutBack(w, k) \/ Assign(w, k)
      PROVE  LiveQueued' => LiveQueued
  <2>1. k \in 1..(Len(pending) + 1) /\ k + 1 \in 1..(Len(pending) + 1)
    BY DEF TypeOK
  <2> QED
    BY <1>1, <1>4, <2>1 DEF PutBack, Assign, Popped
<1>5. ASSUME NEW k \in 1..Len(pending), PutBack(w, k)
      PROVE  /\ w \in refused'
             /\ \A d \in Conns \ {w} :
                   workerShard'[d] = workerShard[d] /\ (d \in refused' <=> d \in refused)
  BY <1>5 DEF PutBack
<1>6. ASSUME NEW k \in 1..Len(pending), Assign(w, k)
      PROVE  /\ workerShard'[w] # None
             /\ \A d \in Conns \ {w} :
                   workerShard'[d] = workerShard[d] /\ (d \in refused' <=> d \in refused)
  <2>1. pending[k] \in Shards
    BY DEF TypeOK
  <2> QED
    BY <1>6, <2>1, ConfigAssumption DEF Assign, TypeOK
<1> QED
  BY <1>2, <1>3, <1>4, <1>5, <1>6 DEF MaybeAssignWork

(* A step of connection c alone that leaves c registered only with an      *)
(* attempt ahead.                                                          *)
LEMMA KeepWakeup ==
    ASSUME TypeOK, NoLostWakeup, NEW c \in Conns, NEW l,
           pc' = [pc EXCEPT ![c] = l], pc[c] # "snapshot",
           UNCHANGED <<pending, completed, refused, nudge>>, registry' \subseteq Conns,
           \A d \in Conns \ {c} : /\ workerShard'[d] = workerShard[d]
                                  /\ task'[d] = task[d]
                                  /\ d \in registry' => d \in registry,
           c \in registry' => l \in {"try", "leave"} \/ task'[c] # None
    PROVE  NoLostWakeup'
<1> SUFFICES ASSUME LiveQueued, NEW d \in registry', d \notin refused,
                    workerShard'[d] = None
             PROVE  AttemptAhead(d)'
  BY DEF NoLostWakeup, LiveQueued
<1> d \in Conns
  OBVIOUS
<1>1. CASE d = c
  BY <1>1 DEF AttemptAhead, TypeOK, Procs
<1>2. CASE d # c
  <2>1. AttemptAhead(d)
    BY <1>2 DEF NoLostWakeup
  <2> QED
    BY <1>2, <2>1 DEF AttemptAhead, TypeOK, Procs
<1> QED
  BY <1>1, <1>2

(* Every action keeps an attempt ahead of every idle connection.           *)
LEMMA WakeupNext == TypeOK /\ Side /\ NoLostWakeup /\ Next => NoLostWakeup'
<1> SUFFICES ASSUME TypeOK, Side, NoLostWakeup, Next PROVE NoLostWakeup'
  OBVIOUS
<1> USE ConfigAssumption
    DEF Goto, Procs, After, procVars, memVars, clientVars, dbVars, ghostVars
<1>1. ASSUME NEW c \in Conns, Connect(c) PROVE NoLostWakeup'
  BY <1>1, KeepWakeup DEF Connect, TypeOK
<1>2. ASSUME NEW c \in Conns, TrySelf(c) PROVE NoLostWakeup'
  <2>1. completed' = completed /\ registry' = registry /\ MaybeAssignWork(c)
    BY <1>2 DEF TrySelf
  <2>2. ASSUME LiveQueued', NEW d \in registry \ refused', workerShard'[d] = None
        PROVE  AttemptAhead(d)'
    <3>1. d # c /\ d \in registry \ refused /\ workerShard[d] = None /\ LiveQueued
      BY <2>1, <2>2, AttemptOutcome DEF TypeOK
    <3>2. AttemptAhead(d)
      BY <3>1 DEF NoLostWakeup
    <3> QED
      BY <1>2, <3>1, <3>2 DEF TrySelf, AttemptAhead, TypeOK
  <2> QED
    BY <2>1, <2>2 DEF NoLostWakeup
<1>3. ASSUME NEW c \in Conns, RecvHello(c) PROVE NoLostWakeup'
  BY <1>3 DEF RecvHello, TypeOK, Side, ControlOK, JobControl,
     HandlerHasTask, BeforeVerdict, GoneIsUnregistered, NoLostWakeup, AttemptAhead, LiveQueued
<1>4. ASSUME NEW c \in Conns, Disconnect(c) PROVE NoLostWakeup'
  BY <1>4 DEF Disconnect, TypeOK, Side, ControlOK, JobControl,
     HandlerHasTask, BeforeVerdict, GoneIsUnregistered, NoLostWakeup, AttemptAhead, LiveQueued
<1>5. ASSUME NEW c \in Conns, Delete(c) PROVE NoLostWakeup'
  BY <1>5 DEF Delete, TypeOK, Side, ControlOK, JobControl,
     HandlerHasTask, BeforeVerdict, GoneIsUnregistered, NoLostWakeup, AttemptAhead, LiveQueued
<1>6. ASSUME NEW c \in Conns, HandleDisconnect(c) PROVE NoLostWakeup'
  BY <1>6 DEF HandleDisconnect, Unclaimed, TypeOK, Side, ControlOK, JobControl,
     HandlerHasTask, BeforeVerdict, GoneIsUnregistered, NoLostWakeup, AttemptAhead, LiveQueued
<1>7. ASSUME NEW c \in Conns, NEW s \in Shards, NEW v \in Verdicts(s), RecvResult(c, s, v)
      PROVE  NoLostWakeup'
  <2>1. task'[c] # None
    BY <1>7 DEF RecvResult, TypeOK
  <2> QED
    BY <1>7, <2>1, KeepWakeup DEF RecvResult, TypeOK
<1>8. ASSUME NEW c \in Conns, StoreSat(c) PROVE NoLostWakeup'
  BY <1>8 DEF StoreSat, TypeOK, Side, ControlOK, JobControl,
     HandlerHasTask, BeforeVerdict, GoneIsUnregistered, NoLostWakeup, AttemptAhead, LiveQueued
<1>9. ASSUME NEW c \in Conns, MarkJobCompleted(c) PROVE NoLostWakeup'
  BY <1>9 DEF MarkJobCompleted, TypeOK, Side, ControlOK, JobControl,
     HandlerHasTask, BeforeVerdict, GoneIsUnregistered, NoLostWakeup, AttemptAhead, LiveQueued
<1>10. ASSUME NEW c \in Conns, NEW w \in Conns, SendCancel(c, w) PROVE NoLostWakeup'
  BY <1>10 DEF SendCancel, TypeOK, Side, ControlOK, JobControl,
     HandlerHasTask, BeforeVerdict, GoneIsUnregistered, NoLostWakeup, AttemptAhead, LiveQueued
<1>11. ASSUME NEW c \in Conns, FinishSat(c) PROVE NoLostWakeup'
  BY <1>11, KeepWakeup DEF FinishSat, Reward, TypeOK
<1>12. ASSUME NEW c \in Conns, CountShards(c) PROVE NoLostWakeup'
  BY <1>12 DEF CountShards, CommitPath, TypeOK, Side, ControlOK, JobControl,
     HandlerHasTask, BeforeVerdict, GoneIsUnregistered, NoLostWakeup, AttemptAhead, LiveQueued
<1>13. ASSUME NEW c \in Conns, SealJob(c) PROVE NoLostWakeup'
  BY <1>13 DEF SealJob, TypeOK, Side, ControlOK, JobControl,
     HandlerHasTask, BeforeVerdict, GoneIsUnregistered, NoLostWakeup, AttemptAhead, LiveQueued
<1>14. ASSUME NEW c \in Conns, CommitShard(c) PROVE NoLostWakeup'
  BY <1>14, KeepWakeup DEF CommitShard, CommitRow, Reward, TypeOK
<1>15. ASSUME NEW c \in Conns, CommitJob(c) PROVE NoLostWakeup'
  BY <1>15, KeepWakeup DEF CommitJob, CommitRow, Reward, TypeOK
<1>16. ASSUME NEW c \in Conns, Fail(c) PROVE NoLostWakeup'
  BY <1>16, KeepWakeup DEF Fail, TypeOK
<1>17. ASSUME NEW c \in Conns, RequeueRow(c) PROVE NoLostWakeup'
  BY <1>17 DEF RequeueRow, TypeOK, Side, ControlOK, JobControl,
     HandlerHasTask, BeforeVerdict, GoneIsUnregistered, NoLostWakeup, AttemptAhead, LiveQueued
<1>18. ASSUME NEW j \in Jobs, EnqueueRows(j) PROVE NoLostWakeup'
  BY <1>18 DEF EnqueueRows, TypeOK, Side, ControlOK, JobControl,
     HandlerHasTask, BeforeVerdict, GoneIsUnregistered, NoLostWakeup, AttemptAhead, LiveQueued
<1>19. ASSUME NEW j \in Jobs, EnqueueInvalid(j) PROVE NoLostWakeup'
  BY <1>19 DEF EnqueueInvalid, TypeOK, Side, ControlOK, JobControl,
     HandlerHasTask, BeforeVerdict, GoneIsUnregistered, NoLostWakeup, AttemptAhead, LiveQueued
<1>20. ASSUME NEW j \in Jobs, EnqueueFails(j) PROVE NoLostWakeup'
  BY <1>20 DEF EnqueueFails, TypeOK, Side, ControlOK, JobControl,
     HandlerHasTask, BeforeVerdict, GoneIsUnregistered, NoLostWakeup, AttemptAhead, LiveQueued
<1>21. ASSUME NEW p \in Procs, AppendPending(p) PROVE NoLostWakeup'
  BY <1>21 DEF AppendPending, NoLostWakeup, AttemptAhead, TypeOK
<1>22. ASSUME NEW p \in Procs, SnapshotIDs(p) PROVE NoLostWakeup'
  BY <1>22 DEF SnapshotIDs, NudgeRest, NoLostWakeup, AttemptAhead, TypeOK
<1>23. ASSUME NEW p \in Procs, NEW w \in Conns, NudgeWorker(p, w) PROVE NoLostWakeup'
  <2>1. completed' = completed /\ registry' = registry /\ MaybeAssignWork(w)
    BY <1>23 DEF NudgeWorker
  <2>2. ASSUME LiveQueued', NEW d \in registry \ refused', workerShard'[d] = None
        PROVE  AttemptAhead(d)'
    <3>1. d # w /\ d \in registry \ refused /\ workerShard[d] = None /\ LiveQueued
      BY <2>1, <2>2, AttemptOutcome DEF TypeOK
    <3>2. AttemptAhead(d)
      BY <3>1 DEF NoLostWakeup
    <3> QED
      BY <1>23, <3>1, <3>2 DEF NudgeWorker, NudgeRest, AttemptAhead, TypeOK
  <2> QED
    BY <2>1, <2>2 DEF NoLostWakeup
<1>24. ASSUME NEW s \in Shards, MarkShardAssigned(s) PROVE NoLostWakeup'
  BY <1>24 DEF MarkShardAssigned, TypeOK, Side, ControlOK, JobControl,
     HandlerHasTask, BeforeVerdict, GoneIsUnregistered, NoLostWakeup, AttemptAhead, LiveQueued
<1>25. ASSUME NEW r \in rewarding, RewardWorkerForJob(r) PROVE NoLostWakeup'
  BY <1>25 DEF RewardWorkerForJob, TypeOK, Side, ControlOK, JobControl,
     HandlerHasTask, BeforeVerdict, GoneIsUnregistered, NoLostWakeup, AttemptAhead, LiveQueued
<1>26. ASSUME NEW c \in Conns, NEW s \in Shards, GiveUp(c, s) PROVE NoLostWakeup'
  BY <1>26 DEF GiveUp, TypeOK, Side, ControlOK, JobControl,
     HandlerHasTask, BeforeVerdict, GoneIsUnregistered, NoLostWakeup, AttemptAhead, LiveQueued
<1>27. CASE Crash
  BY <1>27 DEF Crash, NoLostWakeup
<1>28. ASSUME NEW j \in Jobs, SealInvalid(j) PROVE NoLostWakeup'
  BY <1>28 DEF SealInvalid, TypeOK, Side, ControlOK, JobControl,
     HandlerHasTask, BeforeVerdict, GoneIsUnregistered, NoLostWakeup, AttemptAhead, LiveQueued
<1> QED
  BY <1>1, <1>2, <1>3, <1>4, <1>5, <1>6, <1>7, <1>8, <1>9, <1>10, <1>11, <1>12, <1>13, <1>14,
     <1>15, <1>16, <1>17, <1>18, <1>19, <1>20, <1>21, <1>22, <1>23, <1>24, <1>25, <1>26, <1>27,
     <1>28
     DEF Next, ConnStep, QueueStep

---------------------------------------------------------------------------
(* The theorems.                                                           *)

(* The whole invariant holds initially.                                    *)
LEMMA InitInv == Init => IndInv /\ VerdictInv
<1> SUFFICES ASSUME Init PROVE IndInv /\ VerdictInv
  OBVIOUS
<1> USE ConfigAssumption DEF Init, Procs
<1>1. Side
  BY DEF Side, ControlOK, JobControl, HandlerHasTask, BeforeVerdict, DebtIsLive,
         GoneIsUnregistered, DebtOnRecord, NoOrphan
<1>2. OnePlace
  BY DEF OnePlace, QueuedOnce, LeasedOnce, HandledOnce, Holds, BeforeVerdict,
         Queued, Leased, Handled, Decided
<1>3. VerdictInv
  BY DEF VerdictInv, CompletedHasVerdict, SealSeesAll, AnnounceHasModel, VerdictOfEnqueued,
         VerdictBacked, CancelAfterVerdict
<1> QED
  BY <1>1, <1>2, <1>3, InitType DEF IndInv, Side

(* The whole invariant is inductive.                                       *)
LEMMA InvNext == IndInv /\ VerdictInv /\ [Next]_vars => IndInv' /\ VerdictInv'
<1> SUFFICES ASSUME IndInv, VerdictInv, [Next]_vars PROVE IndInv' /\ VerdictInv'
  OBVIOUS
<1>1. TypeOK /\ Side /\ OnePlace /\ ControlOK /\ HandlerHasTask
  BY DEF IndInv, Side
<1>2. CASE Next
  BY <1>1, <1>2, TypeNext, SideNext, PlacesNext, VerdictNext DEF IndInv, Side
<1>3. CASE UNCHANGED vars
  <2>1. TypeOK' /\ Side'
    BY <1>1, <1>3
       DEF vars, procVars, memVars, clientVars, dbVars, ghostVars, TypeOK, Side, ControlOK,
           HandlerHasTask, DebtIsLive, GoneIsUnregistered, DebtOnRecord, NoOrphan
  <2>2. OnePlace'
    BY <1>1, <1>3, KeepPlaces
       DEF vars, procVars, memVars, clientVars, dbVars, ghostVars, Fresh, Holds
  <2>3. VerdictInv'
    BY <1>1, <1>3, KeepVerdict DEF vars, procVars, memVars, clientVars, dbVars, ghostVars
  <2> QED
    BY <2>1, <2>2, <2>3 DEF IndInv, Side
<1> QED
  BY <1>2, <1>3

(* The strengthened invariant holds for every number of connections, jobs  *)
(* and shards, every job layout and every number of bad results, database  *)
(* errors and restarts.                                                    *)
THEOREM Inductive == Spec => [](IndInv /\ VerdictInv)
BY InitInv, InvNext, PTL DEF Spec

(* Type correctness of the scheduler.                                      *)
THEOREM TypeCorrect == Spec => []TypeOK
<1>1. IndInv => TypeOK
  BY DEF IndInv
<1> QED
  BY <1>1, Inductive, PTL

(* ReenqueueShard, HandleDisconnect, HandleJobResult and MaybeAssignWork   *)
(* never leave a shard in two places at once.                              *)
THEOREM ShardInOnePlace == Spec => []OnePlace
<1>1. IndInv => OnePlace
  BY DEF IndInv
<1> QED
  BY <1>1, Inductive, PTL

(* HandleJobResult clears the assignment of exactly the shard the result   *)
(* names, and no assignment outlives its connection's HandleDisconnect.    *)
THEOREM AssignmentsMatch == Spec => [](DebtOnRecord /\ NoOrphan)
<1>1. IndInv => DebtOnRecord /\ NoOrphan
  BY DEF IndInv
<1> QED
  BY <1>1, Inductive, PTL

(* The deferred calls of Work leave no assignment with a connection that   *)
(* is gone, whoever assigns meanwhile.                                     *)
THEOREM NoOrphans == Spec => []NoOrphan
BY AssignmentsMatch, PTL

(* EnqueueJob and ReenqueueShard append before they read the registry, and *)
(* Work tries for its own connection after every message: together they    *)
(* leave no idle connection unasked while a live shard is queued.          *)
THEOREM NoWakeupLost == Spec => []NoLostWakeup
<1>1. Init => NoLostWakeup
  BY DEF Init, NoLostWakeup
<1>2. IndInv /\ NoLostWakeup /\ [Next]_vars => NoLostWakeup'
  <2> SUFFICES ASSUME IndInv, NoLostWakeup, [Next]_vars PROVE NoLostWakeup'
    OBVIOUS
  <2>1. CASE Next
    BY <2>1, WakeupNext DEF IndInv, Side
  <2>2. CASE UNCHANGED vars
    BY <2>2 DEF vars, procVars, memVars, ghostVars, NoLostWakeup, LiveQueued, AttemptAhead
  <2> QED
    BY <2>1, <2>2
<1> QED
  BY <1>1, <1>2, Inductive, PTL DEF Spec

(* storeSatShardResult and VerifyUnsatShard only record verdicts that      *)
(* verified shards back, and CancelJob is only sent for such jobs.         *)
THEOREM VerdictSound == Spec => [](VerdictBacked /\ CancelAfterVerdict)
<1>1. VerdictInv => VerdictBacked /\ CancelAfterVerdict
  BY DEF VerdictInv
<1> QED
  BY <1>1, Inductive, PTL

(* No worker is told to drop a job, and none gives one up on the server's  *)
(* word, before storeSatShardResult has committed a model.                 *)
THEOREM CancelsFollowVerdict == Spec => []CancelAfterVerdict
BY VerdictSound, PTL

(* ON CONFLICT DO NOTHING and the order of the writes keep a verdict, and  *)
(* the model stored with it, for ever.                                     *)
THEOREM VerdictNeverChanges == Spec => VerdictStable
<1> DEFINE Stable == \A j \in Jobs : jobRes[j] # None => jobRes'[j] = jobRes[j]
<1>1. TypeOK /\ Next => Stable
  <2> SUFFICES ASSUME TypeOK, Next PROVE Stable
    OBVIOUS
  <2>1. ASSUME NEW c \in Conns, StoreSat(c) PROVE Stable
    BY <2>1 DEF StoreSat, InsertOnce, TypeOK
  <2>2. ASSUME NEW c \in Conns, CommitJob(c) PROVE Stable
    BY <2>2 DEF CommitJob, InsertOnce, TypeOK
  <2>3. ASSUME UNCHANGED jobRes PROVE Stable
    BY <2>3
  <2>4. ASSUME NEW c \in Conns, ConnStep(c) PROVE Stable
    BY <2>1, <2>2, <2>3, <2>4
       DEF ConnStep, TrySelf, Delete, HandleDisconnect, MarkJobCompleted, FinishSat, SendCancel,
           CountShards, SealJob, CommitShard, RequeueRow, dbVars
  <2>5. ASSUME NEW c \in Conns,
               \/ Connect(c) \/ RecvHello(c) \/ Disconnect(c) \/ Fail(c)
               \/ \E s \in Shards : GiveUp(c, s) \/ \E v \in Verdicts(s) : RecvResult(c, s, v)
        PROVE  Stable
    BY <2>3, <2>5 DEF Connect, RecvHello, Disconnect, Fail, GiveUp, RecvResult, dbVars
  <2>6. ASSUME NEW p \in Procs, QueueStep(p) PROVE Stable
    BY <2>3, <2>6 DEF QueueStep, AppendPending, SnapshotIDs, NudgeWorker, dbVars
  <2>7. ASSUME NEW j \in Jobs,
               EnqueueRows(j) \/ EnqueueInvalid(j) \/ SealInvalid(j) \/ EnqueueFails(j)
        PROVE  Stable
    BY <2>3, <2>7 DEF EnqueueRows, EnqueueInvalid, SealInvalid, EnqueueFails, dbVars
  <2>8. CASE \/ \E s \in Shards : MarkShardAssigned(s)
             \/ \E r \in rewarding : RewardWorkerForJob(r)
             \/ Crash
    BY <2>3, <2>8 DEF MarkShardAssigned, RewardWorkerForJob, Crash, dbVars
  <2> QED
    BY <2>4, <2>5, <2>6, <2>7, <2>8 DEF Next
<1>2. IndInv /\ [Next]_vars => [Stable]_vars
  BY <1>1 DEF IndInv
<1> QED
  BY <1>2, Inductive, PTL DEF Spec, VerdictStable

---------------------------------------------------------------------------
(* The interface of a connection.                                          *)

(* One step of the record and the debt of every connection.                *)
LinkStep == \A c \in Conns : Link(c)!Next \/ UNCHANGED Link(c)!owingVars

(* MaybeAssignWork is Assign for its connection and nothing for others.    *)
LEMMA AssignLink ==
    ASSUME TypeOK, NEW w \in Conns, MaybeAssignWork(w)
    PROVE  LinkStep
<1>1. ASSUME UNCHANGED <<workerShard, client>> PROVE LinkStep
  BY <1>1 DEF LinkStep, Link!owingVars
<1>2. ASSUME ~Busy(w), NEW k \in 1..Len(pending), Assign(w, k) PROVE LinkStep
  <2>1. pending[k] \in Shards
    BY DEF TypeOK
  <2>2. Link(w)!Assign(pending[k])
    BY <1>2, <2>1 DEF Busy, Assign, TypeOK, Link!Assign
  <2>3. \A c \in Conns \ {w} : UNCHANGED Link(c)!owingVars
    BY <1>2 DEF Assign, TypeOK, Link!owingVars
  <2> QED
    BY <2>1, <2>2, <2>3 DEF LinkStep, Link!Next
<1> QED
  BY <1>1, <1>2 DEF MaybeAssignWork, Busy, NothingLive, PutBack

(* Every step of the scheduler is at most one step of each connection's    *)
(* interface: an assignment is recorded when it is sent, an answer clears  *)
(* the record, and only the end of the stream clears it otherwise.         *)
THEOREM LinksAreKept == Spec => ImplementsOwing
<1>1. Init => \A c \in Conns : Link(c)!Init
  BY DEF Init, Link!Init
<1>2. IndInv /\ [Next]_vars => LinkStep
  <2> SUFFICES ASSUME IndInv, [Next]_vars PROVE LinkStep
    OBVIOUS
  <2> USE DEF memVars, clientVars
  <2>1. ASSUME UNCHANGED <<workerShard, client>> PROVE LinkStep
    BY <2>1 DEF LinkStep, Link!owingVars
  <2>2. ASSUME NEW w \in Conns, MaybeAssignWork(w) PROVE LinkStep
    BY <2>2, AssignLink DEF IndInv
  <2>3. ASSUME NEW c \in Conns, Disconnect(c) PROVE LinkStep
    <3>1. client[c] \subseteq {workerShard[c]} /\ client[c] \subseteq Shards
      BY DEF IndInv, DebtOnRecord, TypeOK
    <3>2. client'[c] = {} /\ workerShard'[c] = workerShard[c]
      BY <2>3 DEF Disconnect, IndInv, TypeOK
    <3>3. \A d \in Conns \ {c} : UNCHANGED Link(d)!owingVars
      BY <2>3 DEF Disconnect, IndInv, TypeOK, Link!owingVars
    <3>4. CASE client[c] = {}
      BY <3>2, <3>3, <3>4 DEF LinkStep, Link!owingVars
    <3>5. CASE client[c] # {}
      <4>1. Link(c)!Drop(workerShard[c]) /\ workerShard[c] \in Shards
        BY <3>1, <3>2, <3>5 DEF Link!Drop
      <4> QED
        BY <3>3, <4>1 DEF LinkStep, Link!Next
    <3> QED
      BY <3>4, <3>5
  <2>4. ASSUME NEW c \in Conns, HandleDisconnect(c) PROVE LinkStep
    <3>1. client[c] = {}
      BY <2>4 DEF HandleDisconnect, IndInv, DebtIsLive, GoneIsUnregistered
    <3>2. Link(c)!Release
      BY <2>4, <3>1 DEF HandleDisconnect, IndInv, TypeOK, Link!Release
    <3>3. \A d \in Conns \ {c} : UNCHANGED Link(d)!owingVars
      BY <2>4 DEF HandleDisconnect, IndInv, TypeOK, Link!owingVars
    <3> QED
      BY <3>2, <3>3 DEF LinkStep, Link!Next
  <2>5. ASSUME NEW c \in Conns, NEW s \in Shards, NEW v \in Verdicts(s), RecvResult(c, s, v)
        PROVE  LinkStep
    <3>1. Link(c)!Answer(s)
      BY <2>5 DEF RecvResult, IndInv, TypeOK, Link!Answer
    <3>2. \A d \in Conns \ {c} : UNCHANGED Link(d)!owingVars
      BY <2>5 DEF RecvResult, IndInv, TypeOK, Link!owingVars
    <3> QED
      BY <3>1, <3>2 DEF LinkStep, Link!Next
  <2>6. ASSUME NEW c \in Conns, NEW s \in Shards, GiveUp(c, s) PROVE LinkStep
    <3>1. Link(c)!Drop(s)
      BY <2>6 DEF GiveUp, IndInv, TypeOK, Link!Drop
    <3>2. \A d \in Conns \ {c} : UNCHANGED Link(d)!owingVars
      BY <2>6 DEF GiveUp, IndInv, TypeOK, Link!owingVars
    <3> QED
      BY <3>1, <3>2 DEF LinkStep, Link!Next
  <2>7. ASSUME Crash PROVE LinkStep
    BY <2>7 DEF Crash, LinkStep, Link!Next, Link!Release
  <2> QED
    BY <2>1, <2>2, <2>3, <2>4, <2>5, <2>6, <2>7
       DEF Next, ConnStep, QueueStep, Connect, TrySelf, RecvHello, Delete, StoreSat,
           MarkJobCompleted, SendCancel, FinishSat, CountShards, SealJob, CommitShard,
           CommitJob, CommitRow, Reward, Fail, RequeueRow, EnqueueRows, EnqueueInvalid,
           SealInvalid, EnqueueFails, AppendPending, SnapshotIDs, NudgeWorker, MarkShardAssigned,
           RewardWorkerForJob, vars
<1>3. IndInv /\ [Next]_vars =>
         [\A c \in Conns : Link(c)!Next \/ UNCHANGED Link(c)!owingVars]_vars
  BY <1>2 DEF LinkStep
<1> QED
  BY <1>1, <1>3, Inductive, PTL DEF Spec, ImplementsOwing
=============================================================================
