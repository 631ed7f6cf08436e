------------------------------ MODULE Verdicts -----------------------------
(***************************************************************************)
(* What the farm promises about the result tables: how shard results and   *)
(* the status and verdict of a job may change, whatever workers, queues,   *)
(* goroutines, errors and restarts lie behind a change.  Scheduler         *)
(* implements this; JobView shows it to the user.                          *)
(***************************************************************************)
CONSTANTS
    Shards, Jobs,
    JobOf,        \* [Shards -> Jobs]
    None, Unsat   \* "no verdict", and the UNSAT verdict of a job

VARIABLES
    shardRes,     \* shard_results.is_sat ("none": no row)
    jobStatus,    \* jobs.status
    jobRes        \* job_results: None, Unsat, or the shard whose model it holds

verdictVars == <<shardRes, jobStatus, jobRes>>

Siblings(s) == {t \in Shards : JobOf[t] = JobOf[s]} \ {s}

Init ==
    /\ shardRes = [s \in Shards |-> "none"]
    /\ jobStatus = [j \in Jobs |-> "pending"]
    /\ jobRes = [j \in Jobs |-> None]

(* The upload turns out to be no DIMACS file; nothing was split yet.       *)
Reject(j) ==
    /\ jobStatus[j] = "pending"
    /\ \A s \in Shards : JobOf[s] = j => shardRes[s] = "none"
    /\ jobStatus' = [jobStatus EXCEPT ![j] = "failed"]
    /\ UNCHANGED <<shardRes, jobRes>>

Undecided(s) == shardRes[s] = "none" /\ jobStatus[JobOf[s]] # "failed"

(* A verified model decides the job unless another one already has.        *)
FirstModel(s) == IF jobRes[JobOf[s]] = None THEN s ELSE jobRes[JobOf[s]]

StoreSat(s) ==
    /\ Undecided(s)
    /\ shardRes' = [shardRes EXCEPT ![s] = "sat"]
    /\ jobRes' = [jobRes EXCEPT ![JobOf[s]] = FirstModel(s)]
    /\ jobStatus' = [jobStatus EXCEPT ![JobOf[s]] = "completed"]

CommitShard(s) ==
    /\ Undecided(s)
    /\ shardRes' = [shardRes EXCEPT ![s] = "unsat"]
    /\ UNCHANGED <<jobStatus, jobRes>>

(* A verified proof of the last shard that was missing.                    *)
LastOne(s) == \A t \in Siblings(s) : shardRes[t] = "unsat"

CommitJob(s) ==
    /\ Undecided(s) /\ LastOne(s) /\ jobRes[JobOf[s]] = None
    /\ shardRes' = [shardRes EXCEPT ![s] = "unsat"]
    /\ jobRes' = [jobRes EXCEPT ![JobOf[s]] = Unsat]
    /\ jobStatus' = [jobStatus EXCEPT ![JobOf[s]] = "completed"]

Next ==
    \/ \E j \in Jobs : Reject(j)
    \/ \E s \in Shards : StoreSat(s) \/ CommitShard(s) \/ CommitJob(s)

Spec == Init /\ [][Next]_verdictVars
=============================================================================
