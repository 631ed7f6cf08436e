------------------------------ MODULE JobView ------------------------------
(***************************************************************************)
(* The page of a job: HandleJobDetail serves it, its script (tick in       *)
(* templates/job_detail.html) polls HandleJobDetailJSON until the job is   *)
(* decided and renders what it gets.  The answer comes from two queries    *)
(* without a transaction, one for the job with its verdict, one for its    *)
(* shards, and the result tables may change in between as Verdicts says.   *)
(***************************************************************************)
EXTENDS Naturals

CONSTANTS
    Shards, Jobs, JobOf, None, Unsat,   \* see Verdicts
    MaxFailed,    \* bound: answers 500, because a query failed
    MaxRejected   \* bound: requests that fail in the network

ASSUME ViewAssumption ==
    /\ JobOf \in [Shards -> Jobs]
    /\ None \notin Shards /\ Unsat \notin Shards /\ None # Unsat
    /\ MaxFailed \in Nat /\ MaxRejected \in Nat

VARIABLES
    shardRes, jobStatus, jobRes,   \* database, see Verdicts
    session,    \* what the browser's cookie stands for: the owner of the jobs,
                \* another user, or nobody
    page,       \* "none", "due" (to poll), "half" (first query done), "stopped", "dead"
    viewed,     \* the job of the page
    answer,     \* what the handler has read
    shown,      \* what the page shows
    failed, rejected

Tables == INSTANCE Verdicts
tables == <<shardRes, jobStatus, jobRes>>
viewVars == <<tables, session, page, viewed, answer, shown, failed, rejected>>

Blank == [status |-> "none", verdict |-> None, shards |-> [s \in Shards |-> "none"]]

ViewInit ==
    /\ Tables!Init
    /\ session = "none" /\ page = "none" /\ viewed \in Jobs
    /\ answer = Blank /\ shown = Blank
    /\ failed = 0 /\ rejected = 0

(* The farm decides shards and jobs.                                       *)
FarmStep ==
    /\ Tables!Next
    /\ UNCHANGED <<session, page, viewed, answer, shown, failed, rejected>>

(* Logins, logouts and restarts, in this tab or another (Accounts).        *)
SessionChanges ==
    /\ session' \in {"owner", "other", "none"} \ {session}
    /\ UNCHANGED <<tables, page, viewed, answer, shown, failed, rejected>>

---------------------------------------------------------------------------
(* SELECT EXISTS(... WHERE id = $1 AND user_id = $2).                      *)
HandleJobDetail(j) ==
    /\ page = "none" /\ session = "owner"
    /\ page' = "due" /\ viewed' = j /\ shown' = Blank
    /\ UNCHANGED <<tables, session, answer, failed, rejected>>

Close ==
    /\ page # "none"
    /\ page' = "none" /\ answer' = Blank /\ shown' = Blank
    /\ UNCHANGED <<tables, session, viewed, failed, rejected>>

(* The two queries of HandleJobDetailJSON, in their order.                 *)
MutShardsFirst == <<"shards", "job">>
Queries == <<"job", "shards">>

Read(query) ==
    IF query = "job"
    THEN [answer EXCEPT !.status = jobStatus[viewed], !.verdict = jobRes[viewed]]
    ELSE [answer EXCEPT !.shards = [s \in Shards |->
              IF JobOf[s] = viewed THEN shardRes[s] ELSE "none"]]

PollJob ==
    /\ page = "due" /\ session = "owner"
    /\ page' = "half" /\ answer' = Read(Queries[1])
    /\ UNCHANGED <<tables, session, viewed, shown, failed, rejected>>

(* tick renders the answer and goes on unless the job is decided.          *)
MutUntilKnown(status) == status # "none"
Final(status) == status \in {"completed", "failed"}

PollShards ==
    LET data == Read(Queries[2]) IN
    /\ page = "half"
    /\ shown' = data /\ answer' = Blank
    /\ page' = IF Final(data.status) THEN "stopped" ELSE "due"
    /\ UNCHANGED <<tables, session, viewed, failed, rejected>>

(* 401 and 404 for the wrong session, 500 for a failed query: another try  *)
(* a second later.                                                         *)
MutGiveUp == "dead"
Retry == "due"

Refused ==
    /\ page = "due" /\ session # "owner"
    /\ page' = Retry
    /\ UNCHANGED <<tables, session, viewed, answer, shown, failed, rejected>>

QueryFails ==
    /\ page \in {"due", "half"} /\ failed < MaxFailed /\ failed' = failed + 1
    /\ page' = Retry /\ answer' = Blank
    /\ UNCHANGED <<tables, session, viewed, shown, rejected>>

(* fetch or json() rejects; tick does not catch it, and is not run again.  *)
Rejected ==
    /\ page \in {"due", "half"} /\ rejected < MaxRejected /\ rejected' = rejected + 1
    /\ page' = "dead" /\ answer' = Blank
    /\ UNCHANGED <<tables, session, viewed, shown, failed>>

---------------------------------------------------------------------------
Poll == PollJob \/ PollShards

ViewNext ==
    \/ FarmStep \/ SessionChanges
    \/ (\E j \in Jobs : HandleJobDetail(j)) \/ Close
    \/ Poll \/ Refused \/ QueryFails \/ Rejected

ViewSpec == ViewInit /\ [][ViewNext]_viewVars

(* The browser runs the timers of an open page, and queries end.           *)
ViewFairness == WF_viewVars(Poll)
---------------------------------------------------------------------------
(* Correctness.                                                            *)

Views == [status : {"none", "pending", "completed", "failed"},
          verdict : {None, Unsat} \cup Shards,
          shards : [Shards -> {"none", "sat", "unsat"}]]

(* Every variable has its type.                                            *)
ViewTypeOK ==
    /\ shardRes \in [Shards -> {"none", "sat", "unsat"}]
    /\ jobStatus \in [Jobs -> {"pending", "completed", "failed"}]
    /\ jobRes \in [Jobs -> {None, Unsat} \cup Shards]
    /\ session \in {"owner", "other", "none"}
    /\ page \in {"none", "due", "half", "stopped", "dead"} /\ viewed \in Jobs
    /\ answer \in Views /\ shown \in Views
    /\ failed \in Nat /\ rejected \in Nat

(* A verdict with shard results that back it: v is what a reader saw of    *)
(* the job, r the results of the shards.                                   *)
Backed(v, r) ==
    /\ v.verdict = Unsat => \A s \in Shards : JobOf[s] = viewed => r[s] = "unsat"
    /\ v.verdict \in Shards => JobOf[v.verdict] = viewed /\ r[v.verdict] = "sat"
    /\ v.verdict # None <=> v.status = "completed"
    /\ v.status = "failed" => \A s \in Shards : JobOf[s] = viewed => r[s] = "none"

(* The page never shows a verdict that the shards below it do not back,    *)
(* although the two were read at different times.                          *)
PageBacked == Backed(shown, shown.shards)

(* When the page stops polling, what it shows of the job is final.         *)
StoppedIsFinal ==
    page = "stopped" => shown.status = jobStatus[viewed] /\ shown.verdict = jobRes[viewed]

(* An open page in the end shows the verdict, if its user stays logged in, *)
(* whatever failed or was refused before: only a request that is lost in   *)
(* the network ends the polling too early.                                 *)
PageCatchesUp ==
    <>[](session = "owner") =>
        ((page \in {"due", "half"} /\ Final(jobStatus[viewed])) ~>
            (page \in {"stopped", "none"} \/ rejected > 0))

---------------------------------------------------------------------------
(* What makes them inductive.                                              *)

(* The tables themselves back every verdict.                               *)
TablesBacked ==
    \A j \in Jobs :
        /\ jobRes[j] = Unsat =>
              \A s \in Shards : JobOf[s] = j => shardRes[s] = "unsat"
        /\ jobRes[j] \in Shards => JobOf[jobRes[j]] = j /\ shardRes[jobRes[j]] = "sat"
        /\ jobRes[j] # None <=> jobStatus[j] = "completed"
        /\ jobStatus[j] = "failed" => \A s \in Shards : JobOf[s] = j => shardRes[s] = "none"

(* What was read of the job half way is still so if it was final, and is   *)
(* backed by the shard results there are by now.                           *)
Lasting(v) == Final(v.status) => v.status = jobStatus[viewed] /\ v.verdict = jobRes[viewed]

HalfRead ==
    page = "half" => Lasting(answer) /\ Backed(answer, shardRes)

(* It stops for a final status only.                                       *)
StoppedOnFinal == page = "stopped" => Final(shown.status)

ViewInv ==
    ViewTypeOK /\ TablesBacked /\ HalfRead /\ PageBacked /\ StoppedIsFinal /\ StoppedOnFinal
=============================================================================
