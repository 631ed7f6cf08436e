------------------------------- MODULE Worker ------------------------------
(***************************************************************************)
(* The worker process (cmd/worker/main.go) and the server's end of its     *)
(* stream.  The receive loop starts a goroutine per assignment and cancels *)
(* it through a context; the goroutine downloads the CNF, applies the      *)
(* cube, runs kissat, for UNSAT runs it again for a proof and uploads it,  *)
(* and sends the result.  Both directions of the stream are FIFO.          *)
(*                                                                         *)
(* The server is reduced to what one connection sees of it: its entry of   *)
(* workerShard, the queue, other workers that finish jobs (Scheduler has   *)
(* the rest), and the worker's API token, which is looked up when the      *)
(* stream opens (AuthStreamInterceptor) and by each HTTP request           *)
(* (authenticateWorkerFromBearer), and revoked by its owner at any time    *)
(* (Accounts).                                                             *)
(***************************************************************************)
EXTENDS Naturals, Sequences, SequencesExt

CONSTANTS
    Shards, Jobs, None,
    JobOf,        \* [Shards -> Jobs]
    SatShards,    \* the shards whose CNF /\ cube is satisfiable
    MaxErrors,    \* bound: local or HTTP errors of the worker
    MaxExits      \* bound: worker processes that die or lose the stream

ASSUME WorkerAssumption ==
    /\ JobOf \in [Shards -> Jobs] /\ SatShards \subseteq Shards
    /\ None \notin Shards
    /\ MaxErrors \in Nat /\ MaxExits \in Nat

VARIABLES
    \* server
    record,     \* workerShard of the connection
    link,       \* the server's end of the stream
    token,      \* api_tokens.revoked of the worker's token
    pending,    \* queued shards
    completed,  \* completedJobs
    toCancel,   \* CancelJob messages another handler is about to send here
    proofs,     \* shards a drat_files row was stored for
    \* stream
    down,       \* messages to the worker: <<"assign", s>> or <<"cancel", j>>
    up,         \* results to the server: [shard, answer]
    \* worker
    alive,      \* the process runs and its stream works
    current,    \* currentJob, by shard
    step,       \* where handleAssignJob is, "none" when no goroutine runs
    ctx,        \* "live" or "cancelled"
    answer,     \* what kissat said
    \* history: shards assigned since the token is revoked
    late,
    \* bounds
    errors, exits

linkVars   == <<link, token, late>>
serverVars == <<record, linkVars, pending, completed, toCancel>>
runVars    == <<current, step, ctx, answer>>
bounds     == <<errors, exits>>
vars == <<serverVars, proofs, down, up, alive, runVars, bounds>>

Working == {"download", "prepare", "solve", "prove", "upload", "store", "send"}

NoRun == current' = None /\ step' = "none" /\ ctx' = "live" /\ answer' = "none"

Init ==
    /\ record = None /\ pending = Shards /\ completed = {} /\ toCancel = {}
    /\ link = "closed" /\ token = "active" /\ late = {}
    /\ proofs = {}
    /\ down = << >> /\ up = << >> /\ alive = FALSE
    /\ current = None /\ step = "none" /\ ctx = "live" /\ answer = "none"
    /\ errors = 0 /\ exits = 0

---------------------------------------------------------------------------
(* The server.                                                             *)

Deliver(m) == down' = IF alive THEN Append(down, m) ELSE down

(* MaybeAssignWork; it does not ask for the token again.                   *)
Assign(s) ==
    /\ link = "open" /\ record = None
    /\ s \in pending /\ JobOf[s] \notin completed
    /\ record' = s /\ pending' = pending \ {s}
    /\ late' = IF token = "revoked" THEN late \cup {s} ELSE late
    /\ Deliver(<<"assign", s>>)
    /\ UNCHANGED <<link, token, completed, toCancel, proofs, up, alive, runVars, bounds>>

(* markJobCompletedAndCancelOthers for another worker's result: targets    *)
(* are collected under the lock ...                                        *)
OtherCompletes(j) ==
    /\ j \notin completed /\ \E s \in SatShards \ {record} : JobOf[s] = j
    /\ completed' = completed \cup {j}
    /\ toCancel' = IF record # None /\ JobOf[record] = j THEN toCancel \cup {j} ELSE toCancel
    /\ UNCHANGED <<record, linkVars, pending, proofs, down, up, alive, runVars, bounds>>

(* ... and sent to without it, whatever the worker has become meanwhile.   *)
SendCancel(j) ==
    /\ link = "open" /\ j \in toCancel
    /\ toCancel' = toCancel \ {j}
    /\ Deliver(<<"cancel", j>>)
    /\ UNCHANGED <<record, linkVars, pending, completed, proofs, up, alive, runVars, bounds>>

(* HandleJobResult: a proof that is not found or not valid requeues, and   *)
(* so does a model that is none.  A made-up one may still be right.        *)
Accepted(m) == m.answer = "sat" \/ (m.answer = "unsat" /\ m.shard \in proofs)

Lucky(m) ==
    \/ m.answer = "garbage" /\ m.shard \in SatShards
    \/ m.answer = "broken" /\ m.shard \notin SatShards /\ m.shard \in proofs

RecvResult ==
    /\ link = "open" /\ up # << >> /\ up' = Tail(up)
    /\ record' = None
    /\ LET m == Head(up) IN
          \/ /\ Accepted(m) \/ Lucky(m)
             /\ completed' = IF m.answer \in {"sat", "garbage"} THEN completed \cup {JobOf[m.shard]}
                             ELSE completed
             /\ UNCHANGED pending
          \/ /\ ~Accepted(m)
             /\ pending' = pending \cup {m.shard}
             /\ UNCHANGED completed
    /\ UNCHANGED <<linkVars, toCancel, proofs, down, alive, runVars, bounds>>

(* Recv fails; results still in the stream are lost; HandleDisconnect.     *)
SeeBreak ==
    /\ link = "open" /\ ~alive
    /\ link' = "closed" /\ up' = << >> /\ toCancel' = {}
    /\ record' = None
    /\ pending' = IF record = None THEN pending ELSE pending \cup {record}
    /\ UNCHANGED <<token, late, completed, proofs, down, alive, runVars, bounds>>

(* HandleRevokeToken; neither the stream nor the registry hears of it.     *)
Revoke ==
    /\ token = "active" /\ token' = "revoked"
    /\ UNCHANGED <<record, link, late, pending, completed, toCancel, proofs, down, up, alive,
                   runVars, bounds>>

(* SELECT user_id FROM api_tokens WHERE secret = $1 AND revoked = FALSE.   *)
MutAnySecret == TRUE
Authorized == token = "active"

(* AuthStreamInterceptor looks the token up when a stream is opened; a     *)
(* worker that is turned away finds its stream closed and exits.           *)
AuthStream ==
    /\ link = "opening"
    /\ \/ Authorized /\ link' = "known" /\ UNCHANGED alive
       \/ ~Authorized /\ link' = "closed" /\ alive' = FALSE
       \/ ~alive /\ link' = "closed" /\ UNCHANGED alive
    /\ UNCHANGED <<record, token, late, pending, completed, toCancel, proofs, down, up, runVars,
                   bounds>>

(* Work registers the connection; from now on it is given shards.          *)
Register ==
    /\ link = "known" /\ link' = "open"
    /\ UNCHANGED <<record, token, late, pending, completed, toCancel, proofs, down, up, alive,
                   runVars, bounds>>

---------------------------------------------------------------------------
(* The receive loop of the worker.                                         *)

Message(kind) == alive /\ down # << >> /\ Head(down)[1] = kind /\ down' = Tail(down)

(* startJob: while currentJob is set the assignment is logged and ignored. *)
Free == current = None

StartJob ==
    /\ Message("assign")
    /\ IF Free THEN /\ current' = Head(down)[2] /\ step' = "download"
                    /\ ctx' = "live" /\ answer' = "none"
       ELSE UNCHANGED runVars
    /\ UNCHANGED <<serverVars, proofs, up, alive, bounds>>

MutAnyJob(j) == current # None
Targets(j) == current # None /\ JobOf[current] = j

CancelJob ==
    /\ Message("cancel")
    /\ ctx' = IF Targets(Head(down)[2]) THEN "cancelled" ELSE ctx
    /\ UNCHANGED <<serverVars, proofs, up, alive, current, step, answer, bounds>>

MutNoRow == proofs
Stored == proofs \cup {current}

(* The process dies, or exits because Recv fails; an upload it leaves      *)
(* behind may still be stored.                                             *)
Stop ==
    /\ alive /\ alive' = FALSE
    /\ down' = << >> /\ NoRun
    /\ proofs' = proofs \/ (step = "store" /\ proofs' = Stored)
    /\ UNCHANGED <<serverVars, up, errors>>

Exit == exits < MaxExits /\ exits' = exits + 1 /\ Stop

(* It is started, or started again, and opens a stream.                    *)
Start ==
    /\ ~alive /\ link = "closed"
    /\ alive' = TRUE /\ link' = "opening"
    /\ UNCHANGED <<record, token, late, pending, completed, toCancel, proofs, down, up, runVars,
                   bounds>>

---------------------------------------------------------------------------
(* The goroutine of an assignment.                                         *)

(* handleAssignJob looks at the context after each long step.              *)
MutForgetful(next) == step' = IF ctx = "cancelled" THEN "none" ELSE next
MutInverted(next) == step' = IF ctx = "live" THEN "clear" ELSE next
Unless(next) == step' = IF ctx = "cancelled" THEN "clear" ELSE next

(* A request that the context cuts short fails, one that is through counts.*)
Request(next) ==
    \/ Authorized /\ (step' = next \/ Unless(next))
    \/ ~Authorized /\ step' = "clear"

DownloadCNF ==
    /\ step = "download" /\ Request("prepare")
    /\ UNCHANGED <<serverVars, proofs, down, up, alive, current, ctx, answer, bounds>>

(* ApplyCube, PrepareCNFForSolving.                                        *)
Prepare ==
    /\ step = "prepare" /\ Unless("solve")
    /\ UNCHANGED <<serverVars, proofs, down, up, alive, current, ctx, answer, bounds>>

MutUnknown == "unknown"
Found == IF current \in SatShards THEN "sat" ELSE "unsat"

RunKissat ==
    /\ step = "solve"
    /\ answer' = Found
    /\ Unless(IF Found = "sat" THEN "send" ELSE "prove")
    /\ UNCHANGED <<serverVars, proofs, down, up, alive, current, ctx, bounds>>

(* An error of the second run is logged; the proof file exists anyway.     *)
RunKissatDRAT ==
    /\ step = "prove" /\ Unless("upload")
    /\ \/ UNCHANGED <<answer, errors>>
       \/ (errors < MaxErrors /\ errors' = errors + 1 /\ answer' = "broken")
    /\ UNCHANGED <<serverVars, proofs, down, up, alive, current, ctx, exits>>

(* The token is checked before the proof is received ...                   *)
UploadDratProof ==
    /\ step = "upload" /\ Request("store")
    /\ UNCHANGED <<serverVars, proofs, down, up, alive, current, ctx, answer, bounds>>

(* ... and the row may be stored although the request is cut short.        *)
StoreProof ==
    /\ step = "store" /\ Unless("send")
    /\ proofs' = Stored \/ (ctx = "cancelled" /\ proofs' = proofs)
    /\ UNCHANGED <<serverVars, down, up, alive, current, ctx, answer, bounds>>

MutTwice(r) == up \o <<r, r>>
Sent(r) == Append(up, r)

SendResult ==
    /\ step = "send" /\ step' = "clear"
    /\ up' = Sent([shard |-> current, answer |-> answer])
    /\ UNCHANGED <<serverVars, proofs, down, alive, current, ctx, answer, bounds>>

(* Any of the steps fails: logged, no result.                              *)
Fail ==
    /\ step \in Working /\ errors < MaxErrors
    /\ errors' = errors + 1 /\ step' = "clear"
    /\ proofs' = proofs \/ (step = "store" /\ proofs' = Stored)
    /\ UNCHANGED <<serverVars, down, up, alive, current, ctx, answer, exits>>

(* Only now is the worker free for startJob.                               *)
Clear ==
    /\ step = "clear" /\ NoRun
    /\ UNCHANGED <<serverVars, proofs, down, up, alive, bounds>>

---------------------------------------------------------------------------
Run == \/ DownloadCNF \/ Prepare \/ RunKissat \/ RunKissatDRAT \/ UploadDratProof
       \/ StoreProof \/ SendResult \/ Clear

Server ==
    \/ \E s \in Shards : Assign(s)
    \/ \E j \in Jobs : OtherCompletes(j) \/ SendCancel(j)
    \/ RecvResult \/ SeeBreak \/ Revoke \/ AuthStream \/ Register

Next == Server \/ StartJob \/ CancelJob \/ Exit \/ Start \/ Run \/ Fail

Spec == Init /\ [][Next]_vars

(* The server's loop and the worker's two goroutines run, and kissat ends. *)
Fairness ==
    /\ WF_vars(RecvResult) /\ WF_vars(SeeBreak) /\ WF_vars(AuthStream) /\ WF_vars(Register)
    /\ WF_vars(StartJob) /\ WF_vars(CancelJob) /\ WF_vars(Run)

FairSpec == Spec /\ Fairness
---------------------------------------------------------------------------
(* Correctness.                                                            *)

Answers == {"sat", "unsat", "broken", "garbage"}
Messages == {"assign"} \X Shards \cup {"cancel"} \X Jobs
Results == [shard : Shards, answer : Answers]

(* Every variable has its type.                                            *)
TypeOK ==
    /\ record \in Shards \cup {None} /\ current \in Shards \cup {None}
    /\ link \in {"closed", "opening", "known", "open"} /\ alive \in BOOLEAN
    /\ token \in {"active", "revoked"} /\ late \subseteq Shards
    /\ pending \subseteq Shards /\ proofs \subseteq Shards
    /\ completed \subseteq Jobs /\ toCancel \subseteq Jobs
    /\ down \in Seq(Messages) /\ up \in Seq(Results)
    /\ step \in Working \cup {"none", "clear", "hung"}
    /\ ctx \in {"live", "cancelled"} /\ answer \in {"none"} \cup Answers
    /\ errors \in Nat /\ exits \in Nat

(* The shards an answer may still come for: assigned and unread, being     *)
(* worked on, or answered and unread.                                      *)
Owed == {s \in Shards : <<"assign", s>> \in ToSet(down)}
            \cup {s \in {current} : step \in Working}
            \cup {m.shard : m \in ToSet(up)}

(* A worker with messages in flight, cancellations, errors and restarts    *)
(* still owes at most the one shard the server has on record, and answers  *)
(* it at most once: Scheduler may treat it as the set client.              *)
Contract == INSTANCE Owing WITH owed <- Owed
ImplementsOwing == Contract!Spec

(* A CancelJob that arrives late, after the worker went on to another job, *)
(* cancels nothing: what is cancelled belongs to a completed job.          *)
CancelHitsItsJob == ctx = "cancelled" => JobOf[current] \in completed

(* An UNSAT answer is sent only when its proof is on the server.           *)
ProofFirst == \A m \in ToSet(up) : m.answer \in {"unsat", "broken"} => m.shard \in proofs

(* A revoked token earns nothing new: its stream stays open and is given   *)
(* shards, but no answer comes, and so no reward is due, for a shard       *)
(* assigned after the revocation.                                          *)
RevokedEarnsNoMore == \A m \in ToSet(up) : m.shard \notin late

(* A worker never wedges: what it starts ends and leaves it free, after an *)
(* answer, an error or a cancellation, unless it is made to hang.          *)
WorkerFreesUp == current # None ~> (current = None \/ step = "hung")

(* What is started is answered, unless it is cancelled, the worker fails   *)
(* or hangs, or its token is revoked.                                      *)
StartedIsAnswered ==
    \A s \in Shards :
        (step = "download" /\ current = s) ~>
            \/ record = None \/ JobOf[s] \in completed
            \/ errors > 0 \/ ~alive \/ step = "hung" \/ token = "revoked"

---------------------------------------------------------------------------
(* What makes them inductive.                                              *)

(* The record is owed one answer at most: by an assignment in the stream,  *)
(* by the goroutine, or by a result in the stream, and by one of them only.*)
OneDebt ==
    /\ \A i \in 1..Len(down) : down[i][1] = "assign" =>
          /\ down[i][2] = record /\ up = << >> /\ step \notin Working
          /\ \A k \in 1..Len(down) : down[k][1] = "assign" => k = i
    /\ step \in Working => current = record /\ up = << >>
    /\ \A i \in 1..Len(up) : i = 1 /\ up[i].shard = record

(* Nothing is under way on a stream that is not open, or for a dead worker.*)
Quiet ==
    /\ link # "open" => record = None /\ up = << >> /\ down = << >> /\ step = "none"
    /\ ~alive => down = << >> /\ step = "none"
    /\ step = "none" <=> current = None

(* A cancellation under way is for a completed job.                        *)
CancelsAreDue ==
    /\ toCancel \subseteq completed
    /\ \A i \in 1..Len(down) : down[i][1] = "cancel" => down[i][2] \in completed

(* From the end of kissat on there is an answer, and whoever is about to   *)
(* send it has uploaded what it needs.                                     *)
AnswerReady ==
    /\ step \in {"prove", "upload", "store", "send"} => answer # "none"
    /\ step = "send" /\ answer \in {"unsat", "broken"} => current \in proofs

(* Past the download, the shard was assigned before the revocation.        *)
Timely ==
    /\ token = "active" => late = {}
    /\ step \in Working \ {"download"} => current \notin late

WorkerInv ==
    /\ TypeOK /\ OneDebt /\ Quiet
    /\ CancelsAreDue /\ CancelHitsItsJob /\ AnswerReady /\ ProofFirst /\ Timely /\ RevokedEarnsNoMore
=============================================================================
