----------------------------- MODULE TestWorker ----------------------------
(***************************************************************************)
(* The worker of the demonstrations (cmd/testworker/main.go), which fails  *)
(* on purpose, at the end of a stream where Worker may also be.            *)
(*                                                                         *)
(* It has no goroutine per assignment: the receive loop itself downloads,  *)
(* solves, uploads and answers, reads the next message only then, and      *)
(* writes a CancelJob to the log.  So it shares the requests of Worker but *)
(* not its startJob, cancelJob and contexts: ctx is always "live".         *)
(***************************************************************************)
EXTENDS Worker

CONSTANTS
    Modes,       \* "worker" for cmd/worker, else a failure mode of the test worker
    failAfterN   \* shards it works on before it fails

ASSUME TestWorkerAssumption ==
    /\ Modes \subseteq {"worker", "none", "crash_mid", "wrong_sat", "wrong_unsat", "timeout",
                        "random_crash"}
    /\ failAfterN \in Nat

VARIABLES
    failMode,         \* which program runs, and how it fails
    shardsProcessed   \* TestWorker.shardsProcessed, up to failAfterN

testVars == <<failMode, shardsProcessed>>
allVars == <<vars, testVars>>

TestInit == Init /\ failMode \in Modes /\ shardsProcessed = 0

---------------------------------------------------------------------------
(* The receive loop, which is idle or in handleAssignJob.                  *)
Idle == step = "none"

RecvAssign ==
    /\ Idle /\ Message("assign")
    /\ current' = Head(down)[2] /\ step' = "download" /\ ctx' = "live" /\ answer' = "none"
    /\ UNCHANGED <<serverVars, proofs, up, alive, bounds, testVars>>

LogCancel ==
    /\ Idle /\ Message("cancel")
    /\ UNCHANGED <<serverVars, proofs, up, alive, runVars, bounds, testVars>>

(* Recv fails, or os.Exit: the count of processed shards is gone too.      *)
Forget == shardsProcessed' = 0 /\ UNCHANGED failMode

Die == Exit /\ Forget

---------------------------------------------------------------------------
(* handleAssignJob.                                                        *)

(* shouldFail, once the file is ready to be solved.                        *)
MayFail == shardsProcessed >= failAfterN /\ failMode # "none"
MayWork == shardsProcessed < failAfterN \/ failMode \in {"none", "random_crash"}

TestPrepare ==
    /\ step = "prepare" /\ MayWork /\ step' = "solve"
    /\ UNCHANGED <<serverVars, proofs, down, up, alive, current, ctx, answer, bounds, testVars>>

(* executeFail: a made-up model is sent, a made-up proof is uploaded like  *)
(* any other, and the loop that never returns does nothing any more.       *)
MutSilent == [wrong_sat |-> "send", wrong_unsat |-> "clear", timeout |-> "hung"]
FailStep == [wrong_sat |-> "send", wrong_unsat |-> "upload", timeout |-> "hung"]
FailAnswer == [wrong_sat |-> "garbage", wrong_unsat |-> "broken", timeout |-> "none"]

ExecuteFail ==
    /\ step = "prepare" /\ MayFail /\ failMode \in DOMAIN FailStep
    /\ step' = FailStep[failMode] /\ answer' = FailAnswer[failMode]
    /\ UNCHANGED <<serverVars, proofs, down, up, alive, current, ctx, bounds, testVars>>

ExecuteCrash ==
    /\ step = "prepare" /\ MayFail /\ failMode \in {"crash_mid", "random_crash"}
    /\ Stop /\ UNCHANGED exits /\ Forget

(* A shard counts as processed when kissat was run, whatever became of the *)
(* proof or of the answer: sendUNSATResult returns no error.  (The answers *)
(* of executeFail do not count; the bound is reached when it is called.)   *)
WasSolved == answer # "none"

Return ==
    /\ step = "clear" /\ NoRun
    /\ shardsProcessed' = IF WasSolved /\ shardsProcessed < failAfterN THEN shardsProcessed + 1
                          ELSE shardsProcessed
    /\ UNCHANGED <<serverVars, proofs, down, up, alive, bounds, failMode>>

(* Nothing cancels the context of the loop, so that these are its steps.   *)
Same ==
    /\ DownloadCNF \/ RunKissat \/ RunKissatDRAT \/ UploadDratProof \/ StoreProof \/ SendResult
    /\ UNCHANGED testVars

TestRun == TestPrepare \/ ExecuteFail \/ Return \/ Same

TestProgram ==
    /\ failMode # "worker"
    /\ RecvAssign \/ LogCancel \/ Die \/ ExecuteCrash \/ TestRun \/ (Fail /\ UNCHANGED testVars)

WorkerProgram ==
    /\ failMode = "worker"
    /\ StartJob \/ CancelJob \/ Exit \/ Run \/ Fail
    /\ UNCHANGED testVars

TestNext == TestProgram \/ WorkerProgram \/ ((Server \/ Start) /\ UNCHANGED testVars)

(* The loop of either program runs; a failure mode is chosen on purpose.   *)
TestFairness ==
    /\ WF_allVars(RecvResult /\ UNCHANGED testVars)
    /\ WF_allVars(SeeBreak /\ UNCHANGED testVars)
    /\ WF_allVars((AuthStream \/ Register) /\ UNCHANGED testVars)
    /\ WF_allVars(failMode = "worker" /\ StartJob /\ UNCHANGED testVars)
    /\ WF_allVars(failMode = "worker" /\ CancelJob /\ UNCHANGED testVars)
    /\ WF_allVars(failMode = "worker" /\ Run /\ UNCHANGED testVars)
    /\ WF_allVars(failMode # "worker" /\ (RecvAssign \/ LogCancel \/ ExecuteCrash \/ TestRun))

TestSpec == TestInit /\ [][TestNext]_allVars /\ TestFairness
---------------------------------------------------------------------------
(* The test worker reads a message only after it is through with the last  *)
(* one: of its modes only the one that hangs keeps the shard on record from*)
(* everybody else while its stream is open.  Errors and a revoked token    *)
(* are exempt.                                                             *)
OnlyHangsBlock ==
    \A s \in Shards :
        (failMode # "worker" /\ record = s) ~>
            (record # s \/ step = "hung" \/ errors > 0 \/ token = "revoked")
=============================================================================
