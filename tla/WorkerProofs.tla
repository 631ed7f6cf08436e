---------------------------- MODULE WorkerProofs ---------------------------
(***************************************************************************)
(* Proofs about a worker and its stream, for either program (TestSpec has  *)
(* both) and for any number of jobs and shards.                            *)
(*                                                                         *)
(* The invariant WorkerInv says who may owe an answer (OneDebt, Quiet),    *)
(* which cancellations are under way, and what a goroutine that is about   *)
(* to answer has done.  It has a lemma per action, or per kind of action   *)
(* where several programs or steps do the same.                            *)
(***************************************************************************)
EXTENDS TestWorker, SequenceTheorems, TLAPS

(* The stream carries what Messages says.                                  *)
LEMMA MessageTypes ==
    /\ \A s \in Shards : <<"assign", s>> \in Messages
    /\ \A j \in Jobs : <<"cancel", j>> \in Messages
    /\ \A m \in Messages : \/ m[1] = "assign" /\ m[2] \in Shards /\ m = <<"assign", m[2]>>
                           \/ m[1] = "cancel" /\ m[2] \in Jobs /\ m = <<"cancel", m[2]>>
BY DEF Messages

(* What a Send to the worker does to the stream.                           *)
LEMMA Delivered ==
    ASSUME TypeOK, NEW m \in Messages, Deliver(m)
    PROVE  /\ down' \in Seq(Messages) /\ Len(down) \in Nat
           /\ \/ down' = down
              \/ /\ alive /\ Len(down') = Len(down) + 1 /\ down'[Len(down) + 1] = m
                 /\ \A i \in 1..Len(down) : down'[i] = down[i]
<1>1. down \in Seq(Messages) /\ Len(down) \in Nat /\ alive \in BOOLEAN
  BY LenProperties DEF TypeOK
<1>2. CASE alive
  BY <1>1, <1>2, AppendProperties DEF Deliver
<1>3. CASE ~alive
  BY <1>1, <1>3 DEF Deliver
<1> QED
  BY <1>2, <1>3

(* What the receive loop takes off the stream.                             *)
LEMMA Received ==
    ASSUME TypeOK, NEW kind, Message(kind)
    PROVE  /\ down' \in Seq(Messages) /\ Len(down) \in Nat /\ 1 \in 1..Len(down)
           /\ Head(down) = down[1] /\ down[1][1] = kind /\ down[1] \in Messages
           /\ \A i \in 1..Len(down') : i + 1 \in 1..Len(down) /\ down'[i] = down[i + 1]
<1>1. down \in Seq(Messages) /\ down # << >> /\ down' = Tail(down) /\ Head(down)[1] = kind
  BY DEF Message, TypeOK
<1>2. /\ down' \in Seq(Messages) /\ Len(down') = Len(down) - 1
      /\ \A i \in 1..Len(down') : down'[i] = down[i + 1]
  BY <1>1, HeadTailProperties
<1>3. Len(down) \in Nat \ {0} /\ Len(down') \in Nat
  BY <1>1, <1>2, EmptySeq, LenProperties
<1>4. Head(down) = down[1] /\ down[1] \in Messages
  BY <1>1, <1>3, ElementOfSeq
<1> QED
  BY <1>1, <1>2, <1>3, <1>4

(* The results in a stream, by position.                                   *)
LEMMA InStream ==
    ASSUME NEW u \in Seq(Results)
    PROVE  /\ Len(u) \in Nat /\ (u = << >> <=> Len(u) = 0)
           /\ ToSet(u) = {u[i] : i \in 1..Len(u)}
           /\ \A i \in 1..Len(u) : u[i] \in Results
BY LenProperties, EmptySeq, ElementOfSeq DEF ToSet

---------------------------------------------------------------------------
(* Owing an answer.                                                        *)

HasDebt ==
    \/ \E i \in 1..Len(down) : down[i][1] = "assign"
    \/ step \in Working \/ up # << >>

(* What a step may do to the debt: keep or drop it, or take one on when    *)
(* there is none, or clear the record.                                     *)
DebtStep ==
    \/ record' = record /\ (HasDebt' => HasDebt)
    \/ record = None /\ record' \in Shards
    \/ record' = None

(* A debt is for the shard on record.                                      *)
LEMMA DebtHasRecord ==
    ASSUME TypeOK, OneDebt, Quiet, HasDebt
    PROVE  record \in Shards
<1>1. CASE \E i \in 1..Len(down) : down[i][1] = "assign"
  <2>1. PICK i \in 1..Len(down) : down[i][1] = "assign"
    BY <1>1
  <2>2. down[i] \in Messages
    BY ElementOfSeq DEF TypeOK
  <2> QED
    BY <2>1, <2>2, MessageTypes DEF OneDebt
<1>2. CASE step \in Working
  BY <1>2 DEF OneDebt, Quiet, TypeOK, Working
<1>3. CASE up # << >>
  <2>1. Len(up) \in Nat \ {0} /\ up[1] \in Results
    BY <1>3, InStream DEF TypeOK
  <2>2. 1 \in 1..Len(up)
    BY <2>1
  <2> QED
    BY <2>1, <2>2 DEF OneDebt, Results
<1> QED
  BY <1>1, <1>2, <1>3 DEF HasDebt

---------------------------------------------------------------------------
(* The goroutine, or the loop of the test worker, at an assignment.        *)

(* A step that sends nothing and stays at the assignment or ends it.       *)
LEMMA StepKeeps ==
    ASSUME WorkerInv, step \in Working, step' \in Working \cup {"clear", "hung"},
           UNCHANGED <<serverVars, down, up, alive, current, ctx>>,
           proofs' \in {proofs, proofs \cup {current}},
           answer' \in {"none"} \cup Answers, errors' \in Nat, exits' \in Nat,
           step' \in {"prove", "upload", "store", "send"} => answer' # "none",
           step' = "send" /\ answer' \in {"unsat", "broken"} => current \in proofs',
           step' \in Working \ {"download"} => current \notin late
    PROVE  WorkerInv' /\ DebtStep
<1> USE DEF WorkerInv, serverVars, linkVars
<1>1. current \in Shards /\ current # None
  BY WorkerAssumption DEF Quiet, TypeOK, Working
<1>2. TypeOK'
  BY <1>1 DEF TypeOK
<1>3. OneDebt' /\ Quiet'
  BY <1>1 DEF OneDebt, Quiet, Working
<1>4. CancelsAreDue' /\ CancelHitsItsJob'
  BY DEF CancelsAreDue, CancelHitsItsJob
<1>5. AnswerReady' /\ Timely' /\ RevokedEarnsNoMore'
  BY DEF AnswerReady, Timely, RevokedEarnsNoMore
<1>6. ProofFirst'
  BY DEF ProofFirst
<1>7. DebtStep
  BY DEF DebtStep, HasDebt
<1> QED
  BY <1>2, <1>3, <1>4, <1>5, <1>6, <1>7

(* The steps of Worker's goroutine that are of this kind.                  *)
LEMMA RunKeeps ==
    ASSUME WorkerInv,
           DownloadCNF \/ Prepare \/ RunKissat \/ RunKissatDRAT \/ UploadDratProof \/ StoreProof \/ Fail
    PROVE  WorkerInv' /\ DebtStep
<1> USE DEF Working, Unless, Request, Stored
<1>1. /\ TypeOK /\ AnswerReady /\ Timely /\ OneDebt /\ Quiet
      /\ answer \in {"none"} \cup Answers /\ errors \in Nat /\ exits \in Nat
  BY DEF WorkerInv, TypeOK
<1>2. step \in Working \ {"download"} => current \notin late
  BY <1>1 DEF Timely
<1>3. CASE DownloadCNF
  <2>1. step' \in {"clear", "prepare"} /\ (step' = "prepare" => current \notin late)
    BY <1>1, <1>3 DEF DownloadCNF, Authorized, Timely
  <2> QED
    BY <1>1, <1>3, <2>1, StepKeeps DEF DownloadCNF, bounds
<1>4. CASE Prepare
  BY <1>1, <1>2, <1>4, StepKeeps DEF Prepare, bounds
<1>5. CASE RunKissat
  <2>1. answer' \in {"sat", "unsat"} /\ step' \in {"clear", "send", "prove"}
        /\ (step' = "send" => answer' = "sat")
    BY <1>5 DEF RunKissat, Found
  <2> QED
    BY <1>1, <1>2, <1>5, <2>1, StepKeeps DEF RunKissat, bounds, Answers
<1>6. CASE RunKissatDRAT
  <2>1. step' \in {"clear", "upload"} /\ answer' \in {answer, "broken"} /\ answer # "none"
        /\ errors' \in Nat
    BY <1>1, <1>6 DEF RunKissatDRAT, AnswerReady
  <2> QED
    BY <1>1, <1>2, <1>6, <2>1, StepKeeps DEF RunKissatDRAT, Answers
<1>7. CASE UploadDratProof
  <2>1. step' \in {"clear", "store"} /\ answer # "none"
    BY <1>1, <1>7 DEF UploadDratProof, AnswerReady
  <2> QED
    BY <1>1, <1>2, <1>7, <2>1, StepKeeps DEF UploadDratProof, bounds
<1>8. CASE StoreProof
  <2>1. /\ step' \in {"clear", "send"} /\ answer # "none"
        /\ proofs' \in {proofs, proofs \cup {current}}
        /\ step' = "send" => current \in proofs'
    BY <1>1, <1>8 DEF StoreProof, AnswerReady
  <2> QED
    BY <1>1, <1>2, <1>8, <2>1, StepKeeps DEF StoreProof, bounds
<1>9. CASE Fail
  <2>1. proofs' \in {proofs, proofs \cup {current}} /\ errors' \in Nat
    BY <1>1, <1>9 DEF Fail
  <2> QED
    BY <1>1, <1>2, <1>9, <2>1, StepKeeps DEF Fail
<1> QED
  BY <1>3, <1>4, <1>5, <1>6, <1>7, <1>8, <1>9

(* Those of the test worker.                                               *)
LEMMA TestRunKeeps ==
    ASSUME WorkerInv, TestPrepare \/ ExecuteFail
    PROVE  WorkerInv' /\ DebtStep
<1> USE DEF Working
<1>1. /\ TypeOK /\ answer \in {"none"} \cup Answers /\ errors \in Nat /\ exits \in Nat
  BY DEF WorkerInv, TypeOK
<1>2. step \in Working \ {"download"} => current \notin late
  BY DEF WorkerInv, Timely
<1>3. CASE TestPrepare
  BY <1>1, <1>2, <1>3, StepKeeps DEF TestPrepare, bounds
<1>4. CASE ExecuteFail
  <2>1. \/ step' = "send" /\ answer' = "garbage"
        \/ step' = "upload" /\ answer' = "broken"
        \/ step' = "hung" /\ answer' = "none"
    BY <1>4 DEF ExecuteFail, FailStep, FailAnswer
  <2> QED
    BY <1>1, <1>2, <1>4, <2>1, StepKeeps DEF ExecuteFail, bounds, Answers
<1> QED
  BY <1>3, <1>4

(* The answer is sent: what was owed by the goroutine is so by the stream. *)
LEMMA SendKeeps ==
    ASSUME WorkerInv, SendResult
    PROVE  WorkerInv' /\ DebtStep
<1> DEFINE r == [shard |-> current, answer |-> answer]
<1> USE DEF WorkerInv, serverVars, linkVars, bounds
<1>1. /\ step = "send" /\ step' = "clear" /\ up' = Append(up, r)
      /\ UNCHANGED <<serverVars, proofs, down, alive, current, ctx, answer, bounds>>
  BY DEF SendResult, Sent
<1>2. current \in Shards /\ current = record /\ current # None /\ up = << >> /\ answer \in Answers
  BY <1>1 DEF Quiet, TypeOK, Working, OneDebt, AnswerReady
<1>3. r \in Results
  BY <1>2 DEF Results
<1>4. up' \in Seq(Results) /\ Len(up') = 1 /\ up'[1] = r
  BY <1>1, <1>2, <1>3, AppendProperties, EmptySeq
<1> HIDE DEF r
<1>5. ToSet(up') = {r}
  BY <1>4, InStream
<1>6. r.shard = current /\ r.answer = answer
  BY DEF r
<1>7. TypeOK'
  BY <1>1, <1>4 DEF TypeOK
<1>8. \A i \in 1..Len(down) : down[i][1] # "assign"
  BY <1>1 DEF OneDebt, Working
<1>9. OneDebt'
  BY <1>1, <1>2, <1>4, <1>6, <1>8 DEF OneDebt, Working
<1>10. Quiet' /\ CancelsAreDue' /\ CancelHitsItsJob'
  BY <1>1 DEF Quiet, CancelsAreDue, CancelHitsItsJob
<1>11. AnswerReady' /\ Timely'
  BY <1>1 DEF AnswerReady, Timely, Working
<1>12. ProofFirst'
  BY <1>1, <1>5, <1>6 DEF ProofFirst, AnswerReady
<1>13. RevokedEarnsNoMore'
  BY <1>1, <1>5, <1>6 DEF RevokedEarnsNoMore, Timely, Working
<1>14. DebtStep
  BY <1>1 DEF DebtStep, HasDebt, Working
<1> QED
  BY <1>7, <1>9, <1>10, <1>11, <1>12, <1>13, <1>14

(* The worker becomes free: the assignment is over, or the process is.     *)
LEMMA FreeKeeps ==
    ASSUME WorkerInv, NoRun, UNCHANGED <<serverVars, up>>,
           proofs' \in {proofs, proofs \cup {current}}, proofs' \subseteq Shards,
           errors' \in Nat, exits' \in Nat,
           \/ step = "clear" /\ UNCHANGED <<down, alive>>
           \/ alive' = FALSE /\ down' = << >>
    PROVE  WorkerInv' /\ DebtStep
<1> USE DEF WorkerInv, serverVars, linkVars, NoRun
<1>1. << >> \in Seq(Messages) /\ Len(<< >>) = 0
  BY EmptySeq
<1>2. TypeOK'
  BY <1>1 DEF TypeOK
<1>3. OneDebt' /\ Quiet'
  BY <1>1 DEF OneDebt, Quiet, Working
<1>4. CancelsAreDue' /\ CancelHitsItsJob' /\ AnswerReady'
  BY <1>1 DEF CancelsAreDue, CancelHitsItsJob, AnswerReady
<1>5. Timely' /\ RevokedEarnsNoMore' /\ ProofFirst'
  BY DEF Timely, RevokedEarnsNoMore, ProofFirst, Working
<1>6. DebtStep
  BY <1>1 DEF DebtStep, HasDebt, Working
<1> QED
  BY <1>2, <1>3, <1>4, <1>5, <1>6

(* An upload that a dying process leaves behind.                           *)
LEMMA StopKeeps ==
    ASSUME WorkerInv, Stop, exits' \in Nat
    PROVE  WorkerInv' /\ DebtStep
<1>1. proofs' \in {proofs, proofs \cup {current}} /\ proofs' \subseteq Shards /\ errors \in Nat
  BY DEF Stop, Stored, WorkerInv, TypeOK, Quiet
<1> QED
  BY <1>1, FreeKeeps DEF Stop

---------------------------------------------------------------------------
(* The receive loop.                                                       *)

(* An assignment is taken up, or ignored by a worker that is not free.     *)
LEMMA AssignmentKeeps ==
    ASSUME WorkerInv, Message("assign"), UNCHANGED <<serverVars, proofs, up, alive, bounds>>,
           \/ /\ current = None /\ current' = Head(down)[2] /\ step' = "download"
              /\ ctx' = "live" /\ answer' = "none"
           \/ UNCHANGED runVars
    PROVE  WorkerInv' /\ DebtStep
<1> USE DEF WorkerInv, serverVars, linkVars, runVars, bounds
<1>1. /\ down' \in Seq(Messages) /\ 1 \in 1..Len(down)
      /\ Head(down) = down[1] /\ down[1][1] = "assign" /\ down[1] \in Messages
      /\ \A i \in 1..Len(down') : i + 1 \in 1..Len(down) /\ i + 1 # 1 /\ down'[i] = down[i + 1]
  BY Received
<1>2. /\ down[1][2] \in Shards /\ down[1][2] = record /\ up = << >> /\ step \notin Working
      /\ \A k \in 1..Len(down) : down[k][1] = "assign" => k = 1
  BY <1>1, MessageTypes DEF OneDebt
<1>3. \A i \in 1..Len(down') : down'[i][1] # "assign"
  BY <1>1, <1>2
<1>4. TypeOK'
  BY <1>1, <1>2 DEF TypeOK, Working
<1>5. OneDebt'
  BY <1>1, <1>2, <1>3, InStream DEF OneDebt, Working
<1>6. link = "open" /\ alive
  BY <1>1, <1>2, WorkerAssumption DEF Quiet, Message
<1>7. Quiet'
  BY <1>1, <1>2, <1>6, WorkerAssumption DEF Quiet
<1>8. CancelsAreDue' /\ CancelHitsItsJob'
  BY <1>1, <1>3 DEF CancelsAreDue, CancelHitsItsJob
<1>9. AnswerReady' /\ Timely' /\ RevokedEarnsNoMore' /\ ProofFirst'
  BY DEF AnswerReady, Timely, RevokedEarnsNoMore, ProofFirst, Working
<1>10. DebtStep
  BY <1>1 DEF DebtStep, HasDebt
<1> QED
  BY <1>4, <1>5, <1>7, <1>8, <1>9, <1>10

(* A cancellation hits the assignment of its job, or nothing.              *)
LEMMA CancellationKeeps ==
    ASSUME WorkerInv, Message("cancel"),
           UNCHANGED <<serverVars, proofs, up, alive, current, step, answer, bounds>>,
           ctx' = ctx \/ (ctx' = "cancelled" /\ Targets(Head(down)[2]))
    PROVE  WorkerInv' /\ DebtStep
<1> USE DEF WorkerInv, serverVars, linkVars, bounds
<1>1. /\ down' \in Seq(Messages) /\ 1 \in 1..Len(down)
      /\ Head(down) = down[1] /\ down[1][1] = "cancel"
      /\ \A i \in 1..Len(down') : i + 1 \in 1..Len(down) /\ down'[i] = down[i + 1]
  BY Received
<1>2. down[1][2] \in completed
  BY <1>1 DEF CancelsAreDue
<1>3. TypeOK'
  BY <1>1 DEF TypeOK
<1>4. OneDebt'
  <2>1. ASSUME NEW i \in 1..Len(down'), down'[i][1] = "assign"
        PROVE  /\ down'[i][2] = record' /\ up' = << >> /\ step' \notin Working
               /\ \A k \in 1..Len(down') : down'[k][1] = "assign" => k = i
    <3>1. i \in Int /\ down[i + 1][1] = "assign" /\ i + 1 \in 1..Len(down)
      BY <1>1, <2>1
    <3>2. \A k \in 1..Len(down) : down[k][1] = "assign" => k = i + 1
      BY <3>1 DEF OneDebt
    <3>3. \A k \in 1..Len(down') : down'[k][1] = "assign" => k + 1 = i + 1
      BY <1>1, <3>2
    <3> QED
      BY <1>1, <2>1, <3>1, <3>3 DEF OneDebt
  <2> QED
    BY <2>1 DEF OneDebt
<1>5. down # << >> /\ alive
  BY DEF Message
<1>6. Quiet'
  BY <1>5 DEF Quiet
<1>7. CancelsAreDue'
  BY <1>1 DEF CancelsAreDue
<1>8. CancelHitsItsJob'
  BY <1>1, <1>2 DEF CancelHitsItsJob, Targets
<1>9. AnswerReady' /\ Timely' /\ RevokedEarnsNoMore' /\ ProofFirst'
  BY DEF AnswerReady, Timely, RevokedEarnsNoMore, ProofFirst
<1>10. DebtStep
  BY <1>1 DEF DebtStep, HasDebt
<1> QED
  BY <1>3, <1>4, <1>6, <1>7, <1>8, <1>9, <1>10

---------------------------------------------------------------------------
(* The server.                                                             *)

(* A shard is assigned: nothing was owed.                                  *)
LEMMA AssignKeeps ==
    ASSUME WorkerInv, NEW s \in Shards, Assign(s)
    PROVE  WorkerInv' /\ DebtStep
<1> USE DEF WorkerInv, runVars, bounds
<1>1. /\ link = "open" /\ record = None /\ record' = s /\ pending' = pending \ {s}
      /\ late' = IF token = "revoked" THEN late \cup {s} ELSE late
      /\ Deliver(<<"assign", s>>)
      /\ UNCHANGED <<link, token, completed, toCancel, proofs, up, alive, runVars, bounds>>
  BY DEF Assign
<1>2. ~HasDebt
  BY <1>1, DebtHasRecord, WorkerAssumption
<1>3. /\ \A i \in 1..Len(down) : down[i][1] # "assign"
      /\ step \notin Working /\ up = << >>
  BY <1>2 DEF HasDebt
<1>4. <<"assign", s>> \in Messages
  BY MessageTypes
<1>5. /\ down' \in Seq(Messages) /\ Len(down) \in Nat
      /\ \/ down' = down
         \/ /\ alive /\ Len(down') = Len(down) + 1 /\ down'[Len(down) + 1] = <<"assign", s>>
            /\ \A i \in 1..Len(down) : down'[i] = down[i]
  BY <1>1, <1>4, Delivered
<1>6. \A i \in 1..Len(down') :
         \/ i \in 1..Len(down) /\ down'[i] = down[i]
         \/ alive /\ i = Len(down) + 1 /\ down'[i] = <<"assign", s>>
  BY <1>5
<1>7. TypeOK'
  BY <1>1, <1>5 DEF TypeOK
<1>8. OneDebt'
  <2>1. \A i \in 1..Len(down') : down'[i][1] = "assign" =>
            i = Len(down) + 1 /\ down'[i][2] = s
    BY <1>3, <1>6
  <2>2. Len(up') = 0
    BY <1>1, <1>3, EmptySeq
  <2> QED
    BY <1>1, <1>3, <2>1, <2>2 DEF OneDebt
<1>9. Quiet'
  BY <1>1, <1>5 DEF Quiet, Deliver
<1>10. CancelsAreDue' /\ CancelHitsItsJob'
  BY <1>1, <1>6 DEF CancelsAreDue, CancelHitsItsJob
<1>11. AnswerReady' /\ ProofFirst'
  BY <1>1 DEF AnswerReady, ProofFirst
<1>12. Timely' /\ RevokedEarnsNoMore'
  <2>1. ToSet(up') = {}
    BY <1>1, <1>3 DEF ToSet
  <2> QED
    BY <1>1, <1>3, <2>1 DEF Timely, RevokedEarnsNoMore
<1>13. DebtStep
  BY <1>1 DEF DebtStep
<1> QED
  BY <1>7, <1>8, <1>9, <1>10, <1>11, <1>12, <1>13

(* Another worker decides a job.                                           *)
LEMMA OtherKeeps ==
    ASSUME WorkerInv, NEW j \in Jobs, OtherCompletes(j)
    PROVE  WorkerInv' /\ DebtStep
<1> USE DEF WorkerInv, linkVars, runVars, bounds
<1>1. /\ completed' = completed \cup {j} /\ toCancel' \in {toCancel, toCancel \cup {j}}
      /\ UNCHANGED <<record, linkVars, pending, proofs, down, up, alive, runVars, bounds>>
  BY DEF OtherCompletes
<1>2. TypeOK' /\ OneDebt' /\ Quiet'
  BY <1>1 DEF TypeOK, OneDebt, Quiet
<1>3. CancelsAreDue' /\ CancelHitsItsJob'
  BY <1>1 DEF CancelsAreDue, CancelHitsItsJob
<1>4. AnswerReady' /\ ProofFirst' /\ Timely' /\ RevokedEarnsNoMore'
  BY <1>1 DEF AnswerReady, ProofFirst, Timely, RevokedEarnsNoMore
<1>5. DebtStep
  BY <1>1 DEF DebtStep, HasDebt
<1> QED
  BY <1>2, <1>3, <1>4, <1>5

(* A cancellation is sent, late or not.                                    *)
LEMMA SendCancelKeeps ==
    ASSUME WorkerInv, NEW j \in Jobs, SendCancel(j)
    PROVE  WorkerInv' /\ DebtStep
<1> USE DEF WorkerInv, linkVars, runVars, bounds
<1>1. /\ link = "open" /\ j \in completed /\ toCancel' = toCancel \ {j} /\ Deliver(<<"cancel", j>>)
      /\ UNCHANGED <<record, linkVars, pending, completed, proofs, up, alive, runVars, bounds>>
  BY DEF SendCancel, CancelsAreDue
<1>2. <<"cancel", j>> \in Messages
  BY MessageTypes
<1>3. /\ down' \in Seq(Messages) /\ Len(down) \in Nat
      /\ \/ down' = down
         \/ /\ alive /\ Len(down') = Len(down) + 1 /\ down'[Len(down) + 1] = <<"cancel", j>>
            /\ \A i \in 1..Len(down) : down'[i] = down[i]
  BY <1>1, <1>2, Delivered
<1>4. \A i \in 1..Len(down') :
         \/ i \in 1..Len(down) /\ down'[i] = down[i]
         \/ i = Len(down) + 1 /\ down'[i] = <<"cancel", j>>
  BY <1>3
<1>5. \A i \in 1..Len(down') : down'[i][1] = "assign" => i \in 1..Len(down) /\ down'[i] = down[i]
  BY <1>4
<1>6. TypeOK'
  BY <1>1, <1>3 DEF TypeOK
<1>7. OneDebt'
  BY <1>1, <1>5 DEF OneDebt
<1>8. Quiet'
  BY <1>1 DEF Quiet, Deliver
<1>9. CancelsAreDue' /\ CancelHitsItsJob'
  BY <1>1, <1>4 DEF CancelsAreDue, CancelHitsItsJob
<1>10. AnswerReady' /\ ProofFirst' /\ Timely' /\ RevokedEarnsNoMore'
  BY <1>1 DEF AnswerReady, ProofFirst, Timely, RevokedEarnsNoMore
<1>11. DebtStep
  BY <1>1, <1>5 DEF DebtStep, HasDebt
<1> QED
  BY <1>6, <1>7, <1>8, <1>9, <1>10, <1>11

(* A result is read: it was the only one, and the record is cleared.       *)
LEMMA ResultKeeps ==
    ASSUME WorkerInv, RecvResult
    PROVE  WorkerInv' /\ DebtStep
<1> USE DEF WorkerInv, linkVars, runVars, bounds
<1>1. /\ link = "open" /\ up # << >> /\ up' = Tail(up) /\ record' = None
      /\ UNCHANGED <<linkVars, toCancel, proofs, down, alive, runVars, bounds>>
  BY DEF RecvResult
<1>2. up \in Seq(Results) /\ Len(up) \in Nat \ {0} /\ Head(up) = up[1] /\ up[1] \in Results
  BY <1>1, InStream, EmptySeq, ElementOfSeq DEF TypeOK
<1>3. Head(up).shard \in Shards /\ JobOf[Head(up).shard] \in Jobs
  BY <1>2, WorkerAssumption DEF Results
<1>4. completed' \subseteq Jobs /\ completed \subseteq completed' /\ pending' \subseteq Shards
  <2>1. completed' = completed \/ completed' = completed \cup {JobOf[Head(up).shard]}
    BY DEF RecvResult
  <2>2. pending' = pending \/ pending' = pending \cup {Head(up).shard}
    BY DEF RecvResult
  <2> QED
    BY <1>3, <2>1, <2>2 DEF TypeOK
<1>5. up' \in Seq(Results) /\ Len(up') = 0
  <2>1. up' \in Seq(Results) /\ Len(up') = Len(up) - 1
    BY <1>1, HeadTailProperties DEF TypeOK
  <2>2. \A i \in 1..Len(up) : i = 1
    BY DEF OneDebt
  <2>3. Len(up) = 1
    <3>1. Len(up) \in 1..Len(up)
      BY <1>2
    <3> QED
      BY <2>2, <3>1
  <2> QED
    BY <2>1, <2>3
<1>6. up' = << >> /\ ToSet(up') = {}
  <2>1. up' = << >>
    BY <1>5, EmptySeq
  <2> QED
    BY <2>1 DEF ToSet
<1>7. (\A i \in 1..Len(down) : down[i][1] # "assign") /\ step \notin Working
  BY <1>1 DEF OneDebt
<1>8. TypeOK'
  BY <1>1, <1>4, <1>5 DEF TypeOK
<1>9. OneDebt' /\ Quiet'
  BY <1>1, <1>5, <1>6, <1>7 DEF OneDebt, Quiet
<1>10. CancelsAreDue' /\ CancelHitsItsJob'
  BY <1>1, <1>4 DEF CancelsAreDue, CancelHitsItsJob
<1>11. AnswerReady' /\ ProofFirst' /\ Timely' /\ RevokedEarnsNoMore'
  BY <1>1, <1>6 DEF AnswerReady, ProofFirst, Timely, RevokedEarnsNoMore
<1> QED
  BY <1>1, <1>8, <1>9, <1>10, <1>11 DEF DebtStep

(* The stream ends, when the worker is already gone.                       *)
LEMMA BreakKeeps ==
    ASSUME WorkerInv, SeeBreak
    PROVE  WorkerInv' /\ DebtStep
<1> USE DEF WorkerInv, linkVars, runVars, bounds
<1>1. /\ ~alive /\ link' = "closed" /\ up' = << >> /\ toCancel' = {} /\ record' = None
      /\ pending' = IF record = None THEN pending ELSE pending \cup {record}
      /\ UNCHANGED <<token, late, completed, proofs, down, alive, runVars, bounds>>
  BY DEF SeeBreak
<1>2. down = << >> /\ step = "none" /\ Len(down) = 0 /\ up' \in Seq(Results) /\ Len(up') = 0
  BY <1>1, EmptySeq DEF Quiet
<1>3. TypeOK'
  BY <1>1, <1>2 DEF TypeOK
<1>4. OneDebt' /\ Quiet' /\ CancelsAreDue' /\ CancelHitsItsJob'
  BY <1>1, <1>2 DEF OneDebt, Quiet, CancelsAreDue, CancelHitsItsJob, Working
<1>5. ToSet(up') = {}
  BY <1>1 DEF ToSet
<1>6. AnswerReady' /\ ProofFirst' /\ Timely' /\ RevokedEarnsNoMore'
  BY <1>1, <1>5 DEF AnswerReady, ProofFirst, Timely, RevokedEarnsNoMore
<1> QED
  BY <1>1, <1>3, <1>4, <1>6 DEF DebtStep

(* Streams are opened, admitted and registered; tokens are revoked.        *)
LEMMA LinkKeeps ==
    ASSUME WorkerInv, AuthStream \/ Register \/ Start \/ Revoke
    PROVE  WorkerInv' /\ DebtStep
<1> USE DEF WorkerInv, runVars, bounds
<1>1. /\ UNCHANGED <<record, late, pending, completed, toCancel, proofs, down, up, runVars, bounds>>
      /\ link' \in {"closed", "opening", "known", "open"} /\ alive' \in BOOLEAN
      /\ token' \in {token, "revoked"}
      /\ \/ link # "open"
         \/ link' = link /\ alive' = alive
  BY DEF AuthStream, Register, Start, Revoke, TypeOK
<1>2. TypeOK'
  BY <1>1 DEF TypeOK
<1>3. OneDebt' /\ Quiet' /\ CancelsAreDue' /\ CancelHitsItsJob'
  BY <1>1 DEF OneDebt, Quiet, CancelsAreDue, CancelHitsItsJob
<1>4. AnswerReady' /\ ProofFirst' /\ Timely' /\ RevokedEarnsNoMore'
  BY <1>1 DEF AnswerReady, ProofFirst, Timely, RevokedEarnsNoMore
<1>5. DebtStep
  BY <1>1 DEF DebtStep, HasDebt
<1> QED
  BY <1>2, <1>3, <1>4, <1>5

---------------------------------------------------------------------------
(* Every step of either program and of the server keeps the invariant.     *)
LEMMA WorkerStep == WorkerInv /\ [TestNext]_allVars => WorkerInv' /\ DebtStep
<1> SUFFICES ASSUME WorkerInv, [TestNext]_allVars PROVE WorkerInv' /\ DebtStep
  OBVIOUS
<1>1. CASE UNCHANGED vars
  BY <1>1 DEF vars, serverVars, linkVars, runVars, bounds, WorkerInv, TypeOK, OneDebt, Quiet,
     CancelsAreDue, CancelHitsItsJob, AnswerReady, ProofFirst, Timely, RevokedEarnsNoMore,
     DebtStep, HasDebt
<1>2. CASE Server \/ Start
  BY <1>2, AssignKeeps, OtherKeeps, SendCancelKeeps, ResultKeeps, BreakKeeps, LinkKeeps DEF Server
<1>3. CASE StartJob \/ RecvAssign
  BY <1>3, AssignmentKeeps DEF StartJob, RecvAssign, Free, Idle, WorkerInv, Quiet
<1>4. CASE CancelJob \/ LogCancel
  BY <1>4, CancellationKeeps DEF CancelJob, LogCancel, runVars
<1>5. CASE Exit \/ ExecuteCrash
  BY <1>5, StopKeeps DEF Exit, ExecuteCrash, WorkerInv, TypeOK
<1>6. CASE Clear \/ Return
  <2>1. proofs \subseteq Shards /\ errors \in Nat /\ exits \in Nat
    BY DEF WorkerInv, TypeOK
  <2> QED
    BY <1>6, <2>1, FreeKeeps DEF Clear, Return, bounds
<1>7. CASE Run \/ Fail
  BY <1>6, <1>7, RunKeeps, SendKeeps DEF Run
<1>8. CASE TestRun
  BY <1>6, <1>8, TestRunKeeps, RunKeeps, SendKeeps DEF TestRun, Same
<1> QED
  BY <1>1, <1>2, <1>3, <1>4, <1>5, <1>7, <1>8
     DEF TestNext, TestProgram, WorkerProgram, Die, allVars

(* The inductive invariant of a worker and its stream.                     *)
THEOREM WorkerInductive == TestSpec => []WorkerInv
<1>1. TestInit => WorkerInv
  <2> SUFFICES ASSUME Init PROVE WorkerInv
    BY DEF TestInit
  <2>1. /\ << >> \in Seq(Messages) /\ << >> \in Seq(Results) /\ Len(<< >>) = 0 /\ ToSet(<< >>) = {}
    BY EmptySeq DEF ToSet
  <2>2. TypeOK
    BY <2>1 DEF Init, TypeOK
  <2> QED
    BY <2>1, <2>2 DEF Init, WorkerInv, OneDebt, Quiet, CancelsAreDue, CancelHitsItsJob, AnswerReady,
       ProofFirst, Timely, RevokedEarnsNoMore, Working
<1>2. WorkerInv /\ [TestNext]_allVars => WorkerInv'
  BY WorkerStep
<1> QED
  BY <1>1, <1>2, PTL DEF TestSpec

(* Every variable of a worker and its stream keeps its type.               *)
THEOREM WorkerTypeCorrect == TestSpec => []TypeOK
<1>1. WorkerInv => TypeOK
  BY DEF WorkerInv
<1> QED
  BY <1>1, WorkerInductive, PTL

(* A CancelJob never hits the shard of another job, however late it is.    *)
THEOREM LateCancelsMiss == TestSpec => []CancelHitsItsJob
<1>1. WorkerInv => CancelHitsItsJob
  BY DEF WorkerInv
<1> QED
  BY <1>1, WorkerInductive, PTL

(* An UNSAT answer is in the stream only when its proof is on the server.  *)
THEOREM ProofsComeFirst == TestSpec => []ProofFirst
<1>1. WorkerInv => ProofFirst
  BY DEF WorkerInv
<1> QED
  BY <1>1, WorkerInductive, PTL

(* After its revocation a token earns for no shard assigned since.         *)
THEOREM RevokedTokensEarnNothing == TestSpec => []RevokedEarnsNoMore
<1>1. WorkerInv => RevokedEarnsNoMore
  BY DEF WorkerInv
<1> QED
  BY <1>1, WorkerInductive, PTL

---------------------------------------------------------------------------
(* The interface to the scheduler.                                         *)

(* What is owed is the shard on record, or nothing.                        *)
LEMMA DebtIsForAShard == WorkerInv /\ HasDebt => record \in Shards
BY DebtHasRecord DEF WorkerInv

(* So the abstract worker owes one shard or none.                        *)
LEMMA OwedIsRecord ==
    ASSUME WorkerInv
    PROVE  Owed = IF HasDebt THEN {record} ELSE {}
<1> USE DEF WorkerInv
<1>1. /\ down \in Seq(Messages) /\ ToSet(down) = {down[i] : i \in 1..Len(down)}
      /\ \A i \in 1..Len(down) : down[i] \in Messages
  BY LenProperties, ElementOfSeq DEF TypeOK, ToSet
<1>2. ToSet(up) = {up[i] : i \in 1..Len(up)} /\ Len(up) \in Nat /\ (up = << >> <=> Len(up) = 0)
  BY InStream DEF TypeOK
<1>3. Owed \subseteq {record}
  BY <1>1, <1>2, MessageTypes DEF Owed, OneDebt
<1>4. ASSUME HasDebt PROVE record \in Owed
  <2>1. record \in Shards
    BY <1>4, DebtHasRecord
  <2>2. CASE \E i \in 1..Len(down) : down[i][1] = "assign"
    <3>1. PICK i \in 1..Len(down) : down[i][1] = "assign"
      BY <2>2
    <3>2. down[i] = <<"assign", record>>
      BY <1>1, <3>1, MessageTypes DEF OneDebt
    <3> QED
      BY <1>1, <2>1, <3>2 DEF Owed
  <2>3. CASE step \in Working
    BY <2>3 DEF OneDebt, Owed
  <2>4. CASE up # << >>
    <3>1. 1 \in 1..Len(up)
      BY <1>2, <2>4
    <3> QED
      BY <1>2, <3>1 DEF OneDebt, Owed
  <2> QED
    BY <1>4, <2>2, <2>3, <2>4 DEF HasDebt
<1>5. ASSUME ~HasDebt PROVE Owed = {}
  BY <1>1, <1>2, <1>5 DEF HasDebt, Owed
<1> QED
  BY <1>3, <1>4, <1>5

(* A worker with its messages, goroutine, cancellations and errors is, to  *)
(* the scheduler, what Owing says: Scheduler relies on the same interface. *)
THEOREM WorkerKeepsContract == TestSpec => ImplementsOwing
<1>1. TestInit => Contract!Init
  <2> SUFFICES ASSUME Init PROVE Contract!Init
    BY DEF TestInit
  <2>1. ToSet(<< >>) = {}
    BY DEF ToSet
  <2> QED
    BY <2>1 DEF Init, Contract!Init, Owed, Working
<1>2. WorkerInv /\ [TestNext]_allVars => [Contract!Next]_Contract!owingVars
  <2> SUFFICES ASSUME WorkerInv, [TestNext]_allVars
               PROVE  Contract!Next \/ UNCHANGED Contract!owingVars
    OBVIOUS
  <2>1. WorkerInv' /\ DebtStep
    BY WorkerStep
  <2>2. Owed = IF HasDebt THEN {record} ELSE {}
    BY OwedIsRecord
  <2>3. (Owed = IF HasDebt THEN {record} ELSE {})'
    BY <2>1, OwedIsRecord, PTL
  <2>4. (HasDebt => record \in Shards)'
    BY <2>1, DebtIsForAShard, PTL
  <2>5. HasDebt => record \in Shards
    BY DebtIsForAShard
  <2>6. CASE record' = record /\ HasDebt /\ HasDebt'
    BY <2>2, <2>3, <2>6 DEF Contract!owingVars
  <2>7. CASE record' = record /\ HasDebt /\ ~HasDebt'
    <3>1. Contract!Drop(record)
      BY <2>2, <2>3, <2>7 DEF Contract!Drop
    <3> QED
      BY <2>5, <2>7, <3>1 DEF Contract!Next
  <2>10. CASE record' = record /\ ~HasDebt /\ ~HasDebt'
    BY <2>2, <2>3, <2>10 DEF Contract!owingVars
  <2>8. CASE record = None /\ record' \in Shards
    <3>1. ~HasDebt
      BY <2>5, <2>8, WorkerAssumption
    <3>2. Contract!Assign(record')
      BY <2>2, <2>3, <2>8, <3>1 DEF Contract!Assign
    <3> QED
      BY <2>8, <3>2 DEF Contract!Next
  <2>9. CASE record' = None
    <3>1. ~HasDebt'
      BY <2>4, <2>9, WorkerAssumption
    <3> QED
      BY <2>3, <2>9, <3>1 DEF Contract!Release, Contract!Next
  <2> QED
    BY <2>1, <2>6, <2>7, <2>8, <2>9, <2>10 DEF DebtStep
<1> QED
  BY <1>1, <1>2, WorkerInductive, PTL DEF TestSpec, ImplementsOwing, Contract!Spec

---------------------------------------------------------------------------
(* Whatever implements the interface owes an answer for the recorded shard *)
(* or for none: HandleJobResult may clear workerShard for any result.      *)
THEOREM AnswersMatchRecord == Contract!Spec => []Contract!OwesTheRecord
<1> USE WorkerAssumption
<1> DEFINE Inv == Contract!OwesTheRecord /\ Owed \subseteq Shards
<1>1. Contract!Init => Inv
  BY DEF Contract!Init, Contract!OwesTheRecord
<1>2. Inv /\ [Contract!Next]_Contract!owingVars => Inv'
  <2> SUFFICES ASSUME Inv, [Contract!Next]_Contract!owingVars PROVE Inv'
    OBVIOUS
  <2> HIDE DEF Owed
  <2>1. ASSUME NEW s \in Shards, Contract!Assign(s) PROVE Inv'
    <3>1. Owed = {}
      BY <2>1 DEF Contract!Assign, Contract!OwesTheRecord
    <3> QED
      BY <2>1, <3>1 DEF Contract!Assign, Contract!OwesTheRecord
  <2>2. ASSUME NEW s \in Shards, Contract!Answer(s) PROVE Inv'
    BY <2>2 DEF Contract!Answer, Contract!OwesTheRecord
  <2>3. ASSUME NEW s \in Shards, Contract!Drop(s) PROVE Inv'
    BY <2>3 DEF Contract!Drop, Contract!OwesTheRecord
  <2>4. CASE Contract!Release \/ UNCHANGED Contract!owingVars
    BY <2>4 DEF Contract!Release, Contract!owingVars, Contract!OwesTheRecord
  <2> QED
    BY <2>1, <2>2, <2>3, <2>4 DEF Contract!Next
<1> QED
  BY <1>1, <1>2, PTL DEF Contract!Spec

(* So does the worker, with everything that is under way on its stream.    *)
THEOREM WorkerOwesTheRecord == TestSpec => []Contract!OwesTheRecord
BY WorkerKeepsContract, AnswersMatchRecord, PTL DEF ImplementsOwing
=============================================================================
