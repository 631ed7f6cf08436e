--------------------------- MODULE LedgerProofs ----------------------------
(***************************************************************************)
(* Proofs about Ledger, for every set of users, workers, jobs, shards and  *)
(* sessions and every amount.                                              *)
(*                                                                         *)
(* TxInv says of each session what it has done so far: its uncommitted     *)
(* updates are those of the statements it is past, it holds the row locks  *)
(* they need, and the balance it debits still covers the amount, because   *)
(* nobody else can change a locked row.  With it every Commit is a posting *)
(* of Bank and every other step leaves Bank's variables alone.             *)
(***************************************************************************)
EXTENDS Ledger, Counting

---------------------------------------------------------------------------
(* Amounts.                                                                *)

(* uploadCostSatc rounds size * perKB / 1024 up and never returns less.    *)
LEMMA UploadCostRoundsUp ==
    ASSUME NEW size \in Nat
    PROVE  /\ UploadCost(size) \in Nat
           /\ size > 0 => /\ 1024 * UploadCost(size) >= size * perKB
                          /\ 1024 * UploadCost(size) < size * perKB + 1024
<1> DEFINE cost == size * perKB
<1>1. cost \in Nat
  BY LedgerAssumption
<1>2. ASSUME NEW n \in Nat
      PROVE  /\ (n + 1023) \div 1024 \in Nat
             /\ 1024 * ((n + 1023) \div 1024) >= n
             /\ 1024 * ((n + 1023) \div 1024) < n + 1024
  BY Z3
<1> QED
  BY <1>1, <1>2 DEF UploadCost

(* All amounts that are moved are natural numbers.                         *)
LEMMA AmountsAreNat ==
    /\ \A j \in Jobs : UploadCost(SizeOf[j]) \in Nat /\ RewardFor(j) \in Nat
    /\ MovedAmounts \subseteq Nat
<1>1. ASSUME NEW j \in Jobs PROVE UploadCost(SizeOf[j]) \in Nat
  BY UploadCostRoundsUp, LedgerAssumption
<1>2. ASSUME NEW j \in Jobs PROVE RewardFor(j) \in Nat
  <2>1. VarsOf[j] \in Nat /\ ClausesOf[j] \in Nat
    BY LedgerAssumption
  <2>2. VarsOf[j] * rewardPerVarSatc \in Nat /\ ClausesOf[j] * rewardPerClauseSatc \in Nat
    BY <2>1, LedgerAssumption
  <2> QED
    BY <2>2 DEF RewardFor
<1> QED
  BY <1>1, <1>2, LedgerAssumption DEF MovedAmounts

(* The handlers begin only such transactions.                              *)
LEMMA HandlersBeginGoodOps ==
    /\ \A u \in Users : /\ GoodOp(Change("deposit", Nobody, u, depositSatc))
                        /\ GoodOp(Change("withdraw", Nobody, u, -withdrawSatc))
    /\ \A j \in Jobs : GoodOp(Change("upload_cnf", j, ClientOf[j], -UploadCost(SizeOf[j])))
    /\ \A s \in Shards, w \in Workers :
          LET j == JobOf[s] IN
          /\ GoodOp(Change("worker_penalty", s, UserOf[w], -workerPenaltySatc))
          /\ GoodOp(Transfer("worker_reward", s, ClientOf[j], UserOf[w], RewardFor(j)))
<1> USE LedgerAssumption DEF GoodOp, Ops, Kinds, MovedAmounts
<1>1. ASSUME NEW u \in Users
      PROVE  /\ GoodOp(Change("deposit", Nobody, u, depositSatc))
             /\ GoodOp(Change("withdraw", Nobody, u, -withdrawSatc))
  BY DEF Change
<1>2. ASSUME NEW j \in Jobs
      PROVE  GoodOp(Change("upload_cnf", j, ClientOf[j], -UploadCost(SizeOf[j])))
  <2>1. UploadCost(SizeOf[j]) \in Nat /\ ClientOf[j] \in Users
    BY AmountsAreNat
  <2> QED
    BY <2>1 DEF Change
<1>3. ASSUME NEW s \in Shards, NEW w \in Workers
      PROVE  LET j == JobOf[s] IN
             /\ GoodOp(Change("worker_penalty", s, UserOf[w], -workerPenaltySatc))
             /\ GoodOp(Transfer("worker_reward", s, ClientOf[j], UserOf[w], RewardFor(j)))
  <2> DEFINE j == JobOf[s]
  <2>1. /\ j \in Jobs /\ RewardFor(j) \in Nat
        /\ ClientOf[j] \in Users /\ UserOf[w] \in Users
    BY AmountsAreNat
  <2> QED
    BY <2>1 DEF Change, Transfer
<1> QED
  BY <1>1, <1>2, <1>3

---------------------------------------------------------------------------
(* Types.                                                                  *)

(* The initial state is well typed.                                        *)
LEMMA InitType == Init => TypeOK
BY LedgerAssumption DEF Init, TypeOK, Zero, NoOp, Ops, Kinds

(* Starting a good transaction keeps the sessions' types.                  *)
LEMMA BeginType ==
    ASSUME TypeOK, NEW t \in Txs, NEW o, GoodOp(o), Begin(t, o)
    PROVE  /\ st' \in [Txs -> {"idle", "debit", "credit", "insert", "commit"}]
           /\ op' \in [Txs -> Ops]
           /\ upd' \in [Txs -> [Users -> Int]] /\ ins' \in [Txs -> [Users -> Int]]
           /\ lock' \in [Users -> Txs \cup {Nobody}]
BY DEF TypeOK, GoodOp, Begin

(* So does an UPDATE of a users row.                                       *)
LEMMA WriteType ==
    ASSUME TypeOK, NEW t \in Txs, NEW u \in Users, NEW delta \in Int,
           NEW next \in {"credit", "insert"}, Write(t, u, delta, next)
    PROVE  /\ st' \in [Txs -> {"idle", "debit", "credit", "insert", "commit"}]
           /\ op' \in [Txs -> Ops]
           /\ upd' \in [Txs -> [Users -> Int]] /\ ins' \in [Txs -> [Users -> Int]]
           /\ lock' \in [Users -> Txs \cup {Nobody}]
<1>1. upd[t][u] + delta \in Int
  BY DEF TypeOK
<1> QED
  BY <1>1 DEF TypeOK, Write

(* The end of a transaction, with what its handler does then.              *)
LEMMA EndType ==
    ASSUME TypeOK, NEW t \in Txs, NEW ok \in BOOLEAN, End(t), Continue(op[t], ok)
    PROVE  /\ st' \in [Txs -> {"idle", "debit", "credit", "insert", "commit"}]
           /\ op' \in [Txs -> Ops]
           /\ upd' \in [Txs -> [Users -> Int]] /\ ins' \in [Txs -> [Users -> Int]]
           /\ lock' \in [Users -> Txs \cup {Nobody}]
           /\ stage' \in [Jobs -> {"new", "billing", "charged", "rejected", "dropped",
                                   "farmed"}]
           /\ shard' \in [Shards -> {"none", "queued", "running", "judging", "done"}]
           /\ lease' \in [Shards -> Workers \cup {Nobody}]
           /\ reward' \in [Shards -> {"none", "due", "paying", "paid", "lost"}]
           /\ online' \subseteq Workers
<1>1. NoOp \in Ops
  BY DEF NoOp, Ops
<1>2. Zero \in [Users -> Int]
  BY DEF Zero
<1>3. lock' \in [Users -> Txs \cup {Nobody}]
  BY DEF TypeOK, End, Released
<1>4. /\ st' \in [Txs -> {"idle", "debit", "credit", "insert", "commit"}]
      /\ op' \in [Txs -> Ops]
      /\ upd' \in [Txs -> [Users -> Int]] /\ ins' \in [Txs -> [Users -> Int]]
  BY <1>1, <1>2 DEF TypeOK, End
<1>5. stage' \in [Jobs -> {"new", "billing", "charged", "rejected", "dropped", "farmed"}]
  BY DEF TypeOK, Continue, Billed
<1>6. /\ shard' \in [Shards -> {"none", "queued", "running", "judging", "done"}]
      /\ lease' \in [Shards -> Workers \cup {Nobody}]
      /\ reward' \in [Shards -> {"none", "due", "paying", "paid", "lost"}]
      /\ online' \subseteq Workers
  BY DEF TypeOK, Continue
<1> QED
  BY <1>3, <1>4, <1>5, <1>6

(* Every step keeps the types.                                             *)
LEMMA TypeNext == TypeOK /\ TxInv /\ [Next]_vars => TypeOK'
<1> SUFFICES ASSUME TypeOK, TxInv, [Next]_vars PROVE TypeOK'
  OBVIOUS
<1> USE DEF dbVars, farmVars, histVars
<1>1. ASSUME NEW t \in Txs, Debit(t) PROVE TypeOK'
  <2>1. op[t].from \in Users /\ -op[t].amount \in Int
    BY <1>1 DEF Debit, TxInv, Session, TypeOK, Ops
  <2> QED
    BY <1>1, <2>1, WriteType DEF Debit, TypeOK
<1>2. ASSUME NEW t \in Txs, Credit(t) PROVE TypeOK'
  <2>1. op[t].to \in Users /\ op[t].amount \in Int
    BY <1>2 DEF Credit, TxInv, Session, TypeOK, Ops
  <2> QED
    BY <1>2, <2>1, WriteType DEF Credit, TypeOK
<1>3. ASSUME NEW t \in Txs, InsertRows(t) PROVE TypeOK'
  <2>1. op[t].amount \in Nat
    BY DEF TypeOK, Ops
  <2>2. Entries(op[t]) \in [Users -> Int]
    BY <2>1 DEF Entries
  <2> QED
    BY <1>3, <2>2 DEF InsertRows, TypeOK
<1>4. ASSUME NEW t \in Txs, Commit(t) PROVE TypeOK'
  <2>1. op[t].amount \in Nat
    BY DEF TypeOK, Ops
  <2>2. balance' \in [Users -> Int] /\ booked' \in [Users -> Int]
    BY <1>4 DEF Commit, TypeOK, NewBalance
  <2>3. moved' \in [Kinds -> Nat] /\ fees' \in [Jobs -> Nat]
    <3>1. moved[op[t].kind] + op[t].amount \in Nat
      BY <1>4, <2>1 DEF Commit, TxInv, Session, GoodOp, TypeOK
    <3>2. CASE op[t].kind = "upload_cnf"
      BY <1>4, <3>1, <3>2 DEF Commit, TypeOK, TxInv, Session, GoodOp
    <3>3. CASE op[t].kind # "upload_cnf"
      BY <1>4, <3>1, <3>3 DEF Commit, TypeOK
    <3> QED
      BY <3>2, <3>3
  <2>4. End(t) /\ Continue(op[t], TRUE)
        /\ UNCHANGED <<wallet, bad, faults>>
    BY <1>4 DEF Commit
  <2> QED
    BY <2>2, <2>3, <2>4, EndType DEF TypeOK
<1>5. ASSUME NEW t \in Txs, Insufficient(t) \/ TxFails(t) \/ DeadlockVictim(t)
      PROVE  TypeOK'
  <2>1. CASE Insufficient(t)
    BY <2>1, EndType DEF Insufficient, TypeOK
  <2>2. CASE TxFails(t)
    <3>1. /\ End(t) /\ Continue(op[t], FALSE)
          /\ UNCHANGED <<balance, booked, moved, fees, wallet, bad>>
      BY <2>2 DEF TxFails
    <3>2. faults' \in Nat
      BY <2>2 DEF TxFails, TypeOK
    <3> QED
      BY <3>1, <3>2, EndType DEF TypeOK
  <2>3. CASE DeadlockVictim(t)
    <3>1. /\ End(t) /\ Continue(op[t], FALSE)
          /\ UNCHANGED <<balance, booked, moved, fees, wallet, bad, faults>>
      BY <2>3 DEF DeadlockVictim
    <3> QED
      BY <3>1, EndType DEF TypeOK
  <2> QED
    BY <1>5, <2>1, <2>2, <2>3
<1>6. ASSUME NEW t \in Txs, NEW u \in Users, HandleDeposit(t, u) \/ HandleWithdraw(t, u)
      PROVE  TypeOK'
  BY <1>6, BeginType, HandlersBeginGoodOps DEF HandleDeposit, HandleWithdraw, TypeOK
<1>7. ASSUME NEW t \in Txs, NEW j \in Jobs, HandleCreateJob(t, j) PROVE TypeOK'
  BY <1>7, BeginType, HandlersBeginGoodOps DEF HandleCreateJob, TypeOK
<1>8. ASSUME NEW t \in Txs, NEW s \in Shards, NEW w \in Workers, BadResult(t, w, s)
      PROVE  TypeOK'
  BY <1>8, BeginType, HandlersBeginGoodOps DEF BadResult, TypeOK
<1>9. ASSUME NEW j \in Jobs, InsertJob(j) \/ InsertJobFails(j)
      PROVE  TypeOK'
  <2>1. CASE InsertJob(j)
    BY <2>1 DEF InsertJob, TypeOK, txVars
  <2>2. CASE InsertJobFails(j)
    BY <2>2 DEF InsertJobFails, TypeOK, txVars
  <2> QED
    BY <1>9, <2>1, <2>2
<1>10. ASSUME NEW s \in Shards, NoWorkerConn(s) \/ \E t \in Txs : RewardWorkerForJob(t, s)
       PROVE  TypeOK'
  <2>1. CASE NoWorkerConn(s)
    BY <2>1 DEF NoWorkerConn, TypeOK, txVars
  <2>2. ASSUME NEW t \in Txs, RewardWorkerForJob(t, s) PROVE TypeOK'
    <3>1. lease[s] \in Workers
      BY <2>2 DEF RewardWorkerForJob, TypeOK
    <3> QED
      BY <2>2, <3>1, BeginType, HandlersBeginGoodOps DEF RewardWorkerForJob, TypeOK
  <2> QED
    BY <1>10, <2>1, <2>2
<1>11. ASSUME NEW s \in Shards, NEW w \in Workers, MaybeAssignWork(w, s) \/ GoodResult(w, s)
       PROVE  TypeOK'
  BY <1>11 DEF MaybeAssignWork, GoodResult, TypeOK, txVars
<1>12. ASSUME NEW w \in Workers, Disconnect(w) PROVE TypeOK'
  BY <1>12 DEF Disconnect, TypeOK, txVars
<1>13. CASE UNCHANGED vars
  BY <1>13 DEF vars, txVars, TypeOK
<1> QED
  BY <1>1, <1>2, <1>3, <1>4, <1>5, <1>6, <1>7, <1>8, <1>9, <1>10, <1>11, <1>12, <1>13
  DEF Next, Statement, Payout

---------------------------------------------------------------------------
(* Sessions.                                                               *)

(* No session has begun.                                                   *)
LEMMA InitSessions == Init => TxInv /\ JobInv /\ NoOverdraft /\ FeeForJob
BY DEF Init, TxInv, Session, Done, JobInv, OneSession, Runs, NoOverdraft,
       FeeForJob, Zero

(* A session does not notice what leaves its own statements, the rows it   *)
(* has locked and their balances alone.                                    *)
LEMMA OtherSession ==
    ASSUME NEW t \in Txs, Session(t),
           st'[t] = st[t], op'[t] = op[t], upd'[t] = upd[t], ins'[t] = ins[t],
           \A u \in Users : lock[u] = t => lock'[u] = t /\ balance'[u] = balance[u]
    PROVE  Session(t)'
BY DEF Session, GoodOp, Done

(* Starting a transaction touches no other.                                *)
LEMMA BeginSession ==
    ASSUME TypeOK, TxInv, NEW t \in Txs, NEW o, GoodOp(o), Begin(t, o), UNCHANGED dbVars
    PROVE  TxInv'
<1>1. ASSUME NEW d \in Txs, d # t PROVE Session(d)'
  BY <1>1, OtherSession DEF TypeOK, TxInv, Begin, dbVars
<1>2. /\ st'[t] = IF o.from = Nobody THEN "credit" ELSE "debit"
      /\ op'[t] = o /\ upd'[t] = Zero /\ ins'[t] = Zero
  BY DEF TypeOK, TxInv, Session, Begin, Done
<1>3. o.from = Nobody => Entries([o EXCEPT !.to = Nobody]) = Zero
  BY LedgerAssumption DEF Entries, Zero, GoodOp, Ops
<1>4. Session(t)'
  BY <1>2, <1>3, LedgerAssumption DEF Session, GoodOp, Ops, Done
<1> QED
  BY <1>1, <1>4 DEF TxInv

(* A transaction that ends, in whatever way, gives back only its own locks.*)
LEMMA EndSession ==
    ASSUME TypeOK, TxInv, NEW t \in Txs, End(t),
           \A u \in Users : lock[u] # t => balance'[u] = balance[u]
    PROVE  TxInv'
<1>1. ASSUME NEW d \in Txs, d # t PROVE Session(d)'
  <2>1. \A u \in Users : lock[u] = d => lock'[u] = d /\ balance'[u] = balance[u]
    BY <1>1 DEF End, Released
  <2> QED
    BY <1>1, <2>1, OtherSession DEF TypeOK, TxInv, End
<1>2. st'[t] = "idle" /\ upd'[t] = Zero /\ ins'[t] = Zero
  BY DEF TypeOK, End
<1>3. Session(t)'
  BY <1>2 DEF Session, Done
<1> QED
  BY <1>1, <1>3 DEF TxInv

(* An UPDATE takes no lock that another session holds.                     *)
LEMMA WriteOthers ==
    ASSUME TypeOK, TxInv, NEW t \in Txs, NEW u \in Users, NEW delta \in Int, NEW next,
           Write(t, u, delta, next), UNCHANGED dbVars, NEW d \in Txs, d # t
    PROVE  Session(d)'
<1>1. \A v \in Users : lock[v] = d => lock'[v] = d
  BY LedgerAssumption DEF Write, Available, TypeOK
<1> QED
  BY <1>1, OtherSession DEF TypeOK, TxInv, Write, dbVars

(* A transaction at its Commit changes only rows it has locked, and none   *)
(* to a negative balance.                                                  *)
LEMMA CommitCovered ==
    ASSUME TypeOK, TxInv, NoOverdraft, NEW t \in Txs, Commit(t), NEW u \in Users
    PROVE  /\ balance'[u] = balance[u] + Entries(op[t])[u]
           /\ booked'[u] = booked[u] + Entries(op[t])[u]
           /\ lock[u] # t => balance'[u] = balance[u]
           /\ balance'[u] >= 0
<1>1. /\ upd[t] = Entries(op[t]) /\ ins[t] = Entries(op[t])
      /\ op[t].amount \in Nat
      /\ op[t].from \in Users => lock[op[t].from] = t /\ balance[op[t].from] >= op[t].amount
      /\ op[t].to \in Users => lock[op[t].to] = t
  BY DEF TypeOK, TxInv, Session, Commit, Done, Ops
<1>2. /\ balance'[u] = balance[u] + Entries(op[t])[u]
      /\ booked'[u] = booked[u] + Entries(op[t])[u]
  BY <1>1 DEF Commit, NewBalance
<1>3. balance[u] \in Int /\ balance[u] >= 0
  BY DEF TypeOK, NoOverdraft
<1>4. Entries(op[t])[u] =
        (IF u = op[t].to THEN op[t].amount ELSE 0)
            - (IF u = op[t].from THEN op[t].amount ELSE 0)
  BY DEF Entries
<1> QED
  BY <1>1, <1>2, <1>3, <1>4

(* Every step keeps what each session relies on, and no balance falls      *)
(* below zero.                                                             *)
LEMMA SessionsNext ==
    TypeOK /\ TxInv /\ NoOverdraft /\ [Next]_vars => TxInv' /\ NoOverdraft'
<1> SUFFICES ASSUME TypeOK, TxInv, NoOverdraft, [Next]_vars PROVE TxInv' /\ NoOverdraft'
  OBVIOUS
<1> USE DEF dbVars, farmVars, histVars
<1>1. ASSUME NEW t \in Txs, Debit(t) PROVE TxInv'
  <2> DEFINE u == op[t].from
             next == IF op[t].to = Nobody THEN "insert" ELSE "credit"
  <2>1. /\ u \in Users /\ op[t].amount \in Nat /\ GoodOp(op[t]) /\ op[t] \in Ops
        /\ upd[t] = Zero /\ ins[t] = Zero
    BY <1>1 DEF Debit, TypeOK, TxInv, Session, Done, Ops
  <2>2. /\ lock'[u] = t /\ upd'[t] = [Zero EXCEPT ![u] = 0 - op[t].amount]
        /\ st'[t] = next /\ op'[t] = op[t] /\ ins'[t] = Zero
    BY <1>1, <2>1 DEF Debit, Write, TypeOK, Zero
  <2>3. balance' = balance /\ balance[u] >= op[t].amount
    BY <1>1, <2>1 DEF Debit, Covered, TypeOK, Zero
  <2>4. upd'[t] = Entries([op[t] EXCEPT !.to = Nobody])
    BY <2>1, <2>2, LedgerAssumption DEF Entries, Zero, Ops
  <2>5. op[t].to = Nobody => upd'[t] = Entries(op[t])
    BY <2>1, <2>2, LedgerAssumption DEF Entries, Zero, Ops
  <2>6. op[t].to # Nobody => op[t].to \in Users
    BY <2>1 DEF Ops
  <2>7. Session(t)'
    BY <2>1, <2>2, <2>3, <2>4, <2>5, <2>6, LedgerAssumption DEF Session, Done, GoodOp
  <2>8. ASSUME NEW d \in Txs, d # t PROVE Session(d)'
    BY <1>1, <2>1, <2>8, WriteOthers DEF Debit
  <2> QED
    BY <2>7, <2>8 DEF TxInv
<1>2. ASSUME NEW t \in Txs, Credit(t) PROVE TxInv'
  <2> DEFINE u == op[t].to
  <2>1. /\ u \in Users /\ op[t].amount \in Nat /\ GoodOp(op[t]) /\ op[t] \in Ops
        /\ upd[t] = Entries([op[t] EXCEPT !.to = Nobody]) /\ ins[t] = Zero
        /\ op[t].from \in Users =>
              lock[op[t].from] = t /\ balance[op[t].from] >= op[t].amount
    BY <1>2 DEF Credit, TypeOK, TxInv, Session, Done, Ops
  <2>2. /\ lock' = [lock EXCEPT ![u] = t]
        /\ upd'[t] = [upd[t] EXCEPT ![u] = @ + op[t].amount]
        /\ st'[t] = "insert" /\ op'[t] = op[t] /\ ins'[t] = Zero /\ balance' = balance
    BY <1>2, <2>1 DEF Credit, Write, TypeOK
  <2>3. upd'[t] = Entries(op[t])
    BY <2>1, <2>2, LedgerAssumption DEF Entries, Ops
  <2>4. lock'[u] = t /\ (op[t].from \in Users => lock'[op[t].from] = t)
    BY <2>1, <2>2 DEF TypeOK
  <2>5. Session(t)'
    BY <2>1, <2>2, <2>3, <2>4 DEF Session, Done, GoodOp
  <2>6. ASSUME NEW d \in Txs, d # t PROVE Session(d)'
    BY <1>2, <2>1, <2>6, WriteOthers DEF Credit
  <2> QED
    BY <2>5, <2>6 DEF TxInv
<1>3. ASSUME NEW t \in Txs, InsertRows(t) PROVE TxInv'
  <2>1. ASSUME NEW d \in Txs, d # t PROVE Session(d)'
    BY <1>3, <2>1, OtherSession DEF InsertRows, TypeOK, TxInv
  <2>2. /\ st[t] = "insert" /\ st'[t] = "commit" /\ op'[t] = op[t] /\ upd'[t] = upd[t]
        /\ ins'[t] = Entries(op[t]) /\ lock' = lock /\ balance' = balance
    BY <1>3 DEF InsertRows, TypeOK
  <2>3. Session(t)'
    BY <2>2 DEF TxInv, Session, Done, GoodOp
  <2> QED
    BY <2>1, <2>3 DEF TxInv
<1>4. ASSUME NEW t \in Txs, Commit(t) PROVE TxInv' /\ NoOverdraft'
  <2>1. \A u \in Users : (lock[u] # t => balance'[u] = balance[u]) /\ balance'[u] >= 0
    BY <1>4, CommitCovered
  <2>2. End(t)
    BY <1>4 DEF Commit
  <2> QED
    BY <2>1, <2>2, EndSession DEF NoOverdraft
<1>5. ASSUME NEW t \in Txs, Insufficient(t) \/ TxFails(t) \/ DeadlockVictim(t)
      PROVE  TxInv'
  <2>1. End(t) /\ balance' = balance
    BY <1>5 DEF Insufficient, TxFails, DeadlockVictim
  <2> QED
    BY <2>1, EndSession
<1>6. ASSUME NEW t \in Txs, NEW o, GoodOp(o), Begin(t, o), UNCHANGED dbVars PROVE TxInv'
  BY <1>6, BeginSession
<1>7. ASSUME UNCHANGED <<balance, booked, st, op, upd, ins, lock>> PROVE TxInv'
  BY <1>7 DEF TxInv, Session, GoodOp, Done
<1>8. ASSUME NEW t \in Txs, NEW u \in Users, HandleDeposit(t, u) \/ HandleWithdraw(t, u)
      PROVE  TxInv'
  BY <1>6, <1>8, HandlersBeginGoodOps DEF HandleDeposit, HandleWithdraw
<1>9. ASSUME NEW t \in Txs,
             \/ \E j \in Jobs : HandleCreateJob(t, j)
             \/ \E s \in Shards :
                   RewardWorkerForJob(t, s) \/ \E w \in Workers : BadResult(t, w, s)
      PROVE  TxInv'
  <2>1. CASE \E j \in Jobs : HandleCreateJob(t, j)
    BY <1>6, <2>1, HandlersBeginGoodOps DEF HandleCreateJob
  <2>2. ASSUME NEW s \in Shards, RewardWorkerForJob(t, s) PROVE TxInv'
    <3>1. lease[s] \in Workers
      BY <2>2 DEF RewardWorkerForJob, TypeOK
    <3> QED
      BY <1>6, <2>2, <3>1, HandlersBeginGoodOps DEF RewardWorkerForJob
  <2>3. ASSUME NEW s \in Shards, NEW w \in Workers, BadResult(t, w, s) PROVE TxInv'
    BY <1>6, <2>3, HandlersBeginGoodOps DEF BadResult
  <2> QED
    BY <1>9, <2>1, <2>2, <2>3
<1>10. ASSUME NEW j \in Jobs, InsertJob(j) \/ InsertJobFails(j) PROVE TxInv'
  BY <1>7, <1>10 DEF InsertJob, InsertJobFails, txVars
<1>11. ASSUME NEW s \in Shards,
              NoWorkerConn(s) \/ \E w \in Workers : MaybeAssignWork(w, s) \/ GoodResult(w, s)
       PROVE  TxInv'
  BY <1>7, <1>11 DEF NoWorkerConn, MaybeAssignWork, GoodResult, txVars
<1>12. ASSUME NEW w \in Workers, Disconnect(w) PROVE TxInv'
  BY <1>7, <1>12 DEF Disconnect, txVars
<1>13. ASSUME UNCHANGED vars PROVE TxInv'
  BY <1>7, <1>13 DEF vars, txVars
<1>14. TxInv'
  BY <1>1, <1>2, <1>3, <1>4, <1>5, <1>8, <1>9, <1>10, <1>11, <1>12, <1>13
  DEF Next, Statement, Payout
<1>15. ASSUME ~ \E t \in Txs : Commit(t) PROVE UNCHANGED dbVars
  BY <1>15 DEF Next, Statement, Payout, Debit, Credit, InsertRows, Insufficient, TxFails,
       DeadlockVictim, HandleDeposit, HandleWithdraw, HandleCreateJob, InsertJob,
       InsertJobFails, MaybeAssignWork, GoodResult, BadResult, Disconnect,
       RewardWorkerForJob, NoWorkerConn, vars
<1> QED
  BY <1>4, <1>14, <1>15 DEF NoOverdraft

---------------------------------------------------------------------------
(* Jobs.                                                                   *)

(* A step that begins no charge and no penalty, ends none, and moves a job *)
(* only from its charge into the farm or out.                              *)
LEMMA KeepJobs ==
    ASSUME LedgerInv, fees' = fees,
           \A d \in Txs :
              st'[d] # "idle" /\ op'[d].kind \in {"upload_cnf", "worker_penalty"} =>
                 st[d] # "idle" /\ op'[d] = op[d],
           \A j \in Jobs :
              \/ stage'[j] = stage[j]
              \/ stage[j] = "charged" /\ stage'[j] \in {"farmed", "dropped"},
           \A s \in Shards :
              /\ shard[s] = "judging" => shard'[s] = "judging"
              /\ shard[s] = "none" => shard'[s] = "none" \/ stage'[JobOf[s]] = "farmed"
    PROVE  JobInv' /\ FeeForJob'
<1>1. \A d \in Txs, k \in {"upload_cnf", "worker_penalty"} :
         \A x \in Jobs \cup Shards : Runs(d, k, x)' => Runs(d, k, x)
  BY DEF Runs
<1>2. ASSUME NEW j \in Jobs
      PROVE  /\ OneSession("upload_cnf", j)'
             /\ \A t \in Txs : Runs(t, "upload_cnf", j)' => stage'[j] = "billing"
  BY <1>1 DEF LedgerInv, JobInv, OneSession
<1>3. ASSUME NEW s \in Shards
      PROVE  /\ OneSession("worker_penalty", s)'
             /\ \A t \in Txs : Runs(t, "worker_penalty", s)' => shard'[s] = "judging"
  BY <1>1 DEF LedgerInv, JobInv, OneSession
<1>4. JobInv'
  BY <1>2, <1>3 DEF JobInv
<1>5. FeeForJob'
  <2>1. \A j \in Jobs : fees'[j] = IF stage'[j] \in {"new", "billing", "rejected"} THEN 0 ELSE 1
    BY DEF LedgerInv, FeeForJob
  <2>2. ASSUME NEW s \in Shards, shard'[s] # "none" PROVE stage'[JobOf[s]] = "farmed"
    <3>1. JobOf[s] \in Jobs
      BY LedgerAssumption
    <3> QED
      BY <2>2, <3>1 DEF LedgerInv, FeeForJob
  <2> QED
    BY <2>1, <2>2 DEF FeeForJob
<1> QED
  BY <1>4, <1>5

(* The session of a charge or a penalty decides, when it ends, what becomes*)
(* of its own job or shard, and no other session waits for that one.       *)
LEMMA EndJobs ==
    ASSUME LedgerInv, NEW t \in Txs, NEW ok \in BOOLEAN, st[t] # "idle",
           End(t), Continue(op[t], ok),
           fees' = IF ok /\ op[t].kind = "upload_cnf"
                   THEN [fees EXCEPT ![op[t].about] = @ + 1] ELSE fees
    PROVE  JobInv' /\ FeeForJob'
<1> DEFINE i == op[t].about
<1>1. TypeOK /\ GoodOp(op[t])
  BY DEF LedgerInv, TxInv, Session
<1>2. \A d \in Txs : st'[d] = (IF d = t THEN "idle" ELSE st[d]) /\ (d # t => op'[d] = op[d])
  BY <1>1 DEF End, TypeOK
<1>3. \A d \in Txs, k \in Kinds : \A x \in Jobs \cup Shards :
         Runs(d, k, x)' => d # t /\ Runs(d, k, x)
  BY <1>2 DEF Runs
<1>4. CASE op[t].kind \notin {"upload_cnf", "worker_penalty"}
  <2>1. UNCHANGED <<stage, shard, fees>>
    BY <1>4 DEF Continue
  <2>2. \A d \in Txs : st'[d] # "idle" => st[d] # "idle" /\ op'[d] = op[d]
    BY <1>2
  <2> QED
    BY <2>1, <2>2, KeepJobs
<1>5. CASE op[t].kind = "upload_cnf"
  <2>1. i \in Jobs /\ Runs(t, "upload_cnf", i) /\ stage[i] = "billing"
    BY <1>1, <1>5 DEF GoodOp, Runs, LedgerInv, JobInv
  <2>2. /\ shard' = shard /\ stage'[i] = Billed(ok)
        /\ \A j \in Jobs : j # i => stage'[j] = stage[j] /\ fees'[j] = fees[j]
    BY <1>1, <1>5, <2>1 DEF Continue, TypeOK
  <2>3. fees'[i] = IF ok THEN 1 ELSE 0
    <3>1. fees[i] = 0
      BY <2>1 DEF LedgerInv, FeeForJob
    <3> QED
      BY <1>1, <1>5, <2>1, <3>1 DEF TypeOK
  <2>4. ASSUME NEW j \in Jobs
        PROVE  /\ OneSession("upload_cnf", j)'
               /\ \A d \in Txs : Runs(d, "upload_cnf", j)' => stage'[j] = "billing"
    <3>1. \A d \in Txs : Runs(d, "upload_cnf", j)' => d # t /\ Runs(d, "upload_cnf", j)
      BY <1>3 DEF Kinds
    <3>2. \A d \in Txs : Runs(d, "upload_cnf", j)' => j # i
      BY <2>1, <3>1 DEF LedgerInv, JobInv, OneSession
    <3> QED
      BY <2>2, <3>1, <3>2 DEF LedgerInv, JobInv, OneSession
  <2>5. ASSUME NEW s \in Shards
        PROVE  /\ OneSession("worker_penalty", s)'
               /\ \A d \in Txs : Runs(d, "worker_penalty", s)' => shard'[s] = "judging"
    <3>1. \A d \in Txs : Runs(d, "worker_penalty", s)' => Runs(d, "worker_penalty", s)
      BY <1>3 DEF Kinds
    <3> QED
      BY <2>2, <3>1 DEF LedgerInv, JobInv, OneSession
  <2>6. JobInv'
    BY <2>4, <2>5 DEF JobInv
  <2>7. ASSUME NEW j \in Jobs
        PROVE  fees'[j] = IF stage'[j] \in {"new", "billing", "rejected"} THEN 0 ELSE 1
    BY <2>2, <2>3 DEF LedgerInv, FeeForJob, Billed
  <2>8. ASSUME NEW s \in Shards, shard'[s] # "none" PROVE stage'[JobOf[s]] = "farmed"
    <3>1. JobOf[s] \in Jobs /\ stage[JobOf[s]] = "farmed"
      BY <2>2, <2>8, LedgerAssumption DEF LedgerInv, FeeForJob
    <3> QED
      BY <2>1, <2>2, <3>1
  <2> QED
    BY <2>6, <2>7, <2>8 DEF FeeForJob
<1>6. CASE op[t].kind = "worker_penalty"
  <2>1. i \in Shards /\ Runs(t, "worker_penalty", i) /\ shard[i] = "judging"
    BY <1>1, <1>6 DEF GoodOp, Runs, LedgerInv, JobInv
  <2>2. /\ stage' = stage /\ fees' = fees /\ shard'[i] = "queued"
        /\ \A s \in Shards : s # i => shard'[s] = shard[s]
    BY <1>1, <1>6, <2>1 DEF Continue, TypeOK
  <2>3. ASSUME NEW s \in Shards
        PROVE  /\ OneSession("worker_penalty", s)'
               /\ \A d \in Txs : Runs(d, "worker_penalty", s)' => shard'[s] = "judging"
    <3>1. \A d \in Txs : Runs(d, "worker_penalty", s)' =>
             d # t /\ Runs(d, "worker_penalty", s)
      BY <1>3 DEF Kinds
    <3>2. \A d \in Txs : Runs(d, "worker_penalty", s)' => s # i
      BY <2>1, <3>1 DEF LedgerInv, JobInv, OneSession
    <3> QED
      BY <2>2, <3>1, <3>2 DEF LedgerInv, JobInv, OneSession
  <2>4. ASSUME NEW j \in Jobs
        PROVE  /\ OneSession("upload_cnf", j)'
               /\ \A d \in Txs : Runs(d, "upload_cnf", j)' => stage'[j] = "billing"
    <3>1. \A d \in Txs : Runs(d, "upload_cnf", j)' => Runs(d, "upload_cnf", j)
      BY <1>3 DEF Kinds
    <3> QED
      BY <2>2, <3>1 DEF LedgerInv, JobInv, OneSession
  <2>5. JobInv'
    BY <2>3, <2>4 DEF JobInv
  <2>6. FeeForJob'
    BY <2>1, <2>2 DEF LedgerInv, FeeForJob
  <2> QED
    BY <2>5, <2>6
<1> QED
  BY <1>4, <1>5, <1>6

(* Only the session a job or a shard waits for moves it on.                *)
LEMMA JobsNext ==
    LedgerInv /\ [Next]_vars => JobInv' /\ FeeForJob'
<1> SUFFICES ASSUME LedgerInv, [Next]_vars PROVE JobInv' /\ FeeForJob'
  OBVIOUS
<1> USE DEF dbVars, farmVars, histVars
<1>0. TypeOK
  BY DEF LedgerInv
<1>1. ASSUME NEW t \in Txs, Debit(t) \/ Credit(t) \/ InsertRows(t)
      PROVE  JobInv' /\ FeeForJob'
  <2>1. /\ UNCHANGED <<op, stage, shard, fees>>
        /\ \A d \in Txs : st'[d] # "idle" => st[d] # "idle"
    BY <1>0, <1>1 DEF Debit, Credit, InsertRows, Write, TypeOK
  <2> QED
    BY <2>1, KeepJobs
<1>2. ASSUME NEW t \in Txs, Commit(t) PROVE JobInv' /\ FeeForJob'
  <2>1. /\ st[t] # "idle" /\ End(t) /\ Continue(op[t], TRUE)
        /\ fees' = IF op[t].kind = "upload_cnf"
                   THEN [fees EXCEPT ![op[t].about] = @ + 1] ELSE fees
    BY <1>2 DEF Commit
  <2> QED
    BY <2>1, EndJobs
<1>3. ASSUME NEW t \in Txs, Insufficient(t) \/ TxFails(t) \/ DeadlockVictim(t)
      PROVE  JobInv' /\ FeeForJob'
  <2>1. st[t] # "idle" /\ End(t) /\ Continue(op[t], FALSE) /\ fees' = fees
    BY <1>3 DEF Insufficient, TxFails, DeadlockVictim, Blocked
  <2> QED
    BY <2>1, EndJobs
<1>4. ASSUME NEW t \in Txs, NEW o, Begin(t, o),
             o.kind \notin {"upload_cnf", "worker_penalty"}, UNCHANGED <<stage, shard, fees>>
      PROVE  JobInv' /\ FeeForJob'
  <2>1. \A d \in Txs :
           st'[d] # "idle" /\ op'[d].kind \in {"upload_cnf", "worker_penalty"} =>
              st[d] # "idle" /\ op'[d] = op[d]
    BY <1>0, <1>4 DEF Begin, TypeOK
  <2> QED
    BY <1>4, <2>1, KeepJobs
<1>5. ASSUME NEW t \in Txs, NEW u \in Users, HandleDeposit(t, u) \/ HandleWithdraw(t, u)
      PROVE  JobInv' /\ FeeForJob'
  BY <1>4, <1>5 DEF HandleDeposit, HandleWithdraw, Change
<1>6. ASSUME NEW t \in Txs, NEW s \in Shards, RewardWorkerForJob(t, s)
      PROVE  JobInv' /\ FeeForJob'
  BY <1>4, <1>6 DEF RewardWorkerForJob, Transfer
<1>7. ASSUME NEW t \in Txs, NEW i \in Jobs, HandleCreateJob(t, i)
      PROVE  JobInv' /\ FeeForJob'
  <2>1. /\ st'[t] # "idle" /\ op'[t].kind = "upload_cnf" /\ op'[t].about = i
        /\ \A d \in Txs : d # t => st'[d] = st[d] /\ op'[d] = op[d]
    BY <1>0, <1>7 DEF HandleCreateJob, Begin, Change, TypeOK
  <2>2. /\ stage[i] = "new" /\ stage'[i] = "billing" /\ UNCHANGED <<shard, fees>>
        /\ \A j \in Jobs : j # i => stage'[j] = stage[j]
    BY <1>0, <1>7 DEF HandleCreateJob, TypeOK
  <2>3. \A d \in Txs, j \in Jobs :
           Runs(d, "upload_cnf", j)' =>
              IF d = t THEN j = i ELSE j # i /\ Runs(d, "upload_cnf", j)
    BY <2>1, <2>2 DEF LedgerInv, JobInv, Runs
  <2>4. \A d \in Txs, s \in Shards :
           Runs(d, "worker_penalty", s)' => Runs(d, "worker_penalty", s)
    BY <2>1 DEF Runs
  <2>5. JobInv'
    BY <2>2, <2>3, <2>4 DEF LedgerInv, JobInv, OneSession
  <2>6. FeeForJob'
    <3>1. \A j \in Jobs :
             fees'[j] = IF stage'[j] \in {"new", "billing", "rejected"} THEN 0 ELSE 1
      BY <2>2 DEF LedgerInv, FeeForJob
    <3>2. \A s \in Shards : shard'[s] # "none" => stage'[JobOf[s]] = "farmed"
      BY <2>2, LedgerAssumption DEF LedgerInv, FeeForJob
    <3> QED
      BY <3>1, <3>2 DEF FeeForJob
  <2> QED
    BY <2>5, <2>6
<1>8. ASSUME NEW t \in Txs, NEW i \in Shards, NEW w \in Workers, BadResult(t, w, i)
      PROVE  JobInv' /\ FeeForJob'
  <2>1. /\ st'[t] # "idle" /\ op'[t].kind = "worker_penalty" /\ op'[t].about = i
        /\ \A d \in Txs : d # t => st'[d] = st[d] /\ op'[d] = op[d]
    BY <1>0, <1>8 DEF BadResult, Begin, Change, TypeOK
  <2>2. /\ shard[i] = "running" /\ shard'[i] = "judging" /\ UNCHANGED <<stage, fees>>
        /\ \A s \in Shards : s # i => shard'[s] = shard[s]
    BY <1>0, <1>8 DEF BadResult, Has, TypeOK
  <2>3. \A d \in Txs, s \in Shards :
           Runs(d, "worker_penalty", s)' =>
              IF d = t THEN s = i ELSE s # i /\ Runs(d, "worker_penalty", s)
    BY <2>1, <2>2 DEF LedgerInv, JobInv, Runs
  <2>4. \A d \in Txs, j \in Jobs : Runs(d, "upload_cnf", j)' => Runs(d, "upload_cnf", j)
    BY <2>1 DEF Runs
  <2>5. JobInv'
    BY <2>2, <2>3, <2>4 DEF LedgerInv, JobInv, OneSession
  <2>6. FeeForJob'
    BY <2>2 DEF LedgerInv, FeeForJob
  <2> QED
    BY <2>5, <2>6
<1>9. ASSUME NEW j \in Jobs, InsertJob(j) \/ InsertJobFails(j) PROVE JobInv' /\ FeeForJob'
  <2>1. \A s \in Shards : JobOf[s] = j => shard[s] = "none"
    BY <1>9 DEF InsertJob, InsertJobFails, LedgerInv, FeeForJob
  <2>2. UNCHANGED <<st, op, fees>>
    BY <1>9 DEF InsertJob, InsertJobFails, txVars
  <2>3. \A i \in Jobs :
           \/ stage'[i] = stage[i]
           \/ stage[i] = "charged" /\ stage'[i] \in {"farmed", "dropped"}
    BY <1>0, <1>9 DEF InsertJob, InsertJobFails, TypeOK
  <2>4. \A s \in Shards : \/ shard'[s] = shard[s]
                          \/ shard[s] = "none" /\ stage'[JobOf[s]] = "farmed"
    BY <1>0, <1>9, <2>1 DEF InsertJob, InsertJobFails, TypeOK
  <2> QED
    BY <2>2, <2>3, <2>4, KeepJobs
<1>10. ASSUME UNCHANGED <<st, op, stage, fees>>,
              \A s \in Shards : \/ shard'[s] = shard[s]
                                \/ shard[s] \in {"queued", "running"} /\ shard'[s] # "none"
       PROVE  JobInv' /\ FeeForJob'
  BY <1>10, KeepJobs
<1>11. ASSUME NEW s \in Shards,
              NoWorkerConn(s) \/ \E w \in Workers : MaybeAssignWork(w, s) \/ GoodResult(w, s)
       PROVE  JobInv' /\ FeeForJob'
  BY <1>0, <1>10, <1>11 DEF NoWorkerConn, MaybeAssignWork, GoodResult, Has, TypeOK, txVars
<1>12. ASSUME NEW w \in Workers, Disconnect(w) PROVE JobInv' /\ FeeForJob'
  BY <1>0, <1>10, <1>12 DEF Disconnect, Has, TypeOK, txVars
<1>13. CASE UNCHANGED vars
  BY <1>10, <1>13 DEF vars, txVars
<1> QED
  BY <1>1, <1>2, <1>3, <1>5, <1>6, <1>7, <1>8, <1>9, <1>11, <1>12, <1>13
  DEF Next, Statement, Payout

---------------------------------------------------------------------------
(* Money.                                                                  *)

(* The rows of a transaction add up to what it does to all balances.       *)
LEMMA EntriesSum ==
    ASSUME NEW o \in Ops
    PROVE  Entries(o) \in [Users -> Int] /\ SumFunctionOnSet(Entries(o), Users) = Net(o)
<1> DEFINE credit == [u \in Users |-> IF u = o.to THEN o.amount ELSE 0]
           debit  == [u \in Users |-> IF u = o.from THEN -o.amount ELSE 0]
<1>1. o.amount \in Int /\ -o.amount \in Int /\ IsFiniteSet(Users)
  BY LedgerAssumption DEF Ops
<1>2. credit \in [Users -> Int] /\ debit \in [Users -> Int]
  BY <1>1
<1>3. Entries(o) = [u \in Users |-> credit[u] + debit[u]]
  BY <1>1 DEF Entries
<1>4. /\ SumFunctionOnSet(credit, Users) = IF o.to \in Users THEN o.amount ELSE 0
      /\ SumFunctionOnSet(debit, Users) = IF o.from \in Users THEN -o.amount ELSE 0
  <2> DEFINE a == o.amount
             b == -o.amount
  <2>1. a \in Int /\ b \in Int
    BY <1>1
  <2>2. SumFunctionOnSet([u \in Users |-> IF u = o.to THEN a ELSE 0], Users)
          = IF o.to \in Users THEN a ELSE 0
    <3> HIDE DEF a
    <3> QED
      BY <1>1, <2>1, SumPoint
  <2>3. SumFunctionOnSet([u \in Users |-> IF u = o.from THEN b ELSE 0], Users)
          = IF o.from \in Users THEN b ELSE 0
    <3> HIDE DEF b
    <3> QED
      BY <1>1, <2>1, SumPoint
  <2> QED
    BY <2>2, <2>3
<1> HIDE DEF credit, debit
<1>5. SumFunctionOnSet([u \in Users |-> credit[u] + debit[u]], Users)
        = SumFunctionOnSet(credit, Users) + SumFunctionOnSet(debit, Users)
  BY <1>1, <1>2, SumPlus
<1>6. Entries(o) \in [Users -> Int]
  BY <1>2, <1>3
<1> QED
  BY <1>1, <1>3, <1>4, <1>5, <1>6 DEF Net

(* What each handler begins earns the farm what its kind says, a free      *)
(* upload, booked as a credit of 0, included.                              *)
LEMMA HandlersEarn ==
    /\ \A u \in Users :
          LET d == Change("deposit", Nobody, u, depositSatc)
              w == Change("withdraw", Nobody, u, -withdrawSatc)
          IN  Net(d) = Earned(d) /\ Net(w) = Earned(w)
    /\ \A j \in Jobs :
          LET c == Change("upload_cnf", j, ClientOf[j], -UploadCost(SizeOf[j]))
          IN  Net(c) = Earned(c)
    /\ \A s \in Shards, w \in Workers :
          LET j == JobOf[s]
              p == Change("worker_penalty", s, UserOf[w], -workerPenaltySatc)
              r == Transfer("worker_reward", s, ClientOf[j], UserOf[w], RewardFor(j))
          IN  Net(p) = Earned(p) /\ Net(r) = Earned(r)
<1>1. \A j \in Jobs : UploadCost(SizeOf[j]) \in Nat /\ RewardFor(j) \in Nat
  BY AmountsAreNat
<1>2. /\ Nobody \notin Users
      /\ \A w \in Workers : UserOf[w] \in Users
      /\ \A j \in Jobs : ClientOf[j] \in Users
      /\ \A s \in Shards : JobOf[s] \in Jobs
      /\ depositSatc \in Nat \ {0} /\ withdrawSatc \in Nat \ {0}
      /\ workerPenaltySatc \in Nat \ {0}
  BY LedgerAssumption
<1> QED
  BY <1>1, <1>2 DEF Net, Earned, Change, Transfer

(* Nothing has been moved.                                                 *)
LEMMA MoneyInit == Init => MoneyInv
<1> SUFFICES ASSUME Init PROVE MoneyInv
  OBVIOUS
<1>1. SumFunctionOnSet([u \in Users |-> IF u = Nobody THEN 0 ELSE 0], Users) = 0
  BY SumPoint, LedgerAssumption
<1>2. Zero = [u \in Users |-> IF u = Nobody THEN 0 ELSE 0]
  BY DEF Zero
<1>3. SumFunctionOnSet(balance, Users) = 0
  BY <1>1, <1>2 DEF Init
<1>4. \A k \in Kinds : moved[k] = 0
  BY DEF Init
<1>5. Conserved
  BY <1>3, <1>4 DEF Conserved, Kinds
<1> QED
  BY <1>5 DEF MoneyInv, Init

(* Only a Commit moves money.                                              *)
LEMMA OnlyCommit ==
    ASSUME [Next]_vars, ~ \E t \in Txs : Commit(t)
    PROVE  UNCHANGED <<balance, booked, moved>>
BY DEF Next, Statement, Payout, Debit, Credit, InsertRows, Insufficient, TxFails,
     DeadlockVictim, HandleDeposit, HandleWithdraw, HandleCreateJob, InsertJob,
     InsertJobFails, MaybeAssignWork, GoodResult, BadResult, Disconnect,
     RewardWorkerForJob, NoWorkerConn, vars, dbVars, histVars

(* A session that is at work after a step was at the same work before, or  *)
(* has begun with what a handler gave it.                                  *)
LEMMA SessionsBegin ==
    ASSUME TypeOK, [Next]_vars, NEW t \in Txs, st'[t] # "idle"
    PROVE  \/ st[t] # "idle" /\ op'[t] = op[t]
           \/ Net(op'[t]) = Earned(op'[t])
<1> USE DEF TypeOK
<1>1. ASSUME NEW d \in Txs, NEW o, Begin(d, o), Net(o) = Earned(o)
      PROVE  \/ st[t] # "idle" /\ op'[t] = op[t]
             \/ Net(op'[t]) = Earned(op'[t])
  BY <1>1 DEF Begin
<1>2. ASSUME NEW d \in Txs, End(d) PROVE st[t] # "idle" /\ op'[t] = op[t]
  BY <1>2 DEF End
<1>3. ASSUME NEW d \in Txs, Statement(d) \/ TxFails(d) \/ DeadlockVictim(d)
      PROVE  st[t] # "idle" /\ op'[t] = op[t]
  <2>1. CASE Debit(d) \/ Credit(d) \/ InsertRows(d)
    BY <2>1 DEF Debit, Credit, InsertRows, Write
  <2>2. CASE Commit(d) \/ Insufficient(d) \/ TxFails(d) \/ DeadlockVictim(d)
    BY <1>2, <2>2 DEF Commit, Insufficient, TxFails, DeadlockVictim
  <2> QED
    BY <1>3, <2>1, <2>2 DEF Statement
<1>4. CASE UNCHANGED <<st, op>>
  BY <1>4
<1>5. CASE \E d \in Txs : \/ \E u \in Users : HandleDeposit(d, u) \/ HandleWithdraw(d, u)
                          \/ \E j \in Jobs : HandleCreateJob(d, j)
                          \/ \E s \in Shards, w \in Workers : BadResult(d, w, s)
  BY <1>1, <1>5, HandlersEarn DEF HandleDeposit, HandleWithdraw, HandleCreateJob, BadResult
<1>6. CASE \E d \in Txs, s \in Shards : RewardWorkerForJob(d, s)
  <2>1. PICK d \in Txs, s \in Shards : RewardWorkerForJob(d, s)
    BY <1>6
  <2>2. lease[s] \in Workers
    BY <2>1 DEF RewardWorkerForJob
  <2> QED
    BY <1>1, <2>1, <2>2, HandlersEarn DEF RewardWorkerForJob
<1>7. CASE \/ \E j \in Jobs : InsertJob(j) \/ InsertJobFails(j)
           \/ \E s \in Shards :
                \/ NoWorkerConn(s)
                \/ \E w \in Workers : MaybeAssignWork(w, s) \/ GoodResult(w, s)
           \/ \E w \in Workers : Disconnect(w)
           \/ UNCHANGED vars
  BY <1>4, <1>7 DEF InsertJob, InsertJobFails, NoWorkerConn, MaybeAssignWork, GoodResult,
       Disconnect, vars, txVars
<1> QED
  BY <1>3, <1>5, <1>6, <1>7 DEF Next, Payout

(* Every step keeps the books.                                             *)
LEMMA MoneyNext == LedgerInv /\ MoneyInv /\ [Next]_vars => MoneyInv'
<1> SUFFICES ASSUME LedgerInv, MoneyInv, [Next]_vars PROVE MoneyInv'
  OBVIOUS
<1>1. \A t \in Txs : st'[t] # "idle" => Net(op'[t]) = Earned(op'[t])
  BY SessionsBegin DEF LedgerInv, MoneyInv
<1>2. ASSUME NEW t \in Txs, Commit(t) PROVE Conserved'
  <2> DEFINE o == op[t]
  <2>1. /\ o \in Ops /\ o.kind \in Kinds /\ o.amount \in Nat /\ Net(o) = Earned(o)
        /\ balance \in [Users -> Int] /\ moved \in [Kinds -> Nat] /\ IsFiniteSet(Users)
    BY <1>2, LedgerAssumption
    DEF LedgerInv, MoneyInv, TypeOK, TxInv, Session, GoodOp, Commit, Ops
  <2>2. balance' = [u \in Users |-> balance[u] + Entries(o)[u]]
    BY <1>2 DEF LedgerInv, TxInv, Session, Done, Commit, NewBalance
  <2>3. SumFunctionOnSet(balance', Users) = SumFunctionOnSet(balance, Users) + Net(o)
    BY <2>1, <2>2, EntriesSum, SumPlus
  <2>4. SumFunctionOnSet(balance, Users) \in Int
    BY <2>1, SumType
  <2>5. moved' = [moved EXCEPT ![o.kind] = @ + o.amount]
    BY <1>2 DEF Commit
  <2>6. /\ moved'["deposit"] =
              IF o.kind = "deposit" THEN moved["deposit"] + o.amount ELSE moved["deposit"]
        /\ moved'["withdraw"] =
              IF o.kind = "withdraw" THEN moved["withdraw"] + o.amount ELSE moved["withdraw"]
        /\ moved'["upload_cnf"] =
              IF o.kind = "upload_cnf" THEN moved["upload_cnf"] + o.amount
              ELSE moved["upload_cnf"]
        /\ moved'["worker_penalty"] =
              IF o.kind = "worker_penalty" THEN moved["worker_penalty"] + o.amount
              ELSE moved["worker_penalty"]
    BY <2>1, <2>5 DEF Kinds
  <2>7. /\ moved["deposit"] \in Nat /\ moved["withdraw"] \in Nat
        /\ moved["upload_cnf"] \in Nat /\ moved["worker_penalty"] \in Nat
    BY <2>1 DEF Kinds
  <2>8. SumFunctionOnSet(balance, Users) =
          moved["deposit"] - moved["withdraw"] - moved["upload_cnf"] - moved["worker_penalty"]
    BY DEF MoneyInv, Conserved
  <2>9. Net(o) = IF o.kind = "deposit" THEN o.amount
                 ELSE IF o.kind = "worker_reward" THEN 0 ELSE -o.amount
    BY <2>1 DEF Earned
  <2>10. o.kind \in {"deposit", "withdraw", "upload_cnf", "worker_penalty", "worker_reward"}
    BY <2>1 DEF Kinds
  <2>11. SumFunctionOnSet(balance', Users) =
           moved'["deposit"] - moved'["withdraw"] - moved'["upload_cnf"]
             - moved'["worker_penalty"]
    <3> HIDE DEF o
    <3> QED
      BY <2>1, <2>3, <2>4, <2>6, <2>7, <2>8, <2>9, <2>10
  <2> QED
    BY <2>11 DEF Conserved
<1>3. ASSUME ~ \E t \in Txs : Commit(t) PROVE Conserved'
  BY <1>3, OnlyCommit DEF MoneyInv, Conserved
<1> QED
  BY <1>1, <1>2, <1>3 DEF MoneyInv

---------------------------------------------------------------------------
(* Rewards.                                                                *)

(* No reward is due.                                                       *)
LEMMA RewardInit == Init => RewardInv
<1> SUFFICES ASSUME Init PROVE RewardInv
  OBVIOUS
<1>1. SumFunctionOnSet([s \in Shards |-> IF s = Nobody THEN 0 ELSE 0], Shards) = 0
  BY SumPoint, LedgerAssumption
<1>2. [s \in Shards |-> IF reward[s] = "paid" THEN RewardFor(JobOf[s]) ELSE 0]
        = [s \in Shards |-> IF s = Nobody THEN 0 ELSE 0]
  BY DEF Init
<1>3. moved["worker_reward"] = 0
  BY DEF Init, Kinds
<1> QED
  BY <1>1, <1>2, <1>3 DEF RewardInv, RewardsBooked, OneSession, Runs, Init

(* The sum does not change while the same shards are paid ...              *)
LEMMA SamePaid ==
    ASSUME RewardsBooked, moved'["worker_reward"] = moved["worker_reward"],
           \A s \in Shards : reward'[s] = "paid" <=> reward[s] = "paid"
    PROVE  RewardsBooked'
<1>1. [s \in Shards |-> IF reward'[s] = "paid" THEN RewardFor(JobOf[s]) ELSE 0]
        = [s \in Shards |-> IF reward[s] = "paid" THEN RewardFor(JobOf[s]) ELSE 0]
  OBVIOUS
<1> QED
  BY <1>1 DEF RewardsBooked

(* ... and grows by the reward of the one that is paid now.                *)
LEMMA OnePaid ==
    ASSUME RewardsBooked, NEW i \in Shards, reward[i] # "paid", reward'[i] = "paid",
           \A s \in Shards : s # i => reward'[s] = reward[s],
           moved'["worker_reward"] = moved["worker_reward"] + RewardFor(JobOf[i])
    PROVE  RewardsBooked'
<1> DEFINE paid == [s \in Shards |-> IF reward[s] = "paid" THEN RewardFor(JobOf[s]) ELSE 0]
           a == RewardFor(JobOf[i])
           new == [s \in Shards |-> IF s = i THEN a ELSE 0]
<1>1. \A s \in Shards : RewardFor(JobOf[s]) \in Nat
  BY AmountsAreNat, LedgerAssumption
<1>2. a \in Int /\ paid \in [Shards -> Int] /\ new \in [Shards -> Int] /\ IsFiniteSet(Shards)
  BY <1>1, LedgerAssumption
<1>3. [s \in Shards |-> IF reward'[s] = "paid" THEN RewardFor(JobOf[s]) ELSE 0]
        = [s \in Shards |-> paid[s] + new[s]]
  BY <1>1
<1>4. SumFunctionOnSet(new, Shards) = a
  <2> HIDE DEF a
  <2> QED
    BY <1>2, SumPoint
<1> HIDE DEF paid, new
<1>5. SumFunctionOnSet([s \in Shards |-> paid[s] + new[s]], Shards)
        = SumFunctionOnSet(paid, Shards) + SumFunctionOnSet(new, Shards)
  BY <1>2, SumPlus
<1>6. SumFunctionOnSet(paid, Shards) = moved["worker_reward"]
  BY DEF RewardsBooked, paid
<1> QED
  BY <1>3, <1>4, <1>5, <1>6 DEF RewardsBooked

(* A step that begins no reward and changes none keeps RewardInv, if the   *)
(* verified shards stay so.                                                *)
LEMMA NoReward ==
    ASSUME RewardInv, UNCHANGED reward, moved'["worker_reward"] = moved["worker_reward"],
           \A s \in Shards : shard[s] = "done" => shard'[s] = "done",
           \A d \in Txs :
              st'[d] # "idle" /\ op'[d].kind = "worker_reward" =>
                 st[d] # "idle" /\ op'[d] = op[d]
    PROVE  RewardInv'
<1>1. RewardsBooked'
  BY SamePaid DEF RewardInv
<1>2. \A d \in Txs, s \in Shards :
         Runs(d, "worker_reward", s)' => Runs(d, "worker_reward", s) /\ op'[d] = op[d]
  BY DEF Runs
<1>3. ASSUME NEW s \in Shards
      PROVE  /\ reward'[s] # "none" => shard'[s] = "done"
             /\ OneSession("worker_reward", s)'
             /\ \A t \in Txs : Runs(t, "worker_reward", s)' =>
                   reward'[s] = "paying" /\ op'[t].amount = RewardFor(JobOf[s])
  BY <1>2 DEF RewardInv, OneSession
<1> QED
  BY <1>1, <1>3 DEF RewardInv

(* The session that ends decides about its own reward only.                *)
LEMMA EndReward ==
    ASSUME LedgerInv, RewardInv, NEW t \in Txs, NEW ok \in BOOLEAN, st[t] # "idle",
           End(t), Continue(op[t], ok),
           moved' = IF ok THEN [moved EXCEPT ![op[t].kind] = @ + op[t].amount] ELSE moved
    PROVE  RewardInv'
<1> DEFINE i == op[t].about
<1>1. GoodOp(op[t]) /\ TypeOK
  BY DEF LedgerInv, TxInv, Session
<1>2. \A d \in Txs : st'[d] = (IF d = t THEN "idle" ELSE st[d]) /\ (d # t => op'[d] = op[d])
  BY <1>1 DEF End, TypeOK
<1>3. CASE op[t].kind = "worker_reward"
  <2>1. /\ i \in Shards /\ Runs(t, "worker_reward", i)
        /\ reward[i] = "paying" /\ op[t].amount = RewardFor(JobOf[i]) /\ shard[i] = "done"
    BY <1>1, <1>3 DEF GoodOp, Runs, RewardInv
  <2>2. /\ reward'[i] = IF ok THEN "paid" ELSE "lost"
        /\ \A s \in Shards : s # i => reward'[s] = reward[s]
        /\ shard' = shard
    BY <1>1, <1>3, <2>1 DEF Continue, TypeOK
  <2>3. RewardsBooked'
    <3>1. CASE ok
      <4>1. moved'["worker_reward"] = moved["worker_reward"] + RewardFor(JobOf[i])
        BY <1>1, <1>3, <2>1, <3>1 DEF TypeOK, Kinds
      <4> QED
        BY <2>1, <2>2, <3>1, <4>1, OnePaid DEF RewardInv
    <3>2. CASE ~ok
      BY <2>1, <2>2, <3>2, SamePaid DEF RewardInv
    <3> QED
      BY <3>1, <3>2
  <2>4. ASSUME NEW s \in Shards
        PROVE  /\ reward'[s] # "none" => shard'[s] = "done"
               /\ OneSession("worker_reward", s)'
               /\ \A d \in Txs : Runs(d, "worker_reward", s)' =>
                     reward'[s] = "paying" /\ op'[d].amount = RewardFor(JobOf[s])
    <3>1. \A d \in Txs : Runs(d, "worker_reward", s)' =>
             d # t /\ Runs(d, "worker_reward", s) /\ op'[d] = op[d]
      BY <1>2 DEF Runs
    <3>2. \A d \in Txs : Runs(d, "worker_reward", s)' => s # i
      BY <2>1, <3>1 DEF RewardInv, OneSession
    <3>3. \A d \in Txs : Runs(d, "worker_reward", s)' =>
             reward'[s] = "paying" /\ op'[d].amount = RewardFor(JobOf[s])
      BY <2>2, <3>1, <3>2 DEF RewardInv
    <3>4. OneSession("worker_reward", s)'
      BY <3>1 DEF RewardInv, OneSession
    <3>5. reward'[s] # "none" => shard'[s] = "done"
      BY <2>1, <2>2 DEF RewardInv
    <3> QED
      BY <3>3, <3>4, <3>5
  <2> QED
    BY <2>3, <2>4 DEF RewardInv
<1>4. CASE op[t].kind # "worker_reward"
  <2>1. reward' = reward
    BY <1>4 DEF Continue
  <2>2. moved'["worker_reward"] = moved["worker_reward"]
    BY <1>1, <1>4 DEF TypeOK, Kinds
  <2>3. ASSUME NEW s \in Shards, shard[s] = "done" PROVE shard'[s] = "done"
    <3>1. CASE op[t].kind = "worker_penalty"
      <4>1. i \in Shards /\ shard[i] = "judging"
        BY <1>1, <3>1 DEF GoodOp, Runs, LedgerInv, JobInv
      <4> QED
        BY <1>1, <2>3, <3>1, <4>1 DEF Continue, TypeOK
    <3>2. CASE op[t].kind # "worker_penalty"
      BY <2>3, <3>2 DEF Continue
    <3> QED
      BY <3>1, <3>2
  <2> QED
    BY <1>2, <2>1, <2>2, <2>3, NoReward
<1> QED
  BY <1>3, <1>4

(* Every step keeps the record of the rewards.                             *)
LEMMA RewardNext == LedgerInv /\ RewardInv /\ [Next]_vars => RewardInv'
<1> SUFFICES ASSUME LedgerInv, RewardInv, [Next]_vars PROVE RewardInv'
  OBVIOUS
<1> USE DEF dbVars, farmVars, histVars
<1>0. TypeOK
  BY DEF LedgerInv
<1>1. ASSUME NEW t \in Txs, Debit(t) \/ Credit(t) \/ InsertRows(t) PROVE RewardInv'
  <2>1. /\ UNCHANGED <<op, shard, reward, moved>>
        /\ \A d \in Txs : st'[d] # "idle" => st[d] # "idle"
    BY <1>0, <1>1 DEF Debit, Credit, InsertRows, Write, TypeOK
  <2> QED
    BY <2>1, NoReward
<1>2. ASSUME NEW t \in Txs, Commit(t) PROVE RewardInv'
  <2>1. /\ st[t] # "idle" /\ End(t) /\ Continue(op[t], TRUE)
        /\ moved' = [moved EXCEPT ![op[t].kind] = @ + op[t].amount]
    BY <1>2 DEF Commit
  <2> QED
    BY <2>1, EndReward
<1>3. ASSUME NEW t \in Txs, Insufficient(t) \/ TxFails(t) \/ DeadlockVictim(t)
      PROVE  RewardInv'
  <2>1. st[t] # "idle" /\ End(t) /\ Continue(op[t], FALSE) /\ moved' = moved
    BY <1>3 DEF Insufficient, TxFails, DeadlockVictim, Blocked
  <2> QED
    BY <2>1, EndReward
<1>4. ASSUME NEW t \in Txs, NEW o, Begin(t, o), o.kind # "worker_reward",
             UNCHANGED <<reward, moved>>,
             \A s \in Shards : shard[s] = "done" => shard'[s] = "done"
      PROVE  RewardInv'
  <2>1. \A d \in Txs :
           st'[d] # "idle" /\ op'[d].kind = "worker_reward" => st[d] # "idle" /\ op'[d] = op[d]
    BY <1>0, <1>4 DEF Begin, TypeOK
  <2> QED
    BY <1>4, <2>1, NoReward
<1>5. ASSUME NEW t \in Txs,
             \/ \E u \in Users : HandleDeposit(t, u) \/ HandleWithdraw(t, u)
             \/ \E j \in Jobs : HandleCreateJob(t, j)
             \/ \E s \in Shards, w \in Workers : BadResult(t, w, s)
      PROVE  RewardInv'
  <2>1. CASE \E u \in Users : HandleDeposit(t, u) \/ HandleWithdraw(t, u)
    BY <1>4, <2>1 DEF HandleDeposit, HandleWithdraw, Change
  <2>2. CASE \E j \in Jobs : HandleCreateJob(t, j)
    BY <1>4, <2>2 DEF HandleCreateJob, Change
  <2>3. CASE \E s \in Shards, w \in Workers : BadResult(t, w, s)
    BY <1>0, <1>4, <2>3 DEF BadResult, Has, Change, TypeOK
  <2> QED
    BY <1>5, <2>1, <2>2, <2>3
<1>6. ASSUME NEW t \in Txs, NEW i \in Shards, RewardWorkerForJob(t, i) PROVE RewardInv'
  <2>1. /\ reward[i] = "due" /\ UNCHANGED <<shard, moved>>
        /\ \A s \in Shards : reward'[s] = IF s = i THEN "paying" ELSE reward[s]
    BY <1>0, <1>6 DEF RewardWorkerForJob, TypeOK
  <2>2. /\ \A d \in Txs : d # t => st'[d] = st[d] /\ op'[d] = op[d]
        /\ op'[t].kind = "worker_reward" /\ op'[t].about = i
        /\ op'[t].amount = RewardFor(JobOf[i])
    BY <1>0, <1>6 DEF RewardWorkerForJob, Begin, Transfer, TypeOK
  <2>3. \A d \in Txs, s \in Shards :
           Runs(d, "worker_reward", s)' =>
              IF d = t THEN s = i ELSE Runs(d, "worker_reward", s) /\ s # i
    BY <2>1, <2>2 DEF Runs, RewardInv
  <2>4. RewardsBooked'
    BY <2>1, SamePaid DEF RewardInv
  <2>5. ASSUME NEW s \in Shards
        PROVE  /\ reward'[s] # "none" => shard'[s] = "done"
               /\ OneSession("worker_reward", s)'
               /\ \A d \in Txs : Runs(d, "worker_reward", s)' =>
                     reward'[s] = "paying" /\ op'[d].amount = RewardFor(JobOf[s])
    BY <2>1, <2>2, <2>3 DEF RewardInv, OneSession
  <2> QED
    BY <2>4, <2>5 DEF RewardInv
<1>7. ASSUME NEW i \in Shards, NEW r \in {"due", "lost"},
             UNCHANGED <<st, op, moved>>, reward' = [reward EXCEPT ![i] = r],
             reward[i] \in {"none", "due"}, shard'[i] = "done",
             \A s \in Shards : s # i => shard'[s] = shard[s]
      PROVE  RewardInv'
  <2>1. \A s \in Shards : reward'[s] = IF s = i THEN r ELSE reward[s]
    BY <1>0, <1>7 DEF TypeOK
  <2>2. RewardsBooked'
    BY <1>7, <2>1, SamePaid DEF RewardInv
  <2>3. \A d \in Txs, s \in Shards :
           Runs(d, "worker_reward", s)' => Runs(d, "worker_reward", s) /\ s # i
    BY <1>7 DEF Runs, RewardInv
  <2>4. ASSUME NEW s \in Shards
        PROVE  /\ reward'[s] # "none" => shard'[s] = "done"
               /\ OneSession("worker_reward", s)'
               /\ \A d \in Txs : Runs(d, "worker_reward", s)' =>
                     reward'[s] = "paying" /\ op'[d].amount = RewardFor(JobOf[s])
    BY <1>7, <2>1, <2>3 DEF RewardInv, OneSession
  <2> QED
    BY <2>2, <2>4 DEF RewardInv
<1>8. ASSUME NEW s \in Shards, NEW w \in Workers, GoodResult(w, s) PROVE RewardInv'
  <2>1. reward[s] = "none"
    BY <1>0, <1>8 DEF GoodResult, Has, RewardInv, TypeOK
  <2>2. UNCHANGED <<st, op, moved>>
    BY <1>8 DEF GoodResult, txVars
  <2>3. /\ reward' = [reward EXCEPT ![s] = "due"]
        /\ shard'[s] = "done" /\ \A q \in Shards : q # s => shard'[q] = shard[q]
    BY <1>0, <1>8 DEF GoodResult, TypeOK
  <2> QED
    BY <1>7, <2>1, <2>2, <2>3
<1>9. ASSUME NEW s \in Shards, NoWorkerConn(s) PROVE RewardInv'
  <2>1. shard[s] = "done" /\ UNCHANGED <<st, op, moved, shard>>
    BY <1>9 DEF NoWorkerConn, txVars, RewardInv
  <2> QED
    BY <1>7, <1>9, <2>1 DEF NoWorkerConn
<1>10. ASSUME UNCHANGED <<st, op, reward, moved>>,
              \A s \in Shards : shard[s] = "done" => shard'[s] = "done"
       PROVE  RewardInv'
  BY <1>10, NoReward
<1>11. ASSUME NEW j \in Jobs, InsertJob(j) \/ InsertJobFails(j) PROVE RewardInv'
  <2>1. \A s \in Shards : JobOf[s] = j => shard[s] = "none"
    BY <1>11 DEF InsertJob, InsertJobFails, LedgerInv, FeeForJob
  <2> QED
    BY <1>0, <1>10, <1>11, <2>1 DEF InsertJob, InsertJobFails, TypeOK, txVars
<1>12. ASSUME NEW s \in Shards, NEW w \in Workers, MaybeAssignWork(w, s) PROVE RewardInv'
  BY <1>0, <1>10, <1>12 DEF MaybeAssignWork, TypeOK, txVars
<1>13. ASSUME NEW w \in Workers, Disconnect(w) PROVE RewardInv'
  BY <1>0, <1>10, <1>13 DEF Disconnect, Has, TypeOK, txVars
<1>14. CASE UNCHANGED vars
  BY <1>10, <1>14 DEF vars, txVars
<1> QED
  BY <1>1, <1>2, <1>3, <1>5, <1>6, <1>8, <1>9, <1>11, <1>12, <1>13, <1>14
  DEF Next, Statement, Payout

---------------------------------------------------------------------------
(* Results.                                                                *)

(* The inductive invariant.                                                *)
THEOREM LedgerInductive == Spec => []LedgerInv
<1>1. Init => LedgerInv
  BY InitType, InitSessions DEF LedgerInv
<1>2. LedgerInv /\ [Next]_vars => LedgerInv'
  BY TypeNext, SessionsNext, JobsNext DEF LedgerInv
<1> QED
  BY <1>1, <1>2, PTL DEF Spec

(* Every variable has its type in every reachable state of the sessions of *)
(* changeUserBalance and transferUserBalance.                              *)
THEOREM LedgerTypeCorrect == Spec => []TypeOK
<1>1. LedgerInv => TypeOK
  BY DEF LedgerInv
<1> QED
  BY <1>1, LedgerInductive, PTL

(* However the statements of concurrent debits, transfers and penalties    *)
(* interleave, no users.balance_satc ever falls below zero.                *)
THEOREM NeverOverdrawn == Spec => []NoOverdraft
<1>1. LedgerInv => NoOverdraft
  BY DEF LedgerInv
<1> QED
  BY <1>1, LedgerInductive, PTL

(* HandleCreateJob: a job is in the farm exactly if its upload was charged,*)
(* once, and none of its shards is worked on before.                       *)
THEOREM OneFeePerJob == Spec => []FeeForJob
<1>1. LedgerInv => FeeForJob
  BY DEF LedgerInv
<1> QED
  BY <1>1, LedgerInductive, PTL

(* The inductive invariant of the money, on top of the sessions'.          *)
THEOREM MoneyInductive == Spec => []MoneyInv
<1>1. Init => MoneyInv
  BY MoneyInit
<1>2. LedgerInv /\ MoneyInv /\ [Next]_vars => MoneyInv'
  BY MoneyNext
<1> QED
  BY <1>1, <1>2, LedgerInductive, PTL DEF Spec

(* changeUserBalance and transferUserBalance create and destroy no money:  *)
(* the balances of all users add up to the deposits less the withdrawals,  *)
(* the fees and the penalties, for any number of users and sessions.       *)
THEOREM MoneyConserved == Spec => []Conserved
<1>1. MoneyInv => Conserved
  BY DEF MoneyInv
<1> QED
  BY <1>1, MoneyInductive, PTL

(* The inductive invariant of the rewards: those of a job's shards may be  *)
(* under way together, each in one session.                                *)
THEOREM RewardInductive == Spec => []RewardInv
<1>1. Init => RewardInv
  BY RewardInit
<1>2. LedgerInv /\ RewardInv /\ [Next]_vars => RewardInv'
  BY RewardNext
<1> QED
  BY <1>1, <1>2, LedgerInductive, PTL DEF Spec

(* rewardWorkerForJob: whatever becomes of the transactions of the rewards,*)
(* what is booked as rewards is the whole reward of its job for each shard *)
(* taken for paid, each shard once.  It is no bound by job: a job may have *)
(* any number of verified shards.                                          *)
THEOREM RewardsPaidOnce == Spec => []RewardsBooked
<1>1. RewardInv => RewardsBooked
  BY DEF RewardInv
<1> QED
  BY <1>1, RewardInductive, PTL

(* The SQL transactions implement Bank: a Commit is one atomic, covered    *)
(* posting of both sides with its rows, and no other step shows.           *)
THEOREM LedgerImplementsBank == Spec => ImplementsBank
<1>1. Init => Abstract!Init
  BY DEF Init, Abstract!Init, Zero
<1>2. LedgerInv /\ [Next]_vars => [Abstract!Next]_<<balance, booked>>
  <2> SUFFICES ASSUME LedgerInv, [Next]_vars, ~ UNCHANGED <<balance, booked>>
               PROVE  Abstract!Next
    OBVIOUS
  <2>1. PICK t \in Txs : Commit(t)
    BY DEF Next, Statement, Payout, Debit, Credit, InsertRows, Insufficient, TxFails,
         DeadlockVictim, HandleDeposit, HandleWithdraw, HandleCreateJob, InsertJob,
         InsertJobFails, MaybeAssignWork, GoodResult, BadResult, Disconnect,
         RewardWorkerForJob, NoWorkerConn, vars, dbVars
  <2> DEFINE o == op[t]
  <2>2. /\ o.from \in Users \cup {Nobody} /\ o.to \in Users \cup {Nobody}
        /\ o.amount \in MovedAmounts
        /\ o.from # Nobody => balance[o.from] >= o.amount
    BY <2>1 DEF LedgerInv, TypeOK, TxInv, Session, GoodOp, Ops, Commit
  <2>3. /\ balance' = [u \in Users |-> balance[u] + Entries(o)[u]]
        /\ booked' = [u \in Users |-> booked[u] + Entries(o)[u]]
    <3>1. upd[t] = Entries(o) /\ ins[t] = Entries(o)
      BY <2>1 DEF LedgerInv, TxInv, Session, Done, Commit
    <3> QED
      BY <2>1, <3>1 DEF Commit, NewBalance
  <2>4. Abstract!Effect(o.from, o.to, o.amount) = Entries(o)
    BY DEF Abstract!Effect, Entries
  <2>5. Abstract!Post(o.from, o.to, o.amount)
    BY <2>2, <2>3, <2>4 DEF Abstract!Post, Abstract!Plus
  <2> QED
    BY <2>2, <2>5 DEF Abstract!Next
<1> QED
  BY <1>1, <1>2, LedgerInductive, PTL
  DEF Spec, ImplementsBank, Abstract!Spec, Abstract!bankVars
=============================================================================
