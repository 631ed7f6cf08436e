------------------------------- MODULE Cubes -------------------------------
(***************************************************************************)
(* The formula side of a job (internal/sat): an uploaded DIMACS file loses *)
(* its trailer, is validated (dimacs.go) and split into cubes (cube.go);   *)
(* workers and the server build CNF /\ cube for each (cubeapply.go), and   *)
(* the server checks models (verify_sat.go) and proofs (drat.go).  One job *)
(* is followed from the upload to its verdict; workers answer honestly.    *)
(*                                                                         *)
(* A file is a sequence of lines [kind, toks]; kind is "note" (blank or    *)
(* comment), "p" (toks are the two numbers), "%" or "clause" (toks are     *)
(* the integers of the line, the closing 0 included).                      *)
(***************************************************************************)
EXTENDS Integers, Sequences, FiniteSets

CONSTANTS
    Files,        \* the files that may be uploaded
    WorkerCounts, \* the values of max_workers
    maxDepthCap   \* at most 2^maxDepthCap cubes (20 in the code)

Lines == [kind : {"note", "p", "%", "clause"}, toks : Seq(Int)]

ASSUME CubesAssumption ==
    /\ WorkerCounts \subseteq Int /\ maxDepthCap \in Nat \ {0}
    /\ \A f \in Files : /\ f \in Seq(Lines)
                        /\ \A i \in DOMAIN f : f[i].kind = "p" => Len(f[i].toks) = 2

VARIABLES
    upload, maxWorkers, \* what is submitted
    file,              \* what is stored of the upload
    stage,             \* "new", "refused", "stored", "failed", "split", "sat", "unsat"
    cubes,             \* job_shards.cube_literals, in order
    open,              \* indexes of the shards without a verified result
    rejected           \* shards an honest result of which was not accepted

input == <<upload, maxWorkers>>
vars == <<input, file, stage, cubes, open, rejected>>

Abs(n) == IF n < 0 THEN -n ELSE n
Elems(s) == {s[i] : i \in DOMAIN s}

(* How many of the lines S of a file have been read after line i.          *)
Rank(S, i) == Cardinality(S \cap 1..i)

(* The literals of a line up to its first 0.                               *)
Lits(l) == {l.toks[i] : i \in {k \in DOMAIN l.toks : \A m \in 1..k : l.toks[m] # 0}}

---------------------------------------------------------------------------
(* dimacs.go.                                                              *)

(* ValidateDIMACS skips notes and '%' lines; the first other line is the   *)
(* header.                                                                 *)
Content(f) == {i \in DOMAIN f : f[i].kind \notin {"note", "%"}}
HeaderAt(f) == CHOOSE i \in Content(f) : \A k \in Content(f) : i <= k
NumVars(f) == f[HeaderAt(f)].toks[1]
Announced(f) == f[HeaderAt(f)].toks[2]

IsHeader(l) == l.kind = "p" /\ l.toks[1] > 0 /\ l.toks[2] >= 0

WellFormed(l, numVars) ==
    /\ l.kind = "clause" /\ l.toks # << >>
    /\ \A i \in DOMAIN l.toks :
          IF i = Len(l.toks) THEN l.toks[i] = 0 ELSE Abs(l.toks[i]) \in 1..numVars

(* It reads as many lines as the header announces, all of them if that is  *)
(* 0; the header is the first of Rank.                                     *)
ValidDIMACS(f) ==
    /\ Content(f) # {} /\ IsHeader(f[HeaderAt(f)])
    /\ Announced(f) > 0 => Cardinality(Content(f)) > Announced(f)
    /\ \A i \in Content(f) \ {HeaderAt(f)} :
          Rank(Content(f), i) - 1 <= Announced(f) \/ Announced(f) = 0
             => WellFormed(f[i], NumVars(f))

(* PrepareCNFForSolving: a '%' line is the logical end of the file.        *)
MutKeepTrailer(f) == f
UpToTrailer(f) ==
    SubSeq(f, 1, Cardinality({i \in DOMAIN f : \A k \in 1..i : f[k].kind # "%"}))

---------------------------------------------------------------------------
(* cube.go.                                                                *)

(* The loop condition of chooseDepthCeil, negated.                         *)
MutOneMore(d, workers, numVars) == 2 ^ d > workers \/ d + 1 > numVars \/ d + 1 > maxDepthCap
DeepEnough(d, workers, numVars) ==
    2 ^ d >= workers \/ d + 1 > numVars \/ d + 1 > maxDepthCap

ChooseDepthCeil(workers, numVars) ==
    CHOOSE d \in 0..maxDepthCap :
        /\ DeepEnough(d, workers, numVars)
        /\ \A e \in 0..(d - 1) : ~DeepEnough(e, workers, numVars)

(* Bit i - 1 of the mask is the sign of variable i.                        *)
MutShiftByOne(mask, i) == (mask \div (2 ^ i)) % 2 = 1
BitSet(mask, i) == (mask \div (2 ^ (i - 1))) % 2 = 1

(* An empty cube when there is nothing to branch on.                       *)
GenerateCubes(workers, numVars) ==
    LET depth == ChooseDepthCeil(workers, numVars) IN
    [n \in 1..(2 ^ depth) |->
        [i \in 1..depth |-> IF BitSet(n - 1, i) THEN i ELSE -i]]

---------------------------------------------------------------------------
(* cubeapply.go.                                                           *)

MutForgetCube(lines, cube) ==
    Cardinality({i \in DOMAIN lines : lines[i].kind = "clause" /\ 0 \in Elems(lines[i].toks)})

(* Lines that end in 0 are counted as clauses, the cube's are added.       *)
NewClauseCount(lines, cube) ==
    Cardinality({i \in DOMAIN lines :
                    /\ lines[i].kind = "clause" /\ lines[i].toks # << >>
                    /\ lines[i].toks[Len(lines[i].toks)] = 0}) + Len(cube)

ApplyCube(f, cube) ==
    LET lines == UpToTrailer(f) IN
    [i \in 1..(Len(lines) + Len(cube)) |->
        IF i > Len(lines)
        THEN [kind |-> "clause", toks |-> <<cube[i - Len(lines)], 0>>]
        ELSE IF lines[i].kind = "p" /\ \A k \in 1..(i - 1) : lines[k].kind # "p"
        THEN [lines[i] EXCEPT !.toks[2] = NewClauseCount(lines, cube)]
        ELSE lines[i]]

SolveCNF(f, cube) == UpToTrailer(ApplyCube(f, cube))

---------------------------------------------------------------------------
(* verify_sat.go.                                                          *)

(* The map built from the literals of a model: the last one wins.          *)
Assigns(model, lit) ==
    \E i \in DOMAIN model :
        model[i] = lit /\ \A k \in (i + 1)..Len(model) : model[k] # -lit

MutCubeUnchecked(cube, model) == TRUE
CubeRespected(cube, model) == \A i \in DOMAIN cube : ~Assigns(model, -cube[i])

VerifySatAssignment(f, cube, model) ==
    /\ CubeRespected(cube, model)
    /\ \A l \in Elems(UpToTrailer(f)) :
          l.kind = "clause" => \E lit \in Lits(l) : Assigns(model, lit)

---------------------------------------------------------------------------
(* kissat and drat-trim, as far as they matter here.                       *)

(* Total assignments, as sets of literals.                                 *)
Total(T, numVars) == {IF v \in T THEN v ELSE -v : v \in 1..numVars}
Totals(numVars) == {Total(T, numVars) : T \in SUBSET (1..numVars)}

Satisfies(a, f, S) == \A i \in S : Lits(f[i]) \cap a # {}

ClauseLines(f) == {i \in DOMAIN f : f[i].kind = "clause"}

(* kissat --relaxed reads every clause of the file ...                     *)
KissatModels(f) == {a \in Totals(NumVars(f)) : Satisfies(a, f, ClauseLines(f))}

(* ... drat-trim as many as the header says: the proof holds if these      *)
(* have no model either.                                                   *)
VerifyDratProof(f) ==
    LET read == {i \in ClauseLines(f) : Rank(ClauseLines(f), i) <= Announced(f)} IN
    ~ \E a \in Totals(NumVars(f)) : Satisfies(a, f, read)

---------------------------------------------------------------------------
Init ==
    /\ upload \in Files /\ maxWorkers \in WorkerCounts
    /\ file = << >> /\ stage = "new" /\ cubes = << >> /\ open = {} /\ rejected = {}

(* The upload is stored without its trailer.                               *)
HandleCreateJob ==
    /\ stage = "new"
    /\ IF maxWorkers < 1
       THEN stage' = "refused" /\ UNCHANGED file
       ELSE stage' = "stored" /\ file' = UpToTrailer(upload)
    /\ UNCHANGED <<input, cubes, open, rejected>>

EnqueueJob ==
    /\ stage = "stored"
    /\ IF ValidDIMACS(file)
       THEN /\ stage' = "split"
            /\ cubes' = GenerateCubes(maxWorkers, NumVars(file))
            /\ open' = DOMAIN cubes'
       ELSE stage' = "failed" /\ UNCHANGED <<cubes, open>>
    /\ UNCHANGED <<input, file, rejected>>

(* A model of the worker's CNF, as kissat prints it, meets the server.     *)
AnswerSat(n, a) ==
    LET model == [v \in 1..NumVars(file) |-> IF v \in a THEN v ELSE -v] IN
    /\ stage = "split" /\ n \in open
    /\ a \in KissatModels(SolveCNF(file, cubes[n]))
    /\ IF VerifySatAssignment(file, cubes[n], model)
       THEN stage' = "sat" /\ UNCHANGED rejected
       ELSE rejected' = rejected \cup {n} /\ UNCHANGED stage
    /\ UNCHANGED <<input, file, cubes, open>>

(* So does a proof for the CNF the server has rebuilt.                     *)
AnswerUnsat(n) ==
    LET cnf == SolveCNF(file, cubes[n]) IN
    /\ stage = "split" /\ n \in open
    /\ KissatModels(cnf) = {}
    /\ IF VerifyDratProof(cnf)
       THEN /\ open' = open \ {n}
            /\ stage' = IF open = {n} THEN "unsat" ELSE stage
            /\ UNCHANGED rejected
       ELSE rejected' = rejected \cup {n} /\ UNCHANGED <<open, stage>>
    /\ UNCHANGED <<input, file, cubes>>

Next ==
    \/ HandleCreateJob \/ EnqueueJob
    \/ \E n \in open :
          AnswerUnsat(n) \/ \E a \in Totals(NumVars(file)) : AnswerSat(n, a)

Spec == Init /\ [][Next]_vars
---------------------------------------------------------------------------
(* Correctness.                                                            *)

(* The formula the client means: of the clauses before the trailer, as     *)
(* many as the header announces, all of them if it says 0.                 *)
Clauses(f) == {i \in DOMAIN f : f[i].kind = "clause" /\ \A k \in 1..i : f[k].kind # "%"}
Declared(f) ==
    {i \in Clauses(f) : Announced(f) = 0 \/ Rank(Clauses(f), i) <= Announced(f)}

Models == {a \in Totals(NumVars(upload)) : Satisfies(a, upload, Declared(upload))}

(* No other clause-like lines before the trailer: a file to which the      *)
(* comment of ExtraLinesIgnored does not apply.                            *)
Plain == Announced(upload) \in {0, Cardinality(Clauses(upload))}

Split == stage \in {"split", "sat", "unsat"}

(* Every total assignment of the variables lies in exactly one cube: no    *)
(* model is out of every worker's reach, none is searched for twice.       *)
CubesPartition ==
    Split => \A a \in Totals(NumVars(file)) :
                Cardinality({n \in DOMAIN cubes : Elems(cubes[n]) \subseteq a}) = 1

(* There is a shard for every worker asked for, unless variables or the    *)
(* depth cap run out first, and fewer than twice as many.                  *)
EnoughShards ==
    Split =>
        /\ \/ Len(cubes) >= maxWorkers
           \/ Len(cubes) \in {2 ^ NumVars(file), 2 ^ maxDepthCap}
        /\ Len(cubes) < 2 * maxWorkers

(* The verdict of the job is that of the declared formula.                 *)
VerdictRight ==
    Split /\ Plain =>
        /\ stage = "sat" => Models # {}
        /\ stage = "unsat" => Models = {}

(* No honest result is refused, so no honest worker pays a penalty: worker *)
(* and server rebuild the same CNF and agree on what it says.              *)
HonestAccepted == Split /\ Plain => rejected = {}

(* Whatever literals a worker sends, partial or contradictory: if they are *)
(* accepted for a cube there is a model of the formula within that cube.   *)
Guesses(numVars) ==
    UNION {[1..n -> ((-numVars - 1)..(numVars + 1)) \ {0}] : n \in 0..2}

AcceptedHasModel ==
    stage = "split" /\ Plain =>
        \A n \in DOMAIN cubes : \A g \in Guesses(NumVars(file)) :
            VerifySatAssignment(file, cubes[n], g) =>
                \E a \in Models : Elems(cubes[n]) \subseteq a

---------------------------------------------------------------------------
(* What makes them inductive: what is stored and split, and that shards    *)
(* are closed only without a model.                                        *)
FileInv ==
    /\ upload \in Files /\ maxWorkers \in WorkerCounts
    /\ stage = "stored" \/ Split => file = UpToTrailer(upload) /\ maxWorkers >= 1
    /\ Split => /\ ValidDIMACS(file)
                /\ cubes = GenerateCubes(maxWorkers, NumVars(file))
                /\ open \subseteq DOMAIN cubes
    /\ ~Split => open = {} /\ rejected = {}

ShardInv ==
    Split /\ Plain =>
        /\ rejected = {}
        /\ \A n \in DOMAIN cubes \ open : KissatModels(SolveCNF(file, cubes[n])) = {}
        /\ stage = "sat" => Models # {}
        /\ stage = "unsat" => open = {}

CubesInv == FileInv /\ ShardInv

---------------------------------------------------------------------------
(* What a comment promises and the code does not keep.                     *)

(* "ignore any additional clause-looking lines (some benchmarks have a     *)
(* trailing "0")": the verdict is that of the declared formula whatever    *)
(* follows the declared clauses.                                           *)
ExtraLinesIgnored ==
    /\ stage = "sat" => Models # {}
    /\ stage = "unsat" => Models = {}
=============================================================================
