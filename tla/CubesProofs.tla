---------------------------- MODULE CubesProofs ----------------------------
(***************************************************************************)
(* Proofs about Cubes, for every upload, number of workers and depth cap.  *)
(*                                                                         *)
(* Depth and masks are numbers: chooseDepthCeil stops at the least depth   *)
(* that will do, and each choice of signs for the variables 1..depth is    *)
(* the binary form of exactly one mask.  Files are sets of line numbers:   *)
(* what the validator, kissat, drat-trim and the model checker read of a   *)
(* file without further clause lines is the same set of clauses.           *)
(***************************************************************************)
EXTENDS Cubes, Counting, SequenceTheorems

---------------------------------------------------------------------------
(* The depth.                                                              *)

(* The loop of chooseDepthCeil ends, at the first depth that will do.      *)
LEMMA DepthIsLeast ==
    ASSUME NEW workers \in Nat \ {0}, NEW numVars \in Nat
    PROVE  LET d == ChooseDepthCeil(workers, numVars) IN
           /\ d \in 0..maxDepthCap /\ d <= numVars
           /\ DeepEnough(d, workers, numVars)
           /\ \A e \in 0..(d - 1) : ~DeepEnough(e, workers, numVars)
<1> DEFINE Enough(d) == DeepEnough(d, workers, numVars)
           S == {d \in 0..maxDepthCap : Enough(d)}
           P(d) == Enough(d) /\ \A e \in 0..(d - 1) : ~Enough(e)
<1>1. maxDepthCap \in Nat \ {0}
  BY CubesAssumption
<1>2. maxDepthCap \in S
  BY <1>1 DEF DeepEnough
<1>3. \E d \in S : \A e \in S : d <= e
  <2>1. S \subseteq Nat /\ S # {}
    BY <1>1, <1>2
  <2> HIDE DEF S
  <2> QED
    BY <2>1, LeastNatural
<1>4. \E d \in 0..maxDepthCap : P(d)
  <2>1. PICK d \in S : \A e \in S : d <= e
    BY <1>3
  <2>2. ASSUME NEW e \in 0..(d - 1) PROVE ~Enough(e)
    <3>1. e \in 0..maxDepthCap /\ ~(d <= e)
      BY <1>1, <2>1
    <3> QED
      BY <2>1, <3>1
  <2> QED
    BY <2>1, <2>2
<1> DEFINE d == CHOOSE x \in 0..maxDepthCap : P(x)
<1>5. d \in 0..maxDepthCap /\ P(d)
  BY <1>4
<1>6. d = ChooseDepthCeil(workers, numVars)
  BY DEF ChooseDepthCeil
<1>7. d <= numVars
  <2> HIDE DEF d
  <2>1. CASE d = 0
    BY <2>1
  <2>2. CASE d > 0
    <3>1. ~Enough(d - 1)
      BY <1>1, <1>5, <2>2
    <3>2. d - 1 + 1 <= numVars
      BY <1>1, <1>5, <3>1 DEF DeepEnough
    <3> QED
      BY <1>1, <1>5, <3>2
  <2> QED
    BY <1>1, <1>5, <2>1, <2>2
<1> QED
  BY <1>5, <1>6, <1>7

(* So there are enough cubes, and not twice as many as needed.             *)
LEMMA DepthFits ==
    ASSUME NEW workers \in Nat \ {0}, NEW numVars \in Nat
    PROVE  LET d == ChooseDepthCeil(workers, numVars) IN
           /\ 2 ^ d \in Nat \ {0}
           /\ 2 ^ d >= workers \/ d = numVars \/ d = maxDepthCap
           /\ 2 ^ d < 2 * workers
<1> DEFINE d == ChooseDepthCeil(workers, numVars)
<1>1. /\ d \in Nat /\ maxDepthCap \in Nat /\ d <= maxDepthCap /\ d <= numVars
      /\ DeepEnough(d, workers, numVars)
      /\ \A e \in 0..(d - 1) : ~DeepEnough(e, workers, numVars)
  BY DepthIsLeast, CubesAssumption
<1> HIDE DEF d
<1>2. 2 ^ d \in Nat \ {0}
  BY <1>1, PowerStep
<1>3. 2 ^ d >= workers \/ d = numVars \/ d = maxDepthCap
  BY <1>1 DEF DeepEnough
<1>4. 2 ^ d < 2 * workers
  <2>1. CASE d = 0
    BY <2>1, PowerZero
  <2>2. CASE d > 0
    <3>1. d - 1 \in Nat /\ d - 1 \in 0..(d - 1)
      BY <1>1, <2>2
    <3>2. 2 ^ (d - 1) \in Nat /\ 2 ^ d = 2 * 2 ^ (d - 1)
      <4>1. d - 1 + 1 = d
        BY <1>1
      <4> QED
        BY <3>1, <4>1, PowerStep
    <3>3. ~(2 ^ (d - 1) >= workers)
      BY <1>1, <3>1 DEF DeepEnough
    <3> QED
      BY <3>2, <3>3
  <2> QED
    BY <1>1, <2>1, <2>2
<1> QED
  BY <1>2, <1>3, <1>4 DEF d

---------------------------------------------------------------------------
(* The masks.                                                              *)

(* Mask m has exactly the bits of T among the first d.                     *)
HasBits(m, d, T) == \A i \in 1..d : BitSet(m, i) <=> i \in T

(* Bit 1 is the parity, bit i + 1 is bit i of the half.                    *)
LEMMA Bits ==
    ASSUME NEW m \in Nat
    PROVE  /\ BitSet(m, 1) <=> m % 2 = 1
           /\ \A i \in Nat \ {0} : BitSet(m, i + 1) <=> BitSet(m \div 2, i)
<1>1. BitSet(m, 1) <=> m % 2 = 1
  <2>1. 2 ^ (1 - 1) = 1
    BY PowerZero
  <2>2. m \div 1 = m
    OBVIOUS
  <2> QED
    BY <2>1, <2>2 DEF BitSet
<1>2. ASSUME NEW i \in Nat \ {0} PROVE BitSet(m, i + 1) <=> BitSet(m \div 2, i)
  <2> DEFINE p == 2 ^ (i - 1)
  <2>1. i - 1 \in Nat /\ i + 1 - 1 = i /\ i - 1 + 1 = i
    OBVIOUS
  <2>2. p \in Nat \ {0} /\ 2 ^ i = 2 * p
    BY <2>1, PowerStep
  <2>3. m \div (2 * p) = (m \div 2) \div p
    <3> HIDE DEF p
    <3> QED
      BY <2>2, HalfFirst
  <2> QED
    BY <2>1, <2>2, <2>3 DEF BitSet
<1> QED
  BY <1>1, <1>2

(* Any set of variables is the positive half of exactly one cube.          *)
LEMMA OneMask ==
    ASSUME NEW d \in Nat, NEW T
    PROVE  \E m \in 0..(2 ^ d - 1) :
              /\ HasBits(m, d, T)
              /\ \A k \in 0..(2 ^ d - 1) : HasBits(k, d, T) => k = m
<1> DEFINE One(n, U) == \E m \in 0..(2 ^ n - 1) :
              /\ HasBits(m, n, U)
              /\ \A k \in 0..(2 ^ n - 1) : HasBits(k, n, U) => k = m
           S == {n \in Nat : \A U \in SUBSET Nat : One(n, U)}
<1>1. 0 \in S
  <2>1. ASSUME NEW U \in SUBSET Nat PROVE One(0, U)
    BY PowerZero DEF HasBits
  <2> QED
    BY <2>1
<1>2. ASSUME NEW n \in Nat, n \in S PROVE n + 1 \in S
  <2>1. ASSUME NEW U \in SUBSET Nat PROVE One(n + 1, U)
    <3> DEFINE V == {i \in Nat : i + 1 \in U}
               b == IF 1 \in U THEN 1 ELSE 0
    <3>1. PICK h \in 0..(2 ^ n - 1) :
             /\ HasBits(h, n, V)
             /\ \A k \in 0..(2 ^ n - 1) : HasBits(k, n, V) => k = h
      BY <1>2
    <3>2. 2 ^ n \in Nat \ {0} /\ 2 ^ (n + 1) = 2 * 2 ^ n
      BY PowerStep
    <3>3. ASSUME NEW k \in Nat
          PROVE  HasBits(k, n + 1, U) <=> k % 2 = b /\ HasBits(k \div 2, n, V)
      <4>1. k % 2 \in {0, 1}
        OBVIOUS
      <4>2. \A i \in 1..n : BitSet(k, i + 1) <=> BitSet(k \div 2, i)
        BY Bits
      <4>3. BitSet(k, 1) <=> k % 2 = 1
        BY Bits
      <4>4. ASSUME HasBits(k, n + 1, U) PROVE k % 2 = b /\ HasBits(k \div 2, n, V)
        <5>1. 1 \in 1..(n + 1) /\ \A i \in 1..n : i \in Nat /\ i + 1 \in 1..(n + 1)
          OBVIOUS
        <5> QED
          BY <4>1, <4>2, <4>3, <4>4, <5>1 DEF HasBits
      <4>5. ASSUME k % 2 = b, HasBits(k \div 2, n, V) PROVE HasBits(k, n + 1, U)
        <5>1. ASSUME NEW i \in 1..(n + 1) PROVE BitSet(k, i) <=> i \in U
          <6>1. CASE i = 1
            BY <4>3, <4>5, <6>1
          <6>2. CASE i # 1
            <7>1. i - 1 \in 1..n /\ i - 1 + 1 = i
              BY <6>2
            <7>2. BitSet(k, i) <=> BitSet(k \div 2, i - 1)
              BY <4>2, <7>1
            <7>3. i - 1 \in V <=> i \in U
              BY <7>1
            <7> QED
              BY <4>5, <7>1, <7>2, <7>3 DEF HasBits
          <6> QED
            BY <6>1, <6>2
        <5> QED
          BY <5>1 DEF HasBits
      <4> QED
        BY <4>4, <4>5
    <3> DEFINE m == 2 * h + b
    <3>4. m \in Nat /\ m % 2 = b /\ m \div 2 = h /\ m \in 0..(2 ^ (n + 1) - 1)
      <4>1. h \in Nat /\ b \in 0..1 /\ h <= 2 ^ n - 1
        BY <3>2
      <4> HIDE DEF b
      <4>2. (2 * h + b) % 2 = b /\ (2 * h + b) \div 2 = h
        BY <4>1
      <4> QED
        BY <3>2, <4>1, <4>2
    <3>5. HasBits(m, n + 1, U)
      <4> HIDE DEF m, b, V
      <4> QED
        BY <3>1, <3>3, <3>4
    <3>6. ASSUME NEW k \in 0..(2 ^ (n + 1) - 1), HasBits(k, n + 1, U) PROVE k = m
      <4>1. k \in Nat /\ k % 2 = b /\ HasBits(k \div 2, n, V)
        BY <3>2, <3>3, <3>6
      <4>2. k \div 2 \in 0..(2 ^ n - 1) /\ k = (2 * (k \div 2)) + (k % 2)
        BY <3>2, <4>1
      <4>3. k \div 2 = h
        BY <3>1, <4>1, <4>2
      <4> QED
        BY <4>1, <4>2, <4>3
    <3> HIDE DEF m
    <3> QED
      BY <3>4, <3>5, <3>6
  <2> QED
    BY <2>1
<1>3. Nat \subseteq S
  <2> HIDE DEF S
  <2> QED
    BY <1>1, <1>2, NatInduct
<1>4. One(d, T \cap Nat)
  BY <1>3
<1>5. \A m : HasBits(m, d, T \cap Nat) <=> HasBits(m, d, T)
  BY DEF HasBits
<1> QED
  BY <1>4, <1>5

---------------------------------------------------------------------------
(* Assignments and cubes.                                                  *)

(* A function on 1..n is a sequence of length n.                           *)
LEMMA FunctionIsSeq ==
    ASSUME NEW n \in Nat, NEW S, NEW f \in [1..n -> S]
    PROVE  f \in Seq(S) /\ Len(f) = n
<1>1. f \in Seq(S)
  BY SeqDef
<1>2. DOMAIN f = 1..Len(f) /\ Len(f) \in Nat /\ DOMAIN f = 1..n
  BY <1>1, LenProperties
<1> QED
  BY <1>1, <1>2

(* A total assignment has one literal of each variable.                    *)
LEMMA TotalLits ==
    ASSUME NEW n \in Nat, NEW T \in SUBSET (1..n)
    PROVE  /\ \A v \in 1..n : /\ v \in Total(T, n) <=> v \in T
                              /\ -v \in Total(T, n) <=> v \notin T
           /\ \A lit \in Total(T, n) : lit \in 1..n \/ (-lit \in 1..n /\ lit = -(-lit))
<1>1. ASSUME NEW v \in 1..n, v \in Total(T, n) PROVE v \in T
  <2>1. PICK w \in 1..n : v = IF w \in T THEN w ELSE -w
    BY <1>1 DEF Total
  <2> QED
    BY <2>1
<1>2. ASSUME NEW v \in 1..n, -v \in Total(T, n) PROVE v \notin T
  <2>1. PICK w \in 1..n : -v = IF w \in T THEN w ELSE -w
    BY <1>2 DEF Total
  <2> QED
    BY <2>1
<1>3. ASSUME NEW v \in 1..n PROVE IF v \in T THEN v \in Total(T, n) ELSE -v \in Total(T, n)
  BY DEF Total
<1>4. ASSUME NEW lit \in Total(T, n)
      PROVE  lit \in 1..n \/ (-lit \in 1..n /\ lit = -(-lit))
  <2>1. PICK w \in 1..n : lit = IF w \in T THEN w ELSE -w
    BY DEF Total
  <2> QED
    BY <2>1
<1> QED
  BY <1>1, <1>2, <1>3, <1>4

(* What GenerateCubesForMaxWorkersCeil returns.                            *)
LEMMA CubesAre ==
    ASSUME NEW workers \in Nat \ {0}, NEW numVars \in Nat
    PROVE  LET d == ChooseDepthCeil(workers, numVars)
               c == GenerateCubes(workers, numVars)
           IN  /\ d \in Nat /\ d <= numVars /\ 2 ^ d \in Nat \ {0}
               /\ DOMAIN c = 1..(2 ^ d) /\ Len(c) = 2 ^ d
               /\ \A n \in DOMAIN c :
                     /\ c[n] \in Seq(Int \ {0}) /\ Len(c[n]) = d /\ DOMAIN c[n] = 1..d
                     /\ \A i \in 1..d : c[n][i] = IF BitSet(n - 1, i) THEN i ELSE -i
<1> DEFINE d == ChooseDepthCeil(workers, numVars)
           c == GenerateCubes(workers, numVars)
           cube(n) == [i \in 1..d |-> IF BitSet(n - 1, i) THEN i ELSE -i]
<1>1. d \in Nat /\ d <= numVars /\ 2 ^ d \in Nat \ {0}
  BY DepthIsLeast, DepthFits, CubesAssumption
<1>2. c = [n \in 1..(2 ^ d) |-> cube(n)]
  BY DEF GenerateCubes
<1> HIDE DEF d, c
<1>3. \A n : cube(n) \in [1..d -> Int \ {0}]
  BY <1>1
<1>4. \A n : /\ cube(n) \in Seq(Int \ {0}) /\ Len(cube(n)) = d /\ DOMAIN cube(n) = 1..d
             /\ \A i \in 1..d : cube(n)[i] = IF BitSet(n - 1, i) THEN i ELSE -i
  <2>1. ASSUME NEW n PROVE cube(n) \in Seq(Int \ {0}) /\ Len(cube(n)) = d
    <3> HIDE DEF cube
    <3> QED
      BY <1>1, <1>3, FunctionIsSeq
  <2> QED
    BY <2>1
<1>5. c \in [1..(2 ^ d) -> Seq(Int \ {0})]
  BY <1>2, <1>4
<1>6. Len(c) = 2 ^ d
  BY <1>1, <1>5, FunctionIsSeq
<1> QED
  BY <1>1, <1>2, <1>4, <1>6 DEF d, c

(* Each total assignment lies in one cube, that of the mask of its         *)
(* variables 1..depth.                                                     *)
LEMMA OneCube ==
    ASSUME NEW workers \in Nat \ {0}, NEW numVars \in Nat,
           NEW T \in SUBSET (1..numVars)
    PROVE  LET c == GenerateCubes(workers, numVars) IN
           \E n \in DOMAIN c :
              {k \in DOMAIN c : Elems(c[k]) \subseteq Total(T, numVars)} = {n}
<1> DEFINE a == Total(T, numVars)
           d == ChooseDepthCeil(workers, numVars)
           c == GenerateCubes(workers, numVars)
<1>1. /\ d \in Nat /\ d <= numVars /\ 2 ^ d \in Nat \ {0} /\ DOMAIN c = 1..(2 ^ d)
      /\ \A n \in DOMAIN c :
            /\ DOMAIN c[n] = 1..d
            /\ \A i \in 1..d : c[n][i] = IF BitSet(n - 1, i) THEN i ELSE -i
  BY CubesAre
<1> HIDE DEF d, c
<1>2. \A v \in 1..numVars : (v \in a <=> v \in T) /\ (-v \in a <=> v \notin T)
  BY TotalLits
<1> HIDE DEF a
<1>3. ASSUME NEW k \in DOMAIN c
      PROVE  Elems(c[k]) \subseteq a <=> HasBits(k - 1, d, T)
  <2>1. ASSUME NEW i \in 1..d PROVE c[k][i] \in a <=> (BitSet(k - 1, i) <=> i \in T)
    <3>1. i \in 1..numVars
      BY <1>1
    <3>2. c[k][i] = IF BitSet(k - 1, i) THEN i ELSE -i
      BY <1>1
    <3> QED
      BY <1>2, <3>1, <3>2
  <2>2. Elems(c[k]) \subseteq a <=> \A i \in 1..d : c[k][i] \in a
    BY <1>1 DEF Elems
  <2> QED
    BY <2>1, <2>2 DEF HasBits
<1>4. PICK m \in 0..(2 ^ d - 1) :
         HasBits(m, d, T) /\ \A k \in 0..(2 ^ d - 1) : HasBits(k, d, T) => k = m
  BY <1>1, OneMask
<1>5. m + 1 \in DOMAIN c /\ m + 1 - 1 = m
  BY <1>1
<1>6. ASSUME NEW k \in DOMAIN c, HasBits(k - 1, d, T) PROVE k = m + 1
  <2>1. k - 1 \in 0..(2 ^ d - 1)
    BY <1>1
  <2> QED
    BY <1>1, <1>4, <1>6, <2>1
<1>7. {k \in DOMAIN c : Elems(c[k]) \subseteq a} = {m + 1}
  BY <1>3, <1>4, <1>5, <1>6
<1> QED
  BY <1>5, <1>7 DEF c, a

---------------------------------------------------------------------------
(* Files.                                                                  *)

(* A file without a '%' line whose "p" lines have two numbers.             *)
Clean(g) ==
    /\ g \in Seq(Lines)
    /\ \A i \in DOMAIN g : g[i].kind # "%" /\ (g[i].kind = "p" => Len(g[i].toks) = 2)

(* The lines of a file.                                                    *)
LEMMA LinesOf ==
    ASSUME NEW f \in Seq(Lines)
    PROVE  /\ Len(f) \in Nat /\ DOMAIN f = 1..Len(f)
           /\ \A i \in DOMAIN f : /\ f[i] \in Lines /\ f[i].toks \in Seq(Int)
                                  /\ f[i].kind \in {"note", "p", "%", "clause"}
<1>1. Len(f) \in Nat /\ DOMAIN f = 1..Len(f) /\ f \in [1..Len(f) -> Lines]
  BY LenProperties
<1> QED
  BY <1>1 DEF Lines

(* PrepareCNFForSolving keeps the lines before the first '%' as they are.  *)
LEMMA TrailerGone ==
    ASSUME NEW f \in Seq(Lines)
    PROVE  LET g == UpToTrailer(f) IN
           /\ g \in Seq(Lines) /\ Len(g) \in 0..Len(f) /\ DOMAIN g = 1..Len(g)
           /\ \A i \in DOMAIN g : i \in DOMAIN f /\ g[i] = f[i] /\ g[i].kind # "%"
           /\ \A i \in DOMAIN f : i \in DOMAIN g <=> \A k \in 1..i : f[k].kind # "%"
<1> DEFINE D == {i \in DOMAIN f : \A k \in 1..i : f[k].kind # "%"}
           n == Cardinality(D)
           g == SubSeq(f, 1, n)
<1>1. Len(f) \in Nat /\ DOMAIN f = 1..Len(f) /\ \A i \in DOMAIN f : f[i] \in Lines
  BY LinesOf
<1>2. n \in 0..Len(f) /\ D = 1..n
  <2>1. D \in SUBSET (1..Len(f)) /\ \A i \in D : \A k \in 1..i : k \in D
    BY <1>1
  <2> HIDE DEF D
  <2> QED
    BY <1>1, <2>1, InitialSegment
<1>3. \A i \in 1..n : i \in DOMAIN f /\ f[i] \in Lines /\ f[i].kind # "%"
  <2>1. \A i \in D : i \in DOMAIN f /\ f[i] \in Lines /\ f[i].kind # "%"
    BY <1>1
  <2> HIDE DEF D
  <2> QED
    BY <1>2, <2>1
<1>4. \A i \in DOMAIN f : i \in 1..n <=> \A k \in 1..i : f[k].kind # "%"
  <2>1. \A i \in DOMAIN f : i \in D <=> \A k \in 1..i : f[k].kind # "%"
    OBVIOUS
  <2> HIDE DEF D
  <2> QED
    BY <1>2, <2>1
<1>5. g = UpToTrailer(f)
  BY DEF UpToTrailer
<1>6. /\ g \in Seq(Lines) /\ Len(g) = n
      /\ \A i \in 1..n : g[i] = f[i]
  <2> HIDE DEF n
  <2>1. /\ SubSeq(f, 1, n) \in Seq(Lines)
        /\ Len(SubSeq(f, 1, n)) = IF 1 <= n THEN n - 1 + 1 ELSE 0
        /\ \A i \in 1..(n - 1 + 1) : SubSeq(f, 1, n)[i] = f[1 + i - 1]
    BY <1>2, <1>3, SubSeqProperties
  <2>2. n - 1 + 1 = n /\ \A i \in 1..n : 1 + i - 1 = i
    BY <1>2
  <2> QED
    BY <1>2, <2>1, <2>2
<1> HIDE DEF g, n
<1>7. DOMAIN g = 1..n
  BY <1>6, LenProperties
<1> QED
  BY <1>2, <1>3, <1>4, <1>5, <1>6, <1>7

(* Nothing is cut off a file without a '%' line.                           *)
LEMMA NothingToCut ==
    ASSUME NEW g \in Seq(Lines), \A i \in DOMAIN g : g[i].kind # "%"
    PROVE  UpToTrailer(g) = g
<1> DEFINE h == UpToTrailer(g)
<1>1. /\ h \in Seq(Lines) /\ Len(h) \in 0..Len(g) /\ DOMAIN h = 1..Len(h)
      /\ \A i \in DOMAIN h : h[i] = g[i]
      /\ \A i \in DOMAIN g : i \in DOMAIN h <=> \A k \in 1..i : g[k].kind # "%"
  BY TrailerGone
<1>2. Len(g) \in Nat /\ DOMAIN g = 1..Len(g)
  BY LinesOf
<1> HIDE DEF h
<1>3. \A i \in DOMAIN g : i \in DOMAIN h
  BY <1>1, <1>2
<1>4. DOMAIN h = DOMAIN g
  <2>1. CASE Len(g) = 0
    BY <1>1, <1>2, <2>1
  <2>2. CASE Len(g) # 0
    <3>1. Len(g) \in DOMAIN g
      BY <1>2, <2>2
    <3>2. Len(g) \in 1..Len(h)
      BY <1>1, <1>3, <3>1
    <3>3. Len(h) = Len(g)
      <4>1. Len(h) \in 0..Len(g) /\ Len(g) \in Nat
        BY <1>1, <1>2
      <4>2. \A m \in Nat : \A k \in 0..m : m \in 1..k => k = m
        OBVIOUS
      <4> QED
        BY <3>2, <4>1, <4>2
    <3> QED
      BY <1>1, <1>2, <3>3
  <2> QED
    BY <2>1, <2>2
<1>5. h = g
  <2>1. h \in [DOMAIN g -> Lines] /\ g \in [DOMAIN g -> Lines]
    BY <1>1, <1>2, <1>4, LenProperties
  <2> QED
    BY <1>1, <1>4, <2>1
<1> QED
  BY <1>5 DEF h

(* What is stored of an upload.                                            *)
LEMMA StoredIsClean ==
    ASSUME NEW f \in Files
    PROVE  f \in Seq(Lines) /\ Clean(UpToTrailer(f))
<1>1. f \in Seq(Lines) /\ \A i \in DOMAIN f : f[i].kind = "p" => Len(f[i].toks) = 2
  BY CubesAssumption
<1> QED
  BY <1>1, TrailerGone DEF Clean

(* The header is the first line of the content, and no other is.           *)
LEMMA HeaderIsFirst ==
    ASSUME NEW f \in Seq(Lines), NEW h \in Content(f), \A k \in Content(f) : h <= k
    PROVE  HeaderAt(f) = h
<1> DEFINE x == CHOOSE i \in Content(f) : \A k \in Content(f) : i <= k
<1>1. x \in Content(f) /\ \A k \in Content(f) : x <= k
  OBVIOUS
<1>2. x = HeaderAt(f)
  BY DEF HeaderAt
<1>3. \A k \in Content(f) : k \in Nat
  BY LinesOf DEF Content
<1> HIDE DEF x
<1>4. x <= h /\ h <= x /\ x \in Nat /\ h \in Nat
  BY <1>1, <1>3
<1> QED
  BY <1>2, <1>4

(* A file with content has a header line, before all other content.        *)
LEMMA HeaderExists ==
    ASSUME NEW f \in Seq(Lines), Content(f) # {}
    PROVE  HeaderAt(f) \in Content(f) /\ \A k \in Content(f) : HeaderAt(f) <= k
<1>1. Content(f) \subseteq Nat
  BY LinesOf DEF Content
<1>2. PICK h \in Content(f) : \A k \in Content(f) : h <= k
  BY <1>1, LeastNatural
<1> QED
  BY <1>2, HeaderIsFirst

(* An upload and what is stored of it have the same header and clauses.    *)
LEMMA SameFormula ==
    ASSUME NEW f \in Seq(Lines), Content(UpToTrailer(f)) # {}
    PROVE  LET g == UpToTrailer(f) IN
           /\ NumVars(g) = NumVars(f) /\ Announced(g) = Announced(f)
           /\ ClauseLines(g) = Clauses(f)
           /\ \A i \in ClauseLines(g) : g[i] = f[i]
<1> DEFINE g == UpToTrailer(f)
<1>1. /\ g \in Seq(Lines) /\ DOMAIN g = 1..Len(g) /\ Len(g) \in Nat
      /\ \A i \in DOMAIN g : i \in DOMAIN f /\ g[i] = f[i] /\ g[i].kind # "%"
      /\ \A i \in DOMAIN f : i \in DOMAIN g <=> \A k \in 1..i : f[k].kind # "%"
  BY TrailerGone, LinesOf
<1>2. DOMAIN f = 1..Len(f) /\ Len(f) \in Nat
  BY LinesOf
<1> HIDE DEF g
<1>3. Content(g) # {}
  BY DEF g
<1> DEFINE h == HeaderAt(g)
<1>4. h \in Content(g) /\ \A k \in Content(g) : h <= k
  BY <1>1, <1>3, HeaderExists
<1> HIDE DEF h
<1>5. h \in DOMAIN g /\ h \in Content(f)
  BY <1>1, <1>4 DEF Content
<1>6. \A k \in Content(f) : h <= k
  <2>1. ASSUME NEW k \in Content(f) PROVE h <= k
    <3>1. CASE k \in DOMAIN g
      BY <1>1, <1>4, <2>1, <3>1 DEF Content
    <3>2. CASE k \notin DOMAIN g
      BY <1>1, <1>2, <1>5, <2>1, <3>2 DEF Content
    <3> QED
      BY <3>1, <3>2
  <2> QED
    BY <2>1
<1>7. HeaderAt(f) = h
  BY <1>5, <1>6, HeaderIsFirst
<1>8. NumVars(g) = NumVars(f) /\ Announced(g) = Announced(f)
  BY <1>1, <1>5, <1>7 DEF NumVars, Announced, h
<1>9. ClauseLines(g) = Clauses(f)
  BY <1>1 DEF ClauseLines, Clauses
<1>10. \A i \in ClauseLines(g) : g[i] = f[i]
  BY <1>1 DEF ClauseLines
<1> QED
  BY <1>8, <1>9, <1>10 DEF g

(* The file has no clause lines besides those that are announced.          *)
NoExtra(g) == Announced(g) \in {0, Cardinality(ClauseLines(g))}

(* The validator has seen every clause of such a file.                     *)
LEMMA AllWellFormed ==
    ASSUME NEW g \in Seq(Lines), ValidDIMACS(g), NoExtra(g), NEW i \in ClauseLines(g)
    PROVE  WellFormed(g[i], NumVars(g))
<1> DEFINE C == Content(g)
           h == HeaderAt(g)
           n == Announced(g)
<1>1. /\ h \in C /\ g[h].kind = "p" /\ \A k \in C : h <= k
      /\ n > 0 => Cardinality(C) > n
      /\ \A k \in C \ {h} : Rank(C, k) - 1 <= n \/ n = 0 => WellFormed(g[k], NumVars(g))
  BY HeaderExists DEF ValidDIMACS, IsHeader
<1>2. Len(g) \in Nat /\ C \in SUBSET (1..Len(g)) /\ ClauseLines(g) \in SUBSET (C \ {h})
  BY <1>1, LinesOf DEF Content, ClauseLines
<1>3. IsFiniteSet(C) /\ IsFiniteSet(ClauseLines(g)) /\ Cardinality(ClauseLines(g)) \in Nat
  <2>1. IsFiniteSet(1..Len(g))
    BY <1>2, FS_Interval
  <2>2. IsFiniteSet(C)
    BY <1>2, <2>1, FS_Subset
  <2>3. IsFiniteSet(ClauseLines(g))
    <3> HIDE DEF C, h
    <3> QED
      BY <1>2, <2>2, FS_Subset
  <2> QED
    BY <2>2, <2>3, FS_CardinalityType
<1> HIDE DEF C, h, n
<1>4. CASE n = 0
  BY <1>1, <1>2, <1>4
<1>5. CASE n # 0
  <2> DEFINE First == {k \in C : Rank(C, k) <= n + 1}
             W == First \ {h}
  <2>1. n = Cardinality(ClauseLines(g)) /\ n \in Nat \ {0}
    BY <1>3, <1>5 DEF NoExtra, n
  <2>2. n + 1 \in Nat /\ n + 1 <= Cardinality(C)
    BY <1>1, <1>3, <2>1, FS_CardinalityType
  <2>3. Cardinality(First) = n + 1
    BY <1>2, <2>2, FirstOnes DEF Rank
  <2>4. h \in First
    <3>1. C \cap 1..h = {h}
      BY <1>1, <1>2
    <3>2. Rank(C, h) = 1
      BY <3>1, FS_Singleton DEF Rank
    <3> QED
      BY <1>1, <2>1, <3>2
  <2>5. IsFiniteSet(First)
    BY <1>3, FS_Subset
  <2>6. Cardinality(W) = n
    <3> HIDE DEF First
    <3>1. Cardinality(First \ {h}) = Cardinality(First) - 1
      BY <2>4, <2>5, FS_RemoveElement
    <3> QED
      BY <2>1, <2>3, <3>1
  <2>7. ASSUME NEW k \in W PROVE WellFormed(g[k], NumVars(g)) /\ k \in ClauseLines(g)
    <3>1. k \in C \ {h} /\ Rank(C, k) <= n + 1
      OBVIOUS
    <3>2. Rank(C, k) \in Nat
      <4>1. C \cap 1..k \in SUBSET C
        OBVIOUS
      <4> QED
        BY <1>3, <4>1, Smaller DEF Rank
    <3>3. WellFormed(g[k], NumVars(g))
      BY <1>1, <2>1, <3>1, <3>2
    <3>4. k \in DOMAIN g
      BY <3>1 DEF C, Content
    <3> QED
      BY <3>3, <3>4 DEF WellFormed, ClauseLines
  <2> HIDE DEF W
  <2>8. W \in SUBSET ClauseLines(g)
    BY <2>7
  <2>9. W = ClauseLines(g)
    BY <1>3, <2>1, <2>6, <2>8, Smaller
  <2> QED
    BY <2>7, <2>9
<1> QED
  BY <1>4, <1>5

(* CNF /\ cube: the lines of the file with a new count in the header, and  *)
(* a unit clause for each literal of the cube.                             *)
LEMMA CubeApplied ==
    ASSUME NEW g, Clean(g), ValidDIMACS(g), NoExtra(g), NEW cube \in Seq(Int \ {0})
    PROVE  LET G == SolveCNF(g, cube)
               units == (Len(g) + 1)..(Len(g) + Len(cube))
           IN  /\ G \in Seq(Lines)
               /\ NumVars(G) = NumVars(g)
               /\ ClauseLines(G) = ClauseLines(g) \cup units
               /\ \A i \in ClauseLines(g) : G[i] = g[i]
               /\ \A i \in units : G[i].toks = <<cube[i - Len(g)], 0>>
               /\ Announced(G) = Cardinality(ClauseLines(G))
<1> DEFINE h == HeaderAt(g)
           count == NewClauseCount(g, cube)
           G == ApplyCube(g, cube)
           units == (Len(g) + 1)..(Len(g) + Len(cube))
           unit(i) == [kind |-> "clause", toks |-> <<cube[i - Len(g)], 0>>]
<1>1. /\ g \in Seq(Lines) /\ Len(g) \in Nat /\ DOMAIN g = 1..Len(g)
      /\ \A i \in DOMAIN g : /\ g[i] \in Lines /\ g[i].toks \in Seq(Int) /\ g[i].kind # "%"
                             /\ g[i].kind = "p" => Len(g[i].toks) = 2
  BY LinesOf DEF Clean
<1>2. /\ Len(cube) \in Nat /\ DOMAIN cube = 1..Len(cube)
      /\ \A i \in DOMAIN cube : cube[i] \in Int \ {0}
  BY LenProperties
<1>3. UpToTrailer(g) = g
  BY <1>1, NothingToCut
<1>4. /\ h \in Content(g) /\ h \in DOMAIN g /\ g[h].kind = "p"
      /\ \A k \in Content(g) : h <= k
  BY <1>1, HeaderExists DEF ValidDIMACS, IsHeader, Content
<1>5. IsFiniteSet(ClauseLines(g)) /\ Cardinality(ClauseLines(g)) \in Nat
  <2>1. IsFiniteSet(1..Len(g)) /\ ClauseLines(g) \subseteq 1..Len(g)
    BY <1>1, FS_Interval DEF ClauseLines
  <2> QED
    BY <2>1, FS_Subset, FS_CardinalityType
<1>6. count = Cardinality(ClauseLines(g)) + Len(cube)
  <2>1. {i \in DOMAIN g : /\ g[i].kind = "clause" /\ g[i].toks # << >>
                          /\ g[i].toks[Len(g[i].toks)] = 0} = ClauseLines(g)
    <3>1. ASSUME NEW i \in ClauseLines(g)
          PROVE  g[i].toks # << >> /\ g[i].toks[Len(g[i].toks)] = 0
      <4>1. WellFormed(g[i], NumVars(g)) /\ g[i].toks \in Seq(Int)
        BY <1>1, <3>1, AllWellFormed DEF ClauseLines
      <4>2. Len(g[i].toks) \in DOMAIN g[i].toks
        BY <4>1, EmptySeq, LenProperties DEF WellFormed
      <4> QED
        BY <4>1, <4>2 DEF WellFormed
    <3> QED
      BY <3>1 DEF ClauseLines
  <2> QED
    BY <2>1 DEF NewClauseCount
<1>7. count \in Nat
  BY <1>2, <1>5, <1>6
<1> HIDE DEF h, count
<1>8. /\ DOMAIN G = 1..(Len(g) + Len(cube))
      /\ \A i \in units : G[i] = unit(i)
      /\ \A i \in 1..Len(g) : i # h => G[i] = g[i]
      /\ G[h] = [g[h] EXCEPT !.toks[2] = count]
  <2>1. \A k \in 1..Len(g) : g[k].kind = "p" => h <= k
    BY <1>1, <1>4 DEF Content
  <2>2. ApplyCube(g, cube) =
          [i \in 1..(Len(g) + Len(cube)) |->
             IF i > Len(g)
             THEN unit(i)
             ELSE IF g[i].kind = "p" /\ \A k \in 1..(i - 1) : g[k].kind # "p"
             THEN [g[i] EXCEPT !.toks[2] = count]
             ELSE g[i]]
    BY <1>3 DEF ApplyCube, count
  <2>3. \A i \in 1..Len(g) :
           (g[i].kind = "p" /\ \A k \in 1..(i - 1) : g[k].kind # "p") <=> i = h
    <3>1. ASSUME NEW i \in 1..Len(g), g[i].kind = "p",
                 \A k \in 1..(i - 1) : g[k].kind # "p", i # h
          PROVE  FALSE
      <4>1. h \in 1..(i - 1)
        BY <1>1, <1>4, <2>1, <3>1
      <4> QED
        BY <1>4, <3>1, <4>1
    <3>2. \A k \in 1..(h - 1) : g[k].kind # "p"
      BY <1>1, <1>4, <2>1
    <3> QED
      BY <1>1, <1>4, <3>1, <3>2
  <2> HIDE DEF unit
  <2>4. /\ \A i \in units : i \in 1..(Len(g) + Len(cube)) /\ i > Len(g)
        /\ \A i \in 1..Len(g) : i \in 1..(Len(g) + Len(cube)) /\ ~(i > Len(g))
        /\ h \in 1..Len(g)
    BY <1>1, <1>2, <1>4
  <2> QED
    BY <2>2, <2>3, <2>4
<1> HIDE DEF G
<1>9. /\ G[h] \in Lines /\ G[h].kind = "p"
      /\ G[h].toks[1] = g[h].toks[1] /\ G[h].toks[2] = count
  <2>1. g[h] \in Lines /\ g[h].toks \in Seq(Int) /\ Len(g[h].toks) = 2
    BY <1>1, <1>4
  <2>2. /\ [g[h].toks EXCEPT ![2] = count] \in Seq(Int)
        /\ [g[h].toks EXCEPT ![2] = count][1] = g[h].toks[1]
        /\ [g[h].toks EXCEPT ![2] = count][2] = count
    BY <1>7, <2>1, ExceptSeq
  <2>3. G[h] = [kind |-> g[h].kind, toks |-> [g[h].toks EXCEPT ![2] = count]]
    BY <1>8, <2>1 DEF Lines
  <2> QED
    BY <1>4, <2>2, <2>3 DEF Lines
<1>10. \A i \in units : /\ i - Len(g) \in DOMAIN cube
                        /\ unit(i).kind = "clause" /\ unit(i) \in Lines
  <2>1. ASSUME NEW i \in units
        PROVE  i - Len(g) \in DOMAIN cube /\ unit(i).kind = "clause" /\ unit(i) \in Lines
    <3>1. i - Len(g) \in DOMAIN cube /\ cube[i - Len(g)] \in Int
      BY <1>1, <1>2
    <3>2. <<cube[i - Len(g)], 0>> \in Seq(Int)
      BY <3>1
    <3> QED
      BY <3>1, <3>2 DEF Lines
  <2> QED
    BY <2>1
<1>11. \A i \in DOMAIN G : i \in units \/ (i \in 1..Len(g) /\ i \in DOMAIN g)
  BY <1>1, <1>2, <1>8
<1>12. G \in Seq(Lines) /\ \A i \in DOMAIN G : G[i].kind # "%"
  <2>1. ASSUME NEW i \in DOMAIN G PROVE G[i] \in Lines /\ G[i].kind # "%"
    <3> HIDE DEF unit, units
    <3>1. CASE i \in units
      BY <1>8, <1>10, <3>1
    <3>2. CASE i = h
      BY <1>9, <3>2
    <3>3. CASE i \in 1..Len(g) /\ i # h
      BY <1>1, <1>8, <3>3
    <3> QED
      BY <1>11, <3>1, <3>2, <3>3
  <2>2. G \in [1..(Len(g) + Len(cube)) -> Lines]
    <3>1. G = [i \in DOMAIN G |-> G[i]]
      BY DEF G, ApplyCube
    <3> QED
      BY <1>8, <2>1, <3>1
  <2>3. G \in Seq(Lines)
    BY <1>1, <1>2, <2>2, FunctionIsSeq
  <2> QED
    BY <2>1, <2>3
<1>13. SolveCNF(g, cube) = G
  BY <1>12, NothingToCut DEF SolveCNF, G
<1>14. HeaderAt(G) = h
  <2>1. h \in Content(G)
    <3>1. h \in DOMAIN G
      BY <1>1, <1>2, <1>4, <1>8
    <3> QED
      BY <1>9, <3>1 DEF Content
  <2>2. ASSUME NEW k \in Content(G) PROVE h <= k
    <3>1. k \in DOMAIN G
      BY DEF Content
    <3>2. CASE k \in units
      BY <1>1, <1>4, <3>2
    <3>3. CASE k \in 1..Len(g) /\ k # h
      <4>1. k \in DOMAIN g /\ G[k] = g[k]
        BY <1>1, <1>8, <3>3
      <4>2. k \in Content(g)
        BY <4>1 DEF Content
      <4> QED
        BY <1>4, <4>2
    <3>4. CASE k = h
      BY <1>1, <1>4, <3>4
    <3> QED
      BY <1>11, <3>1, <3>2, <3>3, <3>4
  <2> QED
    BY <1>12, <2>1, <2>2, HeaderIsFirst
<1>15. NumVars(G) = NumVars(g) /\ Announced(G) = count
  BY <1>9, <1>14 DEF NumVars, Announced, h
<1>16. ClauseLines(G) = ClauseLines(g) \cup units
  <2>1. ASSUME NEW i \in 1..Len(g) PROVE G[i].kind = g[i].kind
    BY <1>4, <1>8, <1>9
  <2>2. ASSUME NEW i \in units PROVE G[i].kind = "clause" /\ i \in DOMAIN G
    <3>1. G[i] = unit(i) /\ unit(i).kind = "clause"
      BY <1>8, <1>10
    <3>2. i \in DOMAIN G
      BY <1>1, <1>2, <1>8
    <3> QED
      BY <3>1, <3>2
  <2>3. \A i \in 1..Len(g) : i \in DOMAIN g /\ i \in DOMAIN G
    BY <1>1, <1>2, <1>8
  <2>4. \A i \in DOMAIN g : i \in 1..Len(g)
    BY <1>1
  <2> HIDE DEF units
  <2> QED
    BY <1>11, <2>1, <2>2, <2>3, <2>4 DEF ClauseLines
<1>17. \A i \in ClauseLines(g) : G[i] = g[i]
  BY <1>1, <1>4, <1>8 DEF ClauseLines
<1>18. \A i \in units : G[i].toks = <<cube[i - Len(g)], 0>>
  <2>1. \A i : unit(i).toks = <<cube[i - Len(g)], 0>>
    OBVIOUS
  <2> HIDE DEF units, unit
  <2> QED
    BY <1>8, <2>1
<1>19. Cardinality(ClauseLines(G)) = count
  <2>1. IsFiniteSet(units) /\ Cardinality(units) = Len(cube)
    <3> DEFINE a == Len(g) + 1
               b == Len(g) + Len(cube)
    <3>1. a \in Int /\ b \in Int
      BY <1>1, <1>2
    <3>2. (IF a > b THEN 0 ELSE b - a + 1) = Len(cube)
      BY <1>1, <1>2
    <3> HIDE DEF a, b
    <3>3. IsFiniteSet(a..b) /\ Cardinality(a..b) = IF a > b THEN 0 ELSE b - a + 1
      BY <3>1, FS_Interval
    <3> QED
      BY <3>2, <3>3 DEF a, b
  <2>2. ClauseLines(g) \cap units = {}
    BY <1>1 DEF ClauseLines
  <2> HIDE DEF units
  <2>3. Cardinality(ClauseLines(g) \cup units)
          = Cardinality(ClauseLines(g)) + Cardinality(units) - Cardinality({})
    BY <1>5, <2>1, <2>2, FS_Union
  <2> QED
    BY <1>2, <1>5, <1>6, <1>16, <2>1, <2>3, FS_EmptySet
<1> QED
  BY <1>12, <1>13, <1>15, <1>16, <1>17, <1>18, <1>19

(* The clause of a cube's literal asks for that literal.                   *)
LEMMA UnitLits ==
    ASSUME NEW x \in Int \ {0}, NEW l, l.toks = <<x, 0>>
    PROVE  Lits(l) = {x}
<1>1. DOMAIN l.toks = 1..2 /\ l.toks[1] = x /\ l.toks[2] = 0
  OBVIOUS
<1>2. {k \in DOMAIN l.toks : \A m \in 1..k : l.toks[m] # 0} = {1}
  <2>1. ASSUME NEW k \in 1..2, \A m \in 1..k : l.toks[m] # 0 PROVE k = 1
    BY <1>1, <2>1
  <2>2. \A m \in 1..1 : l.toks[m] # 0
    BY <1>1
  <2> QED
    BY <1>1, <2>1, <2>2
<1> QED
  BY <1>1, <1>2 DEF Lits

(* The models of CNF /\ cube are those of the formula within the cube.     *)
LEMMA CubeModels ==
    ASSUME NEW g, Clean(g), ValidDIMACS(g), NoExtra(g), NEW cube \in Seq(Int \ {0})
    PROVE  KissatModels(SolveCNF(g, cube)) =
             {a \in Totals(NumVars(g)) :
                 Satisfies(a, g, ClauseLines(g)) /\ Elems(cube) \subseteq a}
<1> DEFINE G == SolveCNF(g, cube)
           units == (Len(g) + 1)..(Len(g) + Len(cube))
<1>1. /\ NumVars(G) = NumVars(g)
      /\ ClauseLines(G) = ClauseLines(g) \cup units
      /\ \A i \in ClauseLines(g) : G[i] = g[i]
      /\ \A i \in units : G[i].toks = <<cube[i - Len(g)], 0>>
  BY CubeApplied
<1>2. Len(g) \in Nat
  BY LinesOf DEF Clean
<1>3. /\ Len(cube) \in Nat /\ DOMAIN cube = 1..Len(cube)
      /\ \A k \in DOMAIN cube : cube[k] \in Int \ {0}
  BY LenProperties
<1> HIDE DEF G
<1>4. \A i \in units : i - Len(g) \in DOMAIN cube /\ Lits(G[i]) = {cube[i - Len(g)]}
  <2>1. ASSUME NEW i \in units
        PROVE  i - Len(g) \in DOMAIN cube /\ Lits(G[i]) = {cube[i - Len(g)]}
    <3>1. i - Len(g) \in DOMAIN cube
      BY <1>2, <1>3
    <3>2. cube[i - Len(g)] \in Int \ {0}
      BY <1>3, <3>1
    <3>3. G[i].toks = <<cube[i - Len(g)], 0>>
      BY <1>1
    <3> QED
      BY <3>1, <3>2, <3>3, UnitLits
  <2> QED
    BY <2>1
<1>5. \A k \in DOMAIN cube : k + Len(g) \in units /\ k + Len(g) - Len(g) = k
  BY <1>2, <1>3
<1> HIDE DEF units
<1>6. ASSUME NEW a
      PROVE  Satisfies(a, G, ClauseLines(G)) <=>
               Satisfies(a, g, ClauseLines(g)) /\ Elems(cube) \subseteq a
  <2>1. Satisfies(a, G, ClauseLines(G)) <=>
          /\ \A i \in ClauseLines(g) : Lits(g[i]) \cap a # {}
          /\ \A i \in units : Lits(G[i]) \cap a # {}
    BY <1>1 DEF Satisfies
  <2>2. (\A i \in units : Lits(G[i]) \cap a # {}) <=> \A i \in units : cube[i - Len(g)] \in a
    BY <1>4
  <2>3. (\A i \in units : cube[i - Len(g)] \in a) <=> \A k \in DOMAIN cube : cube[k] \in a
    BY <1>4, <1>5
  <2> QED
    BY <2>1, <2>2, <2>3 DEF Satisfies, Elems
<1> QED
  BY <1>1, <1>6 DEF KissatModels, G

(* drat-trim reads every clause that kissat has read.                      *)
LEMMA DratAgrees ==
    ASSUME NEW G \in Seq(Lines), Announced(G) = Cardinality(ClauseLines(G))
    PROVE  VerifyDratProof(G) <=> KissatModels(G) = {}
<1> DEFINE C == ClauseLines(G)
<1>1. IsFiniteSet(C)
  <2>1. Len(G) \in Nat /\ C \subseteq 1..Len(G)
    BY LinesOf DEF ClauseLines
  <2>2. IsFiniteSet(1..Len(G))
    BY <2>1, FS_Interval
  <2> QED
    BY <2>1, <2>2, FS_Subset
<1>2. \A i : Rank(C, i) <= Announced(G)
  <2>1. \A i : C \cap 1..i \in SUBSET C
    OBVIOUS
  <2> HIDE DEF C
  <2>2. \A i : Cardinality(C \cap 1..i) <= Cardinality(C)
    BY <1>1, <2>1, Smaller
  <2> QED
    BY <2>2 DEF Rank, C
<1>3. {i \in ClauseLines(G) : Rank(ClauseLines(G), i) <= Announced(G)} = C
  BY <1>2
<1> QED
  BY <1>3 DEF VerifyDratProof, KissatModels

---------------------------------------------------------------------------
(* Models and answers.                                                     *)

(* A model as kissat prints it assigns the literals of the assignment.     *)
LEMMA PrintedModel ==
    ASSUME NEW n \in Nat, NEW a \in Totals(n)
    PROVE  LET model == [v \in 1..n |-> IF v \in a THEN v ELSE -v] IN
           \A lit \in a : Assigns(model, lit) /\ ~Assigns(model, -lit)
<1>1. PICK T \in SUBSET (1..n) : a = Total(T, n)
  BY DEF Totals
<1>2. /\ \A v \in 1..n : (v \in a <=> v \in T) /\ (-v \in a <=> v \notin T)
      /\ \A lit \in a : lit \in 1..n \/ (-lit \in 1..n /\ lit = -(-lit))
  BY <1>1, TotalLits
<1> DEFINE model == [v \in 1..n |-> IF v \in a THEN v ELSE -v]
<1>3. /\ Len(model) = n /\ DOMAIN model = 1..n
      /\ \A v \in 1..n : model[v] = IF v \in a THEN v ELSE -v
  <2>1. model \in [1..n -> Int]
    OBVIOUS
  <2> HIDE DEF model
  <2>2. Len(model) = n
    BY <2>1, FunctionIsSeq
  <2> QED
    BY <2>2 DEF model
<1> HIDE DEF model
<1>4. ASSUME NEW lit \in a PROVE Assigns(model, lit) /\ ~Assigns(model, -lit)
  <2>1. PICK v \in 1..n : (lit = v \/ lit = -v) /\ model[v] = lit
    BY <1>2, <1>3
  <2>2. \A k \in 1..n : model[k] = k \/ model[k] = -k
    BY <1>3
  <2>3. \A k \in (v + 1)..n : model[k] # -lit
    BY <2>1, <2>2
  <2>4. \A k \in 1..n : model[k] # -lit
    <3>1. ASSUME NEW k \in 1..n, model[k] = -lit PROVE FALSE
      <4>1. k = v
        BY <2>1, <2>2, <3>1
      <4> QED
        BY <2>1, <3>1, <4>1
    <3> QED
      BY <3>1
  <2>5. Assigns(model, lit)
    BY <1>3, <2>1, <2>3 DEF Assigns
  <2>6. ~Assigns(model, -lit)
    BY <1>3, <2>4 DEF Assigns
  <2> QED
    BY <2>5, <2>6
<1> QED
  BY <1>4 DEF model

(* The server accepts a printed model of the formula within the cube.      *)
LEMMA HonestModel ==
    ASSUME NEW g, Clean(g), NumVars(g) \in Nat, NEW cube,
           NEW a \in Totals(NumVars(g)),
           Satisfies(a, g, ClauseLines(g)), Elems(cube) \subseteq a
    PROVE  VerifySatAssignment(g, cube,
               [v \in 1..NumVars(g) |-> IF v \in a THEN v ELSE -v])
<1> DEFINE model == [v \in 1..NumVars(g) |-> IF v \in a THEN v ELSE -v]
<1>1. \A lit \in a : Assigns(model, lit) /\ ~Assigns(model, -lit)
  BY PrintedModel
<1> HIDE DEF model
<1>2. CubeRespected(cube, model)
  BY <1>1 DEF CubeRespected, Elems
<1>3. UpToTrailer(g) = g
  BY NothingToCut DEF Clean
<1>4. \A l \in Elems(g) : l.kind = "clause" => \E lit \in Lits(l) : Assigns(model, lit)
  BY <1>1 DEF Elems, Satisfies, ClauseLines
<1> QED
  BY <1>2, <1>3, <1>4 DEF VerifySatAssignment, model

(* A literal and its negation are not both assigned: the last one wins.    *)
LEMMA LastWins ==
    ASSUME NEW model \in Seq(Int), NEW v \in Int \ {0}, Assigns(model, v)
    PROVE  ~Assigns(model, -v)
<1> SUFFICES ASSUME Assigns(model, -v) PROVE FALSE
  OBVIOUS
<1>1. Len(model) \in Nat /\ DOMAIN model = 1..Len(model)
  BY LenProperties
<1>2. PICK i \in 1..Len(model) :
         model[i] = v /\ \A k \in (i + 1)..Len(model) : model[k] # -v
  BY <1>1 DEF Assigns
<1>3. PICK j \in 1..Len(model) :
         model[j] = -v /\ \A k \in (j + 1)..Len(model) : model[k] # -(-v)
  BY <1>1 DEF Assigns
<1>4. v # -v /\ -(-v) = v
  OBVIOUS
<1>5. i # j
  BY <1>2, <1>3, <1>4
<1>6. j \in (i + 1)..Len(model) \/ i \in (j + 1)..Len(model)
  BY <1>1, <1>5
<1> QED
  BY <1>2, <1>3, <1>4, <1>6

(* Whatever is accepted for a cube is part of a model within that cube:    *)
(* variables without an assignment take the sign of the cube, if any.      *)
LEMMA AcceptedModel ==
    ASSUME NEW g, Clean(g), ValidDIMACS(g), NoExtra(g), NumVars(g) \in Nat,
           NEW d \in Nat, d <= NumVars(g),
           NEW cube, DOMAIN cube = 1..d, \A i \in 1..d : cube[i] = i \/ cube[i] = -i,
           NEW model \in Seq(Int), VerifySatAssignment(g, cube, model)
    PROVE  \E a \in Totals(NumVars(g)) :
              Satisfies(a, g, ClauseLines(g)) /\ Elems(cube) \subseteq a
<1> DEFINE N == NumVars(g)
           T == {v \in 1..N : \/ Assigns(model, v)
                              \/ v \in Elems(cube) /\ ~Assigns(model, -v)}
           a == Total(T, N)
<1>1. T \in SUBSET (1..N) /\ a \in Totals(N)
  BY DEF Totals
<1>2. \A v \in 1..N : (v \in a <=> v \in T) /\ (-v \in a <=> v \notin T)
  BY <1>1, TotalLits
<1>3. ASSUME NEW v \in 1..N
      PROVE  /\ v \in T <=> Assigns(model, v) \/ (v \in Elems(cube) /\ ~Assigns(model, -v))
             /\ Assigns(model, v) => ~Assigns(model, -v)
  BY LastWins
<1> HIDE DEF T, a, N
<1>4. Elems(cube) \subseteq a
  <2>1. ASSUME NEW i \in 1..d PROVE cube[i] \in a
    <3>1. i \in 1..N /\ i \in Int
      BY DEF N
    <3>2. ~Assigns(model, -cube[i])
      BY DEF VerifySatAssignment, CubeRespected
    <3>3. CASE cube[i] = i
      <4>1. i \in Elems(cube)
        BY <3>3 DEF Elems
      <4> QED
        BY <1>2, <1>3, <3>1, <3>2, <3>3, <4>1
    <3>4. CASE cube[i] = -i /\ cube[i] # i
      <4>1. i \notin Elems(cube)
        <5>1. ASSUME NEW k \in 1..d, cube[k] = i PROVE FALSE
          <6>1. k = i
            BY <3>1, <5>1
          <6> QED
            BY <3>4, <5>1, <6>1
        <5> QED
          BY <5>1 DEF Elems
      <4>2. ~Assigns(model, i)
        <5>1. -(-i) = i
          BY <3>1
        <5> QED
          BY <3>2, <3>4, <5>1
      <4> QED
        BY <1>2, <1>3, <3>1, <3>4, <4>1, <4>2
    <3> QED
      BY <3>3, <3>4
  <2> QED
    BY <2>1 DEF Elems
<1>5. UpToTrailer(g) = g /\ g \in Seq(Lines)
  BY NothingToCut DEF Clean
<1>6. ASSUME NEW i \in ClauseLines(g) PROVE Lits(g[i]) \cap a # {}
  <2> DEFINE toks == g[i].toks
  <2>1. WellFormed(g[i], N)
    BY <1>5, <1>6, AllWellFormed DEF N
  <2>2. g[i] \in Elems(g) /\ g[i].kind = "clause" /\ toks \in Seq(Int)
    BY <1>5, LinesOf DEF Elems, ClauseLines
  <2>3. PICK lit \in Lits(g[i]) : Assigns(model, lit)
    BY <1>5, <2>2 DEF VerifySatAssignment
  <2>4. PICK k \in DOMAIN toks : lit = toks[k] /\ \A m \in 1..k : toks[m] # 0
    BY DEF Lits
  <2>5. toks[k] \in Int /\ toks[k] # 0
    <3>1. k \in 1..Len(toks) /\ Len(toks) \in Nat /\ toks[k] \in Int
      BY <2>2, <2>4, LenProperties
    <3>2. k \in 1..k
      BY <3>1
    <3> QED
      BY <2>4, <3>1, <3>2
  <2>6. Abs(toks[k]) \in 1..N
    BY <2>1, <2>4, <2>5 DEF WellFormed
  <2>7. lit \in Int /\ (lit \in 1..N \/ -lit \in 1..N)
    BY <2>4, <2>5, <2>6 DEF Abs
  <2>8. CASE lit \in 1..N
    BY <1>2, <1>3, <2>3, <2>8
  <2>9. CASE -lit \in 1..N
    <3>1. -(-lit) = lit
      BY <2>7
    <3>2. -lit \notin T
      BY <1>3, <2>3, <2>9, <3>1
    <3>3. lit \in a
      BY <1>2, <2>9, <3>1, <3>2
    <3> QED
      BY <2>3, <3>3
  <2> QED
    BY <2>7, <2>8, <2>9
<1> QED
  BY <1>1, <1>4, <1>6 DEF Satisfies, N

---------------------------------------------------------------------------
(* One job.                                                                *)

(* Once a job is split its file is what the validator has accepted, and    *)
(* the models of a plain upload are those of the stored file.              *)
LEMMA FileIs ==
    ASSUME FileInv, Split
    PROVE  /\ Clean(file) /\ ValidDIMACS(file) /\ file \in Seq(Lines)
           /\ maxWorkers \in Nat \ {0} /\ NumVars(file) \in Nat \ {0}
           /\ cubes = GenerateCubes(maxWorkers, NumVars(file))
           /\ Plain => /\ NoExtra(file)
                       /\ Models = {a \in Totals(NumVars(file)) :
                                       Satisfies(a, file, ClauseLines(file))}
<1>1. /\ upload \in Files /\ maxWorkers \in WorkerCounts /\ maxWorkers >= 1
      /\ file = UpToTrailer(upload) /\ ValidDIMACS(file)
      /\ cubes = GenerateCubes(maxWorkers, NumVars(file))
  BY DEF FileInv
<1>2. maxWorkers \in Nat \ {0}
  BY <1>1, CubesAssumption
<1>3. upload \in Seq(Lines) /\ Clean(file) /\ file \in Seq(Lines)
  BY <1>1, StoredIsClean DEF Clean
<1>4. HeaderAt(file) \in Content(file) /\ IsHeader(file[HeaderAt(file)])
  BY <1>1, <1>3, HeaderExists DEF ValidDIMACS
<1>5. NumVars(file) \in Nat \ {0}
  <2> DEFINE l == file[HeaderAt(file)]
  <2>1. l.toks \in Seq(Int) /\ Len(l.toks) = 2 /\ l.toks[1] > 0
    BY <1>3, <1>4, LinesOf DEF Content, IsHeader, Clean
  <2>2. l.toks[1] \in Int
    <3> HIDE DEF l
    <3>1. 1 \in DOMAIN l.toks
      BY <2>1, LenProperties
    <3> QED
      BY <2>1, <3>1, LenProperties
  <2> QED
    BY <2>1, <2>2 DEF NumVars
<1>6. /\ NumVars(file) = NumVars(upload) /\ Announced(file) = Announced(upload)
      /\ ClauseLines(file) = Clauses(upload)
      /\ \A i \in ClauseLines(file) : file[i] = upload[i]
  <2>1. Content(UpToTrailer(upload)) # {}
    BY <1>1 DEF ValidDIMACS
  <2> QED
    BY <1>1, <1>3, <2>1, SameFormula
<1>7. ASSUME Plain
      PROVE  /\ NoExtra(file)
             /\ Models = {a \in Totals(NumVars(file)) :
                             Satisfies(a, file, ClauseLines(file))}
  <2> DEFINE C == Clauses(upload)
  <2>1. NoExtra(file)
    BY <1>6, <1>7 DEF Plain, NoExtra
  <2>2. Declared(upload) = C
    <3>1. CASE Announced(upload) = 0
      BY <3>1 DEF Declared
    <3>2. CASE Announced(upload) = Cardinality(C)
      <4>1. IsFiniteSet(C)
        <5>1. Len(upload) \in Nat /\ C \subseteq 1..Len(upload)
          BY <1>3, LinesOf DEF Clauses
        <5>2. IsFiniteSet(1..Len(upload))
          BY <5>1, FS_Interval
        <5> QED
          BY <5>1, <5>2, FS_Subset
      <4>2. \A i : C \cap 1..i \in SUBSET C
        OBVIOUS
      <4>3. \A i : Rank(C, i) <= Cardinality(C)
        <5> HIDE DEF C
        <5> QED
          BY <4>1, <4>2, Smaller DEF Rank
      <4> QED
        BY <3>2, <4>3 DEF Declared
    <3> QED
      BY <1>7, <3>1, <3>2 DEF Plain
  <2>3. \A a : Satisfies(a, upload, C) <=> Satisfies(a, file, ClauseLines(file))
    BY <1>6 DEF Satisfies
  <2> QED
    BY <1>6, <2>1, <2>2, <2>3 DEF Models
<1> QED
  BY <1>1, <1>2, <1>3, <1>5, <1>7

(* The shard of a cube is answered as the formula within the cube asks.    *)
LEMMA ShardIs ==
    ASSUME FileInv, Split, Plain, NEW n \in DOMAIN cubes
    PROVE  /\ KissatModels(SolveCNF(file, cubes[n])) =
                {a \in Models : Elems(cubes[n]) \subseteq a}
           /\ VerifyDratProof(SolveCNF(file, cubes[n]))
                <=> KissatModels(SolveCNF(file, cubes[n])) = {}
<1>1. /\ Clean(file) /\ ValidDIMACS(file) /\ NoExtra(file)
      /\ maxWorkers \in Nat \ {0} /\ NumVars(file) \in Nat
      /\ cubes = GenerateCubes(maxWorkers, NumVars(file))
      /\ Models = {a \in Totals(NumVars(file)) : Satisfies(a, file, ClauseLines(file))}
  BY FileIs
<1>2. cubes[n] \in Seq(Int \ {0})
  BY <1>1, CubesAre
<1>3. KissatModels(SolveCNF(file, cubes[n])) =
        {a \in Totals(NumVars(file)) :
            Satisfies(a, file, ClauseLines(file)) /\ Elems(cubes[n]) \subseteq a}
  BY <1>1, <1>2, CubeModels
<1>4. /\ SolveCNF(file, cubes[n]) \in Seq(Lines)
      /\ Announced(SolveCNF(file, cubes[n])) = Cardinality(ClauseLines(SolveCNF(file, cubes[n])))
  BY <1>1, <1>2, CubeApplied
<1> QED
  BY <1>1, <1>3, <1>4, DratAgrees

---------------------------------------------------------------------------
(* The invariant.                                                          *)

(* It holds at first, before anything is stored.                         *)
LEMMA CubesInit == Init => CubesInv
BY DEF Init, CubesInv, FileInv, ShardInv, Split

(* And every step keeps it.                                              *)
LEMMA CubesStep == CubesInv /\ [Next]_vars => CubesInv'
<1> SUFFICES ASSUME CubesInv, [Next]_vars PROVE CubesInv'
  OBVIOUS
<1> USE DEF CubesInv
<1>1. ASSUME UNCHANGED vars PROVE CubesInv'
  <2>1. FileInv'
    BY <1>1 DEF vars, input, FileInv, Split
  <2>2. Models' = Models /\ Plain' = Plain
    BY <1>1 DEF vars, input, Models, Plain
  <2>3. ShardInv'
    BY <1>1, <2>2 DEF vars, input, ShardInv, Split
  <2> QED
    BY <2>1, <2>3
<1>2. ASSUME HandleCreateJob PROVE CubesInv'
  <2>1. maxWorkers \in Int
    BY CubesAssumption DEF FileInv
  <2>2. ~Split /\ ~Split' /\ open = {} /\ rejected = {}
    BY <1>2 DEF HandleCreateJob, FileInv, Split
  <2>3. FileInv'
    BY <1>2, <2>1, <2>2 DEF HandleCreateJob, input, FileInv
  <2>4. ShardInv'
    BY <2>2 DEF ShardInv
  <2> QED
    BY <2>3, <2>4
<1>3. ASSUME EnqueueJob PROVE CubesInv'
  <2>1. /\ upload \in Files /\ maxWorkers \in WorkerCounts
        /\ file = UpToTrailer(upload) /\ maxWorkers >= 1
        /\ open = {} /\ rejected = {} /\ ~Split
    BY <1>3 DEF EnqueueJob, FileInv, Split
  <2>2. CASE ValidDIMACS(file)
    <3>1. /\ stage' = "split" /\ cubes' = GenerateCubes(maxWorkers, NumVars(file))
          /\ open' = DOMAIN cubes' /\ UNCHANGED <<input, file, rejected>>
      BY <1>3, <2>2 DEF EnqueueJob
    <3>2. FileInv'
      BY <2>1, <2>2, <3>1 DEF FileInv, Split, input
    <3>3. ShardInv'
      BY <2>1, <3>1 DEF ShardInv
    <3> QED
      BY <3>2, <3>3
  <2>3. CASE ~ValidDIMACS(file)
    <3>1. stage' = "failed" /\ UNCHANGED <<input, file, cubes, open, rejected>>
      BY <1>3, <2>3 DEF EnqueueJob
    <3>2. FileInv'
      BY <2>1, <3>1 DEF FileInv, Split, input
    <3>3. ShardInv'
      BY <3>1 DEF ShardInv, Split
    <3> QED
      BY <3>2, <3>3
  <2> QED
    BY <2>2, <2>3
<1>4. ASSUME NEW n \in open, NEW a \in Totals(NumVars(file)), AnswerSat(n, a)
      PROVE  CubesInv'
  <2> DEFINE model == [v \in 1..NumVars(file) |-> IF v \in a THEN v ELSE -v]
             ok == VerifySatAssignment(file, cubes[n], model)
  <2>1. /\ stage = "split" /\ a \in KissatModels(SolveCNF(file, cubes[n]))
        /\ ok => stage' = "sat" /\ UNCHANGED rejected
        /\ ~ok => rejected' = rejected \cup {n} /\ UNCHANGED stage
        /\ UNCHANGED <<input, file, cubes, open>>
    BY <1>4 DEF AnswerSat
  <2> HIDE DEF ok
  <2>2. Split /\ n \in DOMAIN cubes
    BY <2>1 DEF Split, FileInv
  <2>3. FileInv'
    BY <2>1, <2>2 DEF FileInv, Split, input
  <2>4. ShardInv'
    <3>1. Models' = Models /\ Plain' = Plain
      BY <2>1 DEF input, Models, Plain
    <3>2. ASSUME Plain PROVE ok /\ a \in Models
      <4>1. a \in Models /\ Elems(cubes[n]) \subseteq a
        BY <2>1, <2>2, <3>2, ShardIs
      <4>2. /\ Clean(file) /\ NumVars(file) \in Nat
            /\ Satisfies(a, file, ClauseLines(file))
        BY <2>2, <3>2, <4>1, FileIs
      <4> QED
        BY <4>1, <4>2, HonestModel DEF ok
    <3>3. ASSUME Plain
          PROVE  /\ rejected' = {} /\ stage' = "sat" /\ Models # {}
                 /\ \A k \in DOMAIN cubes \ open :
                       KissatModels(SolveCNF(file, cubes[k])) = {}
      BY <2>1, <2>2, <3>2, <3>3 DEF ShardInv
    <3> QED
      BY <2>1, <3>1, <3>3 DEF ShardInv
  <2> QED
    BY <2>3, <2>4
<1>5. ASSUME NEW n \in open, AnswerUnsat(n) PROVE CubesInv'
  <2> DEFINE none == KissatModels(SolveCNF(file, cubes[n])) = {}
             ok == VerifyDratProof(SolveCNF(file, cubes[n]))
  <2>1. /\ stage = "split" /\ none
        /\ ok => /\ open' = open \ {n} /\ UNCHANGED rejected
                 /\ stage' = IF open = {n} THEN "unsat" ELSE stage
        /\ ~ok => rejected' = rejected \cup {n} /\ UNCHANGED <<open, stage>>
        /\ UNCHANGED <<input, file, cubes>>
    BY <1>5 DEF AnswerUnsat
  <2>2. Split /\ Split' /\ n \in DOMAIN cubes
    BY <2>1 DEF Split, FileInv
  <2>3. FileInv'
    BY <2>1, <2>2 DEF FileInv, Split, input
  <2>4. ShardInv'
    <3>1. Models' = Models /\ Plain' = Plain
      BY <2>1 DEF input, Models, Plain
    <3>2. ASSUME Plain
          PROVE  /\ rejected' = {} /\ stage' \in {"split", "unsat"}
                 /\ stage' = "unsat" => open' = {}
                 /\ \A k \in DOMAIN cubes \ open' :
                       KissatModels(SolveCNF(file, cubes[k])) = {}
      <4>1. ok
        BY <2>1, <2>2, <3>2, ShardIs
      <4>2. open' = open \ {n} /\ rejected' = rejected
            /\ stage' = IF open = {n} THEN "unsat" ELSE stage
        BY <2>1, <4>1
      <4>3. rejected = {} /\ \A k \in DOMAIN cubes \ open :
                                KissatModels(SolveCNF(file, cubes[k])) = {}
        BY <2>2, <3>2 DEF ShardInv
      <4> QED
        BY <2>1, <4>2, <4>3
    <3> HIDE DEF ok, none
    <3> QED
      BY <2>1, <3>1, <3>2 DEF ShardInv
  <2> QED
    BY <2>3, <2>4
<1> QED
  BY <1>1, <1>2, <1>3, <1>4, <1>5 DEF Next

(* What is stored and split is what was validated, and the shards closed   *)
(* so far have no model: the invariant behind the theorems below.          *)
THEOREM CubesInductive == Spec => []CubesInv
BY CubesInit, CubesStep, PTL DEF Spec

(* Every total assignment lies in exactly one of the cubes generated.      *)
THEOREM CubesArePartition == Spec => []CubesPartition
<1>1. CubesInv => CubesPartition
  <2> SUFFICES ASSUME FileInv, Split, NEW a \in Totals(NumVars(file))
               PROVE  Cardinality({n \in DOMAIN cubes : Elems(cubes[n]) \subseteq a}) = 1
    BY DEF CubesInv, CubesPartition
  <2>1. /\ maxWorkers \in Nat \ {0} /\ NumVars(file) \in Nat
        /\ cubes = GenerateCubes(maxWorkers, NumVars(file))
    BY FileIs
  <2>2. PICK T \in SUBSET (1..NumVars(file)) : a = Total(T, NumVars(file))
    BY DEF Totals
  <2>3. \E n \in DOMAIN cubes : {k \in DOMAIN cubes : Elems(cubes[k]) \subseteq a} = {n}
    BY <2>1, <2>2, OneCube
  <2> QED
    BY <2>3, FS_Singleton
<1> QED
  BY <1>1, CubesInductive, PTL

(* There are shards for all workers, unless variables or the cap run out,  *)
(* and fewer than twice as many.                                           *)
THEOREM ShardsAreEnough == Spec => []EnoughShards
<1>1. CubesInv => EnoughShards
  <2> SUFFICES ASSUME FileInv, Split
               PROVE  /\ \/ Len(cubes) >= maxWorkers
                         \/ Len(cubes) \in {2 ^ NumVars(file), 2 ^ maxDepthCap}
                      /\ Len(cubes) < 2 * maxWorkers
    BY DEF CubesInv, EnoughShards
  <2>1. /\ maxWorkers \in Nat \ {0} /\ NumVars(file) \in Nat
        /\ cubes = GenerateCubes(maxWorkers, NumVars(file))
    BY FileIs
  <2> DEFINE d == ChooseDepthCeil(maxWorkers, NumVars(file))
  <2>2. Len(cubes) = 2 ^ d
    BY <2>1, CubesAre
  <2>3. /\ 2 ^ d >= maxWorkers \/ d = NumVars(file) \/ d = maxDepthCap
        /\ 2 ^ d < 2 * maxWorkers
    BY <2>1, DepthFits
  <2> HIDE DEF d
  <2> QED
    BY <2>2, <2>3
<1> QED
  BY <1>1, CubesInductive, PTL

(* The verdict of a plain upload is that of its formula.                   *)
THEOREM VerdictIsRight == Spec => []VerdictRight
<1>1. CubesInv => VerdictRight
  <2> SUFFICES ASSUME FileInv, ShardInv, Split, Plain, stage = "unsat",
                      NEW a \in Models
               PROVE  FALSE
    BY DEF CubesInv, ShardInv, VerdictRight
  <2>1. /\ maxWorkers \in Nat \ {0} /\ NumVars(file) \in Nat
        /\ cubes = GenerateCubes(maxWorkers, NumVars(file))
        /\ a \in Totals(NumVars(file))
    BY FileIs
  <2>2. PICK T \in SUBSET (1..NumVars(file)) : a = Total(T, NumVars(file))
    BY <2>1 DEF Totals
  <2>3. PICK n \in DOMAIN cubes : Elems(cubes[n]) \subseteq a
    BY <2>1, <2>2, OneCube
  <2>4. a \in KissatModels(SolveCNF(file, cubes[n]))
    BY <2>3, ShardIs
  <2> QED
    BY <2>3, <2>4 DEF ShardInv
<1> QED
  BY <1>1, CubesInductive, PTL

(* No honest result is refused for a plain upload: worker and server agree *)
(* on the CNF of a shard.                                                  *)
THEOREM HonestAreAccepted == Spec => []HonestAccepted
<1>1. CubesInv => HonestAccepted
  BY DEF CubesInv, ShardInv, HonestAccepted
<1> QED
  BY <1>1, CubesInductive, PTL

(* As AcceptedHasModel, for answers of any length.                         *)
AnyAcceptedHasModel ==
    stage = "split" /\ Plain =>
        \A n \in DOMAIN cubes : \A g \in Seq(Int) :
            VerifySatAssignment(file, cubes[n], g) =>
                \E a \in Models : Elems(cubes[n]) \subseteq a

(* Literals that are accepted for a cube extend to a model in that cube,   *)
(* however many of them a worker sends and in whatever order.              *)
THEOREM AnyAcceptedHaveModels == Spec => []AnyAcceptedHasModel
<1>1. CubesInv => AnyAcceptedHasModel
  <2> SUFFICES ASSUME FileInv, stage = "split", Plain,
                      NEW n \in DOMAIN cubes, NEW g \in Seq(Int),
                      VerifySatAssignment(file, cubes[n], g)
               PROVE  \E a \in Models : Elems(cubes[n]) \subseteq a
    BY DEF CubesInv, AnyAcceptedHasModel
  <2> DEFINE N == NumVars(file)
             d == ChooseDepthCeil(maxWorkers, N)
  <2>1. /\ Clean(file) /\ ValidDIMACS(file) /\ NoExtra(file)
        /\ maxWorkers \in Nat \ {0} /\ N \in Nat
        /\ cubes = GenerateCubes(maxWorkers, N)
        /\ Models = {a \in Totals(N) : Satisfies(a, file, ClauseLines(file))}
    BY FileIs DEF Split
  <2>2. /\ d \in Nat /\ d <= N /\ DOMAIN cubes[n] = 1..d
        /\ \A i \in 1..d : cubes[n][i] = i \/ cubes[n][i] = -i
    <3>1. /\ d \in Nat /\ d <= N /\ DOMAIN cubes[n] = 1..d
          /\ \A i \in 1..d : cubes[n][i] = IF BitSet(n - 1, i) THEN i ELSE -i
      <4> DEFINE c == GenerateCubes(maxWorkers, N)
      <4> HIDE DEF N
      <4>1. /\ d \in Nat /\ d <= N
            /\ \A k \in DOMAIN c :
                  /\ DOMAIN c[k] = 1..d
                  /\ \A i \in 1..d : c[k][i] = IF BitSet(k - 1, i) THEN i ELSE -i
        BY <2>1, CubesAre
      <4>2. cubes = c
        BY <2>1
      <4> HIDE DEF c, d
      <4> QED
        BY <4>1, <4>2
    <3> HIDE DEF d
    <3> QED
      BY <3>1
  <2> HIDE DEF d
  <2>3. \E a \in Totals(N) : Satisfies(a, file, ClauseLines(file)) /\ Elems(cubes[n]) \subseteq a
    BY <2>1, <2>2, AcceptedModel
  <2> QED
    BY <2>1, <2>3
<1> QED
  BY <1>1, CubesInductive, PTL

(* In particular the answers of up to two literals.                        *)
THEOREM AcceptedHaveModels == Spec => []AcceptedHasModel
<1>1. CubesInv /\ AnyAcceptedHasModel => AcceptedHasModel
  <2> SUFFICES ASSUME FileInv, Split, NEW g \in Guesses(NumVars(file))
               PROVE  g \in Seq(Int)
    BY DEF CubesInv, AcceptedHasModel, AnyAcceptedHasModel, Split
  <2>1. NumVars(file) \in Nat
    BY FileIs
  <2>2. PICK m \in 0..2 :
           g \in [1..m -> ((-NumVars(file) - 1)..(NumVars(file) + 1)) \ {0}]
    BY DEF Guesses
  <2>3. g \in [1..m -> Int]
    BY <2>1, <2>2
  <2> QED
    BY <2>3, FunctionIsSeq
<1> QED
  BY <1>1, CubesInductive, AnyAcceptedHaveModels, PTL
=============================================================================
