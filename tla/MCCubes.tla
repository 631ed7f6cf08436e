------------------------------ MODULE MCCubes ------------------------------
(* Instances of Cubes for TLC: all files of up to three clause lines from  *)
(* a small stock, with a header that may disagree with them, and a trailer.*)
EXTENDS Cubes

Clause(toks) == [kind |-> "clause", toks |-> toks]

(* Two clauses that need both variables, units, and two malformed lines.   *)
Stock == {Clause(t) : t \in {<<1, 0>>, <<-1, 0>>, <<-2, 0>>, <<1, 2, 0>>, <<-1, 2, 0>>,
                             <<3, 0>>, <<1>>}}

Bodies == UNION {[1..n -> Stock] : n \in 0..3}

(* Nothing, the trailer of the SATLIB benchmarks, or a lone 0.             *)
Trailers == {<< >>, <<[kind |-> "%", toks |-> << >>], Clause(<<0>>)>>, <<Clause(<<0>>)>>}

(* Variables and clauses of a header; with 3 variables the depth cap of 2  *)
(* comes first, with 1 or 2 the variables.                                 *)
Counts == ((1..2) \X (0..2)) \cup {<<3, 1>>}

Uploads ==
    {<<[kind |-> "note", toks |-> << >>], [kind |-> "p", toks |-> c]>> \o b \o t :
        c \in Counts, b \in Bodies, t \in Trailers}
=============================================================================
