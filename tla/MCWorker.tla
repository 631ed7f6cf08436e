----------------------------- MODULE MCWorker ------------------------------
(* Instances of the two worker programs for TLC: two jobs, one of them     *)
(* with two shards.                                                        *)
EXTENDS TestWorker

CONSTANTS s1, s2, s3, j1, j2

Layout == [s \in {s1, s2, s3} |-> IF s = s3 THEN j2 ELSE j1]
=============================================================================
