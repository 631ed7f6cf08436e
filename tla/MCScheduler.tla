---------------------------- MODULE MCScheduler ----------------------------
(* Instances of Scheduler for TLC: connections, jobs and shards are model  *)
(* values.                                                                 *)
EXTENDS Scheduler, TLC

CONSTANTS c1, c2, j1, s1, s2

(* One job of two cubes.                                                   *)
OneJob    == [s \in {s1, s2} |-> j1]
OneJobSeq == [j \in {j1} |-> <<s1, s2>>]

(* Connections are interchangeable in every layout.                        *)
ConnSymmetry == Permutations({c1, c2})
=============================================================================
