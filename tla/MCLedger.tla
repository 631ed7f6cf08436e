----------------------------- MODULE MCLedger ------------------------------
(* Instances of Ledger for TLC: two users who submit jobs and run workers. *)
EXTENDS Ledger

CONSTANTS a, b, wa, wb, ja, jb, sa1, sa2, sb1

(* Each user submits one job and runs one worker.                          *)
Owner  == [w \in {wa, wb} |-> IF w = wa THEN a ELSE b]
Client == [j \in {ja, jb} |-> IF j = ja THEN a ELSE b]

(* The first job is split in two shards.                                   *)
Cube == [s \in {sa1, sa2, sb1} |-> IF s = sb1 THEN jb ELSE ja]

(* Files of 1 and 2 bytes with one variable and no or one clause.          *)
Size    == [j \in {ja, jb} |-> IF j = ja THEN 1 ELSE 2]
Vars    == [j \in {ja, jb} |-> 1]
Clauses == [j \in {ja, jb} |-> IF j = ja THEN 0 ELSE 1]
=============================================================================
