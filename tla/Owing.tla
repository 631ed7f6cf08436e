------------------------------- MODULE Owing -------------------------------
(***************************************************************************)
(* What the two ends of one worker connection promise each other: the      *)
(* server has at most one shard on record for the connection, and the      *)
(* worker owes at most one answer, for that very shard.  Scheduler         *)
(* implements this for each connection, with the worker reduced to the set *)
(* client; Worker implements it with the messages, the solver run and its  *)
(* cancellation, and the server reduced to what a connection sees of it.   *)
(***************************************************************************)
CONSTANTS Shards, None

VARIABLES
    record,  \* the server's entry of workerShard for the connection
    owed     \* the shards an answer of the worker may still come for

owingVars == <<record, owed>>

Init == record = None /\ owed = {}

(* The stream may be dead already when an assignment is sent.              *)
Assign(s) ==
    /\ record = None /\ record' = s
    /\ owed' \in {owed, owed \cup {s}}

Answer(s) ==
    /\ s \in owed /\ owed' = owed \ {s}
    /\ record' = None

(* Cancelled, failed, ignored, or gone: the server is not told.            *)
Drop(s) ==
    /\ s \in owed /\ owed' = owed \ {s}
    /\ UNCHANGED record

(* The server sees the stream end, or is restarted.                        *)
Release == record' = None /\ owed' = {}

Next == Release \/ \E s \in Shards : Assign(s) \/ Answer(s) \/ Drop(s)

Spec == Init /\ [][Next]_owingVars

---------------------------------------------------------------------------
(* An answer that arrives is for the shard on record.                      *)
OwesTheRecord == owed \subseteq {record}
=============================================================================
