------------------------ MODULE MCCheckpointedGraph ------------------------
(* A small instance of CheckpointedGraph. One correction and two attempts   *)
(* are enough for every pair "a completion key of one try, a node of        *)
(* another" and for a resume after a crash at every step.                   *)
EXTENDS CheckpointedGraph

(* A new execution asks for 1 + MaxRetries SQL texts at most: the bound on  *)
(* SQL texts is never reached.                                              *)
MCMaxSql == MaxAttempts * (MaxRetries + 1)

(* A worker that dies: the record is all that is left of the attempt.       *)
MCFaultsCrash == [a \in 1..MaxAttempts |-> {"crash", "expire"}]

(* A worker that lives: every way to end. A stream is closed in the last    *)
(* attempt; what the next attempt finds after an earlier one is what it     *)
(* finds after a crash.                                                     *)
MCFaultsReported ==
  [a \in 1..MaxAttempts |->
     {"raise", "timeout", "disconnect"} \cup
       (IF a = MaxAttempts THEN {"close"} ELSE {})]
=============================================================================
