------------------------------ MODULE MCOutbox ------------------------------
(* Values for the constants of Outbox.tla: backoff grows with failures.    *)
EXTENDS Outbox, TLC

MCBackoff == [i \in 1..MaxAttempts |-> IF i = 1 THEN 1 ELSE 2]
=============================================================================
