------------------------------- MODULE MCOutbox -------------------------------
(* Small instances of Outbox. *)
EXTENDS Outbox

CONSTANTS s1, s2, job

Kinds == {"rollback", "slow", "redis", "database", "backend", "bot", "telegram", "pass"}

\* Two of the milder failures, or one of the others.
Mild == {"rollback", "telegram", "bot"}
MCWeight == [k \in Kinds |-> IF k \in Mild THEN 1 ELSE 2]

Three == 1..3

===============================================================================
