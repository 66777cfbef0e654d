-------------------------- MODULE MCSqliteExecutor -------------------------
(* SqliteExecutor for TLC: a call with two operations next to one with one. *)
EXTENDS SqliteExecutor

CONSTANTS c1, c2, k1, k2, k3

MCCalls == {c1, c2}
MCOps == {k1, k2, k3}
MCCallOf == [k \in Op |-> IF k = k3 THEN c2 ELSE c1]
=============================================================================
