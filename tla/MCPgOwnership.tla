--------------------------- MODULE MCPgOwnership ---------------------------
(* PgOwnership for TLC.  Calls that are known to break the Owner guard      *)
(* together (see the README) do not share a mix of MCMixes.                *)
EXTENDS PgOwnership, TLC

MCMixes == {
    {"create", "block", "unassign", "delete"},
    {"create", "assign", "unassign", "transfer"},
    {"create", "block", "suspend", "unblock"},
    {"create", "suspend", "unblock", "tick"}}

MCTransfersAndDeletions == {{"create", "transfer", "delete"}}

MCTransfersNextToRemovals == {{"create", "unassign", "transfer", "delete"}}

MCConnections == Permutations(Conn)
=============================================================================
