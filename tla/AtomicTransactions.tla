------------------------ MODULE AtomicTransactions -------------------------
(***************************************************************************)
(* What a caller of storage.transaction(callback) is promised of a         *)
(* connection: one transaction at a time, of whole operations, kept in one *)
(* step or not at all.  Statements, savepoints and the queue are            *)
(* SqliteExecutor's, which implements this module while callbacks await     *)
(* what they start.                                                        *)
(***************************************************************************)
EXTENDS Naturals

CONSTANTS
    Call,           \* calls of storage.transaction
    Op,             \* operations of their callbacks
    CallOf,         \* operation -> its call
    Writes          \* statements of one operation

VARIABLES
    call,           \* call -> "new", "open", "kept" or "undone"
    done,           \* operations that have resolved
    database        \* writes in the database, <<operation, number>>

vars == <<call, done, database>>

Init == call = [c \in Call |-> "new"] /\ done = {} /\ database = {}

Begins(c) ==
    /\ call[c] = "new" /\ \A d \in Call : call[d] # "open"
    /\ call' = [call EXCEPT ![c] = "open"] /\ UNCHANGED <<done, database>>

(* An operation resolves; its writes are in the transaction, and nobody    *)
(* else sees them yet.  One that fails leaves no trace.                    *)
Resolves(k) ==
    /\ call[CallOf[k]] = "open" /\ k \notin done
    /\ done' = done \cup {k} /\ UNCHANGED <<call, database>>

(* All that was resolved in the call is kept, and nothing else.            *)
Commits(c) ==
    /\ call[c] = "open"
    /\ call' = [call EXCEPT ![c] = "kept"]
    /\ database' = database \cup ({k \in done : CallOf[k] = c} \X (1 .. Writes))
    /\ UNCHANGED done

(* The callback throws, or the transaction never begins.                   *)
GoesWithout(c) ==
    /\ call[c] \in {"new", "open"}
    /\ call' = [call EXCEPT ![c] = "undone"] /\ UNCHANGED <<done, database>>

Next ==
    \/ \E c \in Call : Begins(c) \/ Commits(c) \/ GoesWithout(c)
    \/ \E k \in Op : Resolves(k)

Spec == Init /\ [][Next]_vars
=============================================================================
