--------------------------- MODULE SqliteExecutor --------------------------
(***************************************************************************)
(* One SQLite connection shared by every caller of a process: the queue      *)
(* that serializes them, the transaction of the caller whose turn it is,    *)
(* and the operations of its callback, which join that transaction under a  *)
(* savepoint instead of waiting behind it.                                  *)
(*                                                                         *)
(* A call is storage.transaction(callback); its operations are `atomic`    *)
(* ones of `Writes` statements each, with an await between any two.  What   *)
(* the statements write does not matter, only whether it stays.            *)
(***************************************************************************)
EXTENDS Naturals, Sequences

CONSTANTS
    Call,           \* calls of storage.transaction
    Op,             \* the operations their callbacks start
    CallOf,         \* operation -> its call
    Writes          \* statements of one operation

ASSUME CallOfAssumption == CallOf \in [Op -> Call] /\ Call \cap Op = {}
ASSUME WritesAssumption == Writes \in Nat \ {0}

VARIABLES
    queue,          \* calls and lone statements in the order of their turns; the first has it
    call,           \* call -> where it stands
    op,             \* operation -> where it stands
    made,           \* operation -> statements it has executed
    inTransaction,  \* does the connection have a transaction open?
    began,          \* calls and operations that opened it with `begin`, not with a savepoint
    savepoint,      \* call or operation -> the place of its savepoint among those in force, 0 for none
    depth,          \* how many savepoints are in force
    pending,        \* writes of the open transaction, each with the savepoints in force when it was made
    committed,      \* writes that are in the database
    overlapped,     \* calls whose callback ran operations at the same time (Promise.all)
    strays          \* operations that a promise nobody awaited started after the call's end

history == <<overlapped, strays>>
db == <<inTransaction, began, savepoint, depth, pending, committed>>
vars == <<queue, call, op, made, db, history>>

Unit == Call \cup Op

Queued(x) == \E i \in DOMAIN queue : queue[i] = x

TypeOK ==
    /\ queue \in Seq(Unit)
    /\ \A i, j \in DOMAIN queue : queue[i] = queue[j] => i = j
    /\ call \in [Call -> {"new", "waiting", "open", "resolving", "rejecting", "resolved", "rejected"}]
    /\ op \in [Op -> {"new", "running", "waiting", "resolved", "rejected"}]
    /\ made \in [Op -> 0 .. Writes]
    /\ inTransaction \in BOOLEAN /\ began \subseteq Unit
    /\ depth \in Nat /\ savepoint \in [Unit -> 0 .. depth]
    /\ pending \subseteq [of : Op, nth : 1 .. Writes, under : 0 .. depth]
    /\ ~inTransaction => depth = 0 /\ pending = {}
    /\ \A c \in Call : Queued(c) <=> call[c] \in {"waiting", "open", "resolving", "rejecting"}
    /\ committed \subseteq Op \X (1 .. Writes)
    /\ overlapped \subseteq Call /\ strays \subseteq Op

Init ==
    /\ queue = <<>>
    /\ call = [c \in Call |-> "new"]
    /\ op = [k \in Op |-> "new"]
    /\ made = [k \in Op |-> 0]
    /\ inTransaction = FALSE /\ began = {}
    /\ savepoint = [u \in Unit |-> 0] /\ depth = 0
    /\ pending = {} /\ committed = {}
    /\ overlapped = {} /\ strays = {}

HasTurn_anyone(x) == Queued(x)      \* mutant: nobody waits for those before

HasTurn(x) == queue # <<>> /\ Head(queue) = x
OpsOf(c) == {k \in Op : CallOf[k] = c}
UnderWay(k) == op[k] \in {"running", "waiting"}
AllSettled(c) == ~\E k \in OpsOf(c) : UnderWay(k)

Joins_never(k) == FALSE         \* mutant: the chain does not know that it owns the queue

(* The chain of the operation still owns the queue.  `active` is flipped off *)
(* a moment after the transaction ended.                                    *)
Joins(k) == call[CallOf[k]] \in {"open", "resolving", "rejecting"}

-----------------------------------------------------------------------------
(* What `atomic` does to the connection before its callback and after it.    *)
Opens_noSavepoint(u) ==         \* mutant: an operation joins without a savepoint
    IF inTransaction
    THEN UNCHANGED db
    ELSE /\ inTransaction' = TRUE /\ began' = began \cup {u}
         /\ UNCHANGED <<savepoint, depth, pending, committed>>

Opens(u) ==
    IF inTransaction
    THEN /\ savepoint' = [savepoint EXCEPT ![u] = depth + 1] /\ depth' = depth + 1
         /\ UNCHANGED <<inTransaction, began, pending, committed>>
    ELSE /\ inTransaction' = TRUE /\ began' = began \cup {u}
         /\ UNCHANGED <<savepoint, depth, pending, committed>>

Held(u) == savepoint[u] # 0

(* `release` dissolves the savepoint and every later one.                    *)
DropsSavepoint(u) ==
    /\ savepoint' = [v \in Unit |-> IF savepoint[v] < savepoint[u] THEN savepoint[v] ELSE 0]
    /\ depth' = savepoint[u] - 1

Released(u) ==
    {[w EXCEPT !.under = IF @ < savepoint[u] THEN @ ELSE savepoint[u] - 1] : w \in pending}

RolledBack_released(u) == Released(u)     \* mutant: released, but not rolled back first

RolledBack(u) == {w \in pending : w.under < savepoint[u]}

EndsTransaction ==
    /\ inTransaction' = FALSE /\ pending' = {}
    /\ savepoint' = [u \in Unit |-> 0] /\ depth' = 0

(* A savepoint that an earlier one took along when it was released or rolled *)
(* back, or that ended with the transaction, makes `release` and then       *)
(* `rollback to` throw; so does a second `commit`.                          *)
CanEnd(u) == IF u \in began THEN inTransaction ELSE Held(u)

Keeps(u) ==
    IF u \in began
    THEN /\ EndsTransaction
         /\ committed' = committed \cup {<<w.of, w.nth>> : w \in pending}
         /\ UNCHANGED began
    ELSE /\ DropsSavepoint(u) /\ pending' = Released(u)
         /\ UNCHANGED <<inTransaction, began, committed>>

Undoes(u) ==
    \/ ~CanEnd(u) /\ UNCHANGED db
    \/ CanEnd(u) /\ u \in began /\ EndsTransaction /\ UNCHANGED <<began, committed>>
    \/ CanEnd(u) /\ u \notin began /\ DropsSavepoint(u) /\ pending' = RolledBack(u)
       /\ UNCHANGED <<inTransaction, began, committed>>

-----------------------------------------------------------------------------
(* Calls.                                                                    *)
Request(c) ==
    /\ call[c] = "new"
    /\ call' = [call EXCEPT ![c] = "waiting"]
    /\ queue' = Append(queue, c)
    /\ UNCHANGED <<op, made, db, history>>

Begin(c) ==
    /\ HasTurn(c) /\ call[c] = "waiting"
    /\ call' = [call EXCEPT ![c] = "open"]
    /\ Opens(c)
    /\ UNCHANGED <<queue, op, made, history>>

(* `begin immediate` finds the file locked by another process for too long.  *)
BeginFails(c) ==
    /\ HasTurn(c) /\ call[c] = "waiting" /\ ~inTransaction
    /\ call' = [call EXCEPT ![c] = "rejected"]
    /\ queue' = Tail(queue)
    /\ UNCHANGED <<op, made, db, history>>

(* The callback returns when all its operations have settled.               *)
Commit(c) ==
    /\ call[c] = "open"
    /\ AllSettled(c)
    /\ IF CanEnd(c) THEN Keeps(c) ELSE UNCHANGED db
    /\ call' = [call EXCEPT ![c] = IF CanEnd(c) THEN "resolving" ELSE "rejecting"]
    /\ UNCHANGED <<queue, op, made, history>>

(* The callback throws.  When its operations overlap, Promise.all does so   *)
(* for the first that fails, and the others go on.                          *)
Rollback(c) ==
    /\ call[c] = "open"
    /\ AllSettled(c) \/ (c \in overlapped /\ \E k \in OpsOf(c) : op[k] = "rejected")
    /\ Undoes(c)
    /\ call' = [call EXCEPT ![c] = "rejecting"]
    /\ UNCHANGED <<queue, op, made, history>>

(* The microtask after: `active` goes off and the queue moves on.            *)
Leave(c) ==
    /\ call[c] \in {"resolving", "rejecting"}
    /\ call' = [call EXCEPT ![c] = IF @ = "resolving" THEN "resolved" ELSE "rejected"]
    /\ queue' = Tail(queue)
    /\ UNCHANGED <<op, made, db, history>>

-----------------------------------------------------------------------------
(* Operations.  One that a chain starts when it no longer owns the queue is  *)
(* a call of its own and is not told apart from one here.                   *)
StartOp(k) ==
    LET c == CallOf[k] IN
    /\ op[k] = "new"
    /\ call[c] \in {"open", "resolving", "rejecting"}
    /\ op' = [op EXCEPT ![k] = "running"]
    /\ Opens(k)
    /\ strays' = IF call[c] = "open" THEN strays ELSE strays \cup {k}
    /\ overlapped' = IF AllSettled(c) THEN overlapped ELSE overlapped \cup {c}
    /\ UNCHANGED <<queue, call, made>>

(* A statement is part of the open transaction, or commits by itself.        *)
Runs(k) ==
    /\ made' = [made EXCEPT ![k] = @ + 1]
    /\ IF inTransaction
       THEN /\ pending' = pending \cup {[of |-> k, nth |-> made[k] + 1, under |-> depth]}
            /\ UNCHANGED committed
       ELSE /\ committed' = committed \cup {<<k, made[k] + 1>>}
            /\ UNCHANGED pending
    /\ UNCHANGED <<inTransaction, began, savepoint, depth>>

(* It runs at once in a chain that owns the queue, and otherwise waits for a *)
(* turn of its own.                                                         *)
Execute(k) ==
    /\ op[k] = "running" /\ made[k] < Writes
    /\ IF Joins(k)
       THEN Runs(k) /\ UNCHANGED <<queue, op>>
       ELSE /\ queue' = Append(queue, k)
            /\ op' = [op EXCEPT ![k] = "waiting"]
            /\ UNCHANGED <<made, db>>
    /\ UNCHANGED <<call, history>>

LoneStatement(k) ==
    /\ HasTurn(k) /\ op[k] = "waiting"
    /\ Runs(k)
    /\ op' = [op EXCEPT ![k] = "running"]
    /\ queue' = Tail(queue)
    /\ UNCHANGED <<call, history>>

FinishOp(k) ==
    /\ op[k] = "running" /\ made[k] = Writes
    /\ IF CanEnd(k)
       THEN op' = [op EXCEPT ![k] = "resolved"] /\ Keeps(k)
       ELSE op' = [op EXCEPT ![k] = "rejected"] /\ UNCHANGED db
    /\ UNCHANGED <<queue, call, made, history>>

FailOp(k) ==
    /\ op[k] = "running"
    /\ op' = [op EXCEPT ![k] = "rejected"]
    /\ Undoes(k)
    /\ UNCHANGED <<queue, call, made, history>>

Advance(k) == Execute(k) \/ LoneStatement(k) \/ FinishOp(k) \/ FailOp(k)
Turn(c) == Begin(c) \/ BeginFails(c) \/ Commit(c) \/ Rollback(c) \/ Leave(c)

Next ==
    \/ \E c \in Call : Request(c) \/ Turn(c)
    \/ \E k \in Op : StartOp(k) \/ Advance(k)

Spec == Init /\ [][Next]_vars

(* Promises that can resume do, and a callback comes to an end.              *)
Fairness ==
    /\ \A c \in Call : WF_vars(Turn(c))
    /\ \A k \in Op : WF_vars(Advance(k))

FairSpec == Spec /\ Fairness

-----------------------------------------------------------------------------
CallOfUnit(u) == IF u \in Call THEN u ELSE CallOf[u]

(* What the open transaction holds was done by these.                        *)
Holds(u) == savepoint[u] # 0 \/ \E w \in pending : w.of = u

(* Callers never share a transaction: what the open one holds was done for   *)
(* one call, also when operations overlap or outlive a call that was        *)
(* rejected.  Only an operation that a forgotten promise starts between the *)
(* end of the transaction and the end of the turn breaks it.                *)
NoSharedTransaction ==
    strays = {} => \A u, v \in Unit : Holds(u) /\ Holds(v) => CallOfUnit(u) = CallOfUnit(v)

Settled(k) == op[k] \in {"resolved", "rejected"} /\ call[CallOf[k]] \in {"resolved", "rejected"}

KeptWholeOrNotAtAll(k) ==
    \A n \in 1 .. Writes : <<k, n>> \in committed <=> op[k] = "resolved" /\ call[CallOf[k]] = "resolved"

Awaited == overlapped = {} /\ strays = {}

(* As long as callbacks await one operation after the other, every operation *)
(* is all or nothing and so is every call: what was resolved in a call that *)
(* was stays as a whole; of what was rejected, or of a call that was,       *)
(* nothing does.                                                            *)
AllOrNothing ==
    Awaited => \A k \in Op : Settled(k) => KeptWholeOrNotAtAll(k)

(* Queue, savepoints and statements together are one transaction after the    *)
(* other: as long as callbacks await their operations, a call begins when    *)
(* nobody's is open, and the database changes only when one commits, by     *)
(* exactly the operations that resolved in it.                              *)
Outcome(c) ==
    CASE call[c] \in {"new", "waiting"}         -> "new"
      [] call[c] = "open"                       -> "open"
      [] call[c] \in {"resolving", "resolved"}  -> "kept"
      [] call[c] \in {"rejecting", "rejected"}  -> "undone"

T == INSTANCE AtomicTransactions WITH
        call <- [c \in Call |-> Outcome(c)], done <- {k \in Op : op[k] = "resolved"}, database <- committed

CallsAreTransactions == T!Init /\ [][Awaited' => [T!Next]_T!vars]_vars

(* What executor.ts says of an operation that joins a transaction: if it      *)
(* fails halfway, only its own writes are undone and the caller's           *)
(* transaction carries on.                                                  *)
OnlyOwnWritesUndone ==
    strays = {} =>
       \A k \in Op :
          Settled(k) /\ call[CallOf[k]] = "resolved" => KeptWholeOrNotAtAll(k)

(* Whoever asks for the connection gets a turn and an outcome: no caller      *)
(* waits behind itself, and no failure stops those behind it.               *)
EveryCallSettles == \A c \in Call : call[c] = "waiting" ~> call[c] \in {"resolved", "rejected"}
=============================================================================
