------------------------ MODULE SqliteExecutorProofs ------------------------
(***************************************************************************)
(* Proofs about SqliteExecutor, for any number of calls, operations and     *)
(* statements: its types, that callers never share a transaction, and that  *)
(* operations awaited one after the other are all or nothing.               *)
(*                                                                         *)
(* The argument: the transaction is open exactly while the call whose turn  *)
(* it is runs its callback (Private), so whatever is held was done for it;  *)
(* and while nothing overlaps, the one operation under way has the only     *)
(* savepoint, with its own writes above it and whole operations below       *)
(* (InTurn).                                                               *)
(***************************************************************************)
EXTENDS SqliteExecutor, SequenceTheorems, TLAPS

HasTheTurn == {"open", "resolving", "rejecting"}

(* The queue holds who waits in it, and the call at its head runs.          *)
QueueOK ==
    /\ \A k \in Op : Queued(k) <=> op[k] = "waiting"
    /\ \A c \in Call : call[c] \in HasTheTurn => HasTurn(c)

(* As long as no stray operation was started, the transaction is that of    *)
(* the call whose callback runs.                                           *)
Private ==
    /\ began \subseteq Call
    /\ \A c \in Call : call[c] = "open" => inTransaction /\ c \in began
    /\ inTransaction => \E c \in Call : call[c] = "open"
    /\ \A u \in Unit : Holds(u) => call[CallOfUnit(u)] = "open"

(* As long as operations do not overlap either: where each of them stands.  *)
Written(k, n) == \E w \in pending : w.of = k /\ w.nth = n

OneAtATime ==
    /\ \A k \in Op :
          UnderWay(k) => op[k] = "running" /\ call[CallOf[k]] = "open" /\ savepoint[k] = 1 /\ depth = 1
    /\ \A j, k \in Op : UnderWay(j) /\ UnderWay(k) => j = k
    /\ \A u \in Unit : savepoint[u] # 0 => u \in Op /\ UnderWay(u)
    /\ (\A k \in Op : ~UnderWay(k)) => depth = 0

Fresh == \A k \in Op :
            /\ call[CallOf[k]] \in {"new", "waiting"} => op[k] = "new"
            /\ op[k] = "new" => made[k] = 0

InPending ==
    /\ \A w \in pending : w.under = IF op[w.of] = "running" THEN 1 ELSE 0
    /\ \A k \in Op, n \in 1 .. Writes :
          Written(k, n) <=> /\ call[CallOf[k]] = "open"
                            /\ op[k] = "resolved" \/ (op[k] = "running" /\ n <= made[k])

InDatabase ==
    \A k \in Op, n \in 1 .. Writes :
       <<k, n>> \in committed <=> call[CallOf[k]] \in {"resolving", "resolved"} /\ op[k] = "resolved"

InTurn == OneAtATime /\ Fresh /\ InPending /\ InDatabase

(* Who waits for a turn of its own has a statement left.                    *)
WaitsForMore == \A k \in Op : op[k] = "waiting" => made[k] < Writes

(* The inductive invariant.                                                *)
IInv ==
    /\ TypeOK /\ QueueOK /\ WaitsForMore
    /\ strays = {} => Private
    /\ strays = {} /\ overlapped = {} => InTurn

-----------------------------------------------------------------------------
(* The queue.                                                               *)
Distinct == \A i, j \in DOMAIN queue : queue[i] = queue[j] => i = j

(* Whoever joins the queue is in it once, behind all others.                *)
LEMMA Joining ==
    ASSUME queue \in Seq(Unit), Distinct, NEW u \in Unit, ~Queued(u), queue' = Append(queue, u)
    PROVE  /\ queue' \in Seq(Unit) /\ Distinct'
           /\ \A x \in Unit : Queued(x)' <=> Queued(x) \/ x = u
           /\ \A x \in Unit : HasTurn(x) => HasTurn(x)'
<1> DEFINE n == Len(queue)
<1>1. /\ queue' \in Seq(Unit) /\ queue' # <<>> /\ Len(queue') = n + 1 /\ n \in Nat
      /\ \A i \in 1 .. n : queue'[i] = queue[i]
      /\ queue'[n + 1] = u
      /\ DOMAIN queue = 1 .. n /\ DOMAIN queue' = 1 .. n + 1
  BY AppendProperties, LenProperties
<1>2. \A i \in 1 .. n : queue'[i] # u
  BY <1>1 DEF Queued
<1>3. Distinct'
  BY <1>1, <1>2 DEF Distinct
<1>4. \A x \in Unit : Queued(x)' <=> Queued(x) \/ x = u
  <2> SUFFICES ASSUME NEW x \in Unit PROVE Queued(x)' <=> Queued(x) \/ x = u
    OBVIOUS
  <2>1. Queued(x) => Queued(x)'
    BY <1>1 DEF Queued
  <2>2. x = u => Queued(x)'
    BY <1>1 DEF Queued
  <2>3. Queued(x)' => Queued(x) \/ x = u
    BY <1>1 DEF Queued
  <2> QED
    BY <2>1, <2>2, <2>3
<1>5. ASSUME NEW x \in Unit, HasTurn(x) PROVE HasTurn(x)'
  BY <1>1, <1>5, HeadTailAppend DEF HasTurn
<1> QED
  BY <1>1, <1>3, <1>4, <1>5

(* When the first one leaves, it is gone and all others stay.               *)
LEMMA Leaving ==
    ASSUME queue \in Seq(Unit), Distinct, NEW u \in Unit, HasTurn(u), queue' = Tail(queue)
    PROVE  /\ queue' \in Seq(Unit) /\ Distinct'
           /\ \A x \in Unit : Queued(x)' <=> Queued(x) /\ x # u
<1> DEFINE n == Len(queue)
<1>1. /\ queue' \in Seq(Unit) /\ n \in Nat \ {0} /\ Len(queue') = n - 1
      /\ \A i \in 1 .. n - 1 : queue'[i] = queue[i + 1]
      /\ DOMAIN queue = 1 .. n /\ DOMAIN queue' = 1 .. n - 1
      /\ queue[1] = u
  BY HeadTailProperties, LenProperties, EmptySeq DEF HasTurn
<1>2. Distinct'
  BY <1>1 DEF Distinct
<1>3. ASSUME NEW x \in Unit PROVE Queued(x)' <=> Queued(x) /\ x # u
  <2>1. ASSUME Queued(x)' PROVE Queued(x) /\ x # u
    <3>1. PICK i \in 1 .. n - 1 : queue[i + 1] = x
      BY <1>1, <2>1 DEF Queued
    <3> QED
      BY <1>1, <3>1 DEF Queued, Distinct
  <2>2. ASSUME Queued(x), x # u PROVE Queued(x)'
    <3>1. PICK i \in 1 .. n : queue[i] = x
      BY <1>1, <2>2 DEF Queued
    <3>2. i # 1 /\ i - 1 \in 1 .. n - 1 /\ (i - 1) + 1 = i
      BY <1>1, <2>2, <3>1
    <3> QED
      BY <1>1, <3>1, <3>2 DEF Queued
  <2> QED
    BY <2>1, <2>2
<1> QED
  BY <1>1, <1>2, <1>3

(* Only the first one has the turn, and it is in the queue.                  *)
LEMMA FirstIsQueued ==
    ASSUME queue \in Seq(Unit), NEW u, HasTurn(u)
    PROVE  Queued(u)
BY EmptySeq, LenProperties DEF HasTurn, Queued

-----------------------------------------------------------------------------
(* The connection.                                                          *)
ConnectionOK ==
    /\ inTransaction \in BOOLEAN /\ began \subseteq Unit
    /\ depth \in Nat /\ savepoint \in [Unit -> 0 .. depth]
    /\ pending \subseteq [of : Op, nth : 1 .. Writes, under : 0 .. depth]
    /\ ~inTransaction => depth = 0 /\ pending = {}
    /\ committed \subseteq Op \X (1 .. Writes)

LEMMA OpensOK ==
    ASSUME ConnectionOK, NEW u \in Unit, Opens(u)
    PROVE  ConnectionOK'
<1>1. pending \subseteq [of : Op, nth : 1 .. Writes, under : 0 .. depth + 1]
  BY DEF ConnectionOK
<1>2. CASE inTransaction
  <2>1. savepoint' \in [Unit -> 0 .. depth']
    BY <1>2 DEF ConnectionOK, Opens
  <2> QED
    BY <1>1, <1>2, <2>1 DEF ConnectionOK, Opens
<1>3. CASE ~inTransaction
  BY <1>3 DEF ConnectionOK, Opens
<1> QED
  BY <1>2, <1>3

LEMMA DropsOK ==
    ASSUME ConnectionOK, NEW u \in Unit, Held(u), DropsSavepoint(u),
           pending' = Released(u) \/ pending' = RolledBack(u),
           UNCHANGED <<inTransaction, began, committed>>
    PROVE  ConnectionOK'
<1>1. savepoint[u] \in 1 .. depth /\ inTransaction /\ depth' = savepoint[u] - 1 /\ depth' \in Nat
  BY DEF ConnectionOK, Held, DropsSavepoint
<1>2. savepoint' \in [Unit -> 0 .. depth']
  BY <1>1 DEF ConnectionOK, DropsSavepoint
<1>3. pending' \subseteq [of : Op, nth : 1 .. Writes, under : 0 .. depth']
  <2>1. CASE pending' = Released(u)
    BY <1>1, <2>1 DEF ConnectionOK, Released
  <2>2. CASE pending' = RolledBack(u)
    BY <1>1, <2>2 DEF ConnectionOK, RolledBack
  <2> QED
    BY <2>1, <2>2
<1> QED
  BY <1>1, <1>2, <1>3 DEF ConnectionOK

LEMMA EndsOK ==
    ASSUME ConnectionOK, EndsTransaction, began' = began,
           committed' = committed \cup {<<w.of, w.nth>> : w \in pending} \/ committed' = committed
    PROVE  ConnectionOK'
<1>1. {<<w.of, w.nth>> : w \in pending} \subseteq Op \X (1 .. Writes)
  BY DEF ConnectionOK
<1>2. committed' \subseteq Op \X (1 .. Writes)
  BY <1>1 DEF ConnectionOK
<1>3. /\ depth' \in Nat /\ savepoint' \in [Unit -> 0 .. depth']
      /\ inTransaction' = FALSE /\ depth' = 0 /\ pending' = {}
  BY DEF EndsTransaction
<1>4. pending' \subseteq [of : Op, nth : 1 .. Writes, under : 0 .. depth'] /\ began' \subseteq Unit
  BY <1>3 DEF ConnectionOK
<1> QED
  BY <1>2, <1>3, <1>4 DEF ConnectionOK

LEMMA KeepsOK ==
    ASSUME ConnectionOK, NEW u \in Unit, CanEnd(u), Keeps(u)
    PROVE  ConnectionOK'
BY EndsOK, DropsOK DEF Keeps, CanEnd

LEMMA UndoesOK ==
    ASSUME ConnectionOK, NEW u \in Unit, Undoes(u)
    PROVE  ConnectionOK'
<1>1. CASE ~CanEnd(u)
  <2>1. UNCHANGED <<inTransaction, began, savepoint, depth, pending, committed>>
    <3>1. UNCHANGED db
      BY <1>1 DEF Undoes
    <3> QED
      BY <3>1 DEF db
  <2> QED
    BY <2>1 DEF ConnectionOK
<1>2. CASE CanEnd(u) /\ u \in began
  BY <1>2, EndsOK DEF Undoes
<1>3. CASE CanEnd(u) /\ u \notin began
  BY <1>3, DropsOK DEF Undoes, CanEnd
<1> QED
  BY <1>1, <1>2, <1>3

LEMMA RunsOK ==
    ASSUME ConnectionOK, made \in [Op -> 0 .. Writes], NEW k \in Op, made[k] < Writes, Runs(k)
    PROVE  ConnectionOK' /\ made' \in [Op -> 0 .. Writes]
<1>1. made[k] + 1 \in 1 .. Writes /\ made' \in [Op -> 0 .. Writes]
  BY WritesAssumption DEF Runs
<1>2. CASE inTransaction
  BY <1>1, <1>2 DEF ConnectionOK, Runs
<1>3. CASE ~inTransaction
  BY <1>1, <1>3 DEF ConnectionOK, Runs
<1> QED
  BY <1>1, <1>2, <1>3 DEF ConnectionOK

-----------------------------------------------------------------------------
(* The turns.                                                               *)
TurnsOK ==
    /\ queue \in Seq(Unit) /\ Distinct
    /\ call \in [Call -> {"new", "waiting", "open", "resolving", "rejecting", "resolved", "rejected"}]
    /\ op \in [Op -> {"new", "running", "waiting", "resolved", "rejected"}]
    /\ \A c \in Call : Queued(c) <=> call[c] \in {"waiting", "open", "resolving", "rejecting"}
    /\ QueueOK

LEMMA Parts ==
    TypeOK /\ QueueOK <=>
        /\ TurnsOK /\ ConnectionOK
        /\ made \in [Op -> 0 .. Writes]
        /\ overlapped \subseteq Call /\ strays \subseteq Op
BY DEF TypeOK, TurnsOK, ConnectionOK, Distinct

(* One call at a time has the turn.                                         *)
LEMMA OneTurn ==
    ASSUME TurnsOK, NEW c \in Call, NEW d, HasTurn(d), call[c] \in HasTheTurn
    PROVE  c = d
BY DEF TurnsOK, QueueOK, HasTurn

LEMMA Kinds ==
    /\ \A c \in Call : c \in Unit /\ c \notin Op
    /\ \A k \in Op : k \in Unit /\ k \notin Call /\ CallOf[k] \in Call
    /\ \A u \in Unit : CallOfUnit(u) \in Call
    /\ \A c \in Call : CallOfUnit(c) = c
    /\ \A k \in Op : CallOfUnit(k) = CallOf[k]
BY CallOfAssumption DEF Unit, CallOfUnit

(* A turn taken, kept or given up.                                          *)
LEMMA TurnKept ==
    ASSUME TurnsOK, NEW c \in Call, NEW x \in {"open", "resolving", "rejecting"},
           call[c] \in {"waiting", "open"}, HasTurn(c),
           call' = [call EXCEPT ![c] = x], UNCHANGED <<queue, op>>
    PROVE  TurnsOK'
<1>1. call' \in [Call -> {"new", "waiting", "open", "resolving", "rejecting", "resolved", "rejected"}]
  BY DEF TurnsOK
<1>2. /\ \A y \in Unit : (Queued(y)' <=> Queued(y)) /\ (HasTurn(y)' <=> HasTurn(y))
      /\ Distinct'
  BY DEF Queued, HasTurn, TurnsOK, Distinct
<1>3. ASSUME NEW d \in Call
      PROVE  /\ Queued(d)' <=> call'[d] \in {"waiting", "open", "resolving", "rejecting"}
             /\ call'[d] \in HasTheTurn => HasTurn(d)'
  BY <1>2, Kinds DEF TurnsOK, QueueOK, HasTheTurn
<1>4. \A k \in Op : Queued(k)' <=> op'[k] = "waiting"
  BY <1>2, Kinds DEF TurnsOK, QueueOK
<1> QED
  BY <1>1, <1>2, <1>3, <1>4 DEF TurnsOK, QueueOK

LEMMA TurnGivenUp ==
    ASSUME TurnsOK, NEW c \in Call, NEW x \in {"resolved", "rejected"}, HasTurn(c),
           call' = [call EXCEPT ![c] = x], queue' = Tail(queue), UNCHANGED op
    PROVE  TurnsOK'
<1>1. call' \in [Call -> {"new", "waiting", "open", "resolving", "rejecting", "resolved", "rejected"}]
  BY DEF TurnsOK
<1>2. /\ queue' \in Seq(Unit) /\ Distinct'
      /\ \A y \in Unit : Queued(y)' <=> Queued(y) /\ y # c
  BY Leaving, Kinds DEF TurnsOK
<1>3. ASSUME NEW d \in Call
      PROVE  Queued(d)' <=> call'[d] \in {"waiting", "open", "resolving", "rejecting"}
  BY <1>2, Kinds DEF TurnsOK
<1>4. ASSUME NEW d \in Call, call'[d] \in HasTheTurn PROVE HasTurn(d)'
  <2>1. d # c /\ call[d] \in HasTheTurn
    BY <1>4 DEF TurnsOK, HasTheTurn
  <2> QED
    BY <2>1, OneTurn
<1>5. \A k \in Op : Queued(k)' <=> op'[k] = "waiting"
  BY <1>2, Kinds DEF TurnsOK, QueueOK
<1> QED
  BY <1>1, <1>2, <1>3, <1>4, <1>5 DEF TurnsOK, QueueOK

(* Operations that run neither join the queue nor leave it.                 *)
LEMMA OpsMove ==
    ASSUME TurnsOK, NEW k \in Op, NEW x \in {"running", "resolved", "rejected"},
           op[k] # "waiting", op' = [op EXCEPT ![k] = x], UNCHANGED <<queue, call>>
    PROVE  TurnsOK'
<1>1. op' \in [Op -> {"new", "running", "waiting", "resolved", "rejected"}]
  BY DEF TurnsOK
<1>2. /\ \A y \in Unit : (Queued(y)' <=> Queued(y)) /\ (HasTurn(y)' <=> HasTurn(y))
      /\ Distinct'
  BY DEF Queued, HasTurn, TurnsOK, Distinct
<1>3. \A j \in Op : Queued(j)' <=> op'[j] = "waiting"
  BY <1>2, Kinds DEF TurnsOK, QueueOK
<1>4. \A d \in Call : /\ Queued(d)' <=> call'[d] \in {"waiting", "open", "resolving", "rejecting"}
                      /\ call'[d] \in HasTheTurn => HasTurn(d)'
  BY <1>2, Kinds DEF TurnsOK, QueueOK
<1> QED
  BY <1>1, <1>2, <1>3, <1>4 DEF TurnsOK, QueueOK

LEMMA TurnsSame ==
    ASSUME TurnsOK, UNCHANGED <<queue, call, op>>
    PROVE  TurnsOK'
BY DEF TurnsOK, QueueOK, Distinct, Queued, HasTurn

LEMMA TurnsStep == TurnsOK /\ [Next]_vars => TurnsOK'
<1> SUFFICES ASSUME TurnsOK, [Next]_vars PROVE TurnsOK'
  OBVIOUS
<1>1. ASSUME NEW c \in Call, Request(c) PROVE TurnsOK'
  <2>1. call' \in [Call -> {"new", "waiting", "open", "resolving", "rejecting", "resolved", "rejected"}]
    BY <1>1 DEF TurnsOK, Request
  <2>2. c \in Unit /\ ~Queued(c) /\ queue' = Append(queue, c)
    BY <1>1, Kinds DEF TurnsOK, Request
  <2>3. /\ queue' \in Seq(Unit) /\ Distinct'
        /\ \A y \in Unit : Queued(y)' <=> Queued(y) \/ y = c
        /\ \A y \in Unit : HasTurn(y) => HasTurn(y)'
    BY <2>2, Joining DEF TurnsOK
  <2>4. \A d \in Call : /\ Queued(d)' <=> call'[d] \in {"waiting", "open", "resolving", "rejecting"}
                        /\ call'[d] \in HasTheTurn => HasTurn(d)'
    BY <1>1, <2>3, Kinds DEF TurnsOK, QueueOK, Request, HasTheTurn
  <2>5. \A k \in Op : Queued(k)' <=> op'[k] = "waiting"
    BY <1>1, <2>3, Kinds DEF TurnsOK, QueueOK, Request
  <2> QED
    BY <1>1, <2>1, <2>3, <2>4, <2>5 DEF TurnsOK, QueueOK, Request
<1>2. ASSUME NEW c \in Call, Begin(c) PROVE TurnsOK'
  BY <1>2, TurnKept DEF Begin
<1>3. ASSUME NEW c \in Call, BeginFails(c) PROVE TurnsOK'
  BY <1>3, TurnGivenUp DEF BeginFails
<1>4. ASSUME NEW c \in Call, Commit(c) \/ Rollback(c) PROVE TurnsOK'
  <2>1. HasTurn(c)
    BY <1>4 DEF TurnsOK, QueueOK, HasTheTurn, Commit, Rollback
  <2> QED
    BY <1>4, <2>1, TurnKept DEF Commit, Rollback
<1>5. ASSUME NEW c \in Call, Leave(c) PROVE TurnsOK'
  <2>1. HasTurn(c)
    BY <1>5 DEF TurnsOK, QueueOK, HasTheTurn, Leave
  <2> QED
    BY <1>5, <2>1, TurnGivenUp DEF Leave
<1>6. ASSUME NEW k \in Op, StartOp(k) PROVE TurnsOK'
  BY <1>6, OpsMove DEF StartOp
<1>7. ASSUME NEW k \in Op, Execute(k) PROVE TurnsOK'
  <2>1. CASE Joins(k)
    BY <1>7, <2>1, TurnsSame DEF Execute
  <2>2. CASE ~Joins(k)
    <3>1. op' \in [Op -> {"new", "running", "waiting", "resolved", "rejected"}]
      BY <1>7, <2>2 DEF TurnsOK, Execute
    <3>2. k \in Unit /\ ~Queued(k) /\ queue' = Append(queue, k)
      BY <1>7, <2>2, Kinds DEF TurnsOK, QueueOK, Execute
    <3>3. /\ queue' \in Seq(Unit) /\ Distinct'
          /\ \A y \in Unit : Queued(y)' <=> Queued(y) \/ y = k
          /\ \A y \in Unit : HasTurn(y) => HasTurn(y)'
      BY <3>2, Joining DEF TurnsOK
    <3>4. \A d \in Call : /\ Queued(d)' <=> call'[d] \in {"waiting", "open", "resolving", "rejecting"}
                          /\ call'[d] \in HasTheTurn => HasTurn(d)'
      BY <1>7, <3>3, Kinds DEF TurnsOK, QueueOK, Execute
    <3>5. \A j \in Op : Queued(j)' <=> op'[j] = "waiting"
      BY <1>7, <2>2, <3>3, Kinds DEF TurnsOK, QueueOK, Execute
    <3> QED
      BY <1>7, <3>1, <3>3, <3>4, <3>5 DEF TurnsOK, QueueOK, Execute
  <2> QED
    BY <2>1, <2>2
<1>8. ASSUME NEW k \in Op, LoneStatement(k) PROVE TurnsOK'
  <2>1. op' \in [Op -> {"new", "running", "waiting", "resolved", "rejected"}]
    BY <1>8 DEF TurnsOK, LoneStatement
  <2>2. /\ queue' \in Seq(Unit) /\ Distinct'
        /\ \A y \in Unit : Queued(y)' <=> Queued(y) /\ y # k
    BY <1>8, Leaving, Kinds DEF TurnsOK, LoneStatement
  <2>3. ASSUME NEW d \in Call PROVE call[d] \notin HasTheTurn
    BY <1>8, OneTurn, Kinds DEF LoneStatement
  <2>4. \A d \in Call : /\ Queued(d)' <=> call'[d] \in {"waiting", "open", "resolving", "rejecting"}
                        /\ call'[d] \in HasTheTurn => HasTurn(d)'
    BY <1>8, <2>2, <2>3, Kinds DEF TurnsOK, LoneStatement
  <2>5. \A j \in Op : Queued(j)' <=> op'[j] = "waiting"
    BY <1>8, <2>2, Kinds DEF TurnsOK, QueueOK, LoneStatement
  <2> QED
    BY <1>8, <2>1, <2>2, <2>4, <2>5 DEF TurnsOK, QueueOK, LoneStatement
<1>9. ASSUME NEW k \in Op, FinishOp(k) \/ FailOp(k) PROVE TurnsOK'
  BY <1>9, OpsMove DEF FinishOp, FailOp
<1>10. CASE UNCHANGED vars
  BY <1>10, TurnsSame DEF vars
<1> QED
  BY <1>1, <1>2, <1>3, <1>4, <1>5, <1>6, <1>7, <1>8, <1>9, <1>10 DEF Next, Turn, Advance

LEMMA WaitsStep == TurnsOK /\ made \in [Op -> 0 .. Writes] /\ WaitsForMore /\ [Next]_vars => WaitsForMore'
<1> SUFFICES ASSUME TurnsOK, made \in [Op -> 0 .. Writes], WaitsForMore, [Next]_vars PROVE WaitsForMore'
  OBVIOUS
<1>1. CASE UNCHANGED <<op, made>>
  BY <1>1 DEF WaitsForMore
<1>2. ASSUME NEW k \in Op, StartOp(k) \/ FinishOp(k) \/ FailOp(k) PROVE WaitsForMore'
  BY <1>2 DEF StartOp, FinishOp, FailOp, WaitsForMore, TurnsOK
<1>3. ASSUME NEW k \in Op, Execute(k) PROVE WaitsForMore'
  BY <1>3 DEF Execute, Runs, WaitsForMore, TurnsOK
<1>4. ASSUME NEW k \in Op, LoneStatement(k) PROVE WaitsForMore'
  BY <1>4 DEF LoneStatement, Runs, WaitsForMore, TurnsOK
<1> QED
  BY <1>1, <1>2, <1>3, <1>4
     DEF Next, Turn, Advance, Request, Begin, BeginFails, Commit, Rollback, Leave, vars

LEMMA ConnectionStep ==
    ASSUME TurnsOK, ConnectionOK, made \in [Op -> 0 .. Writes], WaitsForMore,
           overlapped \subseteq Call, strays \subseteq Op, [Next]_vars
    PROVE  /\ ConnectionOK' /\ made' \in [Op -> 0 .. Writes]
           /\ overlapped' \subseteq Call /\ strays' \subseteq Op
<1> USE Kinds
<1>1. ASSUME UNCHANGED db PROVE ConnectionOK'
  BY <1>1 DEF db, ConnectionOK
<1>2. ASSUME NEW c \in Call, Request(c) \/ BeginFails(c) \/ Leave(c)
      PROVE  ConnectionOK' /\ UNCHANGED <<made, overlapped, strays>>
  BY <1>1, <1>2 DEF Request, BeginFails, Leave, history
<1>3. ASSUME NEW c \in Call, Begin(c)
      PROVE  ConnectionOK' /\ UNCHANGED <<made, overlapped, strays>>
  BY <1>3, OpensOK DEF Begin, history
<1>4. ASSUME NEW c \in Call, Commit(c)
      PROVE  ConnectionOK' /\ UNCHANGED <<made, overlapped, strays>>
  BY <1>1, <1>4, KeepsOK DEF Commit, history
<1>5. ASSUME NEW c \in Call, Rollback(c)
      PROVE  ConnectionOK' /\ UNCHANGED <<made, overlapped, strays>>
  BY <1>5, UndoesOK DEF Rollback, history
<1>6. ASSUME NEW k \in Op, StartOp(k)
      PROVE  ConnectionOK' /\ made' = made /\ overlapped' \subseteq Call /\ strays' \subseteq Op
  BY <1>6, OpensOK DEF StartOp
<1>7. ASSUME NEW k \in Op, Execute(k)
      PROVE  ConnectionOK' /\ made' \in [Op -> 0 .. Writes] /\ UNCHANGED <<overlapped, strays>>
  BY <1>1, <1>7, RunsOK DEF Execute, history
<1>8. ASSUME NEW k \in Op, LoneStatement(k)
      PROVE  ConnectionOK' /\ made' \in [Op -> 0 .. Writes] /\ UNCHANGED <<overlapped, strays>>
  BY <1>8, RunsOK DEF LoneStatement, history, WaitsForMore
<1>9. ASSUME NEW k \in Op, FinishOp(k)
      PROVE  ConnectionOK' /\ UNCHANGED <<made, overlapped, strays>>
  BY <1>1, <1>9, KeepsOK DEF FinishOp, history
<1>10. ASSUME NEW k \in Op, FailOp(k)
      PROVE  ConnectionOK' /\ UNCHANGED <<made, overlapped, strays>>
  BY <1>10, UndoesOK DEF FailOp, history
<1>11. ASSUME UNCHANGED vars PROVE ConnectionOK' /\ UNCHANGED <<made, overlapped, strays>>
  BY <1>1, <1>11 DEF vars, history
<1> QED
  BY <1>2, <1>3, <1>4, <1>5, <1>6, <1>7, <1>8, <1>9, <1>10, <1>11 DEF Next, Turn, Advance

-----------------------------------------------------------------------------
(* Whose transaction it is.                                                 *)
LEMMA OneOpen ==
    ASSUME TurnsOK, NEW c \in Call, NEW d \in Call, call[c] = "open", call[d] \in HasTheTurn
    PROVE  d = c
BY OneTurn DEF TurnsOK, QueueOK, HasTheTurn

LEMMA NothingHeld ==
    ASSUME ConnectionOK, ~inTransaction, NEW u \in Unit
    PROVE  ~Holds(u)
BY DEF ConnectionOK, Holds

(* The transaction of the open call comes to its end.                       *)
LEMMA PrivateEnds ==
    ASSUME TurnsOK, ConnectionOK', Private, NEW c \in Call, call[c] = "open", EndsTransaction,
           began' = began, NEW x \in {"resolving", "rejecting"}, call' = [call EXCEPT ![c] = x]
    PROVE  Private'
<1>1. inTransaction' = FALSE
  BY DEF EndsTransaction
<1>2. \A d \in Call : call'[d] # "open"
  BY OneOpen DEF TurnsOK, HasTheTurn
<1>3. \A u \in Unit : ~Holds(u)'
  BY <1>1 DEF ConnectionOK, Holds
<1> QED
  BY <1>1, <1>2, <1>3 DEF Private

(* Nobody new holds anything.                                               *)
LEMMA PrivateLess ==
    ASSUME Private, UNCHANGED <<inTransaction, began>>,
           \A c \in Call : call'[c] = "open" <=> call[c] = "open",
           \A u \in Unit : Holds(u)' => Holds(u)
    PROVE  Private'
BY Kinds DEF Private

LEMMA DropsHoldsLess ==
    ASSUME ConnectionOK, NEW u \in Unit, DropsSavepoint(u), pending' = Released(u) \/ pending' = RolledBack(u)
    PROVE  \A v \in Unit : Holds(v)' => Holds(v)
<1> TAKE v \in Unit
<1>1. savepoint'[v] # 0 => savepoint[v] # 0
  BY DEF DropsSavepoint, ConnectionOK
<1>2. \A w \in pending' : w.of = v => \E x \in pending : x.of = v
  BY DEF Released, RolledBack, ConnectionOK
<1> QED
  BY <1>1, <1>2 DEF Holds

LEMMA PrivateStep ==
    ASSUME TurnsOK, ConnectionOK, ConnectionOK', Private, [Next]_vars, strays' = {}
    PROVE  Private'
<1> USE Kinds
<1>1. ASSUME UNCHANGED db, \A c \in Call : call'[c] = "open" <=> call[c] = "open" PROVE Private'
  BY <1>1, PrivateLess DEF db, Holds
<1>2. ASSUME NEW c \in Call, Request(c) \/ BeginFails(c) \/ Leave(c) PROVE Private'
  <2>1. UNCHANGED db
    BY <1>2 DEF Request, BeginFails, Leave
  <2>2. \A d \in Call : call'[d] = "open" <=> call[d] = "open"
    BY <1>2 DEF Request, BeginFails, Leave, TurnsOK
  <2> QED
    BY <1>1, <2>1, <2>2
<1>3. ASSUME NEW c \in Call, Begin(c) PROVE Private'
  <2>1. \A d \in Call : call[d] # "open"
    BY <1>3, OneTurn DEF Begin, HasTheTurn
  <2>2. ~inTransaction
    BY <2>1 DEF Private
  <2>3. /\ inTransaction' = TRUE /\ began' = began \cup {c}
        /\ UNCHANGED <<savepoint, depth, pending, committed>>
        /\ call' = [call EXCEPT ![c] = "open"]
    BY <1>3, <2>2 DEF Begin, Opens
  <2>4. /\ call'[c] = "open"
        /\ \A d \in Call : call'[d] = "open" => d = c
    BY <2>1, <2>3 DEF TurnsOK
  <2>5. \A u \in Unit : ~Holds(u)'
    BY <2>2, <2>3, NothingHeld DEF Holds
  <2> QED
    BY <2>3, <2>4, <2>5 DEF Private
<1>4. ASSUME NEW c \in Call, Commit(c) \/ Rollback(c) PROVE Private'
  <2>1. call[c] = "open" /\ c \in began /\ CanEnd(c)
    BY <1>4 DEF Commit, Rollback, Private, CanEnd
  <2>2. EndsTransaction /\ began' = began
    BY <1>4, <2>1 DEF Commit, Rollback, Keeps, Undoes
  <2>3. PICK x \in {"resolving", "rejecting"} : call' = [call EXCEPT ![c] = x]
    BY <1>4 DEF Commit, Rollback
  <2> QED
    BY <2>1, <2>2, <2>3, PrivateEnds
<1>5. ASSUME NEW k \in Op, StartOp(k) PROVE Private'
  <2>1. call[CallOf[k]] = "open" /\ call' = call
    BY <1>5 DEF StartOp
  <2>2. inTransaction
    BY <2>1 DEF Private
  <2>3. /\ savepoint' = [savepoint EXCEPT ![k] = depth + 1]
        /\ UNCHANGED <<inTransaction, began, pending>>
    BY <1>5, <2>2 DEF StartOp, Opens
  <2>4. \A u \in Unit : Holds(u)' => Holds(u) \/ u = k
    BY <2>3 DEF Holds, ConnectionOK
  <2> QED
    BY <2>1, <2>3, <2>4 DEF Private
<1>6. ASSUME NEW k \in Op, Runs(k), call' = call, inTransaction => call[CallOf[k]] = "open" PROVE Private'
  <2>1. CASE ~inTransaction
    BY <1>6, <2>1, PrivateLess DEF Runs, Holds
  <2>2. CASE inTransaction
    <3>1. \A u \in Unit : Holds(u)' => Holds(u) \/ u = k
      BY <1>6, <2>2 DEF Runs, Holds
    <3> QED
      BY <1>6, <2>2, <3>1 DEF Private, Runs
  <2> QED
    BY <2>1, <2>2
<1>7. ASSUME NEW k \in Op, Execute(k) PROVE Private'
  <2>1. CASE Joins(k)
    <3>1. inTransaction => call[CallOf[k]] = "open"
      BY <2>1, OneOpen DEF Private, Joins, HasTheTurn
    <3> QED
      BY <1>6, <1>7, <2>1, <3>1 DEF Execute
  <2>2. CASE ~Joins(k)
    BY <1>1, <1>7, <2>2 DEF Execute
  <2> QED
    BY <2>1, <2>2
<1>8. ASSUME NEW k \in Op, LoneStatement(k) PROVE Private'
  <2>1. \A d \in Call : call[d] # "open"
    BY <1>8, OneTurn DEF LoneStatement, HasTheTurn
  <2>2. ~inTransaction
    BY <2>1 DEF Private
  <2> QED
    BY <1>6, <1>8, <2>2 DEF LoneStatement
<1>9. ASSUME NEW k \in Op, FinishOp(k) \/ FailOp(k) PROVE Private'
  <2>1. k \notin began /\ call' = call
    BY <1>9 DEF Private, FinishOp, FailOp
  <2>2. CASE UNCHANGED db
    BY <1>1, <2>1, <2>2
  <2>3. CASE /\ DropsSavepoint(k)
             /\ pending' = Released(k) \/ pending' = RolledBack(k)
             /\ inTransaction' = inTransaction /\ began' = began
    BY <2>1, <2>3, DropsHoldsLess, PrivateLess
  <2> QED
    BY <1>9, <2>1, <2>2, <2>3 DEF FinishOp, FailOp, Keeps, Undoes
<1>10. CASE UNCHANGED vars
  BY <1>1, <1>10 DEF vars
<1> QED
  BY <1>2, <1>3, <1>4, <1>5, <1>7, <1>8, <1>9, <1>10 DEF Next, Turn, Advance

-----------------------------------------------------------------------------
(* One operation after the other.                                           *)

(* A call that neither runs its callback nor comes to do so.                *)
LEMMA InTurnAway ==
    ASSUME TurnsOK, InTurn, NEW c \in Call, NEW x, call' = [call EXCEPT ![c] = x],
           UNCHANGED <<op, made, db>>,
           \/ call[c] = "new" /\ x = "waiting"
           \/ call[c] = "waiting" /\ x = "rejected"
           \/ call[c] = "resolving" /\ x = "resolved"
           \/ call[c] = "rejecting" /\ x = "rejected"
    PROVE  InTurn'
<1>1. /\ UNCHANGED <<savepoint, depth, pending, committed>>
      /\ \A d \in Call : call'[d] = IF d = c THEN x ELSE call[d]
  BY DEF db, TurnsOK
<1>2. OneAtATime'
  BY <1>1, Kinds DEF InTurn, OneAtATime, UnderWay
<1>3. Fresh'
  BY <1>1, Kinds DEF InTurn, Fresh
<1>4. InPending'
  BY <1>1, Kinds DEF InTurn, InPending, Written
<1>5. ASSUME NEW k \in Op
      PROVE  call'[CallOf[k]] \in {"resolving", "resolved"} <=> call[CallOf[k]] \in {"resolving", "resolved"}
  BY <1>1, Kinds
<1>6. InDatabase'
  BY <1>1, <1>5 DEF InTurn, InDatabase
<1> QED
  BY <1>2, <1>3, <1>4, <1>6 DEF InTurn

LEMMA InTurnBegins ==
    ASSUME TurnsOK, Private, InTurn, NEW c \in Call, Begin(c)
    PROVE  InTurn'
<1>1. \A d \in Call : call[d] # "open"
  BY OneTurn, Kinds DEF Begin, HasTheTurn
<1>2. /\ UNCHANGED <<op, made, savepoint, depth, pending, committed>>
      /\ \A d \in Call : call'[d] = IF d = c THEN "open" ELSE call[d]
      /\ call[c] = "waiting"
  BY <1>1 DEF Begin, Opens, Private, TurnsOK
<1>3. OneAtATime'
  BY <1>1, <1>2, Kinds DEF InTurn, OneAtATime, UnderWay
<1>4. Fresh'
  BY <1>2, Kinds DEF InTurn, Fresh
<1>5. InPending'
  BY <1>1, <1>2, Kinds DEF InTurn, InPending, Written, Fresh
<1>6. InDatabase'
  BY <1>1, <1>2, Kinds DEF InTurn, InDatabase, Fresh
<1> QED
  BY <1>3, <1>4, <1>5, <1>6 DEF InTurn

(* The callback is over: none of its operations is under way, and what is    *)
(* pending is what they wrote.                                             *)
LEMMA InTurnEnds ==
    ASSUME TurnsOK, ConnectionOK, Private, InTurn, overlapped = {}, NEW c \in Call, Commit(c) \/ Rollback(c)
    PROVE  InTurn'
<1> USE Kinds
<1>1. /\ call[c] = "open" /\ AllSettled(c) /\ c \in began /\ CanEnd(c)
      /\ UNCHANGED <<op, made>>
  BY DEF Commit, Rollback, Private, CanEnd
<1>2. \A d \in Call : call[d] = "open" => d = c
  BY <1>1, OneOpen DEF HasTheTurn
<1>3. \A k \in Op : ~UnderWay(k)
  BY <1>1, <1>2 DEF InTurn, OneAtATime, AllSettled, OpsOf
<1>4. EndsTransaction
  BY <1>1 DEF Commit, Rollback, Keeps, Undoes
<1>5. PICK x \in {"resolving", "rejecting"} : call' = [call EXCEPT ![c] = x]
  BY DEF Commit, Rollback
<1>6. \A d \in Call : call'[d] = IF d = c THEN x ELSE call[d]
  BY <1>5 DEF TurnsOK
<1>7. OneAtATime'
  BY <1>1, <1>3, <1>4 DEF OneAtATime, UnderWay, EndsTransaction
<1>8. Fresh'
  BY <1>1, <1>6 DEF InTurn, Fresh
<1>9. InPending'
  BY <1>2, <1>4, <1>6 DEF InPending, Written, EndsTransaction
<1>10. ASSUME NEW k \in Op, NEW n \in 1 .. Writes
       PROVE  <<k, n>> \in committed' <=> call'[CallOf[k]] \in {"resolving", "resolved"} /\ op'[k] = "resolved"
  <2>1. <<k, n>> \in committed <=> call[CallOf[k]] \in {"resolving", "resolved"} /\ op[k] = "resolved"
    BY DEF InTurn, InDatabase
  <2>2. CASE Commit(c)
    <3>1. x = "resolving" /\ committed' = committed \cup {<<w.of, w.nth>> : w \in pending}
      <4>1. Keeps(c) /\ call' = [call EXCEPT ![c] = "resolving"]
        BY <1>1, <2>2 DEF Commit
      <4> QED
        BY <1>1, <1>5, <4>1 DEF Keeps, TurnsOK
    <3>2. <<k, n>> \in committed' <=> <<k, n>> \in committed \/ Written(k, n)
      BY <3>1 DEF Written
    <3>3. Written(k, n) <=> CallOf[k] = c /\ op[k] = "resolved"
      BY <1>1, <1>2, <1>3 DEF InTurn, InPending, UnderWay
    <3> QED
      BY <1>1, <1>6, <2>1, <3>1, <3>2, <3>3
  <2>3. CASE Rollback(c)
    <3>1. x = "rejecting" /\ committed' = committed
      <4>1. call' = [call EXCEPT ![c] = "rejecting"] /\ committed' = committed
        BY <1>1, <2>3 DEF Rollback, Undoes
      <4> QED
        BY <1>5, <4>1 DEF TurnsOK
    <3> QED
      BY <1>1, <1>6, <2>1, <3>1
  <2> QED
    BY <2>2, <2>3
<1>11. InDatabase'
  BY <1>10 DEF InDatabase
<1> QED
  BY <1>7, <1>8, <1>9, <1>11 DEF InTurn

(* An operation starts when none is under way: its savepoint is the first.   *)
LEMMA InTurnStarts ==
    ASSUME TurnsOK, ConnectionOK, Private, InTurn, NEW k \in Op, StartOp(k),
           strays' = {}, overlapped' = {}
    PROVE  InTurn'
<1> USE Kinds
<1>1. /\ op[k] = "new" /\ call[CallOf[k]] = "open" /\ AllSettled(CallOf[k]) /\ inTransaction
      /\ UNCHANGED <<call, made>>
  BY DEF StartOp, Private
<1>2. \A j \in Op : ~UnderWay(j)
  <2>1. \A j \in Op : UnderWay(j) => CallOf[j] = CallOf[k]
    BY <1>1, OneOpen DEF InTurn, OneAtATime, HasTheTurn
  <2> QED
    BY <1>1, <2>1 DEF AllSettled, OpsOf
<1>3. /\ savepoint' = [savepoint EXCEPT ![k] = 1] /\ depth' = 1
      /\ UNCHANGED <<pending, committed>>
  BY <1>1, <1>2 DEF StartOp, Opens, InTurn, OneAtATime
<1>4. \A j \in Op : op'[j] = IF j = k THEN "running" ELSE op[j]
  BY DEF StartOp, TurnsOK
<1>5. OneAtATime'
  <2>1. \A u \in Unit : savepoint'[u] = IF u = k THEN 1 ELSE savepoint[u]
    BY <1>3 DEF ConnectionOK
  <2>2. \A u \in Unit : savepoint[u] = 0
    BY <1>2 DEF InTurn, OneAtATime
  <2> QED
    BY <1>1, <1>2, <1>3, <1>4, <2>1, <2>2 DEF OneAtATime, UnderWay
<1>6. Fresh'
  BY <1>1, <1>4 DEF InTurn, Fresh
<1>7. InPending'
  <2>1. made[k] = 0 /\ \A w \in pending : w.of \in Op /\ w.nth \in 1 .. Writes
    BY <1>1 DEF InTurn, Fresh, ConnectionOK
  <2>2. \A w \in pending : w.of # k
    BY <1>1, <2>1 DEF InTurn, InPending, Written
  <2>3. \A w \in pending : w.under = IF op'[w.of] = "running" THEN 1 ELSE 0
    BY <1>4, <2>1, <2>2 DEF InTurn, InPending
  <2>4. ASSUME NEW j \in Op, NEW n \in 1 .. Writes
        PROVE  Written(j, n)' <=> /\ call'[CallOf[j]] = "open"
                                  /\ op'[j] = "resolved" \/ (op'[j] = "running" /\ n <= made'[j])
    BY <1>1, <1>3, <1>4, <2>1, <2>2 DEF InTurn, InPending, Written
  <2> QED
    BY <1>3, <2>3, <2>4 DEF InPending
<1>8. InDatabase'
  BY <1>1, <1>3, <1>4 DEF InTurn, InDatabase
<1> QED
  BY <1>5, <1>6, <1>7, <1>8 DEF InTurn

(* A statement of the operation under way goes under its savepoint.          *)
LEMMA InTurnRuns ==
    ASSUME TurnsOK, ConnectionOK, made \in [Op -> 0 .. Writes], Private, InTurn, NEW k \in Op, Execute(k)
    PROVE  InTurn'
<1> USE Kinds
<1>1. UnderWay(k) /\ op[k] = "running" /\ call[CallOf[k]] = "open" /\ depth = 1 /\ inTransaction
  BY DEF Execute, UnderWay, InTurn, OneAtATime, Private
<1>2. /\ pending' = pending \cup {[of |-> k, nth |-> made[k] + 1, under |-> 1]}
      /\ UNCHANGED <<op, call, savepoint, depth, committed>>
      /\ made[k] < Writes
      /\ \A j \in Op : made'[j] = IF j = k THEN made[k] + 1 ELSE made[j]
  BY <1>1 DEF Execute, Joins, Runs
<1>3. OneAtATime'
  BY <1>2 DEF InTurn, OneAtATime, UnderWay
<1>4. Fresh'
  BY <1>1, <1>2 DEF InTurn, Fresh
<1>5. InPending'
  <2>1. \A w \in pending' : w.under = IF op'[w.of] = "running" THEN 1 ELSE 0
    BY <1>1, <1>2 DEF InTurn, InPending
  <2>2. ASSUME NEW j \in Op, NEW n \in 1 .. Writes
        PROVE  Written(j, n)' <=> /\ call'[CallOf[j]] = "open"
                                  /\ op'[j] = "resolved" \/ (op'[j] = "running" /\ n <= made'[j])
    <3>1. Written(j, n)' <=> Written(j, n) \/ (j = k /\ n = made[k] + 1)
      <4> DEFINE new == [of |-> k, nth |-> made[k] + 1, under |-> 1]
      <4>1. new.of = k /\ new.nth = made[k] + 1
        OBVIOUS
      <4>2. pending' = pending \cup {new}
        BY <1>2
      <4> HIDE DEF new
      <4> QED
        BY <4>1, <4>2 DEF Written
    <3>2. Written(j, n) <=> /\ call[CallOf[j]] = "open"
                            /\ op[j] = "resolved" \/ (op[j] = "running" /\ n <= made[j])
      BY DEF InTurn, InPending
    <3>3. n <= made[k] + 1 <=> n <= made[k] \/ n = made[k] + 1
      OBVIOUS
    <3> QED
      BY <1>1, <1>2, <3>1, <3>2, <3>3
  <2> QED
    BY <2>1, <2>2 DEF InPending
<1>6. InDatabase'
  BY <1>2 DEF InTurn, InDatabase
<1> QED
  BY <1>3, <1>4, <1>5, <1>6 DEF InTurn

(* The operation under way comes to its end: what it wrote is as the others' *)
(* before it, or gone.                                                     *)
LEMMA InTurnSettles ==
    ASSUME TurnsOK, ConnectionOK, made \in [Op -> 0 .. Writes], Private, InTurn, NEW k \in Op,
           FinishOp(k) \/ FailOp(k)
    PROVE  InTurn'
<1> USE Kinds
<1>1. /\ UnderWay(k) /\ op[k] = "running" /\ call[CallOf[k]] = "open" /\ savepoint[k] = 1 /\ depth = 1
      /\ \A j \in Op : UnderWay(j) => j = k
      /\ k \notin began /\ CanEnd(k)
      /\ UNCHANGED <<call, made>>
  BY DEF FinishOp, FailOp, UnderWay, InTurn, OneAtATime, Private, CanEnd, Held
<1>2. DropsSavepoint(k) /\ committed' = committed
  BY <1>1 DEF FinishOp, FailOp, Keeps, Undoes
<1>3. PICK x \in {"resolved", "rejected"} : op' = [op EXCEPT ![k] = x]
  BY DEF FinishOp, FailOp
<1>4. \A j \in Op : op'[j] = IF j = k THEN x ELSE op[j]
  BY <1>3 DEF TurnsOK
<1>5. OneAtATime'
  <2>1. \A u \in Unit : savepoint'[u] = 0
    BY <1>1, <1>2 DEF DropsSavepoint, ConnectionOK
  <2>2. depth' = 0
    BY <1>1, <1>2 DEF DropsSavepoint
  <2>3. \A j \in Op : ~UnderWay(j)'
    BY <1>1, <1>4 DEF UnderWay
  <2> QED
    BY <2>1, <2>2, <2>3 DEF OneAtATime
<1>6. Fresh'
  BY <1>1, <1>4 DEF InTurn, Fresh
<1>7. \A w \in pending : w.of \in Op /\ w.nth \in 1 .. Writes /\ w.under = IF w.of = k THEN 1 ELSE 0
  BY <1>1 DEF InTurn, InPending, ConnectionOK, UnderWay
<1>8. /\ \A w \in pending' : w.under = 0 /\ w.of \in Op
      /\ \A j \in Op, n \in 1 .. Writes : Written(j, n)' <=> Written(j, n) /\ (j = k => x = "resolved")
      /\ x = "resolved" => made[k] = Writes
  <2>1. CASE FinishOp(k)
    <3>1. x = "resolved" /\ pending' = Released(k) /\ made[k] = Writes
      BY <1>1, <1>3, <2>1 DEF FinishOp, Keeps, TurnsOK
    <3> DEFINE after(w) == [w EXCEPT !.under = IF @ < savepoint[k] THEN @ ELSE savepoint[k] - 1]
    <3>2. pending' = {after(w) : w \in pending}
      BY <3>1 DEF Released
    <3>3. \A w \in pending : after(w).under = 0 /\ after(w).of = w.of /\ after(w).nth = w.nth
      BY <1>1, <1>7 DEF ConnectionOK
    <3> HIDE DEF after
    <3>4. \A w \in pending' : w.under = 0 /\ w.of \in Op
      BY <1>7, <3>2, <3>3
    <3>5. \A j \in Op, n \in 1 .. Writes : Written(j, n)' <=> Written(j, n)
      BY <3>2, <3>3 DEF Written
    <3> QED
      BY <3>1, <3>4, <3>5
  <2>2. CASE FailOp(k)
    <3>1. x = "rejected" /\ pending' = {w \in pending : w.under < 1}
      BY <1>1, <1>3, <2>2 DEF FailOp, Undoes, RolledBack, TurnsOK
    <3>2. pending' = {w \in pending : w.of # k}
      BY <1>7, <3>1
    <3> QED
      BY <1>7, <3>1, <3>2 DEF Written
  <2> QED
    BY <2>1, <2>2
<1>9. InPending'
  <2>1. \A w \in pending' : w.under = IF op'[w.of] = "running" THEN 1 ELSE 0
    BY <1>1, <1>4, <1>8 DEF UnderWay
  <2>2. ASSUME NEW j \in Op, NEW n \in 1 .. Writes
        PROVE  Written(j, n)' <=> /\ call'[CallOf[j]] = "open"
                                  /\ op'[j] = "resolved" \/ (op'[j] = "running" /\ n <= made'[j])
    BY <1>1, <1>4, <1>8 DEF InTurn, InPending
  <2> QED
    BY <2>1, <2>2 DEF InPending
<1>10. InDatabase'
  BY <1>1, <1>2, <1>4 DEF InTurn, InDatabase
<1> QED
  BY <1>5, <1>6, <1>9, <1>10 DEF InTurn

LEMMA InTurnStep ==
    ASSUME TurnsOK, ConnectionOK, made \in [Op -> 0 .. Writes], Private, InTurn, overlapped = {},
           [Next]_vars, strays' = {}, overlapped' = {}
    PROVE  InTurn'
<1>1. ASSUME NEW c \in Call, Request(c) \/ BeginFails(c) \/ Leave(c) PROVE InTurn'
  BY <1>1, InTurnAway DEF Request, BeginFails, Leave
<1>2. ASSUME NEW k \in Op, LoneStatement(k) PROVE FALSE
  BY <1>2 DEF LoneStatement, InTurn, OneAtATime, UnderWay
<1>3. CASE UNCHANGED vars
  BY <1>3 DEF vars, db, InTurn, OneAtATime, Fresh, InPending, InDatabase, UnderWay, Written
<1> QED
  BY <1>1, <1>2, <1>3, InTurnBegins, InTurnEnds, InTurnStarts, InTurnRuns, InTurnSettles
     DEF Next, Turn, Advance

-----------------------------------------------------------------------------
LEMMA InitIsSound == Init => IInv
<1> SUFFICES ASSUME Init PROVE IInv
  OBVIOUS
<1> USE Kinds DEF Init
<1>1. TurnsOK
  BY DEF TurnsOK, QueueOK, Distinct, Queued, HasTheTurn
<1>2. ConnectionOK /\ made \in [Op -> 0 .. Writes] /\ overlapped \subseteq Call /\ strays \subseteq Op
  <2>1. savepoint \in [Unit -> 0 .. depth] /\ depth \in Nat
    OBVIOUS
  <2>2. made \in [Op -> 0 .. Writes]
    BY WritesAssumption
  <2>3. pending = {} /\ committed = {} /\ began = {} /\ inTransaction \in BOOLEAN
    OBVIOUS
  <2>4. overlapped = {} /\ strays = {}
    OBVIOUS
  <2>5. ConnectionOK
    <3> USE DEF ConnectionOK
    <3> HIDE DEF Init
    <3> QED
      BY <2>1, <2>3 DEF Init
  <2> QED
    BY <2>2, <2>4, <2>5
<1>3. Private
  BY DEF Private, Holds
<1>4. InTurn
  BY DEF InTurn, OneAtATime, Fresh, InPending, InDatabase, UnderWay, Written
<1> QED
  BY <1>1, <1>2, <1>3, <1>4, Parts DEF IInv, WaitsForMore

LEMMA Inductive == IInv /\ [Next]_vars => IInv'
<1> SUFFICES ASSUME IInv, [Next]_vars PROVE IInv'
  OBVIOUS
<1>1. /\ TurnsOK /\ ConnectionOK /\ made \in [Op -> 0 .. Writes]
      /\ overlapped \subseteq Call /\ strays \subseteq Op /\ WaitsForMore
  BY Parts DEF IInv
<1>2. TurnsOK'
  BY <1>1, TurnsStep
<1>3. /\ ConnectionOK' /\ made' \in [Op -> 0 .. Writes]
      /\ overlapped' \subseteq Call /\ strays' \subseteq Op /\ WaitsForMore'
  BY <1>1, ConnectionStep, WaitsStep
<1>4. TypeOK' /\ QueueOK'
  BY <1>2, <1>3 DEF TypeOK, TurnsOK, ConnectionOK, Distinct
<1>5. strays \subseteq strays' /\ overlapped \subseteq overlapped'
  BY DEF Next, Turn, Advance, Request, Begin, BeginFails, Commit, Rollback, Leave, StartOp, Execute,
         LoneStatement, FinishOp, FailOp, history, vars
<1>6. strays' = {} => Private'
  BY <1>1, <1>3, <1>5, PrivateStep DEF IInv
<1>7. strays' = {} /\ overlapped' = {} => InTurn'
  BY <1>1, <1>5, InTurnStep DEF IInv
<1> QED
  BY <1>3, <1>4, <1>6, <1>7 DEF IInv

LEMMA AlwaysSound == Spec => []IInv
<1>1. Init => IInv
  BY InitIsSound
<1>2. IInv /\ [Next]_vars => IInv'
  BY Inductive
<1> QED
  BY <1>1, <1>2, PTL DEF Spec

(* In every reachable state the queue holds each waiting caller once, and    *)
(* the savepoints and pending writes are those of an open transaction.     *)
THEOREM TheQueueIsKept == Spec => []TypeOK
<1>1. IInv => TypeOK
  BY DEF IInv
<1> QED
  BY <1>1, AlwaysSound, PTL

(* Callers never share a transaction, however their operations overlap, fail *)
(* or outlive a rejected call: exclusive serializes them, and what the open *)
(* transaction holds was done for the call that has the turn.              *)
THEOREM CallersAreKeptApart == Spec => []NoSharedTransaction
<1>1. IInv => NoSharedTransaction
  <2> SUFFICES ASSUME IInv, strays = {}, NEW u \in Unit, NEW v \in Unit, Holds(u), Holds(v)
               PROVE  CallOfUnit(u) = CallOfUnit(v)
    BY DEF NoSharedTransaction
  <2>1. TurnsOK /\ call[CallOfUnit(u)] = "open" /\ call[CallOfUnit(v)] = "open"
    BY Parts DEF IInv, Private
  <2> QED
    BY <2>1, Kinds, OneOpen DEF HasTheTurn
<1> QED
  BY <1>1, AlwaysSound, PTL

(* As long as callbacks await one operation after the other, atomic keeps    *)
(* its word: an operation is in the database as a whole or not at all, and *)
(* so is the call it belongs to, whatever fails in between.                *)
THEOREM AtomicIsAllOrNothing == Spec => []AllOrNothing
<1>1. IInv => AllOrNothing
  BY Kinds DEF IInv, InTurn, InDatabase, AllOrNothing, Awaited, Settled, KeptWholeOrNotAtAll
<1> QED
  BY <1>1, AlwaysSound, PTL

-----------------------------------------------------------------------------
(* The refinement.                                                          *)
States == {"new", "waiting", "open", "resolving", "rejecting", "resolved", "rejected"}

(* What the database holds is what the calls that ended well resolved.      *)
Told ==
    /\ committed \subseteq Op \X (1 .. Writes)
    /\ \A k \in Op, n \in 1 .. Writes :
          <<k, n>> \in committed <=> call[CallOf[k]] \in {"resolving", "resolved"} /\ op[k] = "resolved"

LEMMA WhatIsTold == IInv /\ Awaited => Told
BY DEF IInv, TypeOK, Awaited, InTurn, InDatabase, Told

(* What a change of one call is to a caller.                                *)
LEMMA OutcomeMoves ==
    ASSUME call \in [Call -> States], NEW c \in Call, NEW x \in States, call' = [call EXCEPT ![c] = x]
    PROVE  /\ \A d \in Call : d # c => Outcome(d)' = Outcome(d)
           /\ x \in {"new", "waiting"} => Outcome(c)' = "new"
           /\ x = "open" => Outcome(c)' = "open"
           /\ x \in {"resolving", "resolved"} => Outcome(c)' = "kept"
           /\ x \in {"rejecting", "rejected"} => Outcome(c)' = "undone"
<1>1. call'[c] = x /\ \A d \in Call : d # c => call'[d] = call[d]
  OBVIOUS
<1> QED
  BY <1>1 DEF Outcome, States

(* A call that stays what it is to its caller.                              *)
LEMMA OutcomeStays ==
    ASSUME \A c \in Call : Outcome(c)' = Outcome(c), UNCHANGED committed,
           \A k \in Op : op'[k] = "resolved" <=> op[k] = "resolved"
    PROVE  UNCHANGED T!vars
<1>1. [c \in Call |-> Outcome(c)]' = [c \in Call |-> Outcome(c)]
  OBVIOUS
<1>2. {k \in Op : op[k] = "resolved"}' = {k \in Op : op[k] = "resolved"}
  OBVIOUS
<1> QED
  BY <1>1, <1>2 DEF T!vars

LEMMA SameCalls == UNCHANGED call => \A c \in Call : Outcome(c)' = Outcome(c)
BY DEF Outcome

(* A call that begins, is kept or goes without.                             *)
LEMMA CallIsATransaction ==
    ASSUME IInv, Awaited, Told, Told', NEW c \in Call, Request(c) \/ Turn(c)
    PROVE  [T!Next]_T!vars
<1> DEFINE outcome == [d \in Call |-> Outcome(d)]
           done == {k \in Op : op[k] = "resolved"}
<1>1. TurnsOK /\ ConnectionOK /\ Private /\ InTurn /\ call \in [Call -> States]
  BY Parts DEF IInv, Awaited, TurnsOK, States
<1>2. UNCHANGED op /\ done' = done
  BY DEF Request, Turn, Begin, BeginFails, Commit, Rollback, Leave
<1>3. outcome[c] = Outcome(c)
  OBVIOUS
<1>4. CASE Request(c)
  <2>1. call[c] = "new" /\ call' = [call EXCEPT ![c] = "waiting"] /\ UNCHANGED committed
    BY <1>4 DEF Request, db
  <2>2. \A d \in Call : Outcome(d)' = Outcome(d)
    BY <1>1, <2>1, OutcomeMoves DEF States, Outcome
  <2> QED
    BY <1>2, <2>1, <2>2, OutcomeStays
<1>5. CASE Leave(c)
  <2>1. /\ call[c] \in {"resolving", "rejecting"} /\ UNCHANGED committed
        /\ call' = [call EXCEPT ![c] = IF call[c] = "resolving" THEN "resolved" ELSE "rejected"]
    BY <1>1, <1>5 DEF Leave, db
  <2>2. \A d \in Call : Outcome(d)' = Outcome(d)
    BY <1>1, <2>1, OutcomeMoves DEF States, Outcome
  <2> QED
    BY <1>2, <2>1, <2>2, OutcomeStays
<1>6. CASE Begin(c)
  <2>1. call[c] = "waiting" /\ call' = [call EXCEPT ![c] = "open"] /\ UNCHANGED committed /\ HasTurn(c)
    BY <1>6 DEF Begin, Opens
  <2>2. \A d \in Call : call[d] # "open"
    BY <1>1, <2>1, OneTurn DEF HasTheTurn
  <2>3. Outcome(c) = "new" /\ \A d \in Call : Outcome(d) # "open"
    BY <1>1, <2>1, <2>2 DEF Outcome, States
  <2>4. outcome' = [outcome EXCEPT ![c] = "open"]
    BY <1>1, <2>1, OutcomeMoves DEF States
  <2>5. T!Begins(c)
    BY <1>2, <2>1, <2>3, <2>4 DEF T!Begins
  <2> QED
    BY <2>5 DEF T!Next
<1>7. CASE BeginFails(c) \/ Rollback(c)
  <2>1. call[c] \in {"waiting", "open"} /\ UNCHANGED committed
    BY <1>7 DEF BeginFails, Rollback, Undoes, db
  <2>2. PICK x \in {"rejecting", "rejected"} : call' = [call EXCEPT ![c] = x]
    BY <1>7 DEF BeginFails, Rollback
  <2>3. Outcome(c) \in {"new", "open"}
    BY <2>1 DEF Outcome
  <2>4. outcome' = [outcome EXCEPT ![c] = "undone"]
    BY <1>1, <2>2, OutcomeMoves DEF States
  <2>5. T!GoesWithout(c)
    BY <1>2, <2>1, <2>3, <2>4 DEF T!GoesWithout
  <2> QED
    BY <2>5 DEF T!Next
<1>8. CASE Commit(c)
  <2>1. call[c] = "open" /\ CanEnd(c)
    BY <1>1, <1>8 DEF Commit, Private, CanEnd
  <2>2. call' = [call EXCEPT ![c] = "resolving"]
    BY <1>8, <2>1 DEF Commit
  <2>3. outcome' = [outcome EXCEPT ![c] = "kept"] /\ Outcome(c) = "open"
    <3>1. Outcome(c) = "open"
      BY <2>1 DEF Outcome
    <3>2. outcome' = [outcome EXCEPT ![c] = "kept"]
      BY <1>1, <2>2, OutcomeMoves DEF States
    <3> QED
      BY <3>1, <3>2
  <2>4. ASSUME NEW k \in Op, NEW n \in 1 .. Writes
        PROVE  <<k, n>> \in committed' <=> <<k, n>> \in committed \/ (k \in done /\ CallOf[k] = c)
    <3>1. CallOf[k] \in Call /\ call'[CallOf[k]] = IF CallOf[k] = c THEN "resolving" ELSE call[CallOf[k]]
      BY <1>1, <2>2, Kinds
    <3>2. op' = op
      BY <1>2
    <3> QED
      BY <2>1, <3>1, <3>2 DEF Told
  <2>5. committed' = committed \cup ({k \in done : CallOf[k] = c} \X (1 .. Writes))
    BY <2>4 DEF Told
  <2>6. T!Commits(c)
    BY <1>2, <2>3, <2>5 DEF T!Commits
  <2> QED
    BY <2>6 DEF T!Next
<1> QED
  BY <1>4, <1>5, <1>6, <1>7, <1>8 DEF Turn

(* An operation is nothing to the database until its call commits.          *)
LEMMA OpIsAnOperation ==
    ASSUME IInv, Awaited, NEW k \in Op, StartOp(k) \/ Advance(k)
    PROVE  [T!Next]_T!vars
<1> USE Kinds
<1>1. TurnsOK /\ ConnectionOK /\ Private /\ InTurn
  BY Parts DEF IInv, Awaited
<1>2. op \in [Op -> {"new", "running", "waiting", "resolved", "rejected"}]
  BY <1>1 DEF TurnsOK
<1>3. UNCHANGED call
  BY DEF StartOp, Advance, Execute, LoneStatement, FinishOp, FailOp
<1>4. UnderWay(k) => /\ op[k] = "running" /\ call[CallOf[k]] = "open" /\ inTransaction
                     /\ k \notin began
  BY <1>1 DEF InTurn, OneAtATime, Private
<1>5. ~LoneStatement(k)
  BY <1>4 DEF LoneStatement, UnderWay
<1>6. UNCHANGED committed
  BY <1>4, <1>5 DEF StartOp, Opens, Advance, Execute, Joins, Runs, FinishOp, FailOp, Keeps, Undoes, UnderWay, db
<1>7. CASE op' = [op EXCEPT ![k] = "resolved"] /\ FinishOp(k)
  <2>1. op[k] = "running" /\ call[CallOf[k]] = "open"
    BY <1>4, <1>7 DEF FinishOp, UnderWay
  <2>2. {j \in Op : op[j] = "resolved"}' = {j \in Op : op[j] = "resolved"} \cup {k}
    BY <1>2, <1>7
  <2>3. Outcome(CallOf[k]) = "open" /\ [c \in Call |-> Outcome(c)]' = [c \in Call |-> Outcome(c)]
    BY <1>3, <2>1, SameCalls DEF Outcome
  <2>4. [c \in Call |-> Outcome(c)][CallOf[k]] = "open"
    BY <2>3
  <2>5. T!Resolves(k)
    BY <1>6, <2>1, <2>2, <2>3, <2>4 DEF T!Resolves
  <2> QED
    BY <2>5 DEF T!Next
<1>8. CASE ~(op' = [op EXCEPT ![k] = "resolved"] /\ FinishOp(k))
  <2>1. \/ UNCHANGED op
        \/ op[k] \in {"new", "running"} /\ \E x \in {"running", "waiting", "rejected"} : op' = [op EXCEPT ![k] = x]
    BY <1>5, <1>8 DEF StartOp, Advance, Execute, FinishOp, FailOp
  <2>2. \A j \in Op : op'[j] = "resolved" <=> op[j] = "resolved"
    BY <1>2, <2>1
  <2> QED
    BY <1>3, <1>6, <2>2, SameCalls, OutcomeStays
<1> QED
  BY <1>7, <1>8

(* What the steps of AtomicTransactions need of a state.                    *)
Serves == IInv /\ (Awaited => Told)

LEMMA ExecutorStep == Serves /\ Serves' /\ [Next]_vars => [Awaited' => [T!Next]_T!vars]_vars
<1> SUFFICES ASSUME Serves, Serves', [Next]_vars, Awaited' PROVE [T!Next]_T!vars
  OBVIOUS
<1>1. strays \subseteq strays' /\ overlapped \subseteq overlapped'
  BY DEF Next, Turn, Advance, Request, Begin, BeginFails, Commit, Rollback, Leave, StartOp, Execute,
         LoneStatement, FinishOp, FailOp, history, vars
<1>2. Awaited /\ IInv /\ Told /\ Told'
  BY <1>1 DEF Awaited, Serves
<1>3. CASE UNCHANGED vars
  <2>1. UNCHANGED <<call, op, committed>>
    BY <1>3 DEF vars, db
  <2> QED
    BY <2>1, SameCalls, OutcomeStays
<1> QED
  BY <1>2, <1>3, CallIsATransaction, OpIsAnOperation DEF Next

(* As long as callbacks await what they start, the connection serves one     *)
(* transaction after the other: what its queue, its savepoints and its       *)
(* statements do together is, step by step, what a caller is promised.      *)
THEOREM ExecutorImplementsTransactions == Spec => CallsAreTransactions
<1>1. Init => T!Init
  <2> SUFFICES ASSUME Init PROVE T!Init
    OBVIOUS
  <2>1. \A c \in Call : Outcome(c) = "new"
    BY DEF Init, Outcome
  <2>2. {k \in Op : op[k] = "resolved"} = {} /\ committed = {}
    BY DEF Init
  <2> QED
    BY <2>1, <2>2 DEF T!Init
<1>2. IInv => Serves
  BY WhatIsTold DEF Serves
<1>3. Serves /\ Serves' /\ [Next]_vars => [Awaited' => [T!Next]_T!vars]_vars
  BY ExecutorStep
<1> QED
  BY <1>1, <1>2, <1>3, AlwaysSound, PTL DEF Spec, CallsAreTransactions
=============================================================================
