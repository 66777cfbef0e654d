---------------------------- MODULE MCGovernance ----------------------------
(* AccessService and Policies for one run of TLC.  They share no state: the *)
(* first state says which of them runs, the other one stays as it begins,  *)
(* and the graph is the union of theirs.                                   *)
(*                                                                         *)
(* Access: an Owner, two administrators and two roles; `write` implies     *)
(* `read` and nobody has it yet; `admin` opens every gate.  Policies: two  *)
(* clerks, and two questions that share the cache of a process.            *)
EXTENDS AccessService, Policies, TLC

CONSTANTS ana, bea, carl, editors, readers

VARIABLE part

People == {ana, bea, carl}
TwoRoles == {editors, readers}
Keys == {"admin", "write", "read"}
Implications == [k \in Keys |-> IF k = "write" THEN {"write", "read"} ELSE {k}]
Templates == (editors :> {"admin", "read"}) @@ (readers :> {"admin"})
Imports == [p \in People |-> CASE p = ana -> {} [] p = bea -> {editors} [] p = carl -> {readers}]

(* Who asks, who serves and which policy it is make no difference.         *)
Alike == Permutations(Actor) \cup Permutations(Policy) \cup Permutations(Clerk) \cup Permutations(Question)

(* Bound: of all calls and questions about policies, two are under way.    *)
TwoAtATime ==
    Cardinality({c \in Clerk : serving[c].pc # "idle"})
    + Cardinality({q \in Question : ask[q].pc # "idle"}) <= 2

(* Bound: the organization is recreated, or someone's powers change; and   *)
(* the engine, which asks neither who may do what nor whether duties are   *)
(* separate, answers in one of the cases only.                             *)
OneFromOutside ==
    /\ spent.shifts + spent.gone <= 1
    /\ (\E q \in Question : ask[q].pc # "idle") => spent.shifts = 0 /\ ~separate

UnionInit ==
    /\ part \in {"access", "policies"}
    /\ Init /\ PolicyInit /\ (part = "access" => ~separate)

UnionNext ==
    \/ part = "access" /\ Next /\ UNCHANGED <<part, pvars>>
    \/ part = "policies" /\ PolicyNext /\ UNCHANGED <<part, vars>>

UnionSpec == UnionInit /\ [][UnionNext]_<<part, vars, pvars>>
=============================================================================
