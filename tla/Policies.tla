------------------------------ MODULE Policies ------------------------------
(***************************************************************************)
(* The contextual policies of one organization: the service that writes    *)
(* them, the repository that keeps them, and the engine of one process     *)
(* that decides from a cached copy of the active ones.                     *)
(*                                                                         *)
(* A write of the repository is one transaction under the lock of the      *)
(* organization, so one action.  Before it, the service checks what the    *)
(* actor may do and reads the policy, without a lock.  The engine reads    *)
(* the revision of the set and the set in separate statements, and several *)
(* questions of one process share its cache.                               *)
(*                                                                         *)
(* Left out: names, keys, notes, history beyond the current revision, the  *)
(* mandatory checks that come before the policies, and what a condition    *)
(* says of a request (module PolicyEvaluation): a definition is what it    *)
(* answers to the one question asked.  Ids of policies are never reused:   *)
(* the server makes them.                                                  *)
(***************************************************************************)
EXTENDS Naturals, FiniteSets

CONSTANTS
    Actor,        \* who administers policies
    Policy,       \* ids of policies
    Definition,   \* definitions, by what they answer
    Clerk,        \* processes that serve calls of the service
    Question,     \* questions the engine is asked at a time
    Unset,        \* no actor, no policy, no new definition
    MaxActive,    \* MAX_ACTIVE_POLICIES
    MaxPolicyCalls, \* bound: calls of the service
    MaxShifts,    \* bound: changes of what an actor may do
    MaxGone       \* bound: times the organization is deleted and created again

Verdict == {"allow", "deny", "indeterminate"}
AdminKey == {"manage", "activate"}

ASSUME PolicyAssumption ==
    /\ Definition \subseteq Verdict
    /\ Unset \notin Actor \cup Policy \cup Definition
    /\ MaxActive \in Nat /\ MaxPolicyCalls \in Nat /\ MaxShifts \in Nat /\ MaxGone \in Nat

VARIABLES
    separate,    \* the option requireSeparateActivator
    holds,       \* actor -> the administration keys its roles give
    policy,      \* id -> [status, definition, version, author, activator]
    revision,    \* policy_set_revisions of the organization, 0 when there is no row
    sequence,    \* policy_set_revision_seq: the last number handed out
    serving,     \* clerk -> the call it serves
    cached,      \* what the engine remembers: [there, revision, set]
    ask,         \* question -> how far the engine is
    spent        \* [calls, shifts, gone] (bounds)

pvars == <<separate, holds, policy, revision, sequence, serving, cached, ask, spent>>

NoPolicy == [status |-> "none", definition |-> Unset, version |-> 0, author |-> Unset, activator |-> Unset]

Live == {"draft", "active", "disabled", "retired"}

PolicyRow ==
    [status : Live \cup {"none", "gone"}, definition : Definition \cup {Unset}, version : Nat,
     author : Actor \cup {Unset}, activator : Actor \cup {Unset}]

Enforceable == [id : Policy, says : Definition]

(* The policies in force.                                                  *)
ActiveSet == {[id |-> p, says |-> policy[p].definition] : p \in {p \in Policy : policy[p].status = "active"}}

Unasked == [pc |-> "idle", revision |-> 0, set |-> {}, seen |-> {}]

PolicyTypeOK ==
    /\ separate \in BOOLEAN
    /\ holds \in [Actor -> SUBSET AdminKey]
    /\ policy \in [Policy -> PolicyRow]
    /\ \A p \in Policy : policy[p].status \in Live => policy[p].definition \in Definition /\ policy[p].author \in Actor
    /\ revision \in Nat /\ sequence \in Nat /\ revision <= sequence
    /\ serving \in [Clerk -> [pc : {"idle", "write"}, op : {"update", "activate"}, actor : Actor \cup {Unset},
                              id : Policy \cup {Unset}, definition : Definition \cup {Unset},
                              version : Nat, published : BOOLEAN]]
    /\ \A c \in Clerk : serving[c].pc # "idle" => serving[c].actor \in Actor /\ serving[c].id \in Policy
    /\ cached \in [there : BOOLEAN, revision : Nat, set : SUBSET Enforceable]
    /\ ask \in [Question -> [pc : {"idle", "check", "revision", "policies", "store", "answer"},
                             revision : Nat, set : SUBSET Enforceable, seen : SUBSET SUBSET Enforceable]]
    /\ spent \in [calls : Nat, shifts : Nat, gone : Nat]

(***************************************************************************)
(* A write: the row, the number of the set, and what the questions under   *)
(* way have seen in force since they were asked.                           *)
(***************************************************************************)
Seen == ask' = [q \in Question |->
                   IF ask[q].pc = "idle" THEN ask[q] ELSE [ask[q] EXCEPT !.seen = @ \cup {ActiveSet'}]]

(* One sequence numbers the changes of every organization, so a number is  *)
(* never given twice.                                                      *)
NextNumber == sequence' = sequence + 1 /\ revision' = sequence + 1

Becomes(p, row) ==
    /\ policy' = [policy EXCEPT ![p] = row]
    /\ NextNumber
    /\ Seen

(***************************************************************************)
(* The service.                                                            *)
(***************************************************************************)

(* `published`: the call has shown that its actor may publish.             *)
Idle == [pc |-> "idle", op |-> "update", actor |-> Unset, id |-> Unset, definition |-> Unset,
         version |-> 0, published |-> FALSE]

Counts == spent.calls < MaxPolicyCalls /\ spent' = [spent EXCEPT !.calls = @ + 1]

(* Nothing but the permission is read before the lock: one action.         *)
Directly(a, key) == Counts /\ key \in holds[a] /\ UNCHANGED <<separate, holds, serving, cached>>

Create(a, p, d) ==
    /\ Directly(a, "manage")
    /\ policy[p].status = "none"
    /\ Becomes(p, [status |-> "draft", definition |-> d, version |-> 1, author |-> a, activator |-> Unset])

Disable(a, p) ==
    /\ Directly(a, "activate")
    /\ policy[p].status = "active"
    /\ Becomes(p, [policy[p] EXCEPT !.status = "disabled", !.version = @ + 1])

Retire(a, p) ==
    /\ Directly(a, "activate")
    /\ policy[p].status \in {"active", "disabled"}
    /\ Becomes(p, [policy[p] EXCEPT !.status = "retired", !.version = @ + 1])

(* Only a draft; a policy that was active never is a draft again.          *)
Delete(a, p) ==
    /\ Directly(a, "manage")
    /\ policy[p].status = "draft"
    /\ Becomes(p, [NoPolicy EXCEPT !.status = "gone"])

Reads(c, a, op, p, d, published) ==
    /\ Counts /\ serving[c].pc = "idle"
    /\ policy[p].status \in Live
    /\ serving' = [serving EXCEPT ![c] = [pc |-> "write", op |-> op, actor |-> a, id |-> p, definition |-> d,
                                    version |-> policy[p].version, published |-> published]]
    /\ UNCHANGED <<separate, holds, policy, revision, sequence, cached, ask>>

(* A new definition for an active policy wants the right to publish, and   *)
(* is refused while duties are separate.                                   *)
ReadForUpdate(c, a, p, d) ==
    LET edits == policy[p].status = "active" /\ d # Unset
    IN  /\ "manage" \in holds[a]
        /\ edits => "activate" \in holds[a] /\ ~separate
        /\ Reads(c, a, "update", p, d, edits)

(* Whoever wrote the current revision does not activate it.                *)
ReadForActivate(c, a, p) ==
    /\ "activate" \in holds[a]
    /\ separate /\ policy[p].status # "active" => policy[p].author # a
    /\ Reads(c, a, "activate", p, Unset, TRUE)

(* Any refusal, and a process that dies: nothing was written.              *)
GivesUp(c) ==
    /\ serving[c].pc = "write"
    /\ serving' = [serving EXCEPT ![c] = Idle]
    /\ UNCHANGED <<separate, holds, policy, revision, sequence, cached, ask, spent>>

Commits(c, op) ==
    /\ serving[c].pc = "write" /\ serving[c].op = op
    /\ serving' = [serving EXCEPT ![c] = Idle]
    /\ UNCHANGED <<separate, holds, cached, spent>>

Pinned_never(c) == TRUE     \* mutant

(* The write is for the version the service has read.                      *)
Pinned(c) == policy[serving[c].id].version = serving[c].version

(* A new name raises the version only; a new definition is a new revision  *)
(* with a new author; the definition there is already changes nothing.     *)
Update(c) ==
    LET p == policy[serving[c].id]
        d == serving[c].definition
    IN  /\ Commits(c, "update")
        /\ p.status \in Live \ {"retired"} /\ Pinned(c)
        /\ d # p.definition
        /\ Becomes(serving[c].id,
                   IF d = Unset THEN [p EXCEPT !.version = @ + 1]
                   ELSE [p EXCEPT !.version = @ + 1, !.definition = d, !.author = serving[c].actor])

(* An active policy stays as it is.                                        *)
Activate(c) ==
    LET p == policy[serving[c].id]
    IN  /\ Commits(c, "activate")
        /\ p.status \in {"draft", "disabled"} /\ Pinned(c)
        /\ Cardinality(ActiveSet) < MaxActive
        /\ Becomes(serving[c].id, [p EXCEPT !.status = "active", !.version = @ + 1, !.activator = serving[c].actor])

(***************************************************************************)
(* The engine.                                                             *)
(***************************************************************************)
Engine == UNCHANGED <<separate, holds, policy, revision, sequence, serving, spent>>

Asked(q) ==
    /\ ask[q].pc = "idle"
    /\ ask' = [ask EXCEPT ![q] = [Unasked EXCEPT !.pc = "check", !.seen = {ActiveSet}]]
    /\ UNCHANGED cached /\ Engine

(* The number in the storage against the number of the remembered set.     *)
CheckCache(q) ==
    /\ ask[q].pc = "check"
    /\ ask' = [ask EXCEPT ![q] = IF cached.there /\ cached.revision = revision
                                 THEN [@ EXCEPT !.pc = "answer", !.revision = revision, !.set = cached.set]
                                 ELSE [@ EXCEPT !.pc = "revision"]]
    /\ UNCHANGED cached /\ Engine

ReadRevision(q) ==
    /\ ask[q].pc = "revision"
    /\ ask' = [ask EXCEPT ![q].pc = "policies", ![q].revision = revision]
    /\ UNCHANGED cached /\ Engine

(* Mutant: the policies first, their number afterwards.                    *)
ReadPolicies_numberLast(q) ==
    /\ ask[q].pc = "policies"
    /\ \E earlier \in ask[q].seen : ask' = [ask EXCEPT ![q].pc = "store", ![q].set = earlier]
    /\ UNCHANGED cached /\ Engine

ReadPolicies(q) ==
    /\ ask[q].pc = "policies"
    /\ ask' = [ask EXCEPT ![q].pc = "store", ![q].set = ActiveSet]
    /\ UNCHANGED cached /\ Engine

Store(q) ==
    /\ ask[q].pc = "store"
    /\ cached' = [there |-> TRUE, revision |-> ask[q].revision, set |-> ask[q].set]
    /\ ask' = [ask EXCEPT ![q].pc = "answer"]
    /\ Engine

(* The cache keeps a bounded number of organizations.                      *)
Forget ==
    /\ cached.there /\ cached' = [there |-> FALSE, revision |-> 0, set |-> {}]
    /\ UNCHANGED ask /\ Engine

Answer(q) ==
    /\ ask[q].pc = "answer"
    /\ ask' = [ask EXCEPT ![q] = Unasked]
    /\ UNCHANGED cached /\ Engine

(***************************************************************************)
(* Around them: roles change, and the organization is deleted and created  *)
(* again under the same id; its policies and its number go with it.        *)
(***************************************************************************)
Shift(a, keys) ==
    /\ spent.shifts < MaxShifts /\ spent' = [spent EXCEPT !.shifts = @ + 1]
    /\ keys # holds[a] /\ holds' = [holds EXCEPT ![a] = keys]
    /\ UNCHANGED <<separate, policy, revision, sequence, serving, cached, ask>>

Recreated ==
    /\ spent.gone < MaxGone /\ spent' = [spent EXCEPT !.gone = @ + 1]
    /\ policy' = [p \in Policy |-> IF policy[p].status = "none" THEN NoPolicy ELSE [NoPolicy EXCEPT !.status = "gone"]]
    /\ revision' = 0
    /\ Seen
    /\ UNCHANGED <<separate, holds, sequence, serving, cached>>

PolicyInit ==
    /\ separate \in BOOLEAN
    /\ holds = [a \in Actor |-> AdminKey]
    /\ policy = [p \in Policy |-> NoPolicy]
    /\ revision = 0 /\ sequence = 0
    /\ serving = [c \in Clerk |-> Idle]
    /\ cached = [there |-> FALSE, revision |-> 0, set |-> {}]
    /\ ask = [q \in Question |-> Unasked]
    /\ spent = [calls |-> 0, shifts |-> 0, gone |-> 0]

Serves(a, p) ==
    \/ \E d \in Definition : Create(a, p, d)
    \/ Disable(a, p) \/ Retire(a, p) \/ Delete(a, p)
    \/ \E c \in Clerk : ReadForActivate(c, a, p) \/ \E d \in Definition \cup {Unset} : ReadForUpdate(c, a, p, d)

Evaluates(q) == Asked(q) \/ CheckCache(q) \/ ReadRevision(q) \/ ReadPolicies(q) \/ Store(q) \/ Answer(q)

PolicyNext ==
    \/ \E a \in Actor, p \in Policy : Serves(a, p)
    \/ \E c \in Clerk : Update(c) \/ Activate(c) \/ GivesUp(c)
    \/ \E q \in Question : Evaluates(q)
    \/ \E a \in Actor, keys \in SUBSET AdminKey : Shift(a, keys)
    \/ Recreated \/ Forget

PolicySpec == PolicyInit /\ [][PolicyNext]_pvars

(***************************************************************************)
(* Properties.                                                             *)
(***************************************************************************)

(* "With separation of duties on", nobody has put their own revision live: *)
(* neither by activating it nor by writing it into an active policy,       *)
(* whatever changed between the check of the service and its write.        *)
DutiesAreSeparate ==
    separate => \A p \in Policy : policy[p].status = "active" => policy[p].activator # policy[p].author

(* What is enforced changes only by a call that showed the right to        *)
(* publish: a policy read as a draft is not edited once it is active.      *)
EnforcementIsPublished ==
    [][\A c \in Clerk : ActiveSet' # ActiveSet /\ serving'[c] # serving[c] => serving[c].published]_pvars

(* "What is cached is never older than its revision": an answer, from the  *)
(* cache or not, is from a set that was in force while it was asked for.   *)
(* Number 0 is left out: every organization without a row has it, also one *)
(* that was deleted and created again.                                     *)
AnswersAreInForce ==
    \A q \in Question : ask[q].pc = "answer" /\ ask[q].revision # 0 => ask[q].set \in ask[q].seen
=============================================================================
