-------------------------- MODULE PolicyEvaluation --------------------------
(***************************************************************************)
(* One authorization question: which policies take part, the facts they    *)
(* read, looked up one by one and not always with an answer, their         *)
(* conditions in three-valued logic under a budget of steps, and the       *)
(* answer the verdicts combine to.                                         *)
(*                                                                         *)
(* A leaf of a condition is a fact: true, false or unknown.  What makes a  *)
(* comparison one of the three (types, missing attributes, the clock) is   *)
(* left out, and so are reasons, the step-up hint and malformed questions. *)
(***************************************************************************)
EXTENDS Naturals, Sequences

CONSTANTS
    Fact,          \* what leaves of conditions read
    Condition,     \* conditions that pass the parser, and their parts
    Depth,         \* condition -> its levels
    MaxDepth,
    Policy,        \* policies an organization may have in force
    MaxPolicies,   \* policies in force at once
    Action,
    ProtectedAction,   \* the administration of policies
    Type,          \* types of resources
    NoType,        \* a policy about any resource; a question that names none
    Lookups,       \* look-ups a decision may make
    StepBudget          \* nodes of conditions a decision may visit

ASSUME EvaluationAssumption ==
    /\ NoType \notin Type /\ ProtectedAction \subseteq Action
    /\ Lookups \in Nat /\ StepBudget \in Nat /\ MaxDepth \in Nat /\ MaxPolicies \in Nat

(* A condition is [op, fact], or [op, of] with `of` the sequence of its    *)
(* parts: never none, one for `not`, and each with fewer levels.           *)
ASSUME ConditionAssumption ==
    /\ Depth \in [Condition -> 0 .. MaxDepth]
    /\ \A c \in Condition :
          \/ c.op = "fact" /\ c.fact \in Fact
          \/ /\ c.op \in {"not", "all", "any"} /\ c.of \in Seq(Condition) /\ Len(c.of) > 0
             /\ c.op = "not" => Len(c.of) = 1
             /\ \A i \in 1 .. Len(c.of) : Depth[c.of[i]] < Depth[c]

(* A stored policy is "valid", or "broken" with a scope that can be read,  *)
(* or "unreadable".                                                        *)
ASSUME PolicyAssumption ==
    Policy \subseteq [action : Action, type : Type \cup {NoType}, effect : {"deny", "require"},
                     condition : Condition, state : {"valid", "broken", "unreadable"}]

VARIABLES
    question,      \* [policies, action, type, require, base]
    truth,         \* fact -> what it is
    known,         \* fact -> what the look-up gave
    toLook,        \* facts to look up
    lookups,       \* look-ups left
    answer

qvars == <<question, truth, known, toLook, lookups, answer>>

Tri == {"true", "false", "unknown"}
Verdict == {"allow", "deny", "indeterminate"}

(***************************************************************************)
(* Conditions and policies.                                                *)
(***************************************************************************)
FactsOf[c \in Condition] ==
    IF c.op = "fact" THEN {c.fact} ELSE UNION {FactsOf[c.of[i]] : i \in DOMAIN c.of}

Applicability(p, action, type) ==
    CASE p.action # action                    -> "no"
      [] p.action = action /\ p.type = NoType -> "yes"
      [] OTHER -> CASE type = NoType -> "unknown" [] type = p.type -> "yes" [] OTHER -> "no"

(* Not unknown is unknown.                                                 *)
Negation(v) == CASE v = "unknown" -> "unknown" [] v = "true" -> "false" [] v = "false" -> "true"

(* `all` is settled by a false part, `any` by a true one; the parts after  *)
(* it are not visited.                                                     *)
Settles(op) == IF op = "all" THEN "false" ELSE "true"

(* What `all` or `any` knows after the parts so far and one more.          *)
AfterPart(op, so, part) ==
    LET e == part[so.used]
    IN  IF so.value = Settles(op) THEN so
        ELSE [e EXCEPT !.value = IF @ = Settles(op) \/ so.value # "unknown" THEN @ ELSE "unknown"]

(* The n parts in their order; `used`: nodes visited before.               *)
Combined(op, n, parts, used) ==
    LET so[i \in 0 .. n] == IF i = 0 THEN [value |-> Negation(Settles(op)), used |-> used]
                           ELSE AfterPart(op, so[i - 1], parts[i])
    IN  so[n]

(* One node, given the values of its parts: past the limit, unknown.       *)
Node(c, used, facts, limit, value) ==
    CASE used + 1 > limit -> [value |-> "unknown", used |-> used + 1]
      [] used + 1 <= limit /\ c.op = "fact" -> [value |-> facts[c.fact], used |-> used + 1]
      [] used + 1 <= limit /\ c.op = "not" -> [value[c.of[1]][used + 1] EXCEPT !.value = Negation(@)]
      [] OTHER -> Combined(c.op, Len(c.of), [i \in 1 .. Len(c.of) |-> value[c.of[i]]], used + 1)

(* The value of a condition and the nodes visited, by those before it.     *)
Evaluate(facts, limit) ==
    LET value[c \in Condition] == [used \in Nat |-> Node(c, used, facts, limit, value)]
    IN  value

VerdictOf(effect, value) ==
    CASE value = "unknown" -> "indeterminate"
      [] value = "true"    -> IF effect = "deny" THEN "deny" ELSE "allow"
      [] value = "false"   -> IF effect = "deny" THEN "allow" ELSE "deny"

(* Mutant: a policy there are no steps left for is passed over.            *)
OutOfSteps_passedOver(so) == so

(* A policy there are no steps left for objects.                           *)
OutOfSteps(so) == [so EXCEPT !.verdicts = @ \cup {"indeterminate"}]

(* One policy after the other, on what the ones before left of the budget. *)
EvaluatePolicy(so, p, q, facts) ==
    LET applies == Applicability(p, q.action, q.type)
        e == Evaluate(facts, so.steps)[p.condition][0]
    IN  CASE applies = "no" -> so
          [] applies # "no" /\ so.steps = 0 -> OutOfSteps(so)
          [] applies = "unknown" /\ so.steps # 0 -> [so EXCEPT !.verdicts = @ \cup {"indeterminate"}]
          [] applies = "yes" /\ so.steps # 0 ->
             [steps |-> IF so.steps > e.used THEN so.steps - e.used ELSE 0,
              verdicts |-> so.verdicts \cup {VerdictOf(p.effect, e.value)}]

(* Not even the actions of a stored policy can be read any more.           *)
Unreadable(p) == p.state = "unreadable"

(* A stored policy that is no longer valid objects to what it may cover.   *)
BrokenInScope(p, q) == Unreadable(p) \/ Applicability(p, q.action, q.type) # "no"

(* A denial settles it, then a doubt.                                      *)
CombineVerdicts(verdicts) ==
    CASE "deny" \in verdicts -> "deny"
      [] "indeterminate" \in verdicts /\ "deny" \notin verdicts -> "indeterminate"
      [] OTHER -> "allow"

Stored(q) == {q.policies[i] : i \in DOMAIN q.policies}

(* Those of the policies that are valid, in their order.                   *)
Evaluated(q, facts) ==
    LET so[i \in 0 .. Len(q.policies)] ==
            IF i = 0 THEN [steps |-> StepBudget, verdicts |-> {}]
            ELSE IF q.policies[i].state = "valid" THEN EvaluatePolicy(so[i - 1], q.policies[i], q, facts)
            ELSE so[i - 1]
    IN  so[Len(q.policies)].verdicts

Verdicts(q, facts) ==
    Evaluated(q, facts)
    \cup {"indeterminate" : p \in {x \in Stored(q) : x.state # "valid" /\ BrokenInScope(x, q)}}

Decide(q, facts) ==
    CASE ~q.base -> "deny"
      [] q.base /\ q.action \in ProtectedAction -> IF q.require THEN "deny" ELSE "allow"
      [] OTHER -> IF Verdicts(q, facts) = {} /\ q.require THEN "deny" ELSE CombineVerdicts(Verdicts(q, facts))

(***************************************************************************)
(* The question, step by step.                                             *)
(***************************************************************************)

(* The facts read by the policies that certainly take part.                *)
requiredFacts(q) ==
    UNION {FactsOf[p.condition] : p \in {x \in Stored(q) :
               x.state = "valid" /\ Applicability(x, q.action, q.type) = "yes"}}

(* A look-up fails, or there are no more look-ups: the fact stays unknown. *)
Lookup(f) ==
    /\ f \in toLook /\ toLook' = toLook \ {f}
    /\ lookups' = IF lookups = 0 THEN 0 ELSE lookups - 1
    /\ \E v \in IF lookups = 0 THEN {"unknown"} ELSE {"unknown", IF truth[f] THEN "true" ELSE "false"} :
          known' = [known EXCEPT ![f] = v]
    /\ UNCHANGED <<question, truth, answer>>

Answer ==
    /\ toLook = {} /\ answer = "none"
    /\ answer' = Decide(question, known)
    /\ UNCHANGED <<question, truth, known, toLook, lookups>>

EvalInit ==
    /\ question \in [policies : UNION {[1 .. n -> Policy] : n \in 0 .. MaxPolicies}, action : Action,
                     type : Type \cup {NoType}, require : BOOLEAN, base : BOOLEAN]
    /\ truth \in [Fact -> BOOLEAN]
    /\ known = [f \in Fact |-> "unknown"] /\ toLook = requiredFacts(question)
    /\ lookups = Lookups /\ answer = "none"

EvalNext == Answer \/ \E f \in Fact : Lookup(f)

EvalSpec == EvalInit /\ [][EvalNext]_qvars

(***************************************************************************)
(* What the policies mean, when everything is known.                       *)
(***************************************************************************)
Meaning(c, t, holds) ==
    CASE c.op = "fact" -> t[c.fact]
      [] c.op = "not"  -> ~holds[c.of[1]]
      [] c.op = "all"  -> \A i \in DOMAIN c.of : holds[c.of[i]]
      [] c.op = "any"  -> \E i \in DOMAIN c.of : holds[c.of[i]]

Holds(t) == LET holds[c \in Condition] == Meaning(c, t, holds) IN holds

(* `type`: of the resource.  `broken`: what a policy that cannot be read   *)
(* was meant to do.                                                        *)
TakesPart(p, type, broken) ==
    CASE p.state = "unreadable" -> broken # "nothing"
      [] OTHER -> p.action = question.action /\ p.type \in {NoType, type}

ObjectsTo(p, broken) ==
    IF p.state = "valid" THEN Holds(truth)[p.condition] = (p.effect = "deny") ELSE broken = "object"

Intended(type, broken) ==
    LET part == {p \in Stored(question) : TakesPart(p, type, broken)}
    IN  CASE ~question.base -> "deny"
          [] question.base /\ question.action \in ProtectedAction -> IF question.require THEN "deny" ELSE "allow"
          [] OTHER -> IF \/ part = {} /\ question.require
                         \/ \E p \in part : ObjectsTo(p, broken)
                      THEN "deny" ELSE "allow"

(***************************************************************************)
(* Property.                                                               *)
(***************************************************************************)

(* An answer is never a guess: whatever could not be looked up, visited or *)
(* read, "allow" and "deny" are what everything known would have given.    *)
AnswersAreNotGuesses ==
    answer \in {"allow", "deny"} =>
        \A type \in IF question.type = NoType THEN Type ELSE {question.type},
           broken \in {"nothing", "allow", "object"} : answer = Intended(type, broken)
=============================================================================
