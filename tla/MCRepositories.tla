--------------------------- MODULE MCRepositories ---------------------------
(* Components that share no state, for one run of TLC: the first state says *)
(* which of them runs, the others stay as they begin, and the graph is the *)
(* union of theirs.                                                        *)
EXTENDS Ownership, TeamMembers, Entitlements, IdentityLinks, SharedLimit, PolicyEvaluation,
        FiniteSetsExt, TLC

VARIABLE part

(* Conditions of one to four nodes, for policies that deny or require; one *)
(* about a type of resource, one that is broken and one unreadable.        *)
Leaf(f) == [op |-> "fact", fact |-> f]
Not(x) == [op |-> "not", of |-> <<x>>]
Conditions == {Leaf("f"), Not(Leaf("g")), [op |-> "any", of |-> <<Leaf("f"), Leaf("g")>>],
               [op |-> "all", of |-> <<Leaf("f"), Not(Leaf("g"))>>],
               Not([op |-> "all", of |-> <<Leaf("f"), Leaf("h")>>])}

(* Everything a condition is made of, and its levels.                      *)
RECURSIVE WithParts(_), Levels(_)
WithParts(c) == {c} \cup IF c.op = "fact" THEN {} ELSE UNION {WithParts(c.of[i]) : i \in DOMAIN c.of}
Levels(c) == IF c.op = "fact" THEN 0 ELSE 1 + Max({Levels(c.of[i]) : i \in DOMAIN c.of})
MCCondition == UNION {WithParts(c) : c \in Conditions}
MCDepth == [c \in MCCondition |-> Levels(c)]

PolicyAbout(type, effects, conditions, states) ==
    [action : {"edit"}, type : {type}, effect : effects, condition : conditions, state : states]

MCPolicies == PolicyAbout(NoType, {"deny", "require"}, Conditions, {"valid"})
              \cup PolicyAbout("doc", {"deny", "require"}, {Leaf("f")}, {"valid"})
              \cup PolicyAbout("doc", {"deny"}, {Leaf("f")}, {"broken", "unreadable"})

(* Which transaction is which makes no difference.                         *)
MCSessions == Permutations(Session)

Parts == {"ownership", "members", "entitlements", "links", "limit", "evaluation"}

(* The evaluation begins with any question; when it does not run, with none *)
(* in particular.                                                          *)
Unasked ==
    /\ question = [policies |-> <<>>, action |-> "edit", type |-> NoType, require |-> FALSE, base |-> FALSE]
    /\ truth = [f \in Fact |-> FALSE] /\ known = [f \in Fact |-> "unknown"] /\ toLook = {}
    /\ lookups = 0 /\ answer = "none"

UnionInit ==
    /\ part \in Parts
    /\ Init /\ MembersInit /\ EntInit /\ LinkInit /\ LimitInit
    /\ IF part = "evaluation" THEN EvalInit ELSE Unasked

Only(p, others) == part = p /\ UNCHANGED part /\ UNCHANGED others

UnionNext ==
    \/ Only("ownership", <<mvars, evars, lvars, rvars, qvars>>) /\ Next
    \/ Only("members", <<vars, evars, lvars, rvars, qvars>>) /\ MembersNext
    \/ Only("entitlements", <<vars, mvars, lvars, rvars, qvars>>) /\ EntNext
    \/ Only("links", <<vars, mvars, evars, rvars, qvars>>) /\ LinkNext
    \/ Only("limit", <<vars, mvars, evars, lvars, qvars>>) /\ LimitNext
    \/ Only("evaluation", <<vars, mvars, evars, lvars, rvars>>) /\ EvalNext

UnionSpec == UnionInit /\ [][UnionNext]_<<part, vars, mvars, evars, lvars, rvars, qvars>>
=============================================================================
