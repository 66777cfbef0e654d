--------------------------- MODULE TeamPlacement ---------------------------
(***************************************************************************)
(* Where a team may hang: what every storage finds out about a place in the *)
(* tree (`TeamPlacementFacts`) and what assertTeamPlacement makes of it.    *)
(***************************************************************************)
EXTENDS Naturals, FiniteSets

CONSTANTS
    Team,       \* team ids
    Top,        \* `parent_id is null`
    MaxDepth    \* MAX_TEAM_DEPTH

(* What the recursive queries find who climb from one parent to the next:   *)
(* a team and what is above it, the least set with it and all parents in   *)
(* that set (their guard is wider than any tree).                          *)
Above(parent, t) ==
    LET closed == {S \in SUBSET Team : t \in S /\ \A x \in S : parent[x] \in S \/ parent[x] = Top}
    IN  {s \in Team : \A S \in closed : s \in S}

(* No team is above itself, and none is too deep.                          *)
IsTree(parent, teams) ==
    \A t \in teams : /\ parent[t] # Top => t \notin Above(parent, parent[t])
                     /\ Cardinality(Above(parent, t)) <= MaxDepth

Below(parent, teams, t) == {s \in teams : s # t /\ t \in Above(parent, s)}

(* Levels below a team, 0 for a leaf.                                      *)
Height(parent, teams, t) ==
    LET above == Above(parent, t)
        levels == {Cardinality(Above(parent, s) \ above) : s \in Below(parent, teams, t)}
        enough == {h \in 0 .. Cardinality(Team) : \A n \in levels : n <= h}
    IN  CHOOSE h \in enough : \A g \in enough : h <= g

(* No loop, and what moves along does not get too deep; a team being        *)
(* created has no row, so nothing is below it.                             *)
Fits(parent, teams, t, p) ==
    /\ t \notin Above(parent, p)
    /\ Cardinality(Above(parent, p)) + 1 + Height(parent, teams, t) <= MaxDepth
=============================================================================
