-------------------------- MODULE MCAdministration --------------------------
(* TeamTree and PlatformSupport for one run of TLC.  They share no state:  *)
(* the first state says which of them runs, the other one stays as it      *)
(* begins, and the graph is the union of theirs.                           *)
EXTENDS TeamTree, PlatformSupport, TLC

CONSTANTS a, b, c

VARIABLE part

(* Every shape of two or three teams on two levels, up to renaming.        *)
Trees == {a :> Top @@ b :> Top, a :> Top @@ b :> a, a :> Top @@ b :> Top @@ c :> Top,
          a :> Top @@ b :> a @@ c :> Top, a :> Top @@ b :> a @@ c :> a}

UnionInit ==
    /\ part \in {"teams", "platform"}
    /\ PlatformInit
    /\ TreeInit /\ (part = "platform" => team[b].parent = a /\ team[c].status = "none")

UnionNext ==
    \/ part = "teams" /\ TreeNext /\ UNCHANGED <<part, platformVars>>
    \/ part = "platform" /\ PlatformNext /\ UNCHANGED <<part, treeVars>>

UnionSpec ==
    /\ UnionInit /\ [][UnionNext]_<<part, treeVars, platformVars>>
    /\ \A p \in Process : SF_treeVars(Steps(p))
    /\ \A k \in Clerk : WF_platformVars(Goes(k))
=============================================================================
