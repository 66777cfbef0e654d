---------------------------- MODULE AtomicTeams ----------------------------
(***************************************************************************)
(* The teams of one organization as the in-memory storage keeps them:       *)
(* nothing runs between the checks of a call and its write, so that a call *)
(* is one step, or none when it is refused.  TeamTree models the same calls *)
(* over PostgreSQL, statement by statement, and implements this module.     *)
(*                                                                         *)
(* Ids are not used again.  Names, versions and metadata are left out, and  *)
(* with them the changes of nothing else.                                   *)
(***************************************************************************)
EXTENDS TeamPlacement

VARIABLES
    status,     \* team id -> "none", "active", "archived" or "gone"
    parentOf    \* team id -> the team it hangs from, or Top

vars == <<status, parentOf>>

Teams == {t \in Team : status[t] \in {"active", "archived"}}

(* checkPlacement; the top is free to all.                                 *)
MayHang(t, p) == p = Top \/ (status[p] = "active" /\ Fits(parentOf, Teams, t, p))

CreateTeam(t, p) ==
    /\ status[t] = "none"
    /\ status' = [status EXCEPT ![t] = "active"] /\ parentOf' = [parentOf EXCEPT ![t] = p]
    /\ MayHang(t, p)

MoveTeam(t, p) ==
    /\ status[t] = "active" /\ parentOf[t] # p
    /\ parentOf' = [parentOf EXCEPT ![t] = p] /\ UNCHANGED status
    /\ MayHang(t, p)

ArchiveTeam(t) ==
    /\ status[t] = "active"
    /\ ~\E s \in Team : parentOf[s] = t /\ status[s] = "active"
    /\ status' = [status EXCEPT ![t] = "archived"] /\ UNCHANGED parentOf

RestoreTeam(t) ==
    /\ status[t] = "archived"
    /\ parentOf[t] = Top \/ status[parentOf[t]] = "active"
    /\ status' = [status EXCEPT ![t] = "active"] /\ UNCHANGED parentOf

DeleteTeam(t) ==
    /\ status[t] = "archived"
    /\ ~\E s \in Teams : parentOf[s] = t
    /\ status' = [status EXCEPT ![t] = "gone"] /\ UNCHANGED parentOf

(* Any tree of active teams.                                               *)
Init ==
    /\ status \in [Team -> {"none", "active"}] /\ parentOf \in [Team -> Team \cup {Top}]
    /\ \A t \in Team : parentOf[t] \in {Top} \cup IF t \in Teams THEN Teams ELSE {}
    /\ IsTree(parentOf, Teams)

Next ==
    \/ \E t \in Team, p \in Team \cup {Top} : CreateTeam(t, p) \/ MoveTeam(t, p)
    \/ \E t \in Team : ArchiveTeam(t) \/ RestoreTeam(t) \/ DeleteTeam(t)

Spec == Init /\ [][Next]_vars
=============================================================================
