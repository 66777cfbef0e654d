---------------------------- MODULE AtomicLinks ----------------------------
(***************************************************************************)
(* Identity links and memberships as the in-memory storage keeps them:     *)
(* nothing runs between the checks of a call and its write, so that a call *)
(* is one step, or none when it is refused.  IdentityLinks models the same *)
(* calls over PostgreSQL, where each is a transaction of several           *)
(* statements, and implements this module.                                 *)
(*                                                                         *)
(* Memberships are those of one organization; roles and audit entries are  *)
(* left out.                                                               *)
(***************************************************************************)
CONSTANTS
    Person,       \* identities
    NoPerson

VARIABLES
    link,         \* identity -> what it is linked to
    member        \* identities that own a membership

vars == <<link, member>>

(* No chains, whichever of two links is asked for first.  A link that is   *)
(* there already is answered and changes nothing.                          *)
LinkIdentity(from, to) ==
    /\ from # to /\ from \notin member
    /\ link[from] = NoPerson /\ link[to] = NoPerson
    /\ \A p \in Person : link[p] # from
    /\ link' = [link EXCEPT ![from] = to] /\ UNCHANGED member

UnlinkIdentity(p) ==
    /\ link[p] # NoPerson
    /\ link' = [link EXCEPT ![p] = NoPerson] /\ UNCHANGED member

(* An identity that is linked away gets no membership of its own.          *)
CreateMembership(p) ==
    /\ p \notin member /\ link[p] = NoPerson
    /\ member' = member \cup {p} /\ UNCHANGED link

DeleteMembership(p) ==
    /\ p \in member
    /\ member' = member \ {p} /\ UNCHANGED link

Init == link = [p \in Person |-> NoPerson] /\ member = {}

Next ==
    \/ \E from, to \in Person : LinkIdentity(from, to)
    \/ \E p \in Person : UnlinkIdentity(p) \/ CreateMembership(p) \/ DeleteMembership(p)

Spec == Init /\ [][Next]_vars
=============================================================================
