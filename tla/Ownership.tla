----------------------------- MODULE Ownership -----------------------------
(***************************************************************************)
(* Memberships and the protected Owner role, as the SQLite repository      *)
(* serves them: every operation runs in one `begin immediate` transaction, *)
(* so it is one atomic step.  PgOwnership models the same operations       *)
(* statement by statement over PostgreSQL and refines this module.         *)
(*                                                                         *)
(* The Owner role of an organization is created with it and can never be   *)
(* deleted or reassigned (RoleRepository refuses), so "holds the Owner     *)
(* role of its organization" is a set of memberships.  Row versions,       *)
(* profiles, ordinary roles and the text of a block are not modelled.      *)
(***************************************************************************)
EXTENDS Naturals, FiniteSets

CONSTANTS
    Org,        \* organization ids
    Member,     \* membership ids
    NoOrg,      \* organization of a membership that does not exist
    Never,      \* `blocked_until is null`
    MaxTime     \* bound: the database clock runs from 0 to MaxTime

ASSUME NoOrgAssumption == NoOrg \notin Org
ASSUME NeverAssumption == Never \notin Nat
ASSUME TimeAssumption == MaxTime \in Nat

VARIABLES
    founded,    \* organizations that exist, each with its Owner role
    org,        \* membership -> its organization, NoOrg when there is no row
    owner,      \* memberships holding the Owner role of their organization
    status,     \* membership -> stored status
    until,      \* membership -> `blocked_until`
    now         \* the database clock

vars == <<founded, org, owner, status, until, now>>

Time == 0 .. MaxTime + 1

TypeOK ==
    /\ founded \subseteq Org
    /\ org \in [Member -> founded \cup {NoOrg}]
    /\ owner \subseteq {m \in Member : org[m] # NoOrg}
    /\ status \in [Member -> {"active", "blocked"}]
    /\ until \in [Member -> Nat \cup {Never}]
    /\ now \in Nat

Exists(m) == org[m] # NoOrg

(* The status in force: a suspension whose end has passed is active again, *)
(* though nothing rewrites the row.                                        *)
Effective(m) ==
    CASE status[m] = "active"                      -> "active"
      [] status[m] = "blocked" /\ until[m] = Never -> "blocked"
      [] OTHER -> IF until[m] <= now THEN "active" ELSE "suspended"

Active(m) == Effective(m) = "active"

Holders(o) == {m \in owner : org[m] = o}

OtherActiveOwner(m) == \E k \in Holders(org[m]) \ {m} : Active(k)

(* The guard that unassignOwnerRole and delete share: another holder stays, *)
(* and an active one unless the one leaving was not active itself.          *)
MayStopBeingOwner_anyHolder(m) == \E k \in Holders(org[m]) : k # m   \* mutant

MayStopBeingOwner(m) ==
    /\ \E k \in Holders(org[m]) : k # m
    /\ ~Active(m) \/ OtherActiveOwner(m)

MayBeBlocked(m) == m \in owner => OtherActiveOwner(m)

Init ==
    /\ founded = {}
    /\ org = [m \in Member |-> NoOrg]
    /\ owner = {}
    /\ status = [m \in Member |-> "active"]
    /\ until = [m \in Member |-> Never]
    /\ now = 0

(***************************************************************************)
(* Birth of organizations and memberships.                                 *)
(***************************************************************************)
NewRow(m) ==
    /\ status' = [status EXCEPT ![m] = "active"]
    /\ until' = [until EXCEPT ![m] = Never]

CreateOrganizationWithOwner(o, m) ==
    /\ o \notin founded
    /\ ~Exists(m)
    /\ founded' = founded \cup {o}
    /\ org' = [org EXCEPT ![m] = o]
    /\ owner' = owner \cup {m}
    /\ NewRow(m)
    /\ UNCHANGED now

Create(m, o, roles) ==
    /\ ~Exists(m)
    /\ org' = [org EXCEPT ![m] = o]
    /\ owner' = IF "Owner" \in roles THEN owner \cup {m} ELSE owner
    /\ NewRow(m)
    /\ UNCHANGED <<founded, now>>

(***************************************************************************)
(* The Owner role.                                                         *)
(***************************************************************************)
AssignOwnerRole(m) ==
    /\ Exists(m)
    /\ owner' = owner \cup {m}
    /\ UNCHANGED <<founded, org, status, until, now>>

UnassignOwnerRole(m) ==
    /\ m \in owner
    /\ MayStopBeingOwner(m)
    /\ owner' = owner \ {m}
    /\ UNCHANGED <<founded, org, status, until, now>>

(* transferOwnership: one transaction that reads both memberships, grants   *)
(* the role to `to` and then takes it from `from`.  The second statement   *)
(* sees the first one's row, so its guard is met by `to`, who is active.   *)
TransferOwnership(from, to, keep) ==
    /\ from # to
    /\ Exists(from) /\ org[to] = org[from]
    /\ Active(to)
    /\ from \in owner
    /\ owner' = IF keep THEN owner \cup {to} ELSE (owner \cup {to}) \ {from}
    /\ UNCHANGED <<founded, org, status, until, now>>

(***************************************************************************)
(* Sanctions.  `block` over a suspension that still runs makes it           *)
(* indefinite; otherwise both write a row that is active right now.        *)
(***************************************************************************)
Escalate(m) ==
    /\ Exists(m)
    /\ Effective(m) = "suspended"
    /\ until' = [until EXCEPT ![m] = Never]
    /\ UNCHANGED <<founded, org, owner, status, now>>

BlockWithin(m, end) ==
    /\ Exists(m)
    /\ Active(m)
    /\ MayBeBlocked(m)
    /\ status' = [status EXCEPT ![m] = "blocked"]
    /\ until' = [until EXCEPT ![m] = end]
    /\ UNCHANGED <<founded, org, owner, now>>

Block(m) == Escalate(m) \/ BlockWithin(m, Never)

(* The end date was checked against the caller's clock before the call      *)
(* took its turn, so it may already have passed when the row is written.   *)
Suspend(m, end) == BlockWithin(m, end)

Unblock(m) ==
    /\ Exists(m)
    /\ status[m] = "blocked"
    /\ status' = [status EXCEPT ![m] = "active"]
    /\ until' = [until EXCEPT ![m] = Never]
    /\ UNCHANGED <<founded, org, owner, now>>

(***************************************************************************)
(* The end of a membership.  The foreign key's `on delete cascade` takes    *)
(* the roles with the row.  (The columns of a row that is gone are reset   *)
(* here only so that they do not tell states apart.)                       *)
(***************************************************************************)
Delete(m) ==
    /\ Exists(m)
    /\ m \in owner => MayStopBeingOwner(m)
    /\ org' = [org EXCEPT ![m] = NoOrg]
    /\ owner' = owner \ {m}
    /\ status' = [status EXCEPT ![m] = "active"]
    /\ until' = [until EXCEPT ![m] = Never]
    /\ UNCHANGED <<founded, now>>

(* leaveOrganization: the same deletion, refused to a sanctioned member.    *)
LeaveOrganization(m) ==
    /\ Exists(m) /\ Active(m)
    /\ Delete(m)

Tick ==
    /\ now < MaxTime
    /\ now' = now + 1
    /\ UNCHANGED <<founded, org, owner, status, until>>

Next ==
    \/ \E o \in Org, m \in Member : CreateOrganizationWithOwner(o, m)
    \/ \E m \in Member, o \in founded, roles \in SUBSET {"Owner"} : Create(m, o, roles)
    \/ \E m \in Member : AssignOwnerRole(m)
    \/ \E m \in Member : UnassignOwnerRole(m)
    \/ \E from, to \in Member, keep \in BOOLEAN : TransferOwnership(from, to, keep)
    \/ \E m \in Member : Block(m)
    \/ \E m \in Member, end \in Time \ {0} : Suspend(m, end)
    \/ \E m \in Member : Unblock(m)
    \/ \E m \in Member : Delete(m)
    \/ \E m \in Member : LeaveOrganization(m)
    \/ Tick

Spec == Init /\ [][Next]_vars

-----------------------------------------------------------------------------
(* Every organization keeps an Owner who can still act: no order of blocks, *)
(* suspensions, lapses, removals, transfers and departures leaves it with  *)
(* only blocked or suspended Owners, or with none.                         *)
EveryOrganizationHasAnActiveOwner ==
    \A o \in founded : \E m \in Holders(o) : Active(m)

(* A sanction in force only hardens: block and suspend never turn an        *)
(* indefinite block into a suspension, nor move the end of a running       *)
(* suspension to another date; only unblock, or removal, lifts it early.   *)
SanctionsOnlyHarden ==
    [][\A m \in Member :
          Effective(m) # "active" /\ org'[m] = org[m] =>
             \/ status'[m] = "active"
             \/ until'[m] \in {until[m], Never}]_vars
=============================================================================
