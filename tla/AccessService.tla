--------------------------- MODULE AccessService ---------------------------
(***************************************************************************)
(* Delegated changes of power in one organization: createAccessAdminService *)
(* over the role and membership repositories, with the authorization engine *)
(* deciding its permission gate.                                           *)
(*                                                                         *)
(* A call is two steps in one transaction: it takes the advisory lock of   *)
(* the organization and decides (Ask...), then writes what it decided      *)
(* (Do...) and commits, which frees the lock.  Everything the service does *)
(* takes the lock; transferOwnership, leaveOrganization, support grants,   *)
(* the status of the organization and the end of a suspension do not, and  *)
(* may come between the two steps.                                         *)
(*                                                                         *)
(* Names, descriptions, row versions, the token that carries a decision to *)
(* the guarded storage (bound to exactly one write) and the audit entries  *)
(* are not modelled.  The reads of one decision are one step.              *)
(***************************************************************************)
EXTENDS Naturals, FiniteSets

CONSTANTS
    Person,         \* identities; who comes back after leaving is another one
    Role,           \* ids of ordinary roles (the Owner role is apart)
    Key,            \* permission keys of the catalog
    Implied,        \* key -> the keys it brings, itself included
    MembersRoles, MembersBlock, MembersRemove, RolesManage,  \* the gates
    Founder,        \* the first Owner
    TemplateKeys,   \* role -> what the templates of the host put into it
    Imported,       \* person -> roles they start with
    MaxCalls,       \* bound: calls of the service that reach their write
    MaxOutside,     \* bound: steps of the code that takes no lock
    NoRole, NoPerson, NoCall

ASSUME ImpliedAssumption ==
    /\ Implied \in [Key -> SUBSET Key]
    /\ \A k \in Key : k \in Implied[k]
    /\ \A k \in Key : \A j \in Implied[k] : Implied[j] \subseteq Implied[k]
ASSUME GatesAssumption == {MembersRoles, MembersBlock, MembersRemove, RolesManage} \subseteq Key
ASSUME StartAssumption ==
    /\ Founder \in Person
    /\ TemplateKeys \in [Role -> SUBSET Key]
    /\ Imported \in [Person -> SUBSET Role]
ASSUME BoundAssumption == MaxCalls \in Nat /\ MaxOutside \in Nat
ASSUME NothingAssumption == NoRole \notin Role /\ NoPerson \notin Person

VARIABLES
    roles,      \* ordinary roles that exist
    keys,       \* role -> its permission keys
    status,     \* person -> status in force of their membership; "none" and "gone": no row
    held,       \* person -> ordinary roles of their membership
    owner,      \* members holding the Owner role
    support,    \* person -> keys of their active support grants
    active,     \* the organization is active
    call,       \* person -> the decision their call carries to its write
    origin,     \* history: keys put in circulation by an Owner, the host or the platform
    calls, outside  \* counters of the two bounds

vars == <<roles, keys, status, held, owner, support, active, call, origin, calls, outside>>
power == <<roles, keys, status, held, owner, origin>>

Power == [owner : BOOLEAN, keys : SUBSET Key]
MemberOps == {"assignRole", "unassignRole", "block", "suspend", "unblock", "remove"}
RoleOps == {"create", "setKeys", "grantKey", "revokeKey", "clone", "deleteRole"}
Call == [op : MemberOps \cup RoleOps, target : Person \cup {NoPerson}, role : Role \cup {NoRole},
         keys : SUBSET Key, to : Role \cup {NoRole}, may : Power]

ASSUME NoCallAssumption == NoCall \notin Call

Sanctioned == {"blocked", "suspended"}

IsMember(p) == status[p] \in {"active"} \cup Sanctioned

TypeOK ==
    /\ roles \subseteq Role
    /\ keys \in [Role -> SUBSET Key]
    /\ status \in [Person -> {"none", "active", "blocked", "suspended", "gone"}]
    /\ held \in [Person -> SUBSET Role]
    /\ owner \subseteq Person
    /\ support \in [Person -> SUBSET Key]
    /\ active \in BOOLEAN
    /\ call \in [Person -> Call \cup {NoCall}]
    /\ origin \subseteq Key
    /\ \A r \in Role \ roles : keys[r] = {}
    /\ \A p \in Person : held[p] \subseteq roles
    /\ \A p \in Person : IsMember(p) \/ (held[p] = {} /\ p \notin owner)
    /\ calls \in Nat /\ outside \in Nat

(***************************************************************************)
(* Who holds what (power.ts) and what the engine answers (decideCan).      *)
(***************************************************************************)
Expand(ks) == UNION {Implied[k] : k \in ks}

ImpliedBy(k) == {j \in Key : k \in Implied[j]}

KeysOf(p) == UNION {keys[r] : r \in held[p]}

Nothing == [owner |-> FALSE, keys |-> {}]

(* Downwards: an Owner's flag, or the closure of what roles and grants name;*)
(* nothing for somebody who is blocked, or where the organization is not on.*)
HoldingsOf(p) ==
    IF ~active \/ status[p] \in Sanctioned THEN Nothing
    ELSE IF p \in owner THEN [owner |-> TRUE, keys |-> KeysOf(p) \cup support[p]]
    ELSE [owner |-> FALSE, keys |-> Expand(KeysOf(p) \cup support[p])]

Covers(may, ks) == may.owner \/ ks \subseteq may.keys

MembershipAllows(p, k) ==
    \/ \E r \in held[p] : k \in keys[r]
    \/ p \in owner
    \/ \E r \in held[p] : ImpliedBy(k) \cap keys[r] # {}

(* Mutant: the status of the organization is not asked for.                *)
Can_anyOrganization(p, k) ==
    /\ status[p] \notin Sanctioned
    /\ (status[p] = "active" /\ MembershipAllows(p, k)) \/ k \in support[p] \/ ImpliedBy(k) \cap support[p] # {}

Can(p, k) ==
    /\ status[p] \notin Sanctioned
    /\ active
    /\ \/ status[p] = "active" /\ MembershipAllows(p, k)
       \/ k \in support[p]
       \/ ImpliedBy(k) \cap support[p] # {}

(***************************************************************************)
(* Deciding.  The lock is the pending call: nobody decides while another   *)
(* call is between its decision and its write.                             *)
(***************************************************************************)
LockFree_perActor(a) == call[a] = NoCall    \* mutant

LockFree(a) == \A p \in Person : call[p] = NoCall

Decides(a, gate, op, t, r, ks, to) ==
    /\ LockFree(a)
    /\ calls < MaxCalls
    /\ Can(a, gate)
    /\ call' = [call EXCEPT ![a] = [op |-> op, target |-> t, role |-> r, keys |-> ks, to |-> to,
                                    may |-> HoldingsOf(a)]]
    /\ calls' = calls + 1
    /\ UNCHANGED <<power, support, active, outside>>

(* Two of the rules: never oneself, nobody with more power.                *)
CanTouchMember(a, t) ==
    /\ IsMember(t)
    /\ t # a
    /\ t \in owner => HoldingsOf(a).owner
    /\ Covers(HoldingsOf(a), KeysOf(t))

Holds(a, ks) == Covers(HoldingsOf(a), ks)

CanTouchRole(a, r) == r \in roles /\ Holds(a, keys[r])

AskAssignRole_unheld(a, t, r) ==    \* mutant
    r \in roles /\ CanTouchMember(a, t) /\ Decides(a, MembersRoles, "assignRole", t, r, {}, NoRole)

AskAssignRole(a, t, r) ==
    /\ r \in roles /\ CanTouchMember(a, t) /\ Holds(a, keys[r])
    /\ Decides(a, MembersRoles, "assignRole", t, r, {}, NoRole)

AskUnassignRole(a, t, r) ==
    /\ r \in roles /\ CanTouchMember(a, t)
    /\ Decides(a, MembersRoles, "unassignRole", t, r, {}, NoRole)

AskStatus(a, t, op) ==
    /\ op \in {"block", "suspend", "unblock"} /\ CanTouchMember(a, t)
    /\ Decides(a, MembersBlock, op, t, NoRole, {}, NoRole)

AskRemove(a, t) ==
    /\ CanTouchMember(a, t)
    /\ Decides(a, MembersRemove, "remove", t, NoRole, {}, NoRole)

AskCreateRole(a, r, ks) ==
    /\ r \notin roles /\ Holds(a, ks)
    /\ Decides(a, RolesManage, "create", NoPerson, r, ks, NoRole)

AskSetPermissions(a, r, ks) ==
    /\ CanTouchRole(a, r) /\ Holds(a, keys[r] \cup ks)
    /\ Decides(a, RolesManage, "setKeys", NoPerson, r, ks, NoRole)

AskGrantPermission_unheld(a, r, k) ==   \* mutant
    CanTouchRole(a, r) /\ Decides(a, RolesManage, "grantKey", NoPerson, r, {k}, NoRole)

AskGrantPermission(a, r, k) ==
    /\ CanTouchRole(a, r) /\ Holds(a, {k})
    /\ Decides(a, RolesManage, "grantKey", NoPerson, r, {k}, NoRole)

AskRevokePermission(a, r, k) ==
    /\ CanTouchRole(a, r)
    /\ Decides(a, RolesManage, "revokeKey", NoPerson, r, {k}, NoRole)

AskCloneRole(a, r, new) ==
    /\ r \in roles /\ new \notin roles /\ Holds(a, keys[r])
    /\ Decides(a, RolesManage, "clone", NoPerson, r, {}, new)

(* `heir` is the role the holders get, NoRole to detach or reject.         *)
AskDeleteRole(a, r, heir) ==
    /\ CanTouchRole(a, r)
    /\ heir # NoRole => heir \in roles /\ Holds(a, keys[heir])
    /\ Decides(a, RolesManage, "deleteRole", NoPerson, r, {}, heir)

(***************************************************************************)
(* Writing.  The repository checks what is its own to check: the rows      *)
(* exist, and the last active Owner stays (see Ownership).                 *)
(***************************************************************************)
Writes(a, op) ==
    /\ call[a] # NoCall
    /\ call[a].op = op
    /\ call' = [call EXCEPT ![a] = NoCall]
    /\ UNCHANGED <<owner, support, active, calls, outside>>

(* What a write by an Owner hands out is in circulation from then on.      *)
Circulates(a, ks) == origin' = IF call[a].may.owner THEN origin \cup Expand(ks) ELSE origin

OtherActiveOwner(p) == \E q \in owner \ {p} : status[q] = "active"

DoAssignRole(a) ==
    /\ Writes(a, "assignRole")
    /\ IsMember(call[a].target) /\ call[a].role \in roles
    /\ held' = [held EXCEPT ![call[a].target] = @ \cup {call[a].role}]
    /\ Circulates(a, keys[call[a].role])
    /\ UNCHANGED <<roles, keys, status>>

DoUnassignRole(a) ==
    /\ Writes(a, "unassignRole")
    /\ held' = [held EXCEPT ![call[a].target] = @ \ {call[a].role}]
    /\ UNCHANGED <<roles, keys, status, origin>>

(* `block` over a suspension that still runs makes it indefinite.          *)
DoBlock(a) ==
    /\ Writes(a, "block")
    /\ LET t == call[a].target
       IN  /\ \/ status[t] = "suspended"
              \/ status[t] = "active" /\ (t \in owner => OtherActiveOwner(t))
           /\ status' = [status EXCEPT ![t] = "blocked"]
    /\ UNCHANGED <<roles, keys, held, origin>>

DoSuspend(a) ==
    /\ Writes(a, "suspend")
    /\ LET t == call[a].target
       IN  /\ status[t] = "active" /\ (t \in owner => OtherActiveOwner(t))
           /\ status' = [status EXCEPT ![t] = "suspended"]
    /\ UNCHANGED <<roles, keys, held, origin>>

DoUnblock(a) ==
    /\ Writes(a, "unblock")
    /\ status[call[a].target] \in Sanctioned
    /\ status' = [status EXCEPT ![call[a].target] = "active"]
    /\ UNCHANGED <<roles, keys, held, origin>>

(* An Owner is not among the members this service may delete last; the     *)
(* roles of the row go with it.                                            *)
MayGo(t) == t \in owner => (\E q \in owner : q # t) /\ (status[t] = "active" => OtherActiveOwner(t))

DoRemove(a) ==
    /\ call[a] # NoCall /\ call[a].op = "remove"
    /\ LET t == call[a].target
       IN  /\ IsMember(t) /\ MayGo(t)
           /\ status' = [status EXCEPT ![t] = "gone"]
           /\ held' = [held EXCEPT ![t] = {}]
           /\ owner' = owner \ {t}
    /\ call' = [call EXCEPT ![a] = NoCall]
    /\ UNCHANGED <<roles, keys, support, active, origin, calls, outside>>

NewRole(a, r, ks) ==
    /\ r \notin roles
    /\ roles' = roles \cup {r}
    /\ keys' = [keys EXCEPT ![r] = ks]
    /\ Circulates(a, ks)
    /\ UNCHANGED <<status, held>>

DoCreateRole(a) == Writes(a, "create") /\ NewRole(a, call[a].role, call[a].keys)

DoCloneRole(a) ==
    /\ Writes(a, "clone")
    /\ call[a].role \in roles
    /\ NewRole(a, call[a].to, keys[call[a].role])

ChangeKeys(a, ks) ==
    /\ call[a].role \in roles
    /\ keys' = [keys EXCEPT ![call[a].role] = ks]
    /\ UNCHANGED <<roles, status, held>>

DoSetPermissions(a) ==
    Writes(a, "setKeys") /\ ChangeKeys(a, call[a].keys) /\ Circulates(a, call[a].keys)

DoGrantPermission(a) ==
    /\ Writes(a, "grantKey")
    /\ ChangeKeys(a, keys[call[a].role] \cup call[a].keys)
    /\ Circulates(a, call[a].keys)

DoRevokePermission(a) ==
    /\ Writes(a, "revokeKey")
    /\ ChangeKeys(a, keys[call[a].role] \ call[a].keys)
    /\ UNCHANGED origin

(* detach and reassign; `reject` is the detach that only goes ahead when   *)
(* nobody holds the role, so it is one of these steps or RolledBack.        *)
DoDeleteRole(a) ==
    /\ Writes(a, "deleteRole")
    /\ LET r == call[a].role
           heir == call[a].to
       IN  /\ r \in roles /\ (heir # NoRole => heir \in roles /\ heir # r)
           /\ roles' = roles \ {r}
           /\ keys' = [keys EXCEPT ![r] = {}]
           /\ held' = [p \in Person |->
                          IF r \in held[p] /\ heir # NoRole THEN (held[p] \ {r}) \cup {heir} ELSE held[p] \ {r}]
           /\ Circulates(a, IF heir = NoRole THEN {} ELSE keys[heir])
    /\ UNCHANGED status

(* The repository refuses, a version conflicts or the process dies: the    *)
(* transaction rolls back and the lock is free again.                      *)
RolledBack(a) ==
    /\ call[a] # NoCall
    /\ call' = [call EXCEPT ![a] = NoCall]
    /\ UNCHANGED <<power, support, active, calls, outside>>

(***************************************************************************)
(* The code that takes no lock.                                            *)
(***************************************************************************)
Outside ==
    /\ outside < MaxOutside
    /\ outside' = outside + 1
    /\ UNCHANGED <<roles, keys, call, calls>>

TransferOwnership(from, to, keep) ==
    /\ Outside
    /\ from # to /\ from \in owner /\ status[to] = "active"
    /\ owner' = IF keep THEN owner \cup {to} ELSE (owner \cup {to}) \ {from}
    /\ UNCHANGED <<status, held, support, active, origin>>

LeaveOrganization(p) ==
    /\ Outside
    /\ status[p] = "active" /\ MayGo(p)
    /\ status' = [status EXCEPT ![p] = "gone"]
    /\ held' = [held EXCEPT ![p] = {}]
    /\ owner' = owner \ {p}
    /\ UNCHANGED <<support, active, origin>>

(* A membership created without roles needs no authorization.              *)
Join(p) ==
    /\ Outside
    /\ status[p] = "none"
    /\ status' = [status EXCEPT ![p] = "active"]
    /\ UNCHANGED <<held, owner, support, active, origin>>

SuspensionEnds(p) ==
    /\ Outside
    /\ status[p] = "suspended"
    /\ status' = [status EXCEPT ![p] = "active"]
    /\ UNCHANGED <<held, owner, support, active, origin>>

SupportStarts(p, ks) ==
    /\ Outside
    /\ support' = [support EXCEPT ![p] = @ \cup ks]
    /\ origin' = origin \cup Expand(ks)
    /\ UNCHANGED <<status, held, owner, active>>

SupportEnds(p) ==
    /\ Outside
    /\ support[p] # {}
    /\ support' = [support EXCEPT ![p] = {}]
    /\ UNCHANGED <<status, held, owner, active, origin>>

SetOrganizationStatus(on) ==
    /\ Outside
    /\ active' = on
    /\ UNCHANGED <<status, held, owner, support, origin>>

Init ==
    /\ roles = {r \in Role : TemplateKeys[r] # {}}
    /\ keys = TemplateKeys
    /\ status = [p \in Person |-> IF p = Founder \/ Imported[p] # {} THEN "active" ELSE "none"]
    /\ held = [p \in Person |-> Imported[p] \cap roles]
    /\ owner = {Founder}
    /\ support = [p \in Person |-> {}]
    /\ active = TRUE
    /\ call = [p \in Person |-> NoCall]
    /\ origin = Expand(UNION {TemplateKeys[r] : r \in Role})
    /\ calls = 0 /\ outside = 0

Ask(a) ==
    \/ \E t \in Person, r \in Role : AskAssignRole(a, t, r) \/ AskUnassignRole(a, t, r)
    \/ \E t \in Person, op \in {"block", "suspend", "unblock"} : AskStatus(a, t, op)
    \/ \E t \in Person : AskRemove(a, t)
    \/ \E r \in Role, ks \in SUBSET Key : AskCreateRole(a, r, ks) \/ AskSetPermissions(a, r, ks)
    \/ \E r \in Role, k \in Key : AskGrantPermission(a, r, k) \/ AskRevokePermission(a, r, k)
    \/ \E r \in Role, new \in Role : AskCloneRole(a, r, new)
    \/ \E r \in Role, heir \in Role \cup {NoRole} : AskDeleteRole(a, r, heir)

Do(a) ==
    \/ DoAssignRole(a) \/ DoUnassignRole(a) \/ DoBlock(a) \/ DoSuspend(a) \/ DoUnblock(a) \/ DoRemove(a)
    \/ DoCreateRole(a) \/ DoCloneRole(a) \/ DoSetPermissions(a) \/ DoGrantPermission(a)
    \/ DoRevokePermission(a) \/ DoDeleteRole(a) \/ RolledBack(a)

NoLock ==
    \/ \E from, to \in Person, keep \in BOOLEAN : TransferOwnership(from, to, keep)
    \/ \E p \in Person : LeaveOrganization(p) \/ Join(p) \/ SuspensionEnds(p) \/ SupportEnds(p)
    \/ \E p \in Person, ks \in SUBSET Key : SupportStarts(p, ks)
    \/ \E on \in BOOLEAN : SetOrganizationStatus(on)

Next == (\E a \in Person : Ask(a) \/ Do(a)) \/ NoLock

Spec == Init /\ [][Next]_vars

(***************************************************************************)
(* Properties.                                                             *)
(***************************************************************************)

(* The gate of an operation (engine.can, asked key by key and upwards      *)
(* through the implications) and the holdings the rules compare (power.ts, *)
(* downwards) are two computations of one thing and never disagree.        *)
GateIsHoldings == \A p \in Person, k \in Key : Can(p, k) <=> Covers(HoldingsOf(p), {k})

(* No escalation, however many calls of however many administrators: what  *)
(* anyone but an Owner can do was put in circulation by an Owner, by the   *)
(* host's templates or by a support grant.                                 *)
PowerHasASource == \A p \in Person : HoldingsOf(p).owner \/ HoldingsOf(p).keys \subseteq origin

(* No call adds to the roles of anybody a key its actor did not hold when  *)
(* it was decided, whatever the role holds by the time it is written.      *)
GivesWhatItHeld ==
    [][\A a \in Person : (call[a] # NoCall /\ call'[a] = NoCall) =>
          \A p \in Person : Covers(call[a].may, KeysOf(p)' \ KeysOf(p))]_vars

(* Whoever is blocked, removed or loses or gets a role holds, at the write, *)
(* no role key the actor did not hold at the decision.                     *)
ReachIsKept ==
    \A a \in Person : (call[a] # NoCall /\ call[a].op \in MemberOps) => Covers(call[a].may, KeysOf(call[a].target))
=============================================================================
