--------------------------- MODULE PlatformSupport ---------------------------
(***************************************************************************)
(* Platform operators, their roles, and the support access they open for   *)
(* themselves in an organization.                                          *)
(*                                                                         *)
(* A change of operators or roles is one transaction under the platform    *)
(* lock, so one action.  Support grants live in another store: what has to *)
(* happen there follows after the commit, in steps that other calls run    *)
(* between, and the call may fail or its process die before they are done. *)
(*                                                                         *)
(* Organization status, the audit trail, versions, the expiry of grants    *)
(* and pages of more than a hundred rows are not modelled.                 *)
(***************************************************************************)
EXTENDS Naturals

CONSTANTS
    Operator,    \* identities
    AdminRole,   \* the system role platform_admin
    CustomRole,  \* the other roles
    Power,       \* permissions a custom role may hold
    Grant,       \* support grants that may be opened
    Clerk,       \* processes that serve calls of the service
    Nothing,     \* no identity, no role, no grant
    MaxCalls,    \* bound: changes asked for
    MaxBroken    \* bound: calls that fail half way

All == "platform.*"
MembersManage == "members.manage"
RolesManage == "roles.manage"
SupportGrant == "support.grant"
PlatformKey == {All, MembersManage, RolesManage, SupportGrant}

ASSUME PlatformAssumption ==
    /\ AdminRole \notin CustomRole /\ Nothing \notin Operator \cup CustomRole \cup Grant
    /\ Power \subseteq PlatformKey \ {All}
    /\ MaxCalls \in Nat /\ MaxBroken \in Nat

VARIABLES
    powers,     \* the roles there are -> their permissions
    operator,   \* identity -> its membership: [status, roles]
    grant,      \* grant -> [state, of]: the operator who opened it for themselves
    call,       \* clerk -> what is left of the call it serves
    asked,      \* changes asked for (bound)
    broken,     \* calls that failed half way (bound)
    cut         \* identities whose support grants a failed call left as they were

platformVars == <<powers, operator, grant, call, asked, broken, cut>>

PlatformRole == CustomRole \cup {AdminRole}

OperatorTypeOK ==
    /\ DOMAIN powers \subseteq PlatformRole /\ powers \in [DOMAIN powers -> SUBSET PlatformKey]
    /\ operator \in [Operator -> [status : {"none", "active", "suspended"}, roles : SUBSET DOMAIN powers]]
    /\ \A o \in Operator : operator[o].status = "none" => operator[o].roles = {}

(* `todo`: identities whose support is to be looked at; `who`: the one at  *)
(* hand; `found`: grants to revoke; `role`: whose holders are to be read.  *)
Left(pc, who, role, todo, found) == [pc |-> pc, who |-> who, role |-> role, todo |-> todo, found |-> found]
Resting == Left("idle", Nothing, Nothing, {}, {})

CallTypeOK(left) ==
    /\ left \in [pc : {"idle", "page", "ask", "search", "revoke", "create", "recheck", "undo"},
                 who : Operator \cup {Nothing}, role : CustomRole \cup {Nothing},
                 todo : SUBSET Operator, found : SUBSET Grant]
    /\ left.pc \in {"idle", "create", "page"} => left.todo = {}
    /\ left.pc \in {"search", "revoke"} => left.who \in left.todo
    /\ left.pc \in {"create", "recheck", "undo"} => left.who \in Operator
    /\ left.pc \in {"recheck", "undo"} => \E g \in Grant : left.found = {g}

PlatformTypeOK ==
    /\ OperatorTypeOK
    /\ grant \in [Grant -> [state : {"none", "active", "revoked"}, of : Operator \cup {Nothing}]]
    /\ \A g \in Grant : grant[g].state = "active" => grant[g].of \in Operator
    /\ DOMAIN call = Clerk /\ \A c \in Clerk : CallTypeOK(call[c])
    /\ asked \in Nat /\ broken \in Nat /\ cut \subseteq Operator

(***************************************************************************)
(* The platform engine.                                                    *)
(***************************************************************************)
PowersOf(roles) == UNION {powers[r] : r \in roles}

PermissionsOf(o) == IF operator[o].status = "active" THEN PowersOf(operator[o].roles) ELSE {}

Covers(mine, wanted) == All \in mine \/ wanted \subseteq mine

MayPlatform(o, key) == Covers(PermissionsOf(o), {key})

Outranks(a, o) == Covers(PermissionsOf(a), PowersOf(operator[o].roles))

(* The trigger: somebody else is an active holder of platform_admin.       *)
LastAdmin(o) ==
    /\ operator[o].status = "active" /\ AdminRole \in operator[o].roles
    /\ \A other \in Operator \ {o} : ~(operator[other].status = "active" /\ AdminRole \in operator[other].roles)

(***************************************************************************)
(* Changes that need nothing afterwards.                                   *)
(***************************************************************************)
Asks == asked < MaxCalls /\ asked' = asked + 1

WithRole(r, keys) == [x \in DOMAIN powers \cup {r} |-> IF x = r THEN keys ELSE powers[x]]

(* Works once, while the platform has no member.                           *)
Bootstrap(o) ==
    /\ \A any \in Operator : operator[any].status = "none"
    /\ operator' = [operator EXCEPT ![o] = [status |-> "active", roles |-> {AdminRole}]]
    /\ powers' = WithRole(AdminRole, {All})
    /\ UNCHANGED <<grant, call, asked, broken, cut>>

CreateRole(a, r, keys) ==
    /\ Asks
    /\ MayPlatform(a, RolesManage) /\ Covers(PermissionsOf(a), keys)
    /\ r \notin DOMAIN powers
    /\ powers' = WithRole(r, keys)
    /\ UNCHANGED <<operator, grant, call, broken, cut>>

(* A role that somebody holds, or a system role, stays.                    *)
DeleteRole(a, r) ==
    /\ Asks
    /\ r \in DOMAIN powers \ {AdminRole}
    /\ MayPlatform(a, RolesManage) /\ Covers(PermissionsOf(a), powers[r])
    /\ \A o \in Operator : r \notin operator[o].roles
    /\ powers' = [other \in DOMAIN powers \ {r} |-> powers[other]]
    /\ UNCHANGED <<operator, grant, call, broken, cut>>

AddOperator(a, o, roles) ==
    /\ Asks
    /\ MayPlatform(a, MembersManage) /\ a # o /\ Covers(PermissionsOf(a), PowersOf(roles))
    /\ operator[o].status = "none"
    /\ operator' = [operator EXCEPT ![o] = [status |-> "active", roles |-> roles]]
    /\ UNCHANGED <<powers, grant, call, broken, cut>>

Reactivate(a, o) ==
    /\ Asks
    /\ MayPlatform(a, MembersManage) /\ a # o /\ Outranks(a, o)
    /\ operator[o].status = "suspended"
    /\ operator' = [operator EXCEPT ![o].status = "active"]
    /\ UNCHANGED <<powers, grant, call, broken, cut>>

AssignPlatformRole(a, o, r) ==
    /\ Asks
    /\ MayPlatform(a, MembersManage) /\ a # o /\ Outranks(a, o) /\ Covers(PermissionsOf(a), powers[r])
    /\ operator[o].status # "none"
    /\ operator' = [operator EXCEPT ![o].roles = @ \cup {r}]
    /\ UNCHANGED <<powers, grant, call, broken, cut>>

(***************************************************************************)
(* Changes that may take `support.grant` away: the clerk goes on to        *)
(* endSupportOf once the transaction has committed.                        *)
(***************************************************************************)
Then(c, left) == call[c].pc = "idle" /\ call' = [call EXCEPT ![c] = left]

LookAt(o) == Left("ask", Nothing, Nothing, {o}, {})

SuspendOperator(c, a, o) ==
    /\ Asks
    /\ MayPlatform(a, MembersManage) /\ a # o /\ Outranks(a, o)
    /\ operator[o].status # "none" /\ ~LastAdmin(o)
    /\ operator' = [operator EXCEPT ![o].status = "suspended"]
    /\ Then(c, LookAt(o))
    /\ UNCHANGED <<powers, grant, broken, cut>>

RemoveOperator(c, a, o) ==
    /\ Asks
    /\ MayPlatform(a, MembersManage) /\ a # o /\ Outranks(a, o)
    /\ operator[o].status # "none" /\ ~LastAdmin(o)
    /\ operator' = [operator EXCEPT ![o] = [status |-> "none", roles |-> {}]]
    /\ Then(c, LookAt(o))
    /\ UNCHANGED <<powers, grant, broken, cut>>

UnassignPlatformRole(c, a, o, r) ==
    /\ Asks
    /\ MayPlatform(a, MembersManage) /\ a # o /\ Outranks(a, o)
    /\ operator[o].status # "none" /\ ~(r = AdminRole /\ LastAdmin(o))
    /\ operator' = [operator EXCEPT ![o].roles = @ \ {r}]
    /\ Then(c, LookAt(o))
    /\ UNCHANGED <<powers, grant, broken, cut>>

(* Mutant: only those who changed are looked at, never the holders.        *)
UpdateRole_holdersForgotten(c, a, r, keys) ==
    /\ Asks
    /\ MayPlatform(a, RolesManage) /\ Covers(PermissionsOf(a), powers[r]) /\ Covers(PermissionsOf(a), keys)
    /\ powers' = [powers EXCEPT ![r] = keys]
    /\ Then(c, Resting)
    /\ UNCHANGED <<operator, grant, broken, cut>>

UpdateRole(c, a, r, keys) ==
    /\ Asks
    /\ MayPlatform(a, RolesManage) /\ Covers(PermissionsOf(a), powers[r]) /\ Covers(PermissionsOf(a), keys)
    /\ powers' = [powers EXCEPT ![r] = keys]
    /\ Then(c, Left("page", Nothing, r, {}, {}))
    /\ UNCHANGED <<operator, grant, broken, cut>>

(* The members with the role, read after the commit.                       *)
ReadHolders(c) ==
    /\ call[c].pc = "page"
    /\ LET holders == {o \in Operator : call[c].role \in operator[o].roles}
       IN  call' = [call EXCEPT ![c] = IF holders = {} THEN Resting ELSE Left("ask", Nothing, Nothing, holders, {})]
    /\ UNCHANGED <<powers, operator, grant, asked, broken, cut>>

(***************************************************************************)
(* endSupportOf, for one identity after the other.                         *)
(***************************************************************************)
NextIdentity(c, o) ==
    call' = [call EXCEPT ![c] = IF call[c].todo = {o} THEN Resting ELSE Left("ask", Nothing, Nothing, call[c].todo \ {o}, {})]

(* Who may still open support keeps what they have.                        *)
AskEntitled(c, o) ==
    /\ call[c].pc = "ask" /\ o \in call[c].todo
    /\ IF MayPlatform(o, SupportGrant)
       THEN NextIdentity(c, o)
       ELSE call' = [call EXCEPT ![c] = Left("search", o, Nothing, @.todo, {})]
    /\ UNCHANGED <<powers, operator, grant, asked, broken, cut>>

SearchGrants(c) ==
    /\ call[c].pc = "search"
    /\ LET o == call[c].who
           found == {g \in Grant : grant[g] = [state |-> "active", of |-> o]}
       IN  IF found = {} THEN NextIdentity(c, o)
                         ELSE call' = [call EXCEPT ![c] = Left("revoke", o, Nothing, @.todo, found)]
    /\ UNCHANGED <<powers, operator, grant, asked, broken, cut>>

RevokeFound(c, g) ==
    /\ call[c].pc = "revoke" /\ g \in call[c].found
    /\ grant' = [grant EXCEPT ![g].state = "revoked"]
    /\ IF call[c].found = {g} THEN NextIdentity(c, call[c].who)
                              ELSE call' = [call EXCEPT ![c].found = @ \ {g}]
    /\ UNCHANGED <<powers, operator, asked, broken, cut>>

(***************************************************************************)
(* grantSupportAccess: asked before, and once more after the grant exists. *)
(***************************************************************************)
StartGrant(c, a) ==
    /\ Asks
    /\ MayPlatform(a, SupportGrant)
    /\ Then(c, Left("create", a, Nothing, {}, {}))
    /\ UNCHANGED <<powers, operator, grant, broken, cut>>

CreateGrant(c, g) ==
    /\ call[c].pc = "create" /\ grant[g].state = "none"
    /\ grant' = [grant EXCEPT ![g] = [state |-> "active", of |-> call[c].who]]
    /\ call' = [call EXCEPT ![c] = Left("recheck", @.who, Nothing, {}, {g})]
    /\ UNCHANGED <<powers, operator, asked, broken, cut>>

Recheck_never(c) ==     \* mutant
    /\ call[c].pc = "recheck"
    /\ call' = [call EXCEPT ![c] = Resting]
    /\ UNCHANGED <<powers, operator, grant, asked, broken, cut>>

Recheck(c) ==
    /\ call[c].pc = "recheck"
    /\ call' = [call EXCEPT ![c] = IF MayPlatform(@.who, SupportGrant) THEN Resting ELSE [@ EXCEPT !.pc = "undo"]]
    /\ UNCHANGED <<powers, operator, grant, asked, broken, cut>>

UndoGrant(c, g) ==
    /\ call[c].pc = "undo" /\ g \in call[c].found
    /\ grant' = [grant EXCEPT ![g].state = "revoked"]
    /\ call' = [call EXCEPT ![c] = Resting]
    /\ UNCHANGED <<powers, operator, asked, broken, cut>>

RevokeSupport(a, g) ==
    /\ Asks
    /\ MayPlatform(a, SupportGrant) /\ grant[g].state # "none"
    /\ grant' = [grant EXCEPT ![g].state = "revoked"]
    /\ UNCHANGED <<powers, operator, call, broken, cut>>

(* Those whose grants a call has not dealt with yet.                       *)
Pending(c) ==
    IF call[c].pc = "page" THEN {o \in Operator : call[c].role \in operator[o].roles}
    ELSE IF call[c].pc \in {"recheck", "undo"} THEN {call[c].who}
    ELSE call[c].todo

(* The other store is out of reach, or the process dies: nobody goes on.   *)
Breaks(c) ==
    /\ call[c].pc # "idle"
    /\ broken < MaxBroken /\ broken' = broken + 1
    /\ cut' = cut \cup Pending(c)
    /\ call' = [call EXCEPT ![c] = Resting]
    /\ UNCHANGED <<powers, operator, grant, asked>>

PlatformInit ==
    /\ powers = [r \in {} |-> {}]
    /\ operator = [o \in Operator |-> [status |-> "none", roles |-> {}]]
    /\ grant = [g \in Grant |-> [state |-> "none", of |-> Nothing]]
    /\ call = [c \in Clerk |-> Resting]
    /\ asked = 0 /\ broken = 0 /\ cut = {}

Goes(c) ==
    \/ ReadHolders(c) \/ SearchGrants(c) \/ Recheck(c)
    \/ \E o \in Operator : AskEntitled(c, o)
    \/ \E g \in Grant : RevokeFound(c, g) \/ CreateGrant(c, g) \/ UndoGrant(c, g)

PlatformNext ==
    \/ \E a, o \in Operator :
          \/ Bootstrap(o)
          \/ Reactivate(a, o)
          \/ \E roles \in SUBSET DOMAIN powers : AddOperator(a, o, roles)
          \/ \E r \in DOMAIN powers : AssignPlatformRole(a, o, r)
          \/ \E c \in Clerk :
               \/ SuspendOperator(c, a, o) \/ RemoveOperator(c, a, o)
               \/ \E r \in operator[o].roles : UnassignPlatformRole(c, a, o, r)
    \/ \E a \in Operator :
          \/ \E r \in CustomRole :
               \/ DeleteRole(a, r)
               \/ \E keys \in SUBSET Power :
                    \/ CreateRole(a, r, keys)
                    \/ r \in DOMAIN powers /\ \E c \in Clerk : UpdateRole(c, a, r, keys)
          \/ \E c \in Clerk : StartGrant(c, a)
          \/ \E g \in Grant : RevokeSupport(a, g)
    \/ \E c \in Clerk : Goes(c) \/ Breaks(c)

(* A process that is not dead goes on with the call it serves.             *)
PlatformSpec == PlatformInit /\ [][PlatformNext]_platformVars /\ \A c \in Clerk : WF_platformVars(Goes(c))

(***************************************************************************)
(* Properties.                                                             *)
(***************************************************************************)
HasSupport(o) == \E g \in Grant : grant[g] = [state |-> "active", of |-> o]

(* "Support grants a platform operator opened for themselves outlive       *)
(* nothing": whoever has one may open one, or a call that will look at it  *)
(* is still under way, or such a call failed half way.                     *)
SupportIsEntitled ==
    \A o \in Operator : HasSupport(o) =>
        MayPlatform(o, SupportGrant) \/ o \in cut \/ \E c \in Clerk : o \in Pending(c)

(* And it ends: right and grants are gone together, unless a call fails.   *)
SupportEnds ==
    \A o \in Operator :
        (HasSupport(o) /\ ~MayPlatform(o, SupportGrant)) ~> (~HasSupport(o) \/ MayPlatform(o, SupportGrant) \/ o \in cut)
=============================================================================
