---------------------------- MODULE PgOwnership ----------------------------
(***************************************************************************)
(* Memberships and the Owner role of one organization over PostgreSQL at   *)
(* READ COMMITTED: several connections, each running one call at a time.   *)
(*                                                                         *)
(* A statement takes its snapshot when it begins: the target row must match *)
(* there, `owner_role_ids` is read from it, and so is the list of rows its  *)
(* `for update` has to lock.  It then locks those rows in order, waiting    *)
(* for other connections; a row deleted meanwhile drops out, and a locked   *)
(* row shows its latest committed version.  Writing the target row waits   *)
(* for its lock as well and re-checks the target's own columns, not what   *)
(* the statement read of other tables.  `now()` is the time at which the    *)
(* transaction began.                                                      *)
(*                                                                         *)
(* A call outside storage.transaction commits with its statement, so each   *)
(* such call has one step that changes the tables.  Row versions and the    *)
(* rest of what Ownership leaves out are left out here.  A membership and   *)
(* the role row that makes it an Owner share one lock: every statement      *)
(* that locks one locks the other.                                         *)
(***************************************************************************)
EXTENDS Naturals, FiniteSets

CONSTANTS
    Conn,       \* database connections
    Member,     \* membership ids; random in the code, so never used twice
    None,       \* no organization, no lock holder, no second membership
    Never,      \* `blocked_until is null`
    MaxTime,    \* bound: the database clock runs from 0 to MaxTime
    Mixes       \* sets of calls: the clients of a behaviour make those of one mix

ASSUME MembersAreOrdered == Member \subseteq Nat
ASSUME NoneAssumption == None \notin Conn /\ None \notin Member /\ None # "org"
ASSUME NeverAssumption == Never \notin Nat
ASSUME TimeAssumption == MaxTime \in Nat
ASSUME MixesAssumption ==
    Mixes \subseteq SUBSET {"create", "assign", "unassign", "transfer", "block", "suspend",
                           "unblock", "delete", "tick"}

VARIABLES
    used,       \* membership ids ever created
    members, owner, status, until, now,         \* committed, as in Ownership
    lock,       \* membership -> connection that holds its row lock
    conn,       \* connection -> where its call stands
    calls       \* the mix of this behaviour, fixed from the start

tables == <<used, members, owner, status, until>>
vars == <<used, members, owner, status, until, now, lock, conn, calls>>

Idle == [step |-> "idle", kind |-> "none", m |-> None, to |-> None, end |-> Never, at |-> 0,
         sawOwner |-> FALSE, todo |-> {}, got |-> {}, granted |-> {}, revoked |-> {}]

Steps == {"idle", "locking", "granting", "revoking", "commit"}

TypeOK ==
    /\ used \subseteq Member /\ members \subseteq used /\ owner \subseteq members
    /\ status \in [Member -> {"active", "blocked"}]
    /\ until \in [Member -> Nat \cup {Never}]
    /\ now \in 0 .. MaxTime /\ calls \in Mixes
    /\ lock \in [Member -> Conn \cup {None}]
    /\ \A c \in Conn :
          /\ conn[c].step \in Steps
          /\ conn[c].at <= now
          /\ conn[c].todo \cap conn[c].got = {}
          /\ \A m \in conn[c].got : lock[m] = c

EffectiveAt(m, t) ==
    IF status[m] = "blocked" /\ until[m] # Never
    THEN IF until[m] <= t THEN "active" ELSE "suspended"
    ELSE status[m]

Init ==
    /\ used = {} /\ members = {} /\ owner = {}
    /\ status = [m \in Member |-> "active"]
    /\ until = [m \in Member |-> Never]
    /\ now = 0
    /\ lock = [m \in Member |-> None]
    /\ conn = [c \in Conn |-> Idle]
    /\ calls \in Mixes

Unlocked(c) == [m \in Member |-> IF lock[m] = c THEN None ELSE lock[m]]

CanLock(c, m) == lock[m] \in {None, c}

(* A call ends: its locks go, and the rows `gone` it deleted drop out of     *)
(* every list of rows still to be locked.                                  *)
EndCall(c, gone) ==
    /\ lock' = Unlocked(c)
    /\ conn' = [d \in Conn |-> IF d = c THEN Idle
                               ELSE [conn[d] EXCEPT !.todo = @ \ gone]]

-----------------------------------------------------------------------------
(***************************************************************************)
(* Calls whose effect is one row insertion or one unguarded update.        *)
(***************************************************************************)
(* createOrganizationWithOwner: nobody else can name what it creates before *)
(* it commits.                                                             *)
CreateOrganizationWithOwner(m) ==
    /\ used = {}
    /\ used' = {m} /\ members' = {m} /\ owner' = {m}
    /\ UNCHANGED <<status, until, now, lock, conn, calls>>

Create(m, roles) ==
    /\ "create" \in calls
    /\ used # {} /\ m \notin used
    /\ used' = used \cup {m}
    /\ members' = members \cup {m}
    /\ owner' = IF "Owner" \in roles THEN owner \cup {m} ELSE owner
    /\ UNCHANGED <<status, until, now, lock, conn, calls>>

(* The foreign key makes the insertion wait for whoever holds the row.      *)
AssignOwnerRole(m) ==
    /\ "assign" \in calls
    /\ m \in members \ owner
    /\ lock[m] = None
    /\ owner' = owner \cup {m}
    /\ UNCHANGED <<used, members, status, until, now, lock, conn, calls>>

Unblock(m) ==
    /\ "unblock" \in calls
    /\ m \in members /\ status[m] = "blocked"
    /\ lock[m] = None
    /\ status' = [status EXCEPT ![m] = "active"]
    /\ until' = [until EXCEPT ![m] = Never]
    /\ UNCHANGED <<used, members, owner, now, lock, conn, calls>>

-----------------------------------------------------------------------------
(***************************************************************************)
(* Calls guarded by the count of Owners, and the escalation of a suspension *)
(* (guarded by nothing).                                                   *)
(***************************************************************************)
(* The part of the WHERE clause that reads the target row itself.           *)
TargetMatches_overSanctions(kind, m, t) == m \in members           \* mutant

TargetMatches(kind, m, t) ==
    /\ m \in members
    /\ CASE kind \in {"block", "suspend"} -> EffectiveAt(m, t) = "active"
         [] kind = "escalate"             -> EffectiveAt(m, t) = "suspended"
         [] kind = "delete"               -> TRUE

Begin(c, kind, m, end) ==
    /\ conn[c].step = "idle"
    /\ kind \in calls \/ (kind = "escalate" /\ "block" \in calls)
    /\ TargetMatches(kind, m, now)
    /\ conn' = [conn EXCEPT ![c] =
          [Idle EXCEPT !.step = "locking", !.kind = kind, !.m = m, !.end = end, !.at = now,
                       !.sawOwner = m \in owner,
                       !.todo = IF m \in owner /\ kind # "escalate" THEN owner ELSE {}]]
    /\ UNCHANGED <<tables, now, lock, calls>>

BeginUnassignOwnerRole(c, m) ==
    /\ conn[c].step = "idle"
    /\ "unassign" \in calls
    /\ m \in owner
    /\ conn' = [conn EXCEPT ![c] =
          [Idle EXCEPT !.step = "locking", !.kind = "unassign", !.m = m, !.at = now,
                       !.sawOwner = TRUE, !.todo = owner]]
    /\ UNCHANGED <<tables, now, lock, calls>>

(* `for update` takes the rows in the order of their ids.                   *)
NextToLock_anyOrder(c, m) == m \in conn[c].todo                    \* mutant: no `order by`

NextToLock(c, m) == m \in conn[c].todo /\ \A k \in conn[c].todo : m <= k

LockHolder(c, m) ==
    /\ conn[c].step = "locking"
    /\ NextToLock(c, m)
    /\ CanLock(c, m)
    /\ lock' = [lock EXCEPT ![m] = c]
    /\ conn' = [conn EXCEPT ![c].todo = @ \ {m}, ![c].got = @ \cup {m}]
    /\ UNCHANGED <<tables, now, calls>>

ActiveAt(t) == {m \in Member : EffectiveAt(m, t) = "active"}

(* The verdict over the locked rows.  `locked` is only consulted when the   *)
(* statement saw the target as an Owner.                                   *)
OtherActiveLocked(c) == (conn[c].got \ {conn[c].m}) \cap ActiveAt(conn[c].at) # {}

MayStopBeingOwner(c) ==
    /\ Cardinality(conn[c].got) > 1
    /\ \/ conn[c].m \notin conn[c].got \cap ActiveAt(conn[c].at)
       \/ OtherActiveLocked(c)

MayBlock_anyLocked(c) == conn[c].sawOwner => Cardinality(conn[c].got) > 1    \* mutant

MayBlock(c) == conn[c].sawOwner => OtherActiveLocked(c)
MayDelete(c) == conn[c].sawOwner => MayStopBeingOwner(c)

AllLocked(c) == conn[c].step = "locking" /\ conn[c].todo = {}

WriteBlock(c) ==
    LET m == conn[c].m IN
    /\ AllLocked(c) /\ conn[c].kind \in {"block", "suspend", "escalate"}
    /\ CanLock(c, m)
    /\ IF /\ TargetMatches(conn[c].kind, m, conn[c].at)
          /\ conn[c].kind = "escalate" \/ MayBlock(c)
       THEN /\ status' = [status EXCEPT ![m] = "blocked"]
            /\ until' = [until EXCEPT ![m] = conn[c].end]
       ELSE UNCHANGED <<status, until>>
    /\ EndCall(c, {})
    /\ UNCHANGED <<used, members, owner, now, calls>>

WriteDelete(c) ==
    LET m == conn[c].m IN
    /\ AllLocked(c) /\ conn[c].kind = "delete"
    /\ CanLock(c, m)
    /\ IF m \in members /\ MayDelete(c)
       THEN /\ members' = members \ {m}
            /\ owner' = owner \ {m}
            /\ status' = [status EXCEPT ![m] = "active"]
            /\ until' = [until EXCEPT ![m] = Never]
            /\ EndCall(c, {m})
       ELSE /\ UNCHANGED <<members, owner, status, until>>
            /\ EndCall(c, {})
    /\ UNCHANGED <<used, now, calls>>

(* Outside a transaction the removal of the role commits at once; inside    *)
(* transferOwnership it waits for the commit, and a refusal rolls back.     *)
WriteUnassign(c) ==
    /\ AllLocked(c) /\ conn[c].kind = "unassign"
    /\ IF conn[c].m \in conn[c].got /\ MayStopBeingOwner(c)
       THEN /\ owner' = owner \ {conn[c].m}
            /\ EndCall(c, {conn[c].m})
       ELSE /\ UNCHANGED owner
            /\ EndCall(c, {})
    /\ UNCHANGED <<used, members, status, until, now, calls>>

-----------------------------------------------------------------------------
(***************************************************************************)
(* transferOwnership: one transaction, four steps.                         *)
(***************************************************************************)
BeginTransfer(c, from, to) ==
    /\ conn[c].step = "idle"
    /\ "transfer" \in calls
    /\ from # to /\ {from, to} \subseteq members
    /\ EffectiveAt(to, now) = "active"
    /\ from \in owner
    /\ conn' = [conn EXCEPT ![c] =
          [Idle EXCEPT !.step = "granting", !.kind = "transfer", !.m = from, !.to = to, !.at = now]]
    /\ UNCHANGED <<tables, now, lock, calls>>

(* assignOwnerRole(to): nothing when `to` is an Owner already; otherwise the *)
(* inserted row is seen only here until the commit, and `touch` holds the   *)
(* row of `to`.  A membership that is gone ends the transaction.            *)
TransferGrant(c) ==
    LET to == conn[c].to IN
    /\ conn[c].step = "granting"
    /\ \/ /\ to \in owner
          /\ conn' = [conn EXCEPT ![c].step = "revoking"]
          /\ UNCHANGED lock
       \/ /\ to \in members \ owner
          /\ lock[to] = None
          /\ lock' = [lock EXCEPT ![to] = c]
          /\ conn' = [conn EXCEPT ![c].step = "revoking", ![c].granted = {to}]
       \/ /\ to \notin members
          /\ EndCall(c, {})
    /\ UNCHANGED <<tables, now, calls>>

(* keepPreviousOwner skips the second write; unassignOwnerRole(from) finds   *)
(* nothing to remove when `from` lost the role since it was read.           *)
TransferUnassign(c, keep) ==
    LET seen == owner \cup conn[c].granted IN
    /\ conn[c].step = "revoking"
    /\ conn' = [conn EXCEPT ![c] =
          IF keep \/ conn[c].m \notin seen
          THEN [@ EXCEPT !.step = "commit"]
          ELSE [@ EXCEPT !.step = "locking", !.sawOwner = TRUE, !.todo = seen]]
    /\ UNCHANGED <<tables, now, lock, calls>>

TransferRevoke(c) ==
    /\ AllLocked(c) /\ conn[c].kind = "transfer"
    /\ IF conn[c].m \in conn[c].got
       THEN IF MayStopBeingOwner(c)
            THEN /\ conn' = [conn EXCEPT ![c].step = "commit", ![c].revoked = {conn[c].m}]
                 /\ UNCHANGED lock
            ELSE EndCall(c, {})
       ELSE /\ conn' = [conn EXCEPT ![c].step = "commit"]
            /\ UNCHANGED lock
    /\ UNCHANGED <<tables, now, calls>>

TransferCommit(c) ==
    /\ conn[c].step = "commit"
    /\ owner' = (owner \cup conn[c].granted) \ conn[c].revoked
    /\ EndCall(c, conn[c].revoked)
    /\ UNCHANGED <<used, members, status, until, now, calls>>

-----------------------------------------------------------------------------
Tick ==
    /\ "tick" \in calls /\ now < MaxTime
    /\ now' = now + 1
    /\ UNCHANGED <<tables, lock, conn, calls>>

Next ==
    \/ \E m \in Member : CreateOrganizationWithOwner(m)
    \/ \E m \in Member, roles \in SUBSET {"Owner"} : Create(m, roles)
    \/ \E m \in Member : AssignOwnerRole(m)
    \/ \E m \in Member : Unblock(m)
    \/ \E c \in Conn, m \in Member :
          \/ Begin(c, "block", m, Never)
          \/ Begin(c, "escalate", m, Never)
          \/ \E end \in 1 .. MaxTime : Begin(c, "suspend", m, end)
          \/ Begin(c, "delete", m, Never)
          \/ BeginUnassignOwnerRole(c, m)
          \/ LockHolder(c, m)
          \/ \E to \in Member : BeginTransfer(c, m, to)
    \/ \E c \in Conn :
          \/ WriteBlock(c) \/ WriteDelete(c) \/ WriteUnassign(c)
          \/ TransferGrant(c) \/ TransferRevoke(c) \/ TransferCommit(c)
          \/ \E keep \in BOOLEAN : TransferUnassign(c, keep)
    \/ Tick

Spec == Init /\ [][Next]_vars

-----------------------------------------------------------------------------
(* The committed tables always hold an Owner who can still act.             *)
OrganizationKeepsAnActiveOwner ==
    used # {} => owner \cap ActiveAt(now) # {}

(* A connection waits for a row that another one holds.                    *)
WaitsFor(c, m) ==
    /\ ~CanLock(c, m)
    /\ \/ conn[c].step = "locking" /\ NextToLock(c, m)
       \/ AllLocked(c) /\ conn[c].kind \notin {"unassign", "transfer"} /\ m = conn[c].m
       \/ conn[c].step = "granting" /\ m = conn[c].to /\ m \in members \ owner

(* "Two concurrent callers always contend for the SAME lock in the SAME     *)
(* order -- no deadlock": no set of connections where each waits for a row  *)
(* that another one of the set holds.                                      *)
NobodyDeadlocks ==
    \A S \in (SUBSET Conn) \ {{}} :
       \E c \in S : ~\E m \in Member : WaitsFor(c, m) /\ lock[m] \in S

(* A sanction or a deletion whose target lost the role before it was locked *)
(* writes it last, out of the order; that only harms where the role can be  *)
(* lost without the membership and given back meanwhile.                   *)
Orderly(mix) ==
    \/ mix \cap {"assign", "transfer"} = {}
    \/ mix \cap {"unassign", "transfer"} = {}
    \/ mix \cap {"block", "suspend", "delete"} = {}

(* Among calls that do not give and take the role and sanction or delete    *)
(* members all at once, waiting always ends.                               *)
NobodyWaitsInACircle == Orderly(calls) => NobodyDeadlocks

(* Every statement of every call is a step of Ownership or leaves its       *)
(* tables alone.                                                           *)
O == INSTANCE Ownership WITH
        Org     <- {"org"},
        NoOrg   <- None,
        founded <- IF used = {} THEN {} ELSE {"org"},
        org     <- [m \in Member |-> IF m \in members THEN "org" ELSE None]

ImplementsOwnership == O!Spec
=============================================================================
