------------------------- MODULE PgOwnershipProofs -------------------------
(***************************************************************************)
(* Proofs about PgOwnership, for any number of connections and memberships *)
(* and any bound of the clock: the row locks; for every mix of calls where *)
(* the locks are taken in order (Orderly), the waits that end; and for     *)
(* every mix that keeps apart what the code does not guard against each    *)
(* other (SafeMix), the Owner who can still act and the refinement of      *)
(* Ownership.                                                              *)
(*                                                                         *)
(* The argument: what a statement has locked is exactly its list `got` and *)
(* the row it granted, and nobody else takes the Owner role from a locked  *)
(* row (Sound).  So the Owner that a verdict found besides the target is   *)
(* still one when the target is written, and time only lifts sanctions.    *)
(***************************************************************************)
EXTENDS PgOwnership, FiniteSetTheorems, WellFoundedInduction, TLAPS

(* Calls that the Owner guard is not made to meet: a membership that gains  *)
(* the role after a sanction or a deletion has read that it has none, and  *)
(* a suspension that lapses while a statement waits for its locks.         *)
SafeMix(mix) ==
    /\ mix \cap {"assign", "transfer"} # {} => mix \cap {"block", "suspend", "delete"} = {}
    /\ {"tick", "suspend"} \subseteq mix => mix \cap {"block", "delete", "unassign"} = {}

Kinds == {"none", "block", "suspend", "escalate", "delete", "unassign", "transfer"}

CallType ==
    [step : Steps, kind : Kinds, m : Member \cup {None}, to : Member \cup {None},
     end : Nat \cup {Never}, at : Nat, sawOwner : BOOLEAN, todo : SUBSET Member,
     got : SUBSET Member, granted : SUBSET Member, revoked : SUBSET Member]

(* The committed tables; the columns of a row that does not exist are reset. *)
Tables ==
    /\ used \subseteq Member /\ members \subseteq used /\ owner \subseteq members
    /\ status \in [Member -> {"active", "blocked"}]
    /\ until \in [Member -> Nat \cup {Never}]
    /\ \A m \in Member \ members : status[m] = "active" /\ until[m] = Never
    /\ now \in 0 .. MaxTime /\ calls \in Mixes
    /\ lock \in [Member -> Conn \cup {None}]
    /\ conn \in [Conn -> CallType]

(* Where a call stands.                                                    *)
Stage(c) ==
    /\ conn[c].step = "idle" <=> conn[c].kind = "none"
    /\ conn[c].step = "idle" => conn[c].todo = {} /\ conn[c].got = {}
    /\ conn[c].step # "idle" => conn[c].m \in used
    /\ conn[c].step \in {"granting", "revoking"} => conn[c].todo = {} /\ conn[c].got = {}
    /\ conn[c].step = "granting" => conn[c].granted = {}
    /\ conn[c].step = "commit" => conn[c].todo = {}
    /\ conn[c].step \in {"granting", "revoking", "commit"} => conn[c].kind = "transfer"
    /\ conn[c].kind # "transfer" => conn[c].granted = {}
    /\ conn[c].kind = "transfer" =>
          conn[c].to \in Member /\ conn[c].m # conn[c].to /\ conn[c].granted \subseteq {conn[c].to}
    /\ conn[c].kind = "escalate" => conn[c].todo \cup conn[c].got = {}
    /\ conn[c].kind \in {"block", "suspend", "delete"} /\ ~conn[c].sawOwner => conn[c].todo \cup conn[c].got = {}
    /\ conn[c].kind \in {"block", "escalate"} => conn[c].end = Never
    /\ conn[c].kind = "suspend" => conn[c].end \in 1 .. MaxTime
    /\ conn[c].revoked # {} =>
          /\ conn[c].step = "commit" /\ conn[c].revoked = {conn[c].m} /\ conn[c].m \in conn[c].got
          /\ \E k \in conn[c].got : k # conn[c].m
    /\ conn[c].kind \in calls \cup {"none", "escalate"}
    /\ conn[c].kind = "escalate" => "block" \in calls

(* What a call has locked, and what it still has to lock.                   *)
Locks(c) ==
    /\ \A m \in Member : lock[m] = c <=> m \in conn[c].got \cup conn[c].granted
    /\ conn[c].todo \cup conn[c].got \subseteq owner \cup conn[c].granted
    /\ conn[c].granted \subseteq members \ owner
    /\ \A k \in conn[c].got, m \in conn[c].todo : k < m

Sound(c) == Stage(c) /\ Locks(c) /\ conn[c].at <= now

(* The inductive invariant of every mix.                                   *)
IInv == Tables /\ \A c \in Conn : Sound(c)

(* A sanction or a deletion knows whether its target is an Owner.           *)
Known(c) ==
    conn[c].kind \in {"block", "suspend", "delete"} /\ conn[c].m \in owner =>
        conn[c].sawOwner /\ conn[c].m \in conn[c].todo \cup conn[c].got

(* The row that such a call writes last is in its list: as long as it has   *)
(* the role where nobody is given it, as long as it is there where the role *)
(* only goes with the row.                                                 *)
Listed(c) ==
    /\ conn[c].kind \in {"block", "suspend", "delete"} /\ conn[c].sawOwner
    /\ conn[c].m \in (IF calls \cap {"assign", "transfer"} = {} THEN owner ELSE members)
    => conn[c].m \in conn[c].todo \cup conn[c].got

(* The inductive invariant of the orderly mixes.                           *)
OrderlyInv == IInv /\ (Orderly(calls) => \A c \in Conn : Listed(c))

(* What is missing in the mix is missing in the tables.                    *)
Calm ==
    /\ "tick" \notin calls => \A c \in Conn : conn[c].step # "idle" => conn[c].at = now
    /\ "suspend" \notin calls => \A m \in Member : until[m] = Never
    /\ calls \cap {"block", "suspend"} = {} => \A m \in Member : status[m] = "active"

(* The inductive invariant of the safe mixes.                              *)
SafeInv ==
    /\ IInv /\ Calm
    /\ \A c \in Conn : Known(c)
    /\ SafeMix(calls)

(* What is proved of Ownership, for the same mapping as O.                  *)
P == INSTANCE OwnershipProofs WITH
        Org     <- {"org"},
        NoOrg   <- None,
        founded <- IF used = {} THEN {} ELSE {"org"},
        org     <- [m \in Member |-> IF m \in members THEN "org" ELSE None]

(* No behaviour makes calls that the Owner guard does not meet.             *)
MixesAreSafe == \A mix \in Mixes : SafeMix(mix)

-----------------------------------------------------------------------------
(***************************************************************************)
(* One call at a time: what a step does to the calls of the others.        *)
(***************************************************************************)
(* The call stands where it stood, except that rows dropped out of its list. *)
Keeps(c, gone) ==
    /\ conn'[c].step = conn[c].step /\ conn'[c].kind = conn[c].kind
    /\ conn'[c].m = conn[c].m /\ conn'[c].to = conn[c].to /\ conn'[c].end = conn[c].end
    /\ conn'[c].at = conn[c].at /\ conn'[c].sawOwner = conn[c].sawOwner
    /\ conn'[c].got = conn[c].got /\ conn'[c].granted = conn[c].granted
    /\ conn'[c].revoked = conn[c].revoked
    /\ conn'[c].todo = conn[c].todo \ gone

(* A call stays sound when its locked rows stay its own, keep the Owner     *)
(* role they had, and nobody gives the role to the row it granted.         *)
LEMMA Undisturbed ==
    ASSUME IInv, NEW c \in Conn, NEW gone \in SUBSET Member, Keeps(c, gone),
           \A m \in Member : lock'[m] = c <=> lock[m] = c,
           owner \ gone \subseteq owner',
           gone \cap (conn[c].got \cup conn[c].granted) = {},
           conn[c].granted \subseteq members' \ owner',
           used \subseteq used', now \in Nat, now' \in Nat, now <= now', calls' = calls
    PROVE  Sound(c)'
<1>1. conn[c] \in CallType
  BY DEF IInv, Tables
<1>2. Stage(c)'
  BY <1>1 DEF IInv, Sound, Stage, Keeps, CallType
<1>3. Locks(c)'
  <2>1. Locks(c)
    BY DEF IInv, Sound
  <2> QED
    BY <1>1, <2>1 DEF Locks, Keeps, CallType
<1>4. (conn[c].at <= now)'
  BY <1>1 DEF IInv, Sound, Keeps, CallType
<1> QED
  BY <1>2, <1>3, <1>4 DEF Sound

(* Nobody else notices a step that leaves the tables alone.                 *)
LEMMA SameCall ==
    ASSUME IInv, NEW c \in Conn, conn'[c] = conn[c]
    PROVE  Keeps(c, {})
BY DEF IInv, Tables, CallType, Keeps

LEMMA IdleType == Idle \in CallType
BY NeverAssumption DEF Idle, CallType, Steps, Kinds

(* The end of a call gives its locks back and touches nobody else's.        *)
LEMMA Ends ==
    ASSUME IInv, NEW c \in Conn, NEW gone \in SUBSET Member, EndCall(c, gone)
    PROVE  /\ lock' \in [Member -> Conn \cup {None}] /\ conn' \in [Conn -> CallType]
           /\ conn'[c] = Idle /\ \A m \in Member : lock'[m] # c
           /\ \A d \in Conn \ {c} : Keeps(d, gone) /\ \A m \in Member : lock'[m] = d <=> lock[m] = d
<1>1. lock \in [Member -> Conn \cup {None}] /\ conn \in [Conn -> CallType]
  BY DEF IInv, Tables
<1>2. lock' = Unlocked(c) /\ conn' = [d \in Conn |-> IF d = c THEN Idle ELSE [conn[d] EXCEPT !.todo = @ \ gone]]
  BY DEF EndCall
<1>3. \A d \in Conn : [conn[d] EXCEPT !.todo = @ \ gone] \in CallType
  BY <1>1 DEF CallType
<1>4. conn' \in [Conn -> CallType]
  BY <1>2, <1>3, IdleType
<1>5. lock' \in [Member -> Conn \cup {None}] /\ \A m \in Member : lock'[m] # c
  BY <1>1, <1>2, NoneAssumption DEF Unlocked
<1>6. ASSUME NEW d \in Conn \ {c} PROVE Keeps(d, gone) /\ \A m \in Member : lock'[m] = d <=> lock[m] = d
  <2>1. conn'[d] = [conn[d] EXCEPT !.todo = conn[d].todo \ gone] /\ conn[d] \in CallType
    BY <1>1, <1>2
  <2>2. Keeps(d, gone)
    BY <2>1 DEF Keeps, CallType
  <2>3. \A m \in Member : lock'[m] = d <=> lock[m] = d
    BY <1>1, <1>2, NoneAssumption DEF Unlocked
  <2> QED
    BY <2>2, <2>3
<1> QED
  BY <1>2, <1>4, <1>5, <1>6

(* A connection without a call.                                            *)
LEMMA IdleSound ==
    ASSUME NEW c \in Conn, conn'[c] = Idle, \A m \in Member : lock'[m] # c, now' \in Nat, calls' = calls
    PROVE  Sound(c)'
<1>1. /\ conn'[c].step = "idle" /\ conn'[c].kind = "none" /\ conn'[c].todo = {} /\ conn'[c].got = {}
      /\ conn'[c].granted = {} /\ conn'[c].revoked = {} /\ conn'[c].at = 0
  BY DEF Idle
<1>2. Stage(c)'
  BY <1>1 DEF Stage
<1>3. Locks(c)'
  BY <1>1 DEF Locks
<1> QED
  BY <1>1, <1>2, <1>3 DEF Sound

(* What is known of the clock.                                             *)
LEMMA Clock ==
    ASSUME IInv
    PROVE  now \in Nat /\ \A c \in Conn : conn[c].at \in Nat /\ conn[c].at <= now
BY TimeAssumption DEF IInv, Tables, Sound, CallType

-----------------------------------------------------------------------------
(***************************************************************************)
(* The steps, for every mix.                                               *)
(***************************************************************************)
(* Rows appear, gain the role, lose a sanction; time passes.                *)
LEMMA RowStep ==
    ASSUME IInv,
           \/ \E m \in Member : CreateOrganizationWithOwner(m) \/ AssignOwnerRole(m) \/ Unblock(m)
           \/ \E m \in Member, roles \in SUBSET {"Owner"} : Create(m, roles)
           \/ Tick
    PROVE  IInv'
<1>0. now \in Nat /\ now' \in Nat /\ now <= now'
  BY Clock DEF CreateOrganizationWithOwner, AssignOwnerRole, Unblock, Create, Tick
<1>1. conn' = conn /\ lock' = lock /\ calls' = calls
  BY DEF CreateOrganizationWithOwner, AssignOwnerRole, Unblock, Create, Tick
<1>2. Tables'
  <2>1. CASE \E m \in Member : CreateOrganizationWithOwner(m)
    BY <2>1 DEF IInv, Tables, CreateOrganizationWithOwner
  <2>2. CASE \E m \in Member : AssignOwnerRole(m)
    BY <2>2 DEF IInv, Tables, AssignOwnerRole
  <2>3. CASE \E m \in Member : Unblock(m)
    BY <2>3 DEF IInv, Tables, Unblock
  <2>4. CASE \E m \in Member, roles \in SUBSET {"Owner"} : Create(m, roles)
    BY <2>4 DEF IInv, Tables, Create
  <2>5. CASE Tick
    BY <2>5, TimeAssumption DEF IInv, Tables, Tick, tables
  <2> QED
    BY <2>1, <2>2, <2>3, <2>4, <2>5
<1>3. used \subseteq used' /\ owner \subseteq owner'
  BY DEF IInv, Tables, CreateOrganizationWithOwner, AssignOwnerRole, Unblock, Create, Tick, tables
<1>4. ASSUME NEW c \in Conn PROVE conn[c].granted \subseteq members' \ owner'
  <2>1. /\ conn[c].granted \subseteq members \ owner /\ members \subseteq used
        /\ \A m \in conn[c].granted : m \in Member /\ lock[m] = c
    BY DEF IInv, Tables, Sound, Locks, CallType
  <2>2. /\ members \subseteq members' /\ used \subseteq Member
        /\ \A m \in Member : m \in owner' \ owner => m \notin used \/ lock[m] = None
    BY DEF IInv, Tables, CreateOrganizationWithOwner, AssignOwnerRole, Unblock, Create, Tick, tables
  <2> QED
    BY <2>1, <2>2, NoneAssumption
<1>5. ASSUME NEW c \in Conn PROVE Sound(c)'
  BY <1>0, <1>1, <1>3, <1>4, SameCall, Undisturbed
<1> QED
  BY <1>2, <1>5 DEF IInv

(* A call begins: it holds nothing, and waits for nobody but Owners.        *)
LEMMA Begins ==
    ASSUME IInv, NEW c \in Conn, NEW r \in CallType, conn[c].step = "idle",
           UNCHANGED <<used, members, owner, status, until, now, lock, calls>>,
           conn' = [conn EXCEPT ![c] = r],
           r.step \in {"locking", "granting"}, r.m \in members, r.at = now,
           r.todo \subseteq owner, r.got = {}, r.granted = {}, r.revoked = {},
           r.kind \in (calls \cup {"escalate"}) \ {"none"}, r.kind = "escalate" => "block" \in calls /\ r.todo = {},
           r.kind \in {"block", "escalate"} => r.end = Never,
           r.kind = "suspend" => r.end \in 1 .. MaxTime,
           r.step = "granting" => r.kind = "transfer" /\ r.todo = {},
           r.kind \in {"block", "suspend", "delete"} /\ ~r.sawOwner => r.todo = {},
           r.kind = "transfer" => r.to \in Member /\ r.m # r.to
    PROVE  IInv'
<1>0. now \in Nat
  BY Clock
<1>1. conn'[c] = r /\ members \subseteq used
  BY DEF IInv, Tables
<1>2. Tables'
  BY DEF IInv, Tables
<1>3. ASSUME NEW d \in Conn, d # c PROVE Sound(d)'
  <2>1. conn[d].granted \subseteq members \ owner /\ conn'[d] = conn[d]
    BY <1>3 DEF IInv, Sound, Locks, Tables
  <2> QED
    BY <1>0, <1>3, <2>1, SameCall, Undisturbed
<1>4. Sound(c)'
  <2>1. Stage(c)'
    BY <1>1 DEF Stage
  <2>2. \A k \in Member : lock[k] # c
    BY DEF IInv, Sound, Stage, Locks
  <2>3. Locks(c)'
    BY <1>1, <2>2 DEF Locks
  <2> QED
    BY <1>0, <1>1, <2>1, <2>3 DEF Sound
<1> QED
  BY <1>2, <1>3, <1>4 DEF IInv

LEMMA BeginStep ==
    ASSUME IInv, NEW c \in Conn, NEW m \in Member,
           \/ \E kind \in {"block", "escalate", "delete"} : Begin(c, kind, m, Never)
           \/ \E end \in 1 .. MaxTime : Begin(c, "suspend", m, end)
           \/ BeginUnassignOwnerRole(c, m)
           \/ \E to \in Member : BeginTransfer(c, m, to)
    PROVE  IInv'
<1>1. now \in Nat /\ owner \subseteq members /\ owner \subseteq Member
  BY Clock DEF IInv, Tables
<1>2. ASSUME NEW kind \in {"block", "escalate", "delete", "suspend"}, NEW end \in Nat \cup {Never}, Begin(c, kind, m, end),
             kind = "suspend" => end \in 1 .. MaxTime, kind # "suspend" => end = Never
      PROVE  IInv'
  <2> DEFINE saw == m \in owner
             todo == IF m \in owner /\ kind # "escalate" THEN owner ELSE {}
             r == [Idle EXCEPT !.step = "locking", !.kind = kind, !.m = m, !.end = end, !.at = now,
                               !.sawOwner = saw, !.todo = todo]
  <2>1. r \in CallType
    <3>1. saw \in BOOLEAN /\ todo \in SUBSET Member
      BY <1>1
    <3> HIDE DEF saw, todo
    <3> QED
      BY <1>1, <3>1, IdleType DEF CallType, Steps, Kinds
  <2>2. /\ r.step = "locking" /\ r.kind = kind /\ r.m = m /\ r.end = end /\ r.at = now
        /\ r.todo = todo /\ r.got = {} /\ r.granted = {} /\ r.revoked = {}
        /\ ~r.sawOwner => r.todo = {}
    BY DEF Idle
  <2>3. conn' = [conn EXCEPT ![c] = r] /\ conn[c].step = "idle" /\ m \in members
    BY <1>2 DEF Begin, TargetMatches
  <2>4. UNCHANGED <<used, members, owner, status, until, now, lock, calls>>
    BY <1>2 DEF Begin, tables
  <2>5. kind \in calls \cup {"escalate"} /\ (kind = "escalate" => "block" \in calls)
    <3>1. "escalate" \notin calls
      BY MixesAssumption DEF IInv, Tables
    <3> QED
      BY <1>2, <3>1 DEF Begin
  <2>6. todo \subseteq owner /\ (kind = "escalate" => todo = {})
    OBVIOUS
  <2> HIDE DEF r, todo
  <2> QED
    BY <1>2, <2>1, <2>2, <2>3, <2>4, <2>5, <2>6, Begins
<1>3. CASE BeginUnassignOwnerRole(c, m)
  <2> DEFINE r == [Idle EXCEPT !.step = "locking", !.kind = "unassign", !.m = m, !.at = now,
                               !.sawOwner = TRUE, !.todo = owner]
  <2>1. r \in CallType
    BY <1>1, IdleType DEF CallType, Steps, Kinds
  <2>2. /\ r.step = "locking" /\ r.kind = "unassign" /\ r.m = m /\ r.at = now /\ r.todo = owner
        /\ r.got = {} /\ r.granted = {} /\ r.revoked = {}
    BY DEF Idle
  <2>3. conn' = [conn EXCEPT ![c] = r] /\ conn[c].step = "idle" /\ m \in owner /\ "unassign" \in calls
    BY <1>3 DEF BeginUnassignOwnerRole
  <2>4. UNCHANGED <<used, members, owner, status, until, now, lock, calls>>
    BY <1>3 DEF BeginUnassignOwnerRole, tables
  <2> HIDE DEF r
  <2> QED
    BY <1>1, <2>1, <2>2, <2>3, <2>4, Begins
<1>4. ASSUME NEW to \in Member, BeginTransfer(c, m, to) PROVE IInv'
  <2> DEFINE r == [Idle EXCEPT !.step = "granting", !.kind = "transfer", !.m = m, !.to = to, !.at = now]
  <2>1. r \in CallType
    BY <1>1, IdleType DEF CallType, Steps, Kinds
  <2>2. /\ r.step = "granting" /\ r.kind = "transfer" /\ r.m = m /\ r.to = to /\ r.at = now /\ r.todo = {}
        /\ r.got = {} /\ r.granted = {} /\ r.revoked = {}
    BY DEF Idle
  <2>3. conn' = [conn EXCEPT ![c] = r] /\ conn[c].step = "idle" /\ m \in members /\ m # to /\ "transfer" \in calls
    BY <1>4 DEF BeginTransfer
  <2>4. UNCHANGED <<used, members, owner, status, until, now, lock, calls>>
    BY <1>4 DEF BeginTransfer, tables
  <2> HIDE DEF r
  <2> QED
    BY <1>1, <2>1, <2>2, <2>3, <2>4, Begins
<1>5. ASSUME NEW kind \in {"block", "escalate", "delete"}, Begin(c, kind, m, Never) PROVE IInv'
  BY <1>2, <1>5
<1>6. ASSUME NEW end \in 1 .. MaxTime, Begin(c, "suspend", m, end) PROVE IInv'
  BY <1>2, <1>6, TimeAssumption
<1> QED
  BY <1>3, <1>4, <1>5, <1>6

(* The next row is locked.                                                 *)
LEMMA LockStep ==
    ASSUME IInv, NEW c \in Conn, NEW m \in Member, LockHolder(c, m)
    PROVE  IInv'
<1> DEFINE r == [conn[c] EXCEPT !.todo = @ \ {m}, !.got = @ \cup {m}]
<1>1. conn \in [Conn -> CallType] /\ lock \in [Member -> Conn \cup {None}] /\ now \in Nat
  BY Clock DEF IInv, Tables
<1>2. r \in CallType
  BY <1>1 DEF CallType
<1>3. conn' = [conn EXCEPT ![c] = r] /\ lock' = [lock EXCEPT ![m] = c]
  BY <1>1 DEF LockHolder
<1>4. UNCHANGED <<used, members, owner, status, until, now, calls>>
  BY DEF LockHolder, tables
<1>5. conn[c].step = "locking" /\ m \in conn[c].todo /\ lock[m] \in {None, c} /\ \A k \in conn[c].todo : m <= k
  BY DEF LockHolder, NextToLock, CanLock
<1>6. Tables'
  BY <1>1, <1>2, <1>3, <1>4 DEF IInv, Tables
<1>7. ASSUME NEW d \in Conn, d # c PROVE Sound(d)'
  <2>1. conn[d].granted \subseteq members \ owner /\ conn'[d] = conn[d]
    BY <1>1, <1>3, <1>7 DEF IInv, Sound, Locks
  <2>2. \A k \in Member : lock'[k] = d <=> lock[k] = d
    BY <1>1, <1>3, <1>5, <1>7, NoneAssumption
  <2> QED
    BY <1>1, <1>4, <1>6, <1>7, <2>1, <2>2, SameCall, Undisturbed
<1>8. Sound(c)'
  <2>1. Stage(c) /\ Locks(c) /\ conn[c].at <= now
    BY DEF IInv, Sound
  <2>2. conn'[c] = r /\ conn[c] \in CallType
    BY <1>1, <1>3
  <2>3. /\ r.step = "locking" /\ r.kind = conn[c].kind /\ r.m = conn[c].m /\ r.to = conn[c].to
        /\ r.end = conn[c].end /\ r.at = conn[c].at /\ r.todo = conn[c].todo \ {m} /\ r.got = conn[c].got \cup {m}
        /\ r.granted = conn[c].granted /\ r.revoked = conn[c].revoked /\ r.sawOwner = conn[c].sawOwner
    BY <1>5, <2>2 DEF CallType
  <2> HIDE DEF r
  <2>4. Stage(c)'
    BY <1>4, <1>5, <2>1, <2>2, <2>3 DEF Stage
  <2>5. \A k \in conn[c].todo \ {m} : m < k
    <3>1. conn[c].todo \subseteq Nat /\ m \in Nat
      BY <2>2, MembersAreOrdered DEF CallType
    <3> QED
      BY <1>5, <3>1
  <2>6. Locks(c)'
    BY <1>1, <1>3, <1>4, <1>5, <2>1, <2>2, <2>3, <2>5 DEF Locks
  <2> QED
    BY <1>4, <2>1, <2>2, <2>3, <2>4, <2>6 DEF Sound
<1> QED
  BY <1>6, <1>7, <1>8 DEF IInv

(* A call ends: its locks go, and `gone` is out of every list.              *)
LEMMA EndStep ==
    ASSUME IInv, NEW c \in Conn, NEW gone \in SUBSET Member, EndCall(c, gone),
           UNCHANGED <<used, now, calls>>,
           members' \subseteq members, owner' \subseteq members',
           status' \in [Member -> {"active", "blocked"}], until' \in [Member -> Nat \cup {Never}],
           \A m \in Member \ members' : status'[m] = "active" /\ until'[m] = Never,
           owner \ gone \subseteq owner',
           owner' \ owner \subseteq conn[c].granted,
           \A m \in gone \cup (members \ members') : lock[m] \in {None, c}
    PROVE  IInv'
<1>1. now \in Nat /\ lock \in [Member -> Conn \cup {None}]
  BY Clock DEF IInv, Tables
<1>2. Tables'
  BY Ends DEF IInv, Tables
<1>3. ASSUME NEW d \in Conn, d # c PROVE Sound(d)'
  <2>1. /\ \A m \in Member : lock[m] = d <=> m \in conn[d].got \cup conn[d].granted
        /\ \A m \in Member : lock[m] = c <=> m \in conn[c].got \cup conn[c].granted
        /\ conn[d].granted \subseteq members \ owner /\ members \subseteq Member
        /\ conn[c].granted \subseteq Member
    BY DEF IInv, Sound, Locks, Tables, CallType
  <2>2. gone \cap (conn[d].got \cup conn[d].granted) = {}
    BY <1>3, <2>1, NoneAssumption
  <2>3. conn[d].granted \subseteq members' \ owner'
    BY <1>3, <2>1, NoneAssumption
  <2>4. Keeps(d, gone) /\ \A m \in Member : lock'[m] = d <=> lock[m] = d
    BY <1>3, Ends
  <2> QED
    BY <1>1, <1>3, <2>2, <2>3, <2>4, Undisturbed
<1>4. Sound(c)'
  BY <1>1, Ends, IdleSound
<1> QED
  BY <1>2, <1>3, <1>4 DEF IInv

(* Nothing is written, and the call ends.                                   *)
LEMMA GivesUpStep ==
    ASSUME IInv, NEW c \in Conn, EndCall(c, {}), UNCHANGED <<tables, now, calls>>
    PROVE  IInv'
BY EndStep DEF IInv, Tables, tables

LEMMA WriteStep ==
    ASSUME IInv, NEW c \in Conn, WriteBlock(c) \/ WriteDelete(c) \/ WriteUnassign(c)
    PROVE  IInv'
<1> DEFINE m == conn[c].m
<1>1. m \in Member /\ conn[c].end \in Nat \cup {Never} /\ owner \subseteq members /\ members \subseteq used
  BY DEF WriteBlock, WriteDelete, WriteUnassign, AllLocked, IInv, Tables, Sound, Stage, CallType
<1>2. m \in conn[c].got => lock[m] = c
  BY <1>1 DEF IInv, Sound, Locks
<1>3. CASE WriteBlock(c)
  <2>1. UNCHANGED <<used, members, owner, now, calls>> /\ EndCall(c, {})
    BY <1>3 DEF WriteBlock
  <2>2. \/ UNCHANGED <<status, until>>
        \/ /\ m \in members
           /\ status' = [status EXCEPT ![m] = "blocked"] /\ until' = [until EXCEPT ![m] = conn[c].end]
    BY <1>3 DEF WriteBlock, TargetMatches
  <2> HIDE DEF m
  <2>3. /\ status' \in [Member -> {"active", "blocked"}] /\ until' \in [Member -> Nat \cup {Never}]
        /\ \A k \in Member \ members' : status'[k] = "active" /\ until'[k] = Never
    BY <1>1, <2>1, <2>2 DEF IInv, Tables
  <2> QED
    BY <1>1, <2>1, <2>3, EndStep
<1>4. CASE WriteDelete(c)
  <2>1. CASE m \in members /\ MayDelete(c)
    <3>1. /\ members' = members \ {m} /\ owner' = owner \ {m} /\ UNCHANGED <<used, now, calls>>
          /\ status' = [status EXCEPT ![m] = "active"] /\ until' = [until EXCEPT ![m] = Never]
          /\ lock[m] \in {None, c} /\ EndCall(c, {m})
      BY <1>4, <2>1 DEF WriteDelete, CanLock
    <3> HIDE DEF m
    <3>2. /\ status' \in [Member -> {"active", "blocked"}] /\ until' \in [Member -> Nat \cup {Never}]
          /\ \A k \in Member \ members' : status'[k] = "active" /\ until'[k] = Never
      BY <1>1, <3>1 DEF IInv, Tables
    <3> QED
      BY <1>1, <3>1, <3>2, EndStep
  <2>2. CASE ~(m \in members /\ MayDelete(c))
    BY <1>4, <2>2, GivesUpStep DEF WriteDelete, tables
  <2> QED
    BY <2>1, <2>2
<1>5. CASE WriteUnassign(c)
  <2>1. CASE m \in conn[c].got /\ MayStopBeingOwner(c)
    <3>1. owner' = owner \ {m} /\ EndCall(c, {m}) /\ UNCHANGED <<used, members, status, until, now, calls>>
      BY <1>5, <2>1 DEF WriteUnassign
    <3> HIDE DEF m
    <3> QED
      BY <1>1, <1>2, <2>1, <3>1, EndStep DEF IInv, Tables
  <2>2. CASE ~(m \in conn[c].got /\ MayStopBeingOwner(c))
    BY <1>5, <2>2, GivesUpStep DEF WriteUnassign, tables
  <2> QED
    BY <2>1, <2>2
<1> QED
  BY <1>3, <1>4, <1>5

-----------------------------------------------------------------------------
(* A transfer moves on within its transaction.                             *)
LEMMA Moves ==
    ASSUME IInv, NEW c \in Conn, NEW r \in CallType, conn' = [conn EXCEPT ![c] = r],
           UNCHANGED <<tables, now, calls>>,
           lock' \in [Member -> Conn \cup {None}],
           \A d \in Conn \ {c}, m \in Member : lock'[m] = d <=> lock[m] = d,
           Stage(c)', Locks(c)', r.at = conn[c].at
    PROVE  IInv'
<1>1. conn \in [Conn -> CallType] /\ now \in Nat
  BY Clock DEF IInv, Tables
<1>2. Tables'
  BY <1>1 DEF IInv, Tables, tables
<1>3. ASSUME NEW d \in Conn, d # c PROVE Sound(d)'
  <2>1. conn[d].granted \subseteq members \ owner /\ conn'[d] = conn[d]
    BY <1>1, <1>3 DEF IInv, Sound, Locks
  <2> QED
    BY <1>1, <1>3, <2>1, SameCall, Undisturbed DEF tables
<1>4. Sound(c)'
  BY <1>1 DEF IInv, Sound
<1> QED
  BY <1>2, <1>3, <1>4 DEF IInv

LEMMA GrantStep ==
    ASSUME IInv, NEW c \in Conn, TransferGrant(c)
    PROVE  IInv'
<1> DEFINE to == conn[c].to
<1>1. /\ conn \in [Conn -> CallType] /\ conn[c] \in CallType /\ lock \in [Member -> Conn \cup {None}]
      /\ Stage(c) /\ Locks(c) /\ conn[c].step = "granting" /\ conn[c].kind = "transfer"
    BY DEF TransferGrant, IInv, Tables, Sound, Stage
<1>2. to \in Member /\ conn[c].todo = {} /\ conn[c].got = {} /\ conn[c].granted = {} /\ conn[c].revoked = {}
  BY <1>1 DEF Stage
<1>3. UNCHANGED <<tables, now, calls>>
  BY DEF TransferGrant
<1>4. CASE to \in owner /\ conn' = [conn EXCEPT ![c].step = "revoking"] /\ UNCHANGED lock
  <2> DEFINE r == [conn[c] EXCEPT !.step = "revoking"]
  <2>1. r \in CallType /\ conn' = [conn EXCEPT ![c] = r] /\ conn'[c] = r
    BY <1>1, <1>4 DEF CallType, Steps
  <2>2. /\ r.step = "revoking" /\ r.kind = conn[c].kind /\ r.m = conn[c].m /\ r.to = conn[c].to
        /\ r.at = conn[c].at /\ r.todo = {} /\ r.got = {} /\ r.granted = {} /\ r.revoked = {}
    BY <1>1, <1>2 DEF CallType
  <2> HIDE DEF r
  <2>3. Stage(c)'
    BY <1>1, <1>3, <2>1, <2>2 DEF Stage, tables
  <2>4. Locks(c)'
    BY <1>1, <1>2, <1>3, <1>4, <2>1, <2>2 DEF Locks, tables
  <2> QED
    BY <1>1, <1>3, <1>4, <2>1, <2>2, <2>3, <2>4, Moves
<1>5. CASE /\ to \in members \ owner /\ lock[to] = None /\ lock' = [lock EXCEPT ![to] = c]
           /\ conn' = [conn EXCEPT ![c].step = "revoking", ![c].granted = {to}]
  <2> DEFINE r == [conn[c] EXCEPT !.step = "revoking", !.granted = {to}]
  <2>1. r \in CallType /\ conn' = [conn EXCEPT ![c] = r] /\ conn'[c] = r
    BY <1>1, <1>2, <1>5 DEF CallType, Steps
  <2>2. /\ r.step = "revoking" /\ r.kind = conn[c].kind /\ r.m = conn[c].m /\ r.to = conn[c].to
        /\ r.at = conn[c].at /\ r.todo = {} /\ r.got = {} /\ r.granted = {to} /\ r.revoked = {}
    BY <1>1, <1>2 DEF CallType
  <2> HIDE DEF r
  <2>3. Stage(c)'
    BY <1>1, <1>3, <2>1, <2>2 DEF Stage, tables
  <2>4. lock' \in [Member -> Conn \cup {None}] /\ \A d \in Conn \ {c}, m \in Member : lock'[m] = d <=> lock[m] = d
    BY <1>1, <1>2, <1>5, NoneAssumption
  <2>5. Locks(c)'
    BY <1>1, <1>2, <1>3, <1>5, <2>1, <2>2 DEF Locks, tables
  <2> QED
    BY <1>3, <2>1, <2>2, <2>3, <2>4, <2>5, Moves
<1>6. CASE EndCall(c, {})
  BY <1>3, <1>6, GivesUpStep
<1> QED
  BY <1>4, <1>5, <1>6 DEF TransferGrant

LEMMA UnassignStep ==
    ASSUME IInv, NEW c \in Conn, NEW keep \in BOOLEAN, TransferUnassign(c, keep)
    PROVE  IInv'
<1> DEFINE seen == owner \cup conn[c].granted
<1>1. /\ conn \in [Conn -> CallType] /\ conn[c] \in CallType /\ lock \in [Member -> Conn \cup {None}]
      /\ Stage(c) /\ Locks(c) /\ conn[c].step = "revoking" /\ conn[c].kind = "transfer"
      /\ owner \subseteq Member
    BY DEF TransferUnassign, IInv, Tables, Sound, Stage
<1>2. conn[c].todo = {} /\ conn[c].got = {} /\ conn[c].revoked = {}
  BY <1>1 DEF Stage
<1>3. UNCHANGED <<tables, now, calls, lock>>
  BY DEF TransferUnassign
<1>4. PICK r \in CallType :
         /\ conn' = [conn EXCEPT ![c] = r]
         /\ r.step \in {"commit", "locking"} /\ r.kind = conn[c].kind /\ r.m = conn[c].m /\ r.to = conn[c].to
         /\ r.at = conn[c].at /\ r.todo \subseteq seen /\ (r.step = "commit" => r.todo = {})
         /\ r.got = {} /\ r.granted = conn[c].granted /\ r.revoked = {}
  <2>1. CASE keep \/ conn[c].m \notin seen
    <3> DEFINE r == [conn[c] EXCEPT !.step = "commit"]
    <3>1. r \in CallType /\ conn' = [conn EXCEPT ![c] = r]
      BY <1>1, <2>1 DEF CallType, Steps, TransferUnassign
    <3>2. /\ r.step = "commit" /\ r.kind = conn[c].kind /\ r.m = conn[c].m /\ r.to = conn[c].to
          /\ r.at = conn[c].at /\ r.todo = {} /\ r.got = {} /\ r.granted = conn[c].granted /\ r.revoked = {}
      BY <1>1, <1>2 DEF CallType
    <3> HIDE DEF r
    <3> QED
      BY <3>1, <3>2
  <2>2. CASE ~(keep \/ conn[c].m \notin seen)
    <3> DEFINE r == [conn[c] EXCEPT !.step = "locking", !.sawOwner = TRUE, !.todo = seen]
    <3>1. r \in CallType /\ conn' = [conn EXCEPT ![c] = r]
      BY <1>1, <2>2 DEF CallType, Steps, TransferUnassign
    <3>2. /\ r.step = "locking" /\ r.kind = conn[c].kind /\ r.m = conn[c].m /\ r.to = conn[c].to
          /\ r.at = conn[c].at /\ r.todo = seen /\ r.got = {} /\ r.granted = conn[c].granted /\ r.revoked = {}
      BY <1>1, <1>2 DEF CallType
    <3> HIDE DEF r
    <3> QED
      BY <3>1, <3>2
  <2> QED
    BY <2>1, <2>2
<1>5. conn'[c] = r
  BY <1>1, <1>4
<1>6. Stage(c)'
  BY <1>1, <1>3, <1>4, <1>5 DEF Stage, tables
<1>7. Locks(c)'
  BY <1>1, <1>2, <1>3, <1>4, <1>5 DEF Locks, tables
<1> QED
  BY <1>1, <1>3, <1>4, <1>6, <1>7, Moves

(* More than one row is locked, so one besides the target.                  *)
LEMMA NotAlone ==
    ASSUME NEW T, NEW m \in T, Cardinality(T) > 1
    PROVE  \E k \in T : k # m
<1>1. Cardinality({m}) = 1
  BY FS_Singleton
<1>2. T # {m}
  BY <1>1
<1> QED
  BY <1>2

LEMMA RevokeStep ==
    ASSUME IInv, NEW c \in Conn, TransferRevoke(c)
    PROVE  IInv'
<1>1. /\ conn \in [Conn -> CallType] /\ conn[c] \in CallType /\ lock \in [Member -> Conn \cup {None}]
      /\ Stage(c) /\ Locks(c) /\ conn[c].step = "locking" /\ conn[c].kind = "transfer" /\ conn[c].todo = {}
    BY DEF TransferRevoke, AllLocked, IInv, Tables, Sound
<1>2. conn[c].revoked = {} /\ conn[c].m \in Member \cup {None}
  BY <1>1 DEF Stage, CallType
<1>3. UNCHANGED <<tables, now, calls>>
  BY DEF TransferRevoke
<1>4. CASE EndCall(c, {})
  BY <1>3, <1>4, GivesUpStep
<1>5. CASE ~EndCall(c, {})
  <2>1. PICK r \in CallType :
           /\ conn' = [conn EXCEPT ![c] = r] /\ lock' = lock
           /\ r.step = "commit" /\ r.kind = conn[c].kind /\ r.m = conn[c].m /\ r.to = conn[c].to
           /\ r.at = conn[c].at /\ r.todo = {} /\ r.got = conn[c].got /\ r.granted = conn[c].granted
           /\ r.revoked # {} => /\ r.revoked = {conn[c].m} /\ conn[c].m \in conn[c].got
                                /\ \E k \in conn[c].got : k # conn[c].m
    <3>1. CASE conn[c].m \in conn[c].got
      <4> DEFINE r == [conn[c] EXCEPT !.step = "commit", !.revoked = {conn[c].m}]
      <4>1. MayStopBeingOwner(c) /\ lock' = lock
        BY <1>5, <3>1 DEF TransferRevoke
      <4>2. r \in CallType /\ conn' = [conn EXCEPT ![c] = r]
        BY <1>1, <3>1, <4>1 DEF CallType, Steps, TransferRevoke
      <4>3. /\ r.step = "commit" /\ r.kind = conn[c].kind /\ r.m = conn[c].m /\ r.to = conn[c].to
            /\ r.at = conn[c].at /\ r.todo = {} /\ r.got = conn[c].got /\ r.granted = conn[c].granted
            /\ r.revoked = {conn[c].m}
        BY <1>1 DEF CallType
      <4>4. \E k \in conn[c].got : k # conn[c].m
        BY <3>1, <4>1, NotAlone DEF MayStopBeingOwner
      <4> HIDE DEF r
      <4> QED
        BY <3>1, <4>1, <4>2, <4>3, <4>4
    <3>2. CASE conn[c].m \notin conn[c].got
      <4> DEFINE r == [conn[c] EXCEPT !.step = "commit"]
      <4>1. r \in CallType /\ conn' = [conn EXCEPT ![c] = r] /\ lock' = lock
        BY <1>1, <3>2 DEF CallType, Steps, TransferRevoke
      <4>2. /\ r.step = "commit" /\ r.kind = conn[c].kind /\ r.m = conn[c].m /\ r.to = conn[c].to
            /\ r.at = conn[c].at /\ r.todo = {} /\ r.got = conn[c].got /\ r.granted = conn[c].granted
            /\ r.revoked = {}
        BY <1>1, <1>2 DEF CallType
      <4> HIDE DEF r
      <4> QED
        BY <4>1, <4>2
    <3> QED
      BY <3>1, <3>2
  <2>2. conn'[c] = r
    BY <1>1, <2>1
  <2>3. Stage(c)'
    BY <1>1, <1>3, <2>1, <2>2 DEF Stage, tables
  <2>4. Locks(c)'
    BY <1>1, <1>3, <2>1, <2>2 DEF Locks, tables
  <2> QED
    BY <1>1, <1>3, <2>1, <2>3, <2>4, Moves
<1> QED
  BY <1>4, <1>5

LEMMA CommitStep ==
    ASSUME IInv, NEW c \in Conn, TransferCommit(c)
    PROVE  IInv'
<1>1. /\ owner' = (owner \cup conn[c].granted) \ conn[c].revoked /\ EndCall(c, conn[c].revoked)
      /\ UNCHANGED <<used, members, status, until, now, calls>>
  BY DEF TransferCommit
<1>2. /\ conn[c] \in CallType /\ conn[c].granted \subseteq members /\ owner \subseteq members
      /\ \A m \in conn[c].revoked : lock[m] = c
  BY DEF IInv, Tables, Sound, Stage, Locks, CallType
<1>3. conn[c].revoked \subseteq Member
  BY <1>2 DEF CallType
<1> QED
  BY <1>1, <1>2, <1>3, EndStep DEF IInv, Tables

-----------------------------------------------------------------------------
LEMMA InitIsSound == Init => IInv
<1> SUFFICES ASSUME Init PROVE IInv
  OBVIOUS
<1>1. Tables
  BY IdleType, TimeAssumption, NeverAssumption DEF Init, Tables
<1>2. ASSUME NEW c \in Conn PROVE Sound(c)
  BY <1>1, NoneAssumption DEF Init, Idle, Sound, Stage, Locks
<1> QED
  BY <1>1, <1>2 DEF IInv

LEMMA Inductive == IInv /\ [Next]_vars => IInv'
<1> SUFFICES ASSUME IInv, [Next]_vars PROVE IInv'
  OBVIOUS
<1>1. CASE UNCHANGED vars
  BY <1>1 DEF vars, IInv, Tables, Sound, Stage, Locks
<1>2. CASE Next
  BY <1>2, RowStep, BeginStep, LockStep, WriteStep, GrantStep, UnassignStep, RevokeStep, CommitStep DEF Next
<1> QED
  BY <1>1, <1>2

LEMMA AlwaysSound == Spec => []IInv
BY InitIsSound, Inductive, PTL DEF Spec

(* The tables and the locks keep their shape in every mix of calls: a row   *)
(* that a statement has in its list is locked by it.                        *)
THEOREM LocksAreKept == Spec => []TypeOK
<1>1. IInv => TypeOK
  <2> SUFFICES ASSUME IInv PROVE TypeOK
    OBVIOUS
  <2>1. ASSUME NEW c \in Conn
        PROVE  /\ conn[c].step \in Steps /\ conn[c].at <= now /\ conn[c].todo \cap conn[c].got = {}
               /\ \A m \in conn[c].got : lock[m] = c
    <3>1. conn[c] \in CallType /\ Locks(c) /\ conn[c].at <= now
      BY DEF IInv, Tables, Sound
    <3>2. conn[c].todo \cap conn[c].got = {}
      <4> SUFFICES ASSUME NEW k \in conn[c].todo, k \in conn[c].got PROVE FALSE
        OBVIOUS
      <4>1. k \in Nat /\ k < k
        BY <3>1, MembersAreOrdered DEF Locks, CallType
      <4> QED
        BY <4>1
    <3> QED
      BY <3>1, <3>2 DEF Locks, CallType
  <2> QED
    BY <2>1 DEF IInv, Tables, TypeOK
<1> QED
  BY <1>1, AlwaysSound, PTL

-----------------------------------------------------------------------------
(***************************************************************************)
(* The safe mixes.                                                         *)
(***************************************************************************)
(* A status read at an earlier time of the clock: what was active then is   *)
(* active now.                                                             *)
LEMMA StaysActive ==
    ASSUME Tables, NEW m \in Member, NEW t \in Nat, t <= now, EffectiveAt(m, t) = "active"
    PROVE  EffectiveAt(m, now) = "active"
<1>1. until[m] \in Nat \cup {Never} /\ now \in Nat /\ status[m] \in {"active", "blocked"}
  BY TimeAssumption DEF Tables
<1> QED
  BY <1>1, NeverAssumption DEF EffectiveAt

(* And when nothing in the mix lapses, what was read then is true now.      *)
LEMMA SameEffect ==
    ASSUME IInv, Calm, SafeMix(calls), NEW c \in Conn, conn[c].step # "idle",
           conn[c].kind \in {"block", "escalate", "delete", "unassign", "transfer"}
    PROVE  \A m \in Member : EffectiveAt(m, conn[c].at) = EffectiveAt(m, now)
<1>1. "tick" \notin calls \/ "suspend" \notin calls
  BY DEF IInv, Sound, Stage, SafeMix
<1>2. CASE "tick" \notin calls
  BY <1>2 DEF Calm
<1>3. CASE "suspend" \notin calls
  BY <1>3 DEF Calm, EffectiveAt
<1> QED
  BY <1>1, <1>2, <1>3

(* Where the role is given, nobody is sanctioned.                          *)
LEMMA AllActive ==
    ASSUME IInv, Calm, SafeMix(calls), calls \cap {"assign", "transfer"} # {}
    PROVE  \A m \in Member, t \in Nat : EffectiveAt(m, t) = "active"
BY DEF Calm, SafeMix, EffectiveAt

(* A sanction and a deletion grant nothing, and know their target.          *)
LEMMA NothingGranted ==
    ASSUME IInv, SafeMix(calls), NEW c \in Conn, conn[c].kind \in {"block", "suspend", "escalate", "delete"}
    PROVE  calls \cap {"assign", "transfer"} = {} /\ \A d \in Conn : conn[d].granted = {}
BY DEF IInv, Sound, Stage, SafeMix

LEMMA LeastNatural ==
    ASSUME NEW T \in SUBSET Nat, T # {}
    PROVE  \E n \in T : \A i \in T : ~(i < n)
<1> DEFINE Less == OpToRel(<, Nat)
<1>1. \A i, n \in Nat : i < n => <<i, n>> \in Less
  BY Zenon DEF OpToRel
<1>2. IsWellFoundedOn(Less, Nat)
  BY NatLessThanWellFounded, Zenon
<1> HIDE DEF Less
<1>3. PICK n \in T : \A i \in T : ~(<<i, n>> \in Less)
  BY <1>2, WFMin
<1> QED
  BY <1>1, <1>3

-----------------------------------------------------------------------------
(* Waiting always ends.                                                    *)
LEMMA NoCircle ==
    ASSUME IInv, Orderly(calls), \A c \in Conn : Listed(c), IsFiniteSet(Conn)
    PROVE  NobodyDeadlocks
<1> SUFFICES ASSUME NEW S \in SUBSET Conn, S # {},
                    \A c \in S : \E m \in Member : WaitsFor(c, m) /\ lock[m] \in S
             PROVE  FALSE
  BY DEF NobodyDeadlocks
<1> DEFINE Least(c, m) == conn[c].step = "locking" /\ NextToLock(c, m)
<1>0. /\ \A c \in Conn : Stage(c) /\ Locks(c) /\ conn[c] \in CallType
      /\ None \notin S /\ lock \in [Member -> Conn \cup {None}]
  BY NoneAssumption DEF IInv, Sound, Tables
(* Who holds a row and waits, waits for the next of its list.               *)
<1>1. ASSUME NEW d \in S, NEW k \in Member, lock[k] = d, NEW m \in Member, WaitsFor(d, m), lock[m] \in S
      PROVE  Least(d, m)
  <2>1. k \in conn[d].got \cup conn[d].granted
    BY <1>0, <1>1 DEF Locks
  <2>2. conn[d].step # "granting"
    BY <1>0, <2>1 DEF Stage
  <2>3. CASE AllLocked(d) /\ conn[d].kind \notin {"unassign", "transfer"} /\ m = conn[d].m
    <3>1. conn[d].kind \in {"block", "suspend", "escalate", "delete"}
      <4>1. conn[d].kind \in Kinds /\ conn[d].kind # "none"
        BY <1>0, <2>1, <2>3 DEF AllLocked, Stage, CallType
      <4> QED
        BY <2>3, <4>1 DEF Kinds
    <3>2. conn[d].granted = {} /\ conn[d].kind # "escalate" /\ conn[d].sawOwner
      BY <1>0, <2>1, <3>1 DEF Stage
    <3>3. /\ "transfer" \notin calls /\ \A x \in Conn : conn[x].granted = {}
      BY <1>0, <3>1, <3>2 DEF Stage, Orderly
    <3>4. m \in conn[d].got
      <4>1. m \in owner /\ m \in members
        BY <1>0, <1>1, <3>3 DEF Locks, IInv, Tables
      <4> QED
        BY <2>3, <3>1, <3>2, <4>1 DEF Listed, AllLocked
    <3>5. lock[m] = d
      BY <1>0, <3>4 DEF Locks
    <3> QED
      BY <1>1, <3>5 DEF WaitsFor, CanLock
  <2> QED
    BY <1>1, <2>2, <2>3 DEF WaitsFor
(* Whoever holds the next row of a list has it in its own list.             *)
<1>2. ASSUME NEW c \in S, NEW m \in Member, Least(c, m), WaitsFor(c, m), lock[m] \in S
      PROVE  lock[m] # c /\ m \in conn[lock[m]].got
  <2>1. lock[m] # c /\ lock[m] \in Conn
    BY <1>2 DEF WaitsFor, CanLock
  <2>2. m \in owner \cup conn[c].granted
    BY <1>0, <1>2 DEF NextToLock, Locks
  <2>3. m \in owner
    BY <1>0, <2>1, <2>2 DEF Locks
  <2> QED
    BY <1>0, <2>1, <2>3 DEF Locks
<1> DEFINE Waiting == {c \in S : \E m \in Member : Least(c, m) /\ WaitsFor(c, m) /\ lock[m] \in S}
           Row == [c \in Waiting |-> CHOOSE m \in Member : Least(c, m) /\ WaitsFor(c, m) /\ lock[m] \in S]
<1>3. ASSUME NEW c \in Waiting
      PROVE  Row[c] \in Member /\ Least(c, Row[c]) /\ WaitsFor(c, Row[c]) /\ lock[Row[c]] \in S
  BY <1>3
<1> HIDE DEF Row
(* The next one waits for a row of a larger id.                            *)
<1>4. ASSUME NEW c \in Waiting PROVE \E d \in Waiting : Row[c] < Row[d]
  <2>1. /\ Row[c] \in Member /\ Least(c, Row[c]) /\ WaitsFor(c, Row[c]) /\ lock[Row[c]] \in S
    BY <1>3
  <2> DEFINE d == lock[Row[c]]
  <2>2. d \in S /\ Row[c] \in conn[d].got
    BY <1>2, <2>1
  <2>3. d \in Waiting
    BY <1>1, <2>1, <2>2
  <2>4. Row[d] \in Member /\ Row[d] \in conn[d].todo
    BY <1>3, <2>3 DEF NextToLock
  <2>5. Row[c] < Row[d]
    BY <1>0, <2>2, <2>4 DEF Locks
  <2> QED
    BY <2>3, <2>5
<1>5. Waiting # {}
  <2>1. PICK c \in S, m \in Member : WaitsFor(c, m) /\ lock[m] \in S
    OBVIOUS
  <2>2. PICK k \in Member : WaitsFor(lock[m], k) /\ lock[k] \in S
    BY <2>1
  <2>3. Least(lock[m], k)
    BY <1>1, <2>1, <2>2
  <2> QED
    BY <2>1, <2>2, <2>3
<1>6. IsFiniteSet(Waiting) /\ \A c \in Waiting : Row[c] \in Nat
  <2>1. Waiting \subseteq Conn
    OBVIOUS
  <2> QED
    BY <1>3, <2>1, FS_Subset, MembersAreOrdered
<1> HIDE DEF Waiting, Least
(* Some one of them has the fewest with larger rows, but the next has fewer. *)
<1> DEFINE Above(c) == {d \in Waiting : Row[c] < Row[d]}
           Counts == {Cardinality(Above(c)) : c \in Waiting}
<1>7. ASSUME NEW c \in Waiting PROVE IsFiniteSet(Above(c)) /\ Cardinality(Above(c)) \in Nat
  <2>1. Above(c) \in SUBSET Waiting
    OBVIOUS
  <2>2. IsFiniteSet(Above(c))
    BY <1>6, <2>1, FS_Subset
  <2> QED
    BY <2>2, FS_CardinalityType
<1>8. Counts \subseteq Nat /\ Counts # {}
  BY <1>5, <1>7
<1>9. PICK n \in Counts : \A i \in Counts : ~(i < n)
  BY <1>8, LeastNatural
<1>10. PICK c \in Waiting : n = Cardinality(Above(c))
  BY <1>9
<1>11. PICK d \in Waiting : Row[c] < Row[d]
  BY <1>4, <1>10
<1>12. Above(d) \subseteq Above(c) /\ d \in Above(c) /\ d \notin Above(d)
  BY <1>6, <1>11
<1>13. Cardinality(Above(d)) < Cardinality(Above(c))
  <2>1. IsFiniteSet(Above(c)) /\ Cardinality(Above(d)) \in Nat /\ Cardinality(Above(c)) \in Nat
    BY <1>7
  <2>2. Cardinality(Above(d)) <= Cardinality(Above(c))
    BY <1>12, <2>1, FS_Subset
  <2>3. Cardinality(Above(d)) # Cardinality(Above(c))
    BY <1>12, <2>1, FS_Subset
  <2> QED
    BY <2>1, <2>2, <2>3
<1> QED
  <2>1. Cardinality(Above(d)) \in Counts
    BY <1>11
  <2>2. Cardinality(Above(d)) < n
    BY <1>10, <1>13
  <2> QED
    BY <1>9, <2>1, <2>2

-----------------------------------------------------------------------------
(***************************************************************************)
(* What the clock and the target of a call are worth, step by step.         *)
(***************************************************************************)
(* A call ends, begins or goes on; one that goes on keeps its target, its   *)
(* time and every Owner of its lists.                                      *)
GoesOn(c) ==
    /\ conn[c].step # "idle"
    /\ conn'[c].kind = conn[c].kind /\ conn'[c].m = conn[c].m /\ conn'[c].at = conn[c].at
    /\ conn[c].kind # "transfer" =>
          /\ conn'[c].sawOwner = conn[c].sawOwner
          /\ owner' \cap (conn[c].todo \cup conn[c].got) \subseteq conn'[c].todo \cup conn'[c].got

BeginsNow(c) ==
    /\ conn'[c].at = now /\ owner' = owner
    /\ conn'[c].kind \in {"block", "suspend", "delete"} =>
          /\ conn'[c].m \in owner => conn'[c].sawOwner
          /\ conn'[c].sawOwner => conn'[c].m \in conn'[c].todo

Moved(c) == conn'[c].kind = "none" \/ BeginsNow(c) \/ GoesOn(c)

LEMMA KeepsMoved ==
    ASSUME IInv, NEW c \in Conn, NEW gone \in SUBSET Member, Keeps(c, gone), gone \cap owner' = {}
    PROVE  Moved(c)
<1>1. CASE conn[c].step = "idle"
  BY <1>1 DEF Keeps, Moved, IInv, Sound, Stage
<1>2. CASE conn[c].step # "idle"
  BY <1>2 DEF Keeps, Moved, GoesOn
<1> QED
  BY <1>1, <1>2

LEMMA EndsMoved ==
    ASSUME IInv, NEW c \in Conn, NEW gone \in SUBSET Member, EndCall(c, gone), gone \cap owner' = {}
    PROVE  \A d \in Conn : Moved(d)
<1>1. conn'[c].kind = "none"
  BY Ends DEF Idle
<1> QED
  BY <1>1, Ends, KeepsMoved DEF Moved

LEMMA OneMoved ==
    ASSUME IInv, NEW c \in Conn, NEW r, conn' = [conn EXCEPT ![c] = r], Moved(c)
    PROVE  \A d \in Conn : Moved(d)
<1>1. ASSUME NEW d \in Conn, d # c PROVE Moved(d)
  <2>1. conn'[d] = conn[d]
    BY <1>1 DEF IInv, Tables
  <2> QED
    BY <2>1, SameCall, KeepsMoved
<1> QED
  BY <1>1

LEMMA CallsMove ==
    ASSUME IInv, Next
    PROVE  \A d \in Conn : Moved(d)
<1>0. conn \in [Conn -> CallType]
  BY DEF IInv, Tables
<1>1. CASE conn' = conn
  BY <1>1, SameCall, KeepsMoved
<1>2. ASSUME NEW c \in Conn, NEW m \in Member, NEW kind, NEW end, Begin(c, kind, m, end)
      PROVE  \A d \in Conn : Moved(d)
  <2> DEFINE saw == m \in owner
             todo == IF m \in owner /\ kind # "escalate" THEN owner ELSE {}
             r == [Idle EXCEPT !.step = "locking", !.kind = kind, !.m = m, !.end = end, !.at = now,
                               !.sawOwner = saw, !.todo = todo]
  <2>1. r.kind = kind /\ r.m = m /\ r.at = now /\ r.sawOwner = saw /\ r.todo = todo
    <3> HIDE DEF saw, todo
    <3> QED
      BY DEF Idle
  <2>2. conn' = [conn EXCEPT ![c] = r] /\ owner' = owner
    BY <1>2 DEF Begin, tables
  <2> HIDE DEF r
  <2>3. conn'[c] = r
    BY <1>0, <2>2
  <2>4. BeginsNow(c)
    BY <2>1, <2>2, <2>3 DEF BeginsNow
  <2> QED
    BY <2>2, <2>4, OneMoved DEF Moved
<1>3. ASSUME NEW c \in Conn, NEW m \in Member,
             BeginUnassignOwnerRole(c, m) \/ \E to \in Member : BeginTransfer(c, m, to)
      PROVE  \A d \in Conn : Moved(d)
  <2>1. PICK r : conn' = [conn EXCEPT ![c] = r] /\ r.kind \in {"unassign", "transfer"} /\ r.at = now
    <3>1. CASE BeginUnassignOwnerRole(c, m)
      <4> DEFINE r == [Idle EXCEPT !.step = "locking", !.kind = "unassign", !.m = m, !.at = now,
                                   !.sawOwner = TRUE, !.todo = owner]
      <4>1. conn' = [conn EXCEPT ![c] = r] /\ r.kind = "unassign" /\ r.at = now
        BY <3>1 DEF BeginUnassignOwnerRole, Idle
      <4> HIDE DEF r
      <4> QED
        BY <4>1
    <3>2. ASSUME NEW to \in Member, BeginTransfer(c, m, to)
          PROVE  \E r : conn' = [conn EXCEPT ![c] = r] /\ r.kind \in {"unassign", "transfer"} /\ r.at = now
      <4> DEFINE r == [Idle EXCEPT !.step = "granting", !.kind = "transfer", !.m = m, !.to = to, !.at = now]
      <4>1. conn' = [conn EXCEPT ![c] = r] /\ r.kind = "transfer" /\ r.at = now
        BY <3>2 DEF BeginTransfer, Idle
      <4> HIDE DEF r
      <4> QED
        BY <4>1
    <3> QED
      BY <1>3, <3>1, <3>2
  <2>2. owner' = owner
    BY <1>3 DEF BeginUnassignOwnerRole, BeginTransfer, tables
  <2> QED
    BY <1>0, <2>1, <2>2, OneMoved DEF Moved, BeginsNow
<1>4. ASSUME NEW c \in Conn, NEW m \in Member, LockHolder(c, m)
      PROVE  \A d \in Conn : Moved(d)
  <2> DEFINE r == [conn[c] EXCEPT !.todo = @ \ {m}, !.got = @ \cup {m}]
  <2>1. conn' = [conn EXCEPT ![c] = r] /\ conn'[c] = r /\ conn[c] \in CallType /\ conn[c].step = "locking"
    BY <1>0, <1>4 DEF LockHolder
  <2>2. /\ r.kind = conn[c].kind /\ r.m = conn[c].m /\ r.at = conn[c].at /\ r.sawOwner = conn[c].sawOwner
        /\ r.todo = conn[c].todo \ {m} /\ r.got = conn[c].got \cup {m}
    BY <2>1 DEF CallType
  <2> HIDE DEF r
  <2> QED
    BY <2>1, <2>2, OneMoved DEF Moved, GoesOn
<1>5. ASSUME NEW c \in Conn, WriteBlock(c) \/ WriteDelete(c) \/ WriteUnassign(c) \/ TransferCommit(c)
      PROVE  \A d \in Conn : Moved(d)
  <2>1. PICK gone : EndCall(c, gone) /\ gone \cap owner' = {} /\ gone \in {{}, {conn[c].m}, conn[c].revoked}
    BY <1>5 DEF WriteBlock, WriteDelete, WriteUnassign, TransferCommit
  <2>2. conn[c].step # "idle"
    BY <1>5 DEF WriteBlock, WriteDelete, WriteUnassign, TransferCommit, AllLocked
  <2>3. gone \in SUBSET Member
    BY <1>0, <2>1, <2>2 DEF IInv, Tables, Sound, Stage, CallType
  <2> QED
    BY <2>1, <2>3, EndsMoved
<1>6. ASSUME NEW c \in Conn, \/ TransferGrant(c) \/ TransferRevoke(c)
                             \/ \E keep \in BOOLEAN : TransferUnassign(c, keep)
      PROVE  \A d \in Conn : Moved(d)
  <2>1. CASE EndCall(c, {})
    BY <2>1, EndsMoved
  <2>2. CASE ~EndCall(c, {})
    <3>1. PICK r : conn' = [conn EXCEPT ![c] = r] /\ r.kind = conn[c].kind /\ r.m = conn[c].m /\ r.at = conn[c].at
      <4>1. CASE TransferGrant(c)
        <5>1. CASE conn' = [conn EXCEPT ![c].step = "revoking"]
          <6> DEFINE r == [conn[c] EXCEPT !.step = "revoking"]
          <6>1. conn' = [conn EXCEPT ![c] = r] /\ r.kind = conn[c].kind /\ r.m = conn[c].m /\ r.at = conn[c].at
            BY <1>0, <5>1 DEF CallType
          <6> HIDE DEF r
          <6> QED
            BY <6>1
        <5>2. CASE conn' = [conn EXCEPT ![c].step = "revoking", ![c].granted = {conn[c].to}]
          <6> DEFINE r == [conn[c] EXCEPT !.step = "revoking", !.granted = {conn[c].to}]
          <6>1. conn' = [conn EXCEPT ![c] = r] /\ r.kind = conn[c].kind /\ r.m = conn[c].m /\ r.at = conn[c].at
            BY <1>0, <5>2 DEF CallType
          <6> HIDE DEF r
          <6> QED
            BY <6>1
        <5> QED
          BY <2>2, <4>1, <5>1, <5>2 DEF TransferGrant
      <4>2. CASE TransferRevoke(c)
        <5> DEFINE r == IF conn[c].m \in conn[c].got
                        THEN [conn[c] EXCEPT !.step = "commit", !.revoked = {conn[c].m}]
                        ELSE [conn[c] EXCEPT !.step = "commit"]
        <5>1. conn' = [conn EXCEPT ![c] = r]
          BY <1>0, <2>2, <4>2 DEF TransferRevoke
        <5>2. r.kind = conn[c].kind /\ r.m = conn[c].m /\ r.at = conn[c].at
          BY <1>0 DEF CallType
        <5> HIDE DEF r
        <5> QED
          BY <5>1, <5>2
      <4>3. ASSUME NEW keep \in BOOLEAN, TransferUnassign(c, keep)
            PROVE  \E r : conn' = [conn EXCEPT ![c] = r] /\ r.kind = conn[c].kind /\ r.m = conn[c].m /\ r.at = conn[c].at
        <5> DEFINE seen == owner \cup conn[c].granted
                   r == IF keep \/ conn[c].m \notin seen
                        THEN [conn[c] EXCEPT !.step = "commit"]
                        ELSE [conn[c] EXCEPT !.step = "locking", !.sawOwner = TRUE, !.todo = seen]
        <5>1. conn' = [conn EXCEPT ![c] = r]
          BY <1>0, <4>3 DEF TransferUnassign
        <5>2. r.kind = conn[c].kind /\ r.m = conn[c].m /\ r.at = conn[c].at
          BY <1>0 DEF CallType
        <5> HIDE DEF r
        <5> QED
          BY <5>1, <5>2
      <4> QED
        BY <1>6, <4>1, <4>2, <4>3
    <3>2. conn[c].step # "idle" /\ conn[c].kind = "transfer"
      BY <1>6 DEF TransferGrant, TransferRevoke, TransferUnassign, AllLocked, IInv, Sound, Stage
    <3> QED
      BY <1>0, <3>1, <3>2, OneMoved DEF Moved, GoesOn
  <2> QED
    BY <2>1, <2>2
<1>7. ASSUME \/ \E m \in Member : CreateOrganizationWithOwner(m) \/ AssignOwnerRole(m) \/ Unblock(m)
             \/ \E m \in Member, roles \in SUBSET {"Owner"} : Create(m, roles)
             \/ Tick
      PROVE  conn' = conn
  BY <1>7 DEF CreateOrganizationWithOwner, AssignOwnerRole, Unblock, Create, Tick
<1>8. ASSUME NEW c \in Conn, NEW m \in Member,
             \/ Begin(c, "block", m, Never) \/ Begin(c, "escalate", m, Never) \/ Begin(c, "delete", m, Never)
             \/ \E end \in 1 .. MaxTime : Begin(c, "suspend", m, end)
      PROVE  \A d \in Conn : Moved(d)
  BY <1>2, <1>8
<1>9. CASE \E c \in Conn, m \in Member :
             \/ Begin(c, "block", m, Never)
             \/ Begin(c, "escalate", m, Never)
             \/ \E end \in 1 .. MaxTime : Begin(c, "suspend", m, end)
             \/ Begin(c, "delete", m, Never)
             \/ BeginUnassignOwnerRole(c, m)
             \/ LockHolder(c, m)
             \/ \E to \in Member : BeginTransfer(c, m, to)
  BY <1>3, <1>4, <1>8, <1>9
<1>10. CASE \E c \in Conn :
             \/ WriteBlock(c) \/ WriteDelete(c) \/ WriteUnassign(c)
             \/ TransferGrant(c) \/ TransferRevoke(c) \/ TransferCommit(c)
             \/ \E keep \in BOOLEAN : TransferUnassign(c, keep)
  BY <1>5, <1>6, <1>10
<1>11. CASE ~(conn' = conn)
  <2>1. /\ ~\E m \in Member : CreateOrganizationWithOwner(m) \/ AssignOwnerRole(m) \/ Unblock(m)
        /\ ~\E m \in Member, roles \in SUBSET {"Owner"} : Create(m, roles)
        /\ ~Tick
    BY <1>7, <1>11
  <2> QED
    BY <1>9, <1>10, <2>1 DEF Next
<1> QED
  BY <1>1, <1>11

(* Nobody gains the Owner role where neither assignOwnerRole nor            *)
(* transferOwnership is called, but with a row of its own.                  *)
LEMMA OwnersOnlyGo ==
    ASSUME IInv, Next, calls \cap {"assign", "transfer"} = {}
    PROVE  owner' \cap used \subseteq owner
<1>1. ASSUME NEW m \in Member, CreateOrganizationWithOwner(m) \/ \E roles \in SUBSET {"Owner"} : Create(m, roles)
      PROVE  owner' \cap used \subseteq owner
  BY <1>1 DEF CreateOrganizationWithOwner, Create
<1>2. ASSUME NEW c \in Conn, NEW m \in Member, LockHolder(c, m) \/ BeginUnassignOwnerRole(c, m)
      PROVE  owner' = owner
  BY <1>2 DEF LockHolder, BeginUnassignOwnerRole, tables
<1>3. ASSUME NEW c \in Conn, NEW m \in Member, NEW kind, NEW end, Begin(c, kind, m, end) PROVE owner' = owner
  BY <1>3 DEF Begin, tables
<1>4. ASSUME NEW c \in Conn, WriteBlock(c) \/ WriteDelete(c) \/ WriteUnassign(c) PROVE owner' \subseteq owner
  BY <1>4 DEF WriteBlock, WriteDelete, WriteUnassign
<1>5. ASSUME NEW c \in Conn PROVE conn[c].kind # "transfer"
  BY DEF IInv, Sound, Stage
<1>6. ASSUME NEW c \in Conn, NEW keep \in BOOLEAN,
             TransferGrant(c) \/ TransferUnassign(c, keep) \/ TransferRevoke(c) \/ TransferCommit(c)
      PROVE  FALSE
  BY <1>5, <1>6 DEF TransferGrant, TransferUnassign, TransferRevoke, TransferCommit, AllLocked, IInv, Sound, Stage
<1>7. ASSUME NEW m \in Member, Unblock(m) PROVE owner' = owner
  BY <1>7 DEF Unblock
<1>8. Tick => owner' = owner
  BY DEF Tick, tables
<1>9. ~(\E m \in Member : AssignOwnerRole(m)) /\ ~(\E c \in Conn, m \in Member, to \in Member : BeginTransfer(c, m, to))
  BY DEF AssignOwnerRole, BeginTransfer
<1>10. CASE \E c \in Conn, m \in Member :
             \/ Begin(c, "block", m, Never)
             \/ Begin(c, "escalate", m, Never)
             \/ \E end \in 1 .. MaxTime : Begin(c, "suspend", m, end)
             \/ Begin(c, "delete", m, Never)
             \/ BeginUnassignOwnerRole(c, m)
             \/ LockHolder(c, m)
  BY <1>2, <1>3, <1>10
<1>11. CASE \E c \in Conn :
             \/ WriteBlock(c) \/ WriteDelete(c) \/ WriteUnassign(c)
             \/ TransferGrant(c) \/ TransferRevoke(c) \/ TransferCommit(c)
             \/ \E keep \in BOOLEAN : TransferUnassign(c, keep)
  BY <1>4, <1>6, <1>11
<1>12. CASE \/ \E m \in Member : CreateOrganizationWithOwner(m)
            \/ \E m \in Member, roles \in SUBSET {"Owner"} : Create(m, roles)
            \/ \E m \in Member : Unblock(m)
            \/ Tick
  BY <1>1, <1>7, <1>8, <1>12
<1> QED
  BY <1>9, <1>10, <1>11, <1>12 DEF Next

(* Only these steps change what is in force of a sanction.                  *)
LEMMA WhoSanctions ==
    ASSUME Next
    PROVE  /\ calls' = calls
           /\ now' = now \/ Tick
           /\ \/ status' = status /\ until' = until
              \/ \E m \in Member : Unblock(m)
              \/ \E c \in Conn : WriteBlock(c) \/ WriteDelete(c)
<1>1. CASE \E c \in Conn, m \in Member :
             \/ Begin(c, "block", m, Never)
             \/ Begin(c, "escalate", m, Never)
             \/ \E end \in 1 .. MaxTime : Begin(c, "suspend", m, end)
             \/ Begin(c, "delete", m, Never)
             \/ BeginUnassignOwnerRole(c, m)
             \/ LockHolder(c, m)
             \/ \E to \in Member : BeginTransfer(c, m, to)
  <2> PICK c \in Conn, m \in Member :
             \/ Begin(c, "block", m, Never)
             \/ Begin(c, "escalate", m, Never)
             \/ \E end \in 1 .. MaxTime : Begin(c, "suspend", m, end)
             \/ Begin(c, "delete", m, Never)
             \/ BeginUnassignOwnerRole(c, m)
             \/ LockHolder(c, m)
             \/ \E to \in Member : BeginTransfer(c, m, to)
    BY <1>1
  <2> DEFINE Untouched == status' = status /\ until' = until /\ calls' = calls /\ now' = now
  <2>1. ASSUME NEW kind, NEW end, Begin(c, kind, m, end) PROVE Untouched
    BY <2>1 DEF Begin, tables
  <2>2. ASSUME NEW to \in Member, BeginTransfer(c, m, to) PROVE Untouched
    BY <2>2 DEF BeginTransfer, tables
  <2>3. BeginUnassignOwnerRole(c, m) => Untouched
    BY DEF BeginUnassignOwnerRole, tables
  <2>4. LockHolder(c, m) => Untouched
    BY DEF LockHolder, tables
  <2> HIDE DEF Untouched
  <2>5. Untouched
    BY <2>1, <2>2, <2>3, <2>4
  <2> QED
    BY <2>5 DEF Untouched
<1>2. CASE \E c \in Conn : WriteBlock(c) \/ WriteDelete(c)
  BY <1>2 DEF WriteBlock, WriteDelete
<1>3. CASE \E c \in Conn :
             \/ WriteUnassign(c) \/ TransferGrant(c) \/ TransferRevoke(c) \/ TransferCommit(c)
             \/ \E keep \in BOOLEAN : TransferUnassign(c, keep)
  BY <1>3 DEF WriteUnassign, TransferGrant, TransferRevoke, TransferCommit, TransferUnassign, tables
<1>4. CASE \/ \E m \in Member : CreateOrganizationWithOwner(m) \/ AssignOwnerRole(m) \/ Unblock(m)
           \/ \E m \in Member, roles \in SUBSET {"Owner"} : Create(m, roles)
  BY <1>4 DEF CreateOrganizationWithOwner, AssignOwnerRole, Unblock, Create
<1>5. CASE Tick
  BY <1>5 DEF Tick, tables
<1> QED
  BY <1>1, <1>2, <1>3, <1>4, <1>5 DEF Next

(* Where the role is only lost with the membership, who is left has it      *)
(* still, and who is gone stays gone.                                      *)
LEMMA OwnersStay ==
    ASSUME IInv, Next, calls \cap {"unassign", "transfer"} = {}
    PROVE  members' \cap used \subseteq members /\ owner \cap members' \subseteq owner'
<1>1. ASSUME NEW m \in Member, CreateOrganizationWithOwner(m) \/ \E roles \in SUBSET {"Owner"} : Create(m, roles)
      PROVE  members' \cap used \subseteq members /\ owner \cap members' \subseteq owner'
  BY <1>1 DEF CreateOrganizationWithOwner, Create, IInv, Tables
<1>2. ASSUME NEW c \in Conn, NEW m \in Member, LockHolder(c, m) PROVE owner' = owner /\ members' = members
  BY <1>2 DEF LockHolder, tables
<1>3. ASSUME NEW c \in Conn, NEW m \in Member, NEW kind, NEW end, Begin(c, kind, m, end)
      PROVE  owner' = owner /\ members' = members
  BY <1>3 DEF Begin, tables
<1>4. ASSUME NEW c \in Conn, WriteBlock(c) \/ WriteDelete(c)
      PROVE  members' \cap used \subseteq members /\ owner \cap members' \subseteq owner'
  BY <1>4 DEF WriteBlock, WriteDelete
<1>5. ASSUME NEW c \in Conn PROVE conn[c].kind \notin {"transfer", "unassign"}
  BY DEF IInv, Sound, Stage
<1>6. ASSUME NEW c \in Conn, NEW keep \in BOOLEAN,
             \/ TransferGrant(c) \/ TransferUnassign(c, keep) \/ TransferRevoke(c) \/ TransferCommit(c)
             \/ WriteUnassign(c)
      PROVE  FALSE
  BY <1>5, <1>6 DEF TransferGrant, TransferUnassign, TransferRevoke, TransferCommit, WriteUnassign, AllLocked,
                    IInv, Sound, Stage
<1>7. ASSUME NEW m \in Member, Unblock(m) \/ AssignOwnerRole(m) PROVE owner \subseteq owner' /\ members' = members
  BY <1>7 DEF Unblock, AssignOwnerRole
<1>8. Tick => owner' = owner /\ members' = members
  BY DEF Tick, tables
<1>9. /\ ~(\E c \in Conn, m \in Member : BeginUnassignOwnerRole(c, m))
      /\ ~(\E c \in Conn, m \in Member, to \in Member : BeginTransfer(c, m, to))
  BY DEF BeginUnassignOwnerRole, BeginTransfer
<1>10. CASE \E c \in Conn, m \in Member :
             \/ Begin(c, "block", m, Never)
             \/ Begin(c, "escalate", m, Never)
             \/ \E end \in 1 .. MaxTime : Begin(c, "suspend", m, end)
             \/ Begin(c, "delete", m, Never)
             \/ LockHolder(c, m)
  BY <1>2, <1>3, <1>10
<1>11. CASE \E c \in Conn :
             \/ WriteBlock(c) \/ WriteDelete(c) \/ WriteUnassign(c)
             \/ TransferGrant(c) \/ TransferRevoke(c) \/ TransferCommit(c)
             \/ \E keep \in BOOLEAN : TransferUnassign(c, keep)
  BY <1>4, <1>6, <1>11
<1>12. CASE \/ \E m \in Member : CreateOrganizationWithOwner(m)
            \/ \E m \in Member, roles \in SUBSET {"Owner"} : Create(m, roles)
            \/ \E m \in Member : Unblock(m) \/ AssignOwnerRole(m)
            \/ Tick
  BY <1>1, <1>7, <1>8, <1>12
<1> QED
  BY <1>9, <1>10, <1>11, <1>12 DEF Next

LEMMA ListedStep ==
    ASSUME IInv, IInv', Orderly(calls), \A c \in Conn : Listed(c), Next
    PROVE  \A c \in Conn : Listed(c)'
<1> SUFFICES ASSUME NEW c \in Conn, conn'[c].kind \in {"block", "suspend", "delete"}, conn'[c].sawOwner,
                    conn'[c].m \in (IF calls' \cap {"assign", "transfer"} = {} THEN owner' ELSE members')
             PROVE  conn'[c].m \in conn'[c].todo \cup conn'[c].got
  BY DEF Listed
<1>0. calls' = calls
  BY WhoSanctions
<1>1. CASE BeginsNow(c)
  BY <1>1 DEF BeginsNow
<1>2. CASE GoesOn(c)
  <2>1. /\ conn[c].kind \in {"block", "suspend", "delete"} /\ conn[c].m \in used /\ conn[c].sawOwner
        /\ conn'[c].m = conn[c].m
    BY <1>2 DEF GoesOn, IInv, Sound, Stage
  <2>2. CASE calls \cap {"assign", "transfer"} = {}
    <3>1. conn[c].m \in owner' /\ conn[c].m \in owner
      BY <1>0, <2>1, <2>2, OwnersOnlyGo
    <3>2. conn[c].m \in conn[c].todo \cup conn[c].got
      BY <2>1, <2>2, <3>1 DEF Listed
    <3> QED
      BY <1>2, <2>1, <3>1, <3>2 DEF GoesOn
  <2>3. CASE calls \cap {"assign", "transfer"} # {}
    <3>1. calls \cap {"unassign", "transfer"} = {}
      BY <2>1, <2>3 DEF Orderly, IInv, Sound, Stage
    <3>2. conn[c].m \in members' /\ conn[c].m \in members
      BY <1>0, <2>1, <2>3, <3>1, OwnersStay
    <3>3. conn[c].m \in conn[c].todo \cup conn[c].got
      BY <2>1, <2>3, <3>2 DEF Listed
    <3>4. conn[c].m \in owner
      BY <2>1, <3>3 DEF IInv, Sound, Stage, Locks
    <3>5. conn[c].m \in owner'
      BY <3>1, <3>2, <3>4, OwnersStay
    <3> QED
      BY <1>2, <2>1, <3>3, <3>5 DEF GoesOn
  <2> QED
    BY <2>2, <2>3
<1> QED
  BY <1>1, <1>2, CallsMove DEF Moved

LEMMA KnownStep ==
    ASSUME IInv, IInv', SafeMix(calls), \A c \in Conn : Known(c), Next
    PROVE  \A c \in Conn : Known(c)'
<1> SUFFICES ASSUME NEW c \in Conn, conn'[c].kind \in {"block", "suspend", "delete"}, conn'[c].m \in owner'
             PROVE  conn'[c].sawOwner /\ conn'[c].m \in conn'[c].todo \cup conn'[c].got
  BY DEF Known
<1>1. CASE BeginsNow(c)
  BY <1>1 DEF BeginsNow
<1>2. CASE GoesOn(c)
  <2>1. conn[c].kind \in {"block", "suspend", "delete"} /\ conn[c].m \in used
    BY <1>2 DEF GoesOn, IInv, Sound, Stage
  <2>2. conn[c].m \in owner
    BY <1>2, <2>1, NothingGranted, OwnersOnlyGo DEF GoesOn
  <2>3. conn[c].sawOwner /\ conn[c].m \in conn[c].todo \cup conn[c].got
    BY <2>1, <2>2 DEF Known
  <2> QED
    BY <1>2, <2>1, <2>3 DEF GoesOn
<1> QED
  BY <1>1, <1>2, CallsMove DEF Moved

LEMMA CalmStep ==
    ASSUME IInv, Calm, Next
    PROVE  Calm'
<1>0. calls' = calls /\ (now' = now \/ Tick)
  BY WhoSanctions
<1>1. ASSUME "tick" \notin calls, NEW c \in Conn, conn'[c].step # "idle" PROVE conn'[c].at = now'
  <2>1. now' = now
    BY <1>0, <1>1 DEF Tick
  <2>2. conn'[c].kind # "none"
    BY <1>1, Inductive DEF IInv, Sound, Stage
  <2> QED
    BY <1>1, <2>1, <2>2, CallsMove DEF Moved, BeginsNow, GoesOn, Calm
<1>2. ASSUME NEW c \in Conn, WriteBlock(c)
      PROVE  /\ "suspend" \notin calls => conn[c].end = Never
             /\ conn[c].kind \in {"block", "suspend", "escalate"}
             /\ calls \cap {"block", "suspend"} # {}
  BY <1>2 DEF WriteBlock, IInv, Sound, Stage
<1>3. ASSUME "suspend" \notin calls, NEW m \in Member PROVE until'[m] = Never
  <2>1. until \in [Member -> Nat \cup {Never}] /\ until[m] = Never
    BY <1>3 DEF Calm, IInv, Tables
  <2>2. CASE \E k \in Member : Unblock(k)
    BY <2>1, <2>2 DEF Unblock
  <2>3. CASE \E c \in Conn : WriteBlock(c)
    BY <1>2, <1>3, <2>1, <2>3 DEF WriteBlock
  <2>4. CASE \E c \in Conn : WriteDelete(c)
    BY <2>1, <2>4 DEF WriteDelete
  <2> QED
    BY <2>1, <2>2, <2>3, <2>4, WhoSanctions
<1>4. ASSUME calls \cap {"block", "suspend"} = {}, NEW m \in Member PROVE status'[m] = "active"
  <2>1. status \in [Member -> {"active", "blocked"}] /\ status[m] = "active"
    BY <1>4 DEF Calm, IInv, Tables
  <2>2. CASE \E k \in Member : Unblock(k)
    BY <2>1, <2>2 DEF Unblock
  <2>3. CASE \E c \in Conn : WriteDelete(c)
    BY <2>1, <2>3 DEF WriteDelete
  <2> QED
    BY <1>2, <1>4, <2>1, <2>2, <2>3, WhoSanctions
<1> QED
  BY <1>0, <1>1, <1>3, <1>4 DEF Calm

-----------------------------------------------------------------------------
(***************************************************************************)
(* Ownership: each statement that writes is one of its steps.               *)
(***************************************************************************)
LEMMA Reading ==
    ASSUME IInv
    PROVE  /\ \A m \in Member : O!Exists(m) <=> m \in members
           /\ \A m \in Member : O!Effective(m) = EffectiveAt(m, now)
           /\ \A m \in Member : O!Active(m) <=> EffectiveAt(m, now) = "active"
           /\ \A m \in members : O!Holders(IF m \in members THEN "org" ELSE None) = owner
           /\ owner \subseteq Member /\ members \subseteq Member
<1>1. \A m \in Member : status[m] \in {"active", "blocked"}
  BY DEF IInv, Tables
<1>2. owner \subseteq members /\ members \subseteq Member
  BY DEF IInv, Tables
<1>3. \A m \in Member : O!Exists(m) <=> m \in members
  BY NoneAssumption DEF O!Exists
<1>4. \A m \in Member : O!Effective(m) = EffectiveAt(m, now)
  BY <1>1 DEF O!Effective, EffectiveAt
<1> QED
  BY <1>2, <1>3, <1>4 DEF O!Active, O!Holders

(* Another Owner, active now, among the rows a verdict has locked.          *)
LEMMA Verdict ==
    ASSUME IInv, NEW c \in Conn, conn[c].granted = {}
    PROVE  /\ conn[c].got \subseteq owner
           /\ OtherActiveLocked(c) => \E k \in owner \ {conn[c].m} : EffectiveAt(k, now) = "active"
<1>1. conn[c].got \subseteq owner /\ conn[c].at \in Nat /\ conn[c].at <= now /\ Tables
  BY Clock DEF IInv, Sound, Locks
<1>2. ASSUME OtherActiveLocked(c) PROVE \E k \in owner \ {conn[c].m} : EffectiveAt(k, now) = "active"
  <2>1. PICK k \in conn[c].got \ {conn[c].m} : k \in Member /\ EffectiveAt(k, conn[c].at) = "active"
    BY <1>2 DEF OtherActiveLocked, ActiveAt
  <2> QED
    BY <1>1, <2>1, StaysActive
<1> QED
  BY <1>1, <1>2

(* The verdict on an Owner that leaves is what Ownership asks for.          *)
LEMMA LeavingVerdict ==
    ASSUME IInv, Calm, SafeMix(calls), NEW c \in Conn, conn[c].step # "idle", conn[c].granted = {},
           conn[c].kind \in {"delete", "unassign"}, conn[c].m \in conn[c].got, MayStopBeingOwner(c)
    PROVE  /\ \E k \in owner : k # conn[c].m
           /\ \/ EffectiveAt(conn[c].m, now) # "active"
              \/ \E k \in owner \ {conn[c].m} : EffectiveAt(k, now) = "active"
<1>1. conn[c].m \in Member
  BY DEF IInv, Tables, CallType
<1>2. EffectiveAt(conn[c].m, conn[c].at) = EffectiveAt(conn[c].m, now)
  BY <1>1, SameEffect
<1>3. \E k \in conn[c].got : k # conn[c].m
  BY NotAlone DEF MayStopBeingOwner
<1> QED
  BY <1>1, <1>2, <1>3, Verdict DEF MayStopBeingOwner, ActiveAt

LEMMA SimulatesRows ==
    ASSUME IInv, NEW m \in Member
    PROVE  /\ CreateOrganizationWithOwner(m) => O!Next
           /\ \A roles \in SUBSET {"Owner"} : Create(m, roles) => O!Next
           /\ AssignOwnerRole(m) => O!Next
           /\ Unblock(m) => O!Next
           /\ Tick => O!Next
<1>0. /\ members \subseteq used /\ owner \subseteq members /\ status[m] \in {"active", "blocked"}
      /\ m \notin members => status[m] = "active" /\ until[m] = Never
      /\ status \in [Member -> {"active", "blocked"}] /\ until \in [Member -> Nat \cup {Never}]
  BY DEF IInv, Tables
<1>1. ASSUME CreateOrganizationWithOwner(m) PROVE O!CreateOrganizationWithOwner("org", m)
  BY <1>0, <1>1, Reading DEF CreateOrganizationWithOwner, O!CreateOrganizationWithOwner, O!NewRow
<1>2. ASSUME NEW roles \in SUBSET {"Owner"}, Create(m, roles) PROVE O!Create(m, "org", roles)
  BY <1>0, <1>2, Reading DEF Create, O!Create, O!NewRow
<1>3. ASSUME AssignOwnerRole(m) PROVE O!AssignOwnerRole(m)
  BY <1>3, Reading DEF AssignOwnerRole, O!AssignOwnerRole
<1>4. ASSUME Unblock(m) PROVE O!Unblock(m)
  BY <1>4, Reading DEF Unblock, O!Unblock
<1>5. ASSUME Tick PROVE O!Tick
  BY <1>5 DEF Tick, O!Tick, tables
<1>6. \A roles \in SUBSET {"Owner"} : Create(m, roles) => used # {}
  BY DEF Create
<1> QED
  BY <1>1, <1>2, <1>3, <1>4, <1>5, <1>6 DEF O!Next

LEMMA SimulatesBlock ==
    ASSUME IInv, Calm, SafeMix(calls), NEW c \in Conn, Known(c), WriteBlock(c)
    PROVE  O!Next \/ UNCHANGED O!vars
<1> DEFINE m == conn[c].m
<1>0. /\ m \in Member /\ conn[c].step # "idle" /\ Stage(c) /\ Tables /\ conn[c].at \in Nat /\ conn[c].at <= now
      /\ conn[c].kind \in {"block", "suspend", "escalate"}
    BY Clock DEF WriteBlock, AllLocked, IInv, Sound, Stage, Tables, CallType
<1>1. UNCHANGED <<used, members, owner, now>>
  BY DEF WriteBlock
<1>2. CASE UNCHANGED <<status, until>>
  BY <1>1, <1>2 DEF O!vars
<1>3. CASE /\ TargetMatches(conn[c].kind, m, conn[c].at)
           /\ conn[c].kind = "escalate" \/ MayBlock(c)
           /\ status' = [status EXCEPT ![m] = "blocked"]
           /\ until' = [until EXCEPT ![m] = conn[c].end]
  <2>1. conn[c].granted = {}
    BY <1>0 DEF Stage
  <2>2. m \in members
    BY <1>3 DEF TargetMatches
  <2>3. CASE conn[c].kind = "escalate"
    <3>1. EffectiveAt(m, now) = "suspended" /\ conn[c].end = Never
      BY <1>0, <1>3, <2>3, SameEffect DEF TargetMatches, Stage
    <3>2. status[m] = "blocked"
      BY <1>0, <3>1 DEF EffectiveAt, Tables
    <3>3. status' = status
      BY <1>0, <1>3, <3>2 DEF Tables
    <3>4. O!Escalate(m)
      BY <1>0, <1>1, <1>3, <2>2, <3>1, <3>3, Reading DEF O!Escalate
    <3> QED
      BY <1>0, <3>4 DEF O!Next, O!Block
  <2>4. CASE conn[c].kind # "escalate"
    <3>1. EffectiveAt(m, now) = "active"
      BY <1>0, <1>3, <2>4, StaysActive DEF TargetMatches
    <3>2. m \in owner => \E k \in owner \ {m} : EffectiveAt(k, now) = "active"
      BY <1>0, <1>3, <2>1, <2>4, Verdict DEF MayBlock, Known
    <3>3. O!MayBeBlocked(m)
      BY <2>2, <3>2, Reading DEF O!MayBeBlocked, O!OtherActiveOwner
    <3>4. O!BlockWithin(m, conn[c].end)
      BY <1>0, <1>1, <1>3, <2>2, <3>1, <3>3, Reading DEF O!BlockWithin
    <3>5. CASE conn[c].kind = "block"
      BY <1>0, <3>4, <3>5 DEF Stage, O!Next, O!Block
    <3>6. CASE conn[c].kind = "suspend"
      <4>1. conn[c].end \in O!Time \ {0}
        BY <1>0, <3>6, TimeAssumption DEF Stage, O!Time
      <4> QED
        BY <1>0, <3>4, <4>1 DEF O!Next, O!Suspend
    <3> QED
      BY <1>0, <2>4, <3>5, <3>6
  <2> QED
    BY <2>3, <2>4
<1> QED
  BY <1>2, <1>3 DEF WriteBlock

LEMMA SimulatesDelete ==
    ASSUME IInv, Calm, SafeMix(calls), NEW c \in Conn, Known(c), WriteDelete(c)
    PROVE  O!Next \/ UNCHANGED O!vars
<1> DEFINE m == conn[c].m
<1>0. m \in Member /\ conn[c].step # "idle" /\ conn[c].granted = {} /\ conn[c].kind = "delete" /\ conn[c].todo = {}
    BY DEF WriteDelete, AllLocked, IInv, Sound, Stage, Tables, CallType
<1>1. UNCHANGED <<used, now>>
  BY DEF WriteDelete
<1>2. CASE m \in members /\ MayDelete(c)
  <2>1. /\ members' = members \ {m} /\ owner' = owner \ {m}
        /\ status' = [status EXCEPT ![m] = "active"] /\ until' = [until EXCEPT ![m] = Never]
    BY <1>2 DEF WriteDelete
  <2>2. m \in owner => O!MayStopBeingOwner(m)
    <3> SUFFICES ASSUME m \in owner PROVE O!MayStopBeingOwner(m)
      OBVIOUS
    <3>1. m \in conn[c].got /\ MayStopBeingOwner(c)
      BY <1>0, <1>2 DEF Known, MayDelete
    <3> QED
      BY <1>0, <1>2, <3>1, LeavingVerdict, Reading DEF O!MayStopBeingOwner, O!OtherActiveOwner
  <2>3. PICK k \in Member : k = m
    BY <1>0
  <2>4. O!Delete(k)
    BY <1>0, <1>1, <1>2, <2>1, <2>2, <2>3, Reading DEF O!Delete
  <2> QED
    BY <2>4 DEF O!Next
<1>3. CASE ~(m \in members /\ MayDelete(c))
  BY <1>1, <1>3 DEF WriteDelete, O!vars
<1> QED
  BY <1>2, <1>3

LEMMA SimulatesUnassign ==
    ASSUME IInv, Calm, SafeMix(calls), NEW c \in Conn, WriteUnassign(c)
    PROVE  O!Next \/ UNCHANGED O!vars
<1> DEFINE m == conn[c].m
<1>0. m \in Member /\ conn[c].step # "idle" /\ conn[c].granted = {} /\ conn[c].kind = "unassign"
    BY DEF WriteUnassign, AllLocked, IInv, Sound, Stage, Tables, CallType
<1>1. UNCHANGED <<used, members, status, until, now>>
  BY DEF WriteUnassign
<1>2. CASE m \in conn[c].got /\ MayStopBeingOwner(c)
  <2>1. owner' = owner \ {m} /\ m \in owner /\ m \in members
    BY <1>0, <1>2, Verdict DEF WriteUnassign, IInv, Tables
  <2>2. O!MayStopBeingOwner(m)
    BY <1>0, <1>2, <2>1, LeavingVerdict, Reading DEF O!MayStopBeingOwner, O!OtherActiveOwner
  <2>3. O!UnassignOwnerRole(m)
    BY <1>1, <2>1, <2>2 DEF O!UnassignOwnerRole
  <2> QED
    BY <1>0, <2>3 DEF O!Next
<1>3. CASE ~(m \in conn[c].got /\ MayStopBeingOwner(c))
  BY <1>1, <1>3 DEF WriteUnassign, O!vars
<1> QED
  BY <1>2, <1>3

LEMMA SimulatesTransfer ==
    ASSUME IInv, Calm, SafeMix(calls), NEW c \in Conn, TransferCommit(c)
    PROVE  O!Next \/ UNCHANGED O!vars
<1> DEFINE from == conn[c].m
           to == conn[c].to
<1>0. /\ from \in Member /\ to \in Member /\ from # to /\ conn[c].kind = "transfer" /\ "transfer" \in calls
      /\ conn[c].granted \subseteq {to} /\ conn[c].granted \subseteq members /\ Locks(c)
      /\ conn[c].revoked # {} => conn[c].revoked = {from} /\ from \in conn[c].got /\ \E k \in conn[c].got : k # from
  BY DEF TransferCommit, IInv, Sound, Stage, Locks, Tables, CallType
<1>1. /\ UNCHANGED <<used, members, status, until, now>> /\ owner' = (owner \cup conn[c].granted) \ conn[c].revoked
      /\ owner \subseteq members /\ now \in Nat
  BY Clock DEF TransferCommit, IInv, Tables
<1>2. \A k \in Member : EffectiveAt(k, now) = "active"
  BY <1>0, <1>1, AllActive
<1>3. CASE conn[c].granted = {} /\ conn[c].revoked = {}
  BY <1>1, <1>3 DEF O!vars
<1>4. CASE conn[c].granted = {to} /\ conn[c].revoked = {}
  <2>1. O!AssignOwnerRole(to)
    BY <1>0, <1>1, <1>4, Reading DEF O!AssignOwnerRole
  <2> QED
    BY <1>0, <2>1 DEF O!Next
<1>5. CASE conn[c].granted = {} /\ conn[c].revoked # {}
  <2>1. PICK k \in owner : k # from
    BY <1>0, <1>5 DEF Locks
  <2>2. from \in owner /\ from \in members /\ k \in Member
    BY <1>0, <1>1, <1>5, Reading DEF Locks
  <2>3. O!MayStopBeingOwner(from)
    BY <1>2, <2>1, <2>2, Reading DEF O!MayStopBeingOwner, O!OtherActiveOwner
  <2>4. O!UnassignOwnerRole(from)
    BY <1>0, <1>1, <1>5, <2>2, <2>3 DEF O!UnassignOwnerRole
  <2> QED
    BY <1>0, <2>4 DEF O!Next
<1>6. CASE conn[c].granted = {to} /\ conn[c].revoked # {}
  <2>1. from \in owner /\ from \in members
    BY <1>0, <1>1, <1>6 DEF Locks
  <2>2. owner' = (owner \cup {to}) \ {from} /\ to \in members
    BY <1>0, <1>1, <1>6
  <2>3. O!TransferOwnership(from, to, FALSE)
    BY <1>0, <1>1, <1>2, <2>1, <2>2, Reading DEF O!TransferOwnership
  <2>4. \E keep \in BOOLEAN : O!TransferOwnership(from, to, keep)
    BY <2>3
  <2> QED
    BY <1>0, <2>4 DEF O!Next
<1> QED
  BY <1>0, <1>3, <1>4, <1>5, <1>6

LEMMA Simulates ==
    ASSUME IInv, Calm, SafeMix(calls), \A c \in Conn : Known(c), [Next]_vars
    PROVE  O!Next \/ UNCHANGED O!vars
<1>1. CASE UNCHANGED <<tables, now>>
  BY <1>1 DEF tables, O!vars
<1>2. CASE \E c \in Conn, m \in Member :
             \/ Begin(c, "block", m, Never)
             \/ Begin(c, "escalate", m, Never)
             \/ \E end \in 1 .. MaxTime : Begin(c, "suspend", m, end)
             \/ Begin(c, "delete", m, Never)
             \/ BeginUnassignOwnerRole(c, m)
             \/ LockHolder(c, m)
             \/ \E to \in Member : BeginTransfer(c, m, to)
  <2>1. ASSUME NEW c \in Conn, NEW m \in Member, NEW kind, NEW end, Begin(c, kind, m, end)
        PROVE  UNCHANGED <<tables, now>>
    BY <2>1 DEF Begin
  <2>2. ASSUME NEW c \in Conn, NEW m \in Member, BeginUnassignOwnerRole(c, m) \/ LockHolder(c, m)
        PROVE  UNCHANGED <<tables, now>>
    BY <2>2 DEF BeginUnassignOwnerRole, LockHolder
  <2>3. ASSUME NEW c \in Conn, NEW m \in Member, NEW to \in Member, BeginTransfer(c, m, to)
        PROVE  UNCHANGED <<tables, now>>
    BY <2>3 DEF BeginTransfer
  <2> QED
    BY Zenon, <1>1, <1>2, <2>1, <2>2, <2>3
<1>3. CASE \E c \in Conn :
             \/ WriteBlock(c) \/ WriteDelete(c) \/ WriteUnassign(c)
             \/ TransferGrant(c) \/ TransferRevoke(c) \/ TransferCommit(c)
             \/ \E keep \in BOOLEAN : TransferUnassign(c, keep)
  <2>1. ASSUME NEW c \in Conn, \/ TransferGrant(c) \/ TransferRevoke(c)
                               \/ \E keep \in BOOLEAN : TransferUnassign(c, keep)
        PROVE  UNCHANGED <<tables, now>>
    BY <2>1 DEF TransferGrant, TransferRevoke, TransferUnassign
  <2> QED
    BY <1>1, <1>3, <2>1, SimulatesBlock, SimulatesDelete, SimulatesUnassign, SimulatesTransfer
<1>4. CASE UNCHANGED vars
  BY <1>1, <1>4 DEF vars, tables
<1>5. CASE Tick
  BY <1>5 DEF Tick, tables, O!Next, O!Tick
<1> QED
  BY <1>2, <1>3, <1>4, <1>5, SimulatesRows DEF Next

-----------------------------------------------------------------------------
LEMMA AlwaysSafe ==
    ASSUME MixesAreSafe
    PROVE  Spec => []SafeInv
<1>1. Init => SafeInv
  <2> SUFFICES ASSUME Init PROVE SafeInv
    OBVIOUS
  <2>1. Calm
    BY DEF Init, Idle, Calm
  <2>2. \A c \in Conn : Known(c)
    BY DEF Init, Idle, Known
  <2>3. SafeMix(calls)
    BY DEF Init, MixesAreSafe
  <2> QED
    BY <2>1, <2>2, <2>3, InitIsSound DEF SafeInv
<1>2. SafeInv /\ [Next]_vars => SafeInv'
  <2> SUFFICES ASSUME SafeInv, [Next]_vars PROVE SafeInv'
    OBVIOUS
  <2>1. IInv'
    BY Inductive DEF SafeInv
  <2>2. CASE Next
    <3>1. SafeMix(calls)'
      BY <2>2, WhoSanctions DEF SafeInv, SafeMix
    <3> QED
      BY <2>1, <2>2, <3>1, CalmStep, KnownStep DEF SafeInv
  <2>3. CASE UNCHANGED vars
    BY <2>1, <2>3 DEF vars, SafeInv, Calm, Known, SafeMix
  <2> QED
    BY <2>2, <2>3
<1> QED
  BY <1>1, <1>2, PTL DEF Spec

LEMMA AlwaysOrderly == Spec => []OrderlyInv
<1>1. Init => OrderlyInv
  <2> SUFFICES ASSUME Init PROVE OrderlyInv
    OBVIOUS
  <2>1. \A c \in Conn : Listed(c)
    BY DEF Init, Idle, Listed
  <2> QED
    BY <2>1, InitIsSound DEF OrderlyInv
<1>2. OrderlyInv /\ [Next]_vars => OrderlyInv'
  <2> SUFFICES ASSUME OrderlyInv, [Next]_vars PROVE OrderlyInv'
    OBVIOUS
  <2>1. IInv'
    BY Inductive DEF OrderlyInv
  <2>2. CASE Next
    <3>1. Orderly(calls)' <=> Orderly(calls)
      BY <2>2, WhoSanctions DEF Orderly
    <3>2. Orderly(calls) => (\A c \in Conn : Listed(c)')
      BY <2>1, <2>2, ListedStep DEF OrderlyInv
    <3> QED
      BY <2>1, <3>1, <3>2 DEF OrderlyInv
  <2>3. CASE UNCHANGED vars
    BY <2>1, <2>3 DEF vars, OrderlyInv, Orderly, Listed
  <2> QED
    BY <2>2, <2>3
<1> QED
  BY <1>1, <1>2, PTL DEF Spec

(* Over PostgreSQL, waiting for row locks always ends among calls that are  *)
(* orderly: every list of Owners is locked in the order of the ids, the row *)
(* that is written last is in the list, and everything else is locked       *)
(* empty-handed.                                                           *)
THEOREM NoDeadlockOfOrderlyCalls ==
    ASSUME IsFiniteSet(Conn)
    PROVE  Spec => []NobodyWaitsInACircle
<1>1. OrderlyInv => NobodyWaitsInACircle
  BY NoCircle DEF OrderlyInv, NobodyWaitsInACircle
<1> QED
  BY <1>1, AlwaysOrderly, PTL

(* The statements over PostgreSQL do what the transactions of Ownership do: *)
(* each one that writes is one of its steps, the others change nothing.    *)
THEOREM StatementsImplementOwnership ==
    ASSUME MixesAreSafe
    PROVE  Spec => ImplementsOwnership
<1>1. Init => O!Init
  BY DEF Init, O!Init
<1>2. SafeInv /\ [Next]_vars => [O!Next]_O!vars
  BY Simulates DEF SafeInv
<1> QED
  BY <1>1, <1>2, AlwaysSafe, PTL DEF Spec, ImplementsOwnership, O!Spec

(* So the organization keeps an Owner who can still act, whatever           *)
(* interleaves with what: what is proved of Ownership holds here.           *)
THEOREM AnOwnerCanAlwaysAct ==
    ASSUME MixesAreSafe
    PROVE  Spec => []OrganizationKeepsAnActiveOwner
<1>1. Init => P!Init
  BY DEF Init, P!Init
<1>2. O!Next => P!Next
  BY DEF O!Next, O!CreateOrganizationWithOwner, O!Create, O!AssignOwnerRole, O!UnassignOwnerRole, O!TransferOwnership,
         O!Block, O!Escalate, O!BlockWithin, O!Suspend, O!Unblock, O!Delete, O!LeaveOrganization, O!Tick, O!NewRow,
         O!MayBeBlocked, O!MayStopBeingOwner, O!OtherActiveOwner, O!Holders, O!Active, O!Effective, O!Exists, O!Time,
         P!Next, P!CreateOrganizationWithOwner, P!Create, P!AssignOwnerRole, P!UnassignOwnerRole, P!TransferOwnership,
         P!Block, P!Escalate, P!BlockWithin, P!Suspend, P!Unblock, P!Delete, P!LeaveOrganization, P!Tick, P!NewRow,
         P!MayBeBlocked, P!MayStopBeingOwner, P!OtherActiveOwner, P!Holders, P!Active, P!Effective, P!Exists, P!Time
<1>3. SafeInv /\ [Next]_vars => [P!Next]_P!vars
  BY <1>2, Simulates DEF SafeInv, O!vars, P!vars
<1>4. P!Spec => []P!EveryOrganizationHasAnActiveOwner
  BY P!AlwaysAnActiveOwner, NoneAssumption, NeverAssumption, TimeAssumption
<1>5. SafeInv /\ P!EveryOrganizationHasAnActiveOwner => OrganizationKeepsAnActiveOwner
  <2> SUFFICES ASSUME SafeInv, P!EveryOrganizationHasAnActiveOwner, used # {}
               PROVE  owner \cap ActiveAt(now) # {}
    BY DEF OrganizationKeepsAnActiveOwner
  <2>1. PICK m \in owner : P!Active(m)
    BY DEF P!EveryOrganizationHasAnActiveOwner, P!Holders
  <2>2. m \in Member /\ status[m] \in {"active", "blocked"}
    BY DEF SafeInv, IInv, Tables
  <2>3. EffectiveAt(m, now) = "active"
    BY <2>1, <2>2 DEF P!Active, P!Effective, EffectiveAt
  <2> QED
    BY <2>2, <2>3 DEF ActiveAt
<1> QED
  BY <1>1, <1>3, <1>4, <1>5, AlwaysSafe, PTL DEF Spec, P!Spec
=============================================================================
