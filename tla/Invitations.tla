---------------------------- MODULE Invitations ----------------------------
(***************************************************************************)
(* The invitations of one organization to one e-mail address: invite,      *)
(* resend, revoke and accept over PostgreSQL at READ COMMITTED, and the    *)
(* e-mails.                                                                *)
(*                                                                         *)
(* Each call runs once, in any process.  Its reads before the transaction,  *)
(* its transaction and its mailing are steps of their own, and a           *)
(* transaction under an advisory lock decides in one step and writes in the *)
(* next.  A call that stops has rolled back and released its locks.        *)
(* A link is named after the call that issued it, an invitation after the   *)
(* call that created it.  Tokens, teams, previews, the audit log and the    *)
(* limits over several addresses or organizations are left out.            *)
(***************************************************************************)
EXTENDS Naturals, FiniteSets

CONSTANTS
    Call,           \* calls of the service
    Identity,       \* identities for which the provider verified the address; the inviter is none of them
    Role,           \* regular roles of the organization
    Key,            \* idempotency keys
    None,           \* no key, no lock holder, no invitation, nobody
    NotAMember,
    PerHour         \* perEmailPerHour

ASSUME CallsAssumption == IsFiniteSet(Call) /\ None \notin Call
ASSUME PerHourAssumption == PerHour \in Nat

VARIABLES
    invitation,     \* invitation -> its row
    member,         \* identity -> the roles of its membership
    power,          \* roles the inviter can give
    lock,           \* advisory lock -> the call whose transaction holds it
    call,           \* call -> where it stands
    access,         \* does the service decide who may invite? Fixed from the start
    left            \* has the inviter left, or handed the Owner role over? (history)

vars == <<invitation, member, power, lock, call, access, left>>

NoInvitation == [status |-> "none", link |-> None, roles |-> {}, key |-> None,
                 recent |-> FALSE, lately |-> FALSE, acceptedBy |-> None]

Idle == [step |-> "idle", roles |-> {}, key |-> None, inv |-> None, link |-> None, who |-> None,
         seen |-> "nobody"]

(* How a call ends: refused by what it found, having joined the organization, *)
(* or otherwise (done, replayed, not allowed, or its process went down).    *)
Ended == {"done", "refused", "joined"}

Locks == {"invite", "access"}

(* The steps at which a transaction is open that may hold a lock.            *)
Transaction == {"locked", "creating", "claiming"}

Steps == {"idle", "inviting", "rotating", "mailing", "opening"} \cup Transaction \cup Ended

(* "lapsed": pending, and expires_at has passed.  `recent`: created within   *)
(* the last hour; `lately`: the last recorded send lies within the cooldown. *)
Rows == [status : {"none", "pending", "lapsed", "accepted", "revoked", "expired"},
         link : Call \cup {None}, roles : SUBSET Role, key : Key \cup {None},
         recent : BOOLEAN, lately : BOOLEAN, acceptedBy : Identity \cup {None}]

Calls == [step : Steps, roles : SUBSET Role, key : Key \cup {None}, inv : Call \cup {None},
          link : Call \cup {None}, who : Identity \cup {None}, seen : {"nobody", "member", "gone"}]

InvTypeOK ==
    /\ invitation \in [Call -> Rows]
    /\ member \in [Identity -> (SUBSET Role) \cup {NotAMember}]
    /\ power \subseteq Role
    /\ lock \in [Locks -> Call \cup {None}]
    /\ call \in [Call -> Calls]
    /\ access \in BOOLEAN
    /\ left \in BOOLEAN
    /\ \A k \in Locks : lock[k] # None => call[lock[k]].step \in Transaction

InvInit ==
    /\ invitation = [i \in Call |-> NoInvitation]
    /\ member = [x \in Identity |-> NotAMember]
    /\ power = Role
    /\ lock = [k \in Locks |-> None]
    /\ call = [c \in Call |-> Idle]
    /\ access \in BOOLEAN
    /\ left = FALSE

At(c, step) == call[c].step = step

(* A commit or a rollback gives the advisory locks of its transaction back.*)
Released(c) == [k \in Locks |-> IF lock[k] = c THEN None ELSE lock[k]]

End(c, how) ==
    /\ call' = [call EXCEPT ![c] = [Idle EXCEPT !.step = how]]
    /\ lock' = Released(c)

(* The access service changes what members may do under the access lock.     *)
AccessLockIsFree == access => lock["access"] = None

MayOffer(roles) == access => roles \subseteq power

Pending(i) == invitation[i].status \in {"pending", "lapsed"}

-----------------------------------------------------------------------------
(***************************************************************************)
(* invite                                                                  *)
(***************************************************************************)
StartInvite(c, roles, key) ==
    /\ At(c, "idle") /\ roles # {}
    /\ call' = [call EXCEPT ![c] = [Idle EXCEPT !.step = "inviting", !.roles = roles, !.key = key]]
    /\ UNCHANGED <<invitation, member, power, lock, access, left>>

(* findIdentitiesByEmail has found a member, and allowExistingMember is off:  *)
(* looked at before anything else, the key included.                        *)
RefuseMember(c, roles, key) ==
    /\ At(c, "idle") /\ roles # {}
    /\ \E x \in Identity : member[x] # NotAMember
    /\ call' = [call EXCEPT ![c] = [Idle EXCEPT !.step = "refused", !.roles = roles, !.key = key]]
    /\ UNCHANGED <<invitation, member, power, lock, access, left>>

(* The locks in sorted order: the address and the organization first (one    *)
(* lock here), the access lock last, taken by the decision.                 *)
LockInvites_noWait(c) ==        \* mutant
    /\ At(c, "inviting")
    /\ lock' = [lock EXCEPT !["invite"] = c]
    /\ call' = [call EXCEPT ![c].step = "locked"]
    /\ UNCHANGED <<invitation, member, power, access, left>>

LockInvites(c) ==
    /\ At(c, "inviting")
    /\ lock["invite"] = None
    /\ lock' = [lock EXCEPT !["invite"] = c]
    /\ call' = [call EXCEPT ![c].step = "locked"]
    /\ UNCHANGED <<invitation, member, power, access, left>>

SameKey(c) ==
    {i \in Call : invitation[i].status # "none" /\ invitation[i].key # None /\ invitation[i].key = call[c].key}

Recent == {i \in Call : invitation[i].recent}

(* May they; has the key been used, and for what; is it too many.            *)
Verdict_rateFirst(c) ==         \* mutant
    IF ~MayOffer(call[c].roles) THEN "done"
    ELSE IF Cardinality(Recent) >= PerHour THEN "refused"
    ELSE IF SameKey(c) # {}
    THEN IF \E i \in SameKey(c) : invitation[i].roles = call[c].roles THEN "done" ELSE "refused"
    ELSE "creating"

Verdict(c) ==
    IF ~MayOffer(call[c].roles) THEN "done"
    ELSE IF SameKey(c) # {}
    THEN IF \E i \in SameKey(c) : invitation[i].roles = call[c].roles THEN "done" ELSE "refused"
    ELSE IF Cardinality(Recent) >= PerHour THEN "refused"
    ELSE "creating"

DecideInvite(c) ==
    /\ At(c, "locked") /\ AccessLockIsFree
    /\ IF Verdict(c) = "creating"
       THEN /\ call' = [call EXCEPT ![c].step = "creating"]
            /\ lock' = IF access THEN [lock EXCEPT !["access"] = c] ELSE lock
       ELSE End(c, Verdict(c))
    /\ UNCHANGED <<invitation, member, power, access, left>>

(* expireStale, then the insertion: the unique indexes allow one pending     *)
(* invitation per address and one invitation per key.                      *)
Expired(r) == IF r.status = "lapsed" THEN [r EXCEPT !.status = "expired"] ELSE r

Create(c) ==
    LET kept == [i \in Call |-> Expired(invitation[i])]
        fits == SameKey(c) = {} /\ \A i \in Call : kept[i].status # "pending"
    IN
    /\ At(c, "creating")
    /\ IF fits
       THEN /\ invitation' = [kept EXCEPT ![c] = [NoInvitation EXCEPT
                          !.status = "pending", !.link = c, !.roles = call[c].roles,
                          !.key = call[c].key, !.recent = TRUE]]
            /\ call' = [call EXCEPT ![c] = [Idle EXCEPT !.step = "mailing", !.inv = c]]
            /\ lock' = Released(c)
       ELSE End(c, "refused") /\ UNCHANGED invitation
    /\ UNCHANGED <<member, power, access, left>>

-----------------------------------------------------------------------------
(***************************************************************************)
(* resend and revoke                                                       *)
(***************************************************************************)
(* Status and cooldown are looked at before the transaction.                *)
StartResend(c, i) ==
    /\ At(c, "idle")
    /\ Pending(i) /\ ~invitation[i].lately
    /\ call' = [call EXCEPT ![c] = [Idle EXCEPT !.step = "rotating", !.inv = i]]
    /\ UNCHANGED <<invitation, member, power, lock, access, left>>

Rotate(c) ==
    LET i == call[c].inv IN
    /\ At(c, "rotating") /\ AccessLockIsFree
    /\ IF MayOffer(invitation[i].roles) /\ Pending(i)
       THEN /\ invitation' = [invitation EXCEPT ![i] = [@ EXCEPT !.link = c, !.status = "pending"]]
            /\ call' = [call EXCEPT ![c].step = "mailing"]
            /\ UNCHANGED lock
       ELSE /\ End(c, IF MayOffer(invitation[i].roles) THEN "refused" ELSE "done")
            /\ UNCHANGED invitation
    /\ UNCHANGED <<member, power, access, left>>

Revoke(i) ==
    /\ Pending(i) /\ AccessLockIsFree /\ MayOffer(invitation[i].roles)
    /\ invitation' = [invitation EXCEPT ![i].status = "revoked"]
    /\ UNCHANGED <<member, power, lock, call, access, left>>

-----------------------------------------------------------------------------
(* deliver, after the transaction: the send and its retries come to an end,  *)
(* one way or another, and recordDelivery goes by the invitation's id,      *)
(* whatever its link is by now.                                             *)
RecordDelivery(c) ==
    /\ At(c, "mailing")
    /\ invitation' = [invitation EXCEPT ![call[c].inv].lately = TRUE]
    /\ End(c, "done")
    /\ UNCHANGED <<member, power, access, left>>

-----------------------------------------------------------------------------
(***************************************************************************)
(* accept                                                                  *)
(***************************************************************************)
(* The invitation is found by the link, before the transaction.              *)
Open(c, i, x) ==
    /\ At(c, "idle")
    /\ invitation[i].status = "pending"
    /\ call' = [call EXCEPT ![c] = [Idle EXCEPT !.step = "opening", !.inv = i, !.link = invitation[i].link,
                                                !.roles = invitation[i].roles, !.who = x]]
    /\ UNCHANGED <<invitation, member, power, lock, access, left>>

(* What the inviter can give to x now: not to someone who holds more.        *)
Grantable(x, roles) ==
    IF ~access THEN roles
    ELSE IF member[x] = NotAMember \/ member[x] \subseteq power THEN roles \cap power
    ELSE {}

(* Mutant: the access lock is given back once the decision is made.          *)
DecideAccept_lockless(c) ==
    LET x     == call[c].who
        roles == Grantable(x, call[c].roles)
    IN
    /\ At(c, "opening") /\ AccessLockIsFree
    /\ IF roles = {}
       THEN End(c, "refused")
       ELSE /\ call' = [call EXCEPT ![c].step = "claiming", ![c].roles = roles,
                                    ![c].seen = IF member[x] = NotAMember THEN "nobody" ELSE "member"]
            /\ UNCHANGED lock
    /\ UNCHANGED <<invitation, member, power, access, left>>

DecideAccept(c) ==
    LET x     == call[c].who
        roles == Grantable(x, call[c].roles)
    IN
    /\ At(c, "opening") /\ AccessLockIsFree
    /\ IF roles = {}
       THEN End(c, "refused")
       ELSE /\ call' = [call EXCEPT ![c].step = "claiming", ![c].roles = roles,
                                    ![c].seen = IF member[x] = NotAMember THEN "nobody" ELSE "member"]
            /\ lock' = IF access THEN [lock EXCEPT !["access"] = c] ELSE lock
    /\ UNCHANGED <<invitation, member, power, access, left>>

(* markAccepted: still pending under this very link.  (So it still expires    *)
(* when it did as the link was read, and that is what `now` is compared to.) *)
Claims_byInvitation(c) == Pending(call[c].inv)          \* mutant

Claims(c) == Pending(call[c].inv) /\ invitation[call[c].inv].link = call[c].link

(* Creating a second membership, or adding roles to one that is gone, fails   *)
(* and takes the claim back.                                                *)
MembershipFits(c) ==
    \/ call[c].seen = "nobody" /\ member[call[c].who] = NotAMember
    \/ call[c].seen = "member"

ClaimInvitation(c) ==
    LET x == call[c].who
        i == call[c].inv
    IN
    /\ At(c, "claiming")
    /\ IF Claims(c) /\ MembershipFits(c)
       THEN /\ invitation' = [invitation EXCEPT ![i] = [@ EXCEPT !.status = "accepted", !.acceptedBy = x]]
            /\ member' = [member EXCEPT ![x] = IF @ = NotAMember THEN call[c].roles ELSE @ \cup call[c].roles]
            /\ call' = [call EXCEPT ![c] = [Idle EXCEPT !.step = "joined", !.inv = i, !.who = x,
                                                        !.link = call[c].link]]
            /\ lock' = Released(c)
       ELSE End(c, "refused") /\ UNCHANGED <<invitation, member>>
    /\ UNCHANGED <<power, access, left>>

-----------------------------------------------------------------------------
(***************************************************************************)
(* Around the service: other members' administration, time, and crashes.    *)
(***************************************************************************)
(* The access service gives, takes, edits and deletes roles: what the inviter *)
(* can give changes.                                                       *)
PowerChanges ==
    /\ access /\ AccessLockIsFree
    /\ power' \in SUBSET Role
    /\ UNCHANGED <<invitation, member, lock, call, access, left>>

(* leaveOrganization and transferOwnership are the inviter's own acts, and    *)
(* take no access lock.                                                    *)
InviterStepsDown ==
    /\ access
    /\ power' \in SUBSET power
    /\ left' = TRUE
    /\ UNCHANGED <<invitation, member, lock, call, access>>

(* A membership without roles gives nobody anything, and may be added by     *)
(* anyone at any time.                                                     *)
AddMember(x, roles) ==
    /\ member[x] = NotAMember
    /\ roles # {} => AccessLockIsFree
    /\ member' = [member EXCEPT ![x] = roles]
    /\ UNCHANGED <<invitation, power, lock, call, access, left>>

(* Members are removed under the access lock, and leave without it.  Whoever  *)
(* is about to use the membership row finds it gone.                        *)
RemoveMember(x) ==
    /\ member[x] # NotAMember
    /\ member' = [member EXCEPT ![x] = NotAMember]
    /\ call' = [c \in Call |-> IF call[c].who = x /\ call[c].seen = "member"
                               THEN [call[c] EXCEPT !.seen = "gone"] ELSE call[c]]
    /\ UNCHANGED <<invitation, power, lock, access, left>>

ExpiryPasses(i) ==
    /\ invitation[i].status = "pending"
    /\ invitation' = [invitation EXCEPT ![i].status = "lapsed"]
    /\ UNCHANGED <<member, power, lock, call, access, left>>

HourPasses(i) ==
    /\ invitation[i].recent
    /\ invitation' = [invitation EXCEPT ![i].recent = FALSE]
    /\ UNCHANGED <<member, power, lock, call, access, left>>

CooldownPasses(i) ==
    /\ invitation[i].lately
    /\ invitation' = [invitation EXCEPT ![i].lately = FALSE]
    /\ UNCHANGED <<member, power, lock, call, access, left>>

GoesDown(c) ==
    /\ call[c].step \notin Ended \cup {"idle"}
    /\ End(c, "done")
    /\ UNCHANGED <<invitation, member, power, access, left>>

InvNext ==
    \/ \E c \in Call :
          \/ \E roles \in SUBSET Role, key \in Key \cup {None} :
                StartInvite(c, roles, key) \/ RefuseMember(c, roles, key)
          \/ \E i \in Call : StartResend(c, i) \/ \E x \in Identity : Open(c, i, x)
          \/ LockInvites(c) \/ DecideInvite(c) \/ Create(c)
          \/ Rotate(c) \/ RecordDelivery(c)
          \/ DecideAccept(c) \/ ClaimInvitation(c) \/ GoesDown(c)
    \/ \E i \in Call : Revoke(i) \/ ExpiryPasses(i) \/ HourPasses(i) \/ CooldownPasses(i)
    \/ \E x \in Identity : RemoveMember(x) \/ \E roles \in SUBSET Role : AddMember(x, roles)
    \/ PowerChanges \/ InviterStepsDown

InvSpec == InvInit /\ [][InvNext]_vars

-----------------------------------------------------------------------------
(* No more invitations within an hour than the limit, also when calls in     *)
(* several processes count at the same time, and invitations are revoked or *)
(* accepted in between.                                                    *)
RateLimitHolds == Cardinality(Recent) <= PerHour

(* Once it has the lock, repeating a request with its key is safe at any      *)
(* moment: whenever there is an invitation made with that key for that       *)
(* request, the answer is that invitation, and neither the one-pending rule, *)
(* nor the rate limit, nor a lost race turns it into an error.              *)
RetriesAreReplayed ==
    [][\A c \in Call, i \in Call :
          ~At(c, "refused") /\ call'[c].step = "refused" /\ call[c].step \in {"locked", "creating"} =>
             ~(invitation[i].status # "none" /\ invitation[i].key # None
               /\ invitation[i].key = call[c].key /\ invitation[i].roles = call[c].roles)]_vars

(* An invitation is accepted exactly when one call joined by it: by the link *)
(* the invitation has (so not by one a resend replaced), for the identity   *)
(* it names, and never again.  Half an acceptance never stays.             *)
AnInvitationJoinsOne ==
    /\ \A c \in Call :
          At(c, "joined") =>
             /\ invitation[call[c].inv].status = "accepted"
             /\ invitation[call[c].inv].link = call[c].link
             /\ invitation[call[c].inv].acceptedBy = call[c].who
             /\ \A d \in Call : At(d, "joined") /\ call[d].inv = call[c].inv => d = c
    /\ \A i \in Call : invitation[i].status = "accepted" => \E c \in Call : At(c, "joined") /\ call[c].inv = i

(* What an invitation gives is within what its inviter can give at that very *)
(* moment, and never goes to a member who holds more than they do, unless    *)
(* the inviter has left or stepped down.                                   *)
Within(c) ==
    /\ call[c].roles \subseteq power
    /\ call[c].seen = "member" => member[call[c].who] \subseteq power

GivenWithinPower ==
    [][\A c \in Call :
          access /\ ~left /\ At(c, "claiming") /\ call'[c].step = "joined" => Within(c)]_vars
=============================================================================
