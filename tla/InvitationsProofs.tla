------------------------- MODULE InvitationsProofs -------------------------
(***************************************************************************)
(* What is proved of Invitations for any number of calls, identities, roles *)
(* and keys and any limit.                                                 *)
(***************************************************************************)
EXTENDS Invitations, FiniteSetTheorems, TLAPS

(* What the statements and the passing of time do to a row makes a row of it. *)
LEMMA EditedRows ==
    ASSUME NEW r \in Rows
    PROVE  /\ \A c \in Call : [r EXCEPT !.link = c, !.status = "pending"] \in Rows
           /\ \A x \in Identity \cup {None} : [r EXCEPT !.status = "accepted", !.acceptedBy = x] \in Rows
           /\ \A s \in {"lapsed", "revoked", "expired"} : [r EXCEPT !.status = s] \in Rows
           /\ [r EXCEPT !.lately = TRUE] \in Rows /\ [r EXCEPT !.lately = FALSE] \in Rows
           /\ [r EXCEPT !.recent = FALSE] \in Rows
<1>1. \A c \in Call : [r EXCEPT !.link = c, !.status = "pending"] \in Rows
  BY DEF Rows
<1>2. \A x \in Identity \cup {None} : [r EXCEPT !.status = "accepted", !.acceptedBy = x] \in Rows
  BY DEF Rows
<1>3. \A s \in {"lapsed", "revoked", "expired"} : [r EXCEPT !.status = s] \in Rows
  BY DEF Rows
<1>4. /\ [r EXCEPT !.lately = TRUE] \in Rows /\ [r EXCEPT !.lately = FALSE] \in Rows
      /\ [r EXCEPT !.recent = FALSE] \in Rows
  BY DEF Rows
<1> QED BY <1>1, <1>2, <1>3, <1>4

(* A call whose transaction ends leaves every lock with an open transaction. *)
LEMMA TransactionEnds ==
    ASSUME InvTypeOK, NEW c \in Call, NEW r \in Calls,
           call' = [call EXCEPT ![c] = r], lock' = Released(c)
    PROVE  /\ call' \in [Call -> Calls]
           /\ lock' \in [Locks -> Call \cup {None}]
           /\ \A k \in Locks : lock'[k] # None => call'[lock'[k]].step \in Transaction
<1>1. call' \in [Call -> Calls] /\ lock' \in [Locks -> Call \cup {None}]
  BY DEF InvTypeOK, Released
<1>2. ASSUME NEW k \in Locks, lock'[k] # None PROVE call'[lock'[k]].step \in Transaction
  <2>1. lock'[k] = lock[k] /\ lock[k] # c /\ lock[k] \in Call
    BY <1>2 DEF InvTypeOK, Released
  <2> QED BY <1>2, <2>1 DEF InvTypeOK
<1> QED BY <1>1, <1>2

(* The same for a call that ends without having joined.                      *)
LEMMA CallEnds ==
    ASSUME InvTypeOK, NEW c \in Call, NEW how \in Ended, End(c, how)
    PROVE  /\ call' \in [Call -> Calls]
           /\ lock' \in [Locks -> Call \cup {None}]
           /\ \A k \in Locks : lock'[k] # None => call'[lock'[k]].step \in Transaction
<1>1. [Idle EXCEPT !.step = how] \in Calls
  BY DEF Idle, Calls, Steps, Ended
<1> QED BY <1>1, TransactionEnds DEF End

(* The rows, the memberships and the calls keep their shape, and an advisory *)
(* lock is held only by a transaction that is open.                         *)
THEOREM TypeCorrect == InvSpec => []InvTypeOK
<1>1. InvInit => InvTypeOK
  <2> SUFFICES ASSUME InvInit PROVE InvTypeOK
    OBVIOUS
  <2>1. NoInvitation \in Rows /\ Idle \in Calls
    BY DEF NoInvitation, Rows, Idle, Calls, Steps
  <2> QED BY <2>1 DEF InvInit, InvTypeOK
<1>2. InvTypeOK /\ [InvNext]_vars => InvTypeOK'
  <2> SUFFICES ASSUME InvTypeOK, [InvNext]_vars PROVE InvTypeOK'
    OBVIOUS
  <2> USE CallsAssumption DEF InvTypeOK, Locks, Steps, Transaction, Ended, At
  <2>1. ASSUME NEW c \in Call, NEW roles \in SUBSET Role, NEW key \in Key \cup {None},
               StartInvite(c, roles, key) \/ RefuseMember(c, roles, key)
        PROVE  InvTypeOK'
    <3>1. CASE StartInvite(c, roles, key)
      BY ZenonT(30), <3>1 DEF StartInvite, Calls, Idle
    <3>2. CASE RefuseMember(c, roles, key)
      BY <3>2 DEF RefuseMember, Calls, Idle
    <3> QED BY <2>1, <3>1, <3>2
  <2>2. ASSUME NEW c \in Call, NEW i \in Call, StartResend(c, i) PROVE InvTypeOK'
    BY <2>2 DEF StartResend, Calls, Idle
  <2>3. ASSUME NEW c \in Call, NEW i \in Call, NEW x \in Identity, Open(c, i, x) PROVE InvTypeOK'
    BY ZenonT(30), <2>3 DEF Open, Calls, Idle, Rows
  <2>4. ASSUME NEW c \in Call, LockInvites(c) PROVE InvTypeOK'
    <3>1. call' \in [Call -> Calls] /\ \A d \in Call : d # c => call'[d] = call[d]
      BY <2>4 DEF LockInvites, Calls
    <3>2. call'[c].step = "locked"
      BY <2>4 DEF LockInvites, Calls
    <3>3. lock' \in [Locks -> Call \cup {None}] /\ \A k \in Locks : lock'[k] = c \/ lock'[k] = lock[k]
      BY <2>4 DEF LockInvites
    <3>4. \A k \in Locks : lock'[k] # None => call'[lock'[k]].step \in Transaction
      BY <3>1, <3>2, <3>3
    <3> QED BY <2>4, <3>1, <3>3, <3>4 DEF LockInvites
  <2>5. ASSUME NEW c \in Call, DecideInvite(c) PROVE InvTypeOK'
    <3>1. CASE Verdict(c) = "creating"
      BY <2>5, <3>1 DEF DecideInvite, Calls
    <3>2. CASE Verdict(c) # "creating"
      <4>1. Verdict(c) \in {"done", "refused"}
        BY <3>2 DEF Verdict
      <4> QED BY <2>5, <3>2, <4>1, CallEnds DEF DecideInvite
    <3> QED BY <3>1, <3>2
  <2>6. ASSUME NEW c \in Call, Create(c) PROVE InvTypeOK'
    <3> DEFINE new == [NoInvitation EXCEPT !.status = "pending", !.link = c, !.roles = call[c].roles,
                                           !.key = call[c].key, !.recent = TRUE]
               kept == [i \in Call |-> Expired(invitation[i])]
    <3>1. new \in Rows
      BY DEF Rows, NoInvitation, Calls
    <3>2. kept \in [Call -> Rows]
      BY EditedRows DEF Expired
    <3>3. [Idle EXCEPT !.step = "mailing", !.inv = c] \in Calls
      BY DEF Idle, Calls
    <3>4. CASE invitation' = [kept EXCEPT ![c] = new] /\ lock' = Released(c)
               /\ call' = [call EXCEPT ![c] = [Idle EXCEPT !.step = "mailing", !.inv = c]]
      <4>1. invitation' \in [Call -> Rows]
        BY <3>1, <3>2, <3>4
      <4> QED BY <2>6, <3>3, <3>4, <4>1, TransactionEnds DEF Create
    <3>5. CASE End(c, "refused") /\ invitation' = invitation
      BY <2>6, <3>5, CallEnds DEF Create
    <3> QED BY <2>6, <3>4, <3>5 DEF Create
  <2>7. ASSUME NEW c \in Call, Rotate(c) PROVE InvTypeOK'
    <3>1. CASE invitation' = [invitation EXCEPT ![call[c].inv] = [@ EXCEPT !.link = c, !.status = "pending"]]
               /\ call' = [call EXCEPT ![c].step = "mailing"] /\ lock' = lock
      <4>1. invitation' \in [Call -> Rows]
        <5> DEFINE j == call[c].inv
                   r == [invitation[j] EXCEPT !.link = c, !.status = "pending"]
        <5>1. j \in Call => r \in Rows
          BY EditedRows
        <5>2. invitation' = [invitation EXCEPT ![j] = r]
          BY <3>1
        <5> HIDE DEF j, r
        <5> QED BY <5>1, <5>2
      <4>2. call' \in [Call -> Calls]
        BY <3>1 DEF Calls
      <4> QED BY <2>7, <3>1, <4>1, <4>2 DEF Rotate
    <3>2. CASE (End(c, "refused") \/ End(c, "done")) /\ invitation' = invitation
      BY <2>7, <3>2, CallEnds DEF Rotate
    <3> QED BY <2>7, <3>1, <3>2 DEF Rotate
  <2>8. ASSUME NEW c \in Call, RecordDelivery(c) PROVE InvTypeOK'
    <3>1. invitation' \in [Call -> Rows]
      <4> DEFINE j == call[c].inv
                 r == [invitation[j] EXCEPT !.lately = TRUE]
      <4>1. j \in Call => r \in Rows
        BY EditedRows
      <4>2. invitation' = [invitation EXCEPT ![j] = r]
        BY <2>8 DEF RecordDelivery
      <4> HIDE DEF j, r
      <4> QED BY <4>1, <4>2
    <3> QED BY <2>8, <3>1, CallEnds DEF RecordDelivery
  <2>9. ASSUME NEW c \in Call, DecideAccept(c) PROVE InvTypeOK'
    <3>1. Grantable(call[c].who, call[c].roles) \in SUBSET Role
      BY DEF Grantable, Calls
    <3>2. CASE Grantable(call[c].who, call[c].roles) = {}
      BY <2>9, <3>2, CallEnds DEF DecideAccept
    <3>3. CASE Grantable(call[c].who, call[c].roles) # {}
      BY <2>9, <3>1, <3>3 DEF DecideAccept, Calls
    <3> QED BY <3>2, <3>3
  <2>10. ASSUME NEW c \in Call, ClaimInvitation(c) PROVE InvTypeOK'
    <3>1. CASE Claims(c) /\ MembershipFits(c)
      <4>1. invitation' \in [Call -> Rows]
        <5> DEFINE j == call[c].inv
                   r == [invitation[j] EXCEPT !.status = "accepted", !.acceptedBy = call[c].who]
        <5>1. j \in Call => r \in Rows
          <6>1. call[c].who \in Identity \cup {None}
            BY DEF Calls
          <6> QED BY <6>1, EditedRows
        <5>2. invitation' = [invitation EXCEPT ![j] = r]
          BY <2>10, <3>1 DEF ClaimInvitation
        <5> HIDE DEF j, r
        <5> QED BY <5>1, <5>2
      <4>2. member' \in [Identity -> (SUBSET Role) \cup {NotAMember}]
        BY <2>10, <3>1 DEF ClaimInvitation, Calls
      <4>3. [Idle EXCEPT !.step = "joined", !.inv = call[c].inv, !.who = call[c].who,
                         !.link = call[c].link] \in Calls
        BY DEF Calls, Idle
      <4> QED BY <2>10, <3>1, <4>1, <4>2, <4>3, TransactionEnds DEF ClaimInvitation
    <3>2. CASE ~(Claims(c) /\ MembershipFits(c))
      BY <2>10, <3>2, CallEnds DEF ClaimInvitation
    <3> QED BY <3>1, <3>2
  <2>11. ASSUME NEW c \in Call, GoesDown(c) PROVE InvTypeOK'
    BY <2>11, CallEnds DEF GoesDown
  <2>12. ASSUME NEW i \in Call, Revoke(i) PROVE InvTypeOK'
    BY <2>12, EditedRows DEF Revoke
  <2>13. ASSUME NEW i \in Call, ExpiryPasses(i) \/ HourPasses(i) \/ CooldownPasses(i) PROVE InvTypeOK'
    <3>1. CASE ExpiryPasses(i)
      BY <3>1, EditedRows DEF ExpiryPasses
    <3>2. CASE HourPasses(i)
      BY <3>2, EditedRows DEF HourPasses
    <3>3. CASE CooldownPasses(i)
      BY <3>3, EditedRows DEF CooldownPasses
    <3> QED BY <2>13, <3>1, <3>2, <3>3
  <2>14. ASSUME NEW x \in Identity, RemoveMember(x) PROVE InvTypeOK'
    <3>1. \A c \in Call : [call[c] EXCEPT !.seen = "gone"] \in Calls
      BY DEF Calls
    <3>2. call' \in [Call -> Calls]
      BY <2>14, <3>1 DEF RemoveMember
    <3>3. \A c \in Call : call'[c].step = call[c].step
      BY <2>14 DEF RemoveMember, Calls
    <3> QED BY <2>14, <3>2, <3>3 DEF RemoveMember
  <2>15. ASSUME NEW x \in Identity, NEW roles \in SUBSET Role, AddMember(x, roles) PROVE InvTypeOK'
    BY <2>15 DEF AddMember
  <2>16. CASE PowerChanges \/ InviterStepsDown
    BY <2>16 DEF PowerChanges, InviterStepsDown
  <2>17. CASE UNCHANGED vars
    BY <2>17 DEF vars
  <2> QED BY <2>1, <2>2, <2>3, <2>4, <2>5, <2>6, <2>7, <2>8, <2>9, <2>10, <2>11, <2>12, <2>13,
             <2>14, <2>15, <2>16, <2>17 DEF InvNext
<1> QED BY <1>1, <1>2, PTL DEF InvSpec

-----------------------------------------------------------------------------
(* What happens around the service moves no call, except that it may find    *)
(* the membership it was about to use gone, and takes no lock.              *)
Around ==
    \/ \E i \in Call : Revoke(i) \/ ExpiryPasses(i) \/ HourPasses(i) \/ CooldownPasses(i)
    \/ \E x \in Identity : RemoveMember(x) \/ \E roles \in SUBSET Role : AddMember(x, roles)
    \/ PowerChanges \/ InviterStepsDown
    \/ UNCHANGED vars

(* A call that stays where it is, except that a membership may be found gone. *)
SameButSeen(c) ==
    /\ call'[c].step = call[c].step /\ call'[c].roles = call[c].roles /\ call'[c].key = call[c].key
    /\ call'[c].inv = call[c].inv /\ call'[c].link = call[c].link /\ call'[c].who = call[c].who
    /\ call'[c].seen = "member" => call[c].seen = "member"

(* No lock and no call moves around the service.                            *)
LEMMA AroundIsQuiet ==
    ASSUME InvTypeOK, Around
    PROVE  lock' = lock /\ access' = access /\ \A c \in Call : SameButSeen(c)
<1>1. ASSUME NEW x \in Identity, RemoveMember(x)
      PROVE  lock' = lock /\ access' = access /\ \A c \in Call : SameButSeen(c)
  BY <1>1 DEF InvTypeOK, RemoveMember, SameButSeen, Calls
<1>2. CASE call' = call /\ lock' = lock /\ access' = access
  BY <1>2 DEF SameButSeen
<1> QED BY <1>1, <1>2 DEF Around, Revoke, ExpiryPasses, HourPasses, CooldownPasses, AddMember,
        PowerChanges, InviterStepsDown, vars

(* What one call does.                                                      *)
CallStep(c) ==
    \/ \E roles \in SUBSET Role, key \in Key \cup {None} :
          StartInvite(c, roles, key) \/ RefuseMember(c, roles, key)
    \/ \E i \in Call : StartResend(c, i) \/ \E x \in Identity : Open(c, i, x)
    \/ LockInvites(c) \/ DecideInvite(c) \/ Create(c)
    \/ Rotate(c) \/ RecordDelivery(c)
    \/ DecideAccept(c) \/ ClaimInvitation(c) \/ GoesDown(c)

(* Each step is a step of one call or a step around them.                    *)
LEMMA StepsAreOfOneCall ==
    ASSUME [InvNext]_vars
    PROVE  Around \/ \E c \in Call : CallStep(c)
  BY DEF InvNext, Around, CallStep

(* A call that moves leaves the others where they are, and theirs the locks  *)
(* they hold.                                                              *)
LEMMA CallsMoveAlone ==
    ASSUME InvTypeOK, NEW c \in Call, CallStep(c)
    PROVE  /\ access' = access
           /\ \A d \in Call : d # c => call'[d] = call[d]
           /\ \A k \in Locks, d \in Call : d # c /\ lock[k] = d => lock'[k] = d
  BY CallsAssumption DEF InvTypeOK, CallStep, StartInvite, RefuseMember, StartResend, Open, LockInvites,
     DecideInvite, Create, Rotate, RecordDelivery, DecideAccept, ClaimInvitation, GoesDown, End, Released, Locks,
     AccessLockIsFree

-----------------------------------------------------------------------------
(* A transaction that has decided holds the locks it decided under.          *)
LocksHeld ==
    \A c \in Call :
       /\ call[c].step \in {"locked", "creating"} => lock["invite"] = c
       /\ access /\ call[c].step \in {"creating", "claiming"} => lock["access"] = c

(* What one call's own step does to the locks it needs next.                 *)
LEMMA OwnLocks ==
    ASSUME InvTypeOK, LocksHeld, NEW c \in Call, CallStep(c)
    PROVE  /\ call'[c].step \in {"locked", "creating"} => lock'["invite"] = c
           /\ access' /\ call'[c].step \in {"creating", "claiming"} => lock'["access"] = c
<1> USE DEF InvTypeOK, Locks
<1>1. ASSUME NEW how \in Ended, End(c, how)
      PROVE  call'[c].step \notin {"locked", "creating", "claiming"}
  BY <1>1 DEF End, Idle, Ended
<1>2. ASSUME NEW roles \in SUBSET Role, NEW key \in Key \cup {None},
             StartInvite(c, roles, key) \/ RefuseMember(c, roles, key)
      PROVE  call'[c].step \notin {"locked", "creating", "claiming"}
  BY ZenonT(30), <1>2 DEF StartInvite, RefuseMember, Idle
<1>3. ASSUME NEW i \in Call, StartResend(c, i) \/ \E x \in Identity : Open(c, i, x)
      PROVE  call'[c].step \notin {"locked", "creating", "claiming"}
  <2>1. CASE StartResend(c, i)
    BY <2>1 DEF StartResend, Idle
  <2>2. ASSUME NEW x \in Identity, Open(c, i, x) PROVE call'[c].step = "opening"
    BY <2>2 DEF Open, Idle
  <2> QED BY <1>3, <2>1, <2>2
<1>4. CASE LockInvites(c)
  BY <1>4 DEF LockInvites, Calls
<1>5. CASE DecideInvite(c)
  <2>1. CASE Verdict(c) = "creating"
    BY <1>5, <2>1 DEF DecideInvite, At, LocksHeld, Calls
  <2>2. CASE Verdict(c) # "creating"
    <3>1. Verdict(c) \in Ended
      BY <2>2 DEF Verdict, Ended
    <3> QED BY <1>1, <1>5, <2>2, <3>1 DEF DecideInvite
  <2> QED BY <2>1, <2>2
<1>6. CASE Create(c)
  <2>1. CASE call' = [call EXCEPT ![c] = [Idle EXCEPT !.step = "mailing", !.inv = c]]
    BY <2>1 DEF Idle
  <2>2. CASE End(c, "refused")
    BY <1>1, <2>2 DEF Ended
  <2> QED BY <1>6, <2>1, <2>2 DEF Create
<1>7. CASE Rotate(c)
  <2>1. CASE call' = [call EXCEPT ![c].step = "mailing"]
    BY <2>1 DEF Calls
  <2>2. CASE End(c, "refused") \/ End(c, "done")
    BY <1>1, <2>2 DEF Ended
  <2> QED BY <1>7, <2>1, <2>2 DEF Rotate
<1>8. CASE RecordDelivery(c) \/ GoesDown(c)
  BY <1>1, <1>8 DEF RecordDelivery, GoesDown, Ended
<1>9. CASE DecideAccept(c)
  <2>1. CASE Grantable(call[c].who, call[c].roles) = {}
    BY <1>1, <1>9, <2>1 DEF DecideAccept, Ended
  <2>2. CASE Grantable(call[c].who, call[c].roles) # {}
    BY <1>9, <2>2 DEF DecideAccept, Calls
  <2> QED BY <2>1, <2>2
<1>10. CASE ClaimInvitation(c)
  <2>1. CASE call' = [call EXCEPT ![c] = [Idle EXCEPT !.step = "joined", !.inv = call[c].inv,
                                                      !.who = call[c].who, !.link = call[c].link]]
    BY <2>1 DEF Idle
  <2>2. CASE End(c, "refused")
    BY <1>1, <2>2 DEF Ended
  <2> QED BY <1>10, <2>1, <2>2 DEF ClaimInvitation
<1> QED BY <1>2, <1>3, <1>4, <1>5, <1>6, <1>7, <1>8, <1>9, <1>10 DEF CallStep

(* Nobody takes a lock that is held, or gives back another's.               *)
LEMMA LocksStayHeld ==
    ASSUME InvTypeOK, LocksHeld, [InvNext]_vars
    PROVE  LocksHeld'
<1>1. CASE Around
  BY <1>1, AroundIsQuiet DEF LocksHeld, SameButSeen
<1>2. ASSUME NEW c \in Call, CallStep(c) PROVE LocksHeld'
  <2>1. ASSUME NEW d \in Call, d # c
        PROVE  /\ call'[d].step \in {"locked", "creating"} => lock'["invite"] = d
               /\ access' /\ call'[d].step \in {"creating", "claiming"} => lock'["access"] = d
    BY <1>2, <2>1, CallsMoveAlone DEF LocksHeld, Locks
  <2> QED BY <1>2, <2>1, OwnLocks DEF LocksHeld
<1> QED BY <1>1, <1>2, StepsAreOfOneCall

-----------------------------------------------------------------------------
(* A step leaves an invitation's key, its roles and whether it exists alone,  *)
(* and makes none recent, unless it is the step that creates it.            *)
RowStays(i) ==
    /\ invitation'[i].key = invitation[i].key /\ invitation'[i].roles = invitation[i].roles
    /\ invitation'[i].status = "none" <=> invitation[i].status = "none"
    /\ invitation'[i].recent => invitation[i].recent

(* Only the insertion of an invitation makes one.                           *)
LEMMA OnlyCreateAddsRows ==
    ASSUME InvTypeOK, [InvNext]_vars, NEW i \in Call
    PROVE  RowStays(i) \/ (Create(i) /\ call'[i].step = "mailing")
<1> USE DEF InvTypeOK, RowStays
<1>1. CASE invitation' = invitation
  BY <1>1
<1>2. ASSUME NEW c \in Call, Create(c), invitation' # invitation
      PROVE  RowStays(i) \/ (Create(i) /\ call'[i].step = "mailing")
  <2>1. call'[c].step = "mailing"
    BY <1>2 DEF Create, Idle
  <2>2. CASE c = i
    BY <1>2, <2>1, <2>2
  <2>3. CASE c # i
    <3>1. invitation'[i] = Expired(invitation[i])
      BY <1>2, <2>3 DEF Create
    <3> QED BY <3>1 DEF Expired, Rows
  <2> QED BY <2>2, <2>3
<1>3. ASSUME NEW c \in Call, Rotate(c) \/ RecordDelivery(c) \/ ClaimInvitation(c)
      PROVE  RowStays(i)
  <2>1. CASE Rotate(c)
    <3>1. \/ invitation' = invitation
          \/ /\ invitation[call[c].inv].status # "none"
             /\ invitation' = [invitation EXCEPT ![call[c].inv] = [@ EXCEPT !.link = c, !.status = "pending"]]
      BY <2>1 DEF Rotate, Pending
    <3>2. \/ invitation'[i] = invitation[i]
          \/ invitation[i].status # "none" /\ invitation'[i] = [invitation[i] EXCEPT !.link = c, !.status = "pending"]
      BY <3>1
    <3>3. invitation[i] \in Rows
      OBVIOUS
    <3> HIDE DEF InvTypeOK
    <3> QED BY <3>2, <3>3 DEF Rows
  <2>2. CASE RecordDelivery(c)
    BY <2>2 DEF RecordDelivery, Rows
  <2>3. CASE ClaimInvitation(c)
    <3>1. \/ invitation' = invitation
          \/ /\ invitation[call[c].inv].status # "none"
             /\ invitation' = [invitation EXCEPT ![call[c].inv] = [@ EXCEPT !.status = "accepted", !.acceptedBy = call[c].who]]
      BY <2>3 DEF ClaimInvitation, Claims, Pending
    <3>2. \/ invitation'[i] = invitation[i]
          \/ /\ invitation[i].status # "none"
             /\ invitation'[i] = [invitation[i] EXCEPT !.status = "accepted", !.acceptedBy = call[c].who]
      BY <3>1
    <3>3. invitation[i] \in Rows
      OBVIOUS
    <3> HIDE DEF InvTypeOK
    <3> QED BY <3>2, <3>3 DEF Rows
  <2> QED BY <1>3, <2>1, <2>2, <2>3
<1>4. ASSUME NEW j \in Call, Revoke(j) \/ ExpiryPasses(j) \/ HourPasses(j) \/ CooldownPasses(j)
      PROVE  RowStays(i)
  <2>1. CASE Revoke(j)
    BY <2>1 DEF Revoke, Pending, Rows
  <2>2. CASE ExpiryPasses(j)
    BY <2>2 DEF ExpiryPasses, Rows
  <2>3. CASE HourPasses(j)
    BY <2>3 DEF HourPasses, Rows
  <2>4. CASE CooldownPasses(j)
    BY <2>4 DEF CooldownPasses, Rows
  <2> QED BY <1>4, <2>1, <2>2, <2>3, <2>4
<1> QED BY <1>1, <1>2, <1>3, <1>4 DEF InvNext, StartInvite, RefuseMember, StartResend, Open, LockInvites,
        DecideInvite,
        DecideAccept, GoesDown, RemoveMember, AddMember, PowerChanges, InviterStepsDown, vars

(* The insertion is reached through the decision.                            *)
LEMMA CreatingIsDecided ==
    ASSUME InvTypeOK, [InvNext]_vars, NEW c \in Call, At(c, "creating")'
    PROVE  \/ At(c, "creating") /\ call'[c].key = call[c].key
           \/ DecideInvite(c) /\ Verdict(c) = "creating" /\ call'[c].key = call[c].key
<1> USE DEF InvTypeOK, At
<1>1. CASE Around
  BY <1>1, AroundIsQuiet DEF SameButSeen
<1>2. ASSUME NEW d \in Call, d # c, CallStep(d)
      PROVE  At(c, "creating") /\ call'[c].key = call[c].key
  BY <1>2, CallsMoveAlone
<1>3. CASE CallStep(c)
  <2>1. ASSUME NEW how \in Ended, End(c, how) PROVE FALSE
    BY <2>1 DEF End, Idle, Ended
  <2>2. CASE DecideInvite(c)
    <3>1. Verdict(c) \in Ended \cup {"creating"}
      BY DEF Verdict, Ended
    <3>2. Verdict(c) = "creating"
      BY <2>1, <2>2, <3>1 DEF DecideInvite
    <3> QED BY <2>2, <3>2 DEF DecideInvite, Calls
  <2>3. CASE ~DecideInvite(c)
    <3>1. "refused" \in Ended /\ "done" \in Ended
      BY DEF Ended
    <3>2. ~(LockInvites(c) \/ Rotate(c))
      BY <2>1, <3>1 DEF LockInvites, Rotate, Calls
    <3>4. ~Create(c)
      BY <2>1, <3>1 DEF Create, Idle
    <3>5. ~ClaimInvitation(c)
      <4>1. CASE call' = [call EXCEPT ![c] = [Idle EXCEPT !.step = "joined", !.inv = call[c].inv,
                                                          !.who = call[c].who, !.link = call[c].link]]
        BY <4>1 DEF Idle
      <4>2. CASE ~End(c, "refused")
        BY <4>1, <4>2 DEF ClaimInvitation
      <4> QED BY <2>1, <3>1, <4>2
    <3>3. ~(RecordDelivery(c) \/ GoesDown(c) \/ DecideAccept(c))
      BY <2>1, <3>1 DEF RecordDelivery, GoesDown, DecideAccept, Calls
    <3>6. ASSUME NEW roles \in SUBSET Role, NEW key \in Key \cup {None},
                 StartInvite(c, roles, key) \/ RefuseMember(c, roles, key)
          PROVE  FALSE
      BY <3>6 DEF StartInvite, RefuseMember, Idle
    <3>7. ASSUME NEW i \in Call, StartResend(c, i) \/ \E x \in Identity : Open(c, i, x) PROVE FALSE
      BY <3>7 DEF StartResend, Open, Idle
    <3> QED BY <1>3, <2>3, <3>2, <3>3, <3>4, <3>5, <3>6, <3>7 DEF CallStep
  <2> QED BY <2>2, <2>3
<1> QED BY <1>1, <1>2, <1>3, StepsAreOfOneCall

(* An invitation counts against the limit before it is inserted: whoever is   *)
(* about to insert one has counted and holds the lock since.                *)
RoomIsLeft ==
    /\ Cardinality(Recent) <= PerHour
    /\ \A c \in Call : At(c, "creating") => Cardinality(Recent) < PerHour

(* There are finitely many calls, so finitely many invitations to count.    *)
LEMMA RecentIsFinite ==
    ASSUME InvTypeOK
    PROVE  IsFiniteSet(Recent) /\ Cardinality(Recent) \in Nat
  BY CallsAssumption, FS_Subset, FS_CardinalityType DEF Recent

(* Whoever inserts is the one holder of the lock, so nobody else has counted. *)
LEMMA RoomStaysLeft ==
    ASSUME InvTypeOK, InvTypeOK', LocksHeld, RoomIsLeft, [InvNext]_vars
    PROVE  RoomIsLeft'
<1> USE PerHourAssumption
<1>1. IsFiniteSet(Recent) /\ Cardinality(Recent) \in Nat
  BY RecentIsFinite
<1>2. CASE \A i \in Call : RowStays(i)
  <2>1. Recent' \subseteq Recent
    BY <1>2 DEF Recent, RowStays
  <2>2. Cardinality(Recent') <= Cardinality(Recent) /\ Cardinality(Recent') \in Nat
    BY <1>1, <2>1, FS_Subset, FS_CardinalityType
  <2>3. ASSUME NEW c \in Call, At(c, "creating")' PROVE Cardinality(Recent) < PerHour
    <3>1. CASE At(c, "creating")
      BY <3>1 DEF RoomIsLeft
    <3>2. CASE Verdict(c) = "creating"
      BY <1>1, <3>2 DEF Verdict
    <3> QED BY <2>3, <3>1, <3>2, CreatingIsDecided
  <2> QED BY <1>1, <2>2, <2>3 DEF RoomIsLeft
<1>3. ASSUME NEW c \in Call, Create(c), call'[c].step = "mailing" PROVE RoomIsLeft'
  <2>1. At(c, "creating")
    BY <1>3 DEF Create
  <2>2. ASSUME NEW d \in Call, At(d, "creating")' PROVE FALSE
    <3>1. d # c
      BY <1>3, <2>2 DEF At
    <3>2. At(d, "creating")
      BY <1>3, <2>2, <3>1, CallsMoveAlone DEF At, CallStep
    <3> QED BY <2>1, <3>1, <3>2 DEF LocksHeld, At
  <2>3. Recent' \subseteq Recent \cup {c}
    <3>1. ASSUME NEW i \in Call, i # c PROVE invitation'[i].recent => invitation[i].recent
      <4>1. At(i, "creating") => FALSE
        BY <2>1, <3>1 DEF LocksHeld, At
      <4> QED BY <4>1, OnlyCreateAddsRows DEF RowStays, Create
    <3> QED BY <3>1 DEF Recent
  <2>4. /\ IsFiniteSet(Recent \cup {c})
        /\ Cardinality(Recent \cup {c}) <= Cardinality(Recent) + 1
        /\ Cardinality(Recent \cup {c}) \in Nat
    <3>1. CASE c \in Recent
      <4>1. Recent \cup {c} = Recent
        BY <3>1
      <4>2. IsFiniteSet(Recent \cup {c}) /\ Cardinality(Recent \cup {c}) = Cardinality(Recent)
        BY <1>1, <4>1
      <4>3. Cardinality(Recent) <= Cardinality(Recent) + 1
        BY <1>1
      <4> QED BY <1>1, <4>2, <4>3
    <3>2. CASE c \notin Recent
      BY <1>1, <3>2, FS_AddElement
    <3> QED BY <3>1, <3>2
  <2>5. Cardinality(Recent') <= Cardinality(Recent \cup {c}) /\ Cardinality(Recent') \in Nat
    BY <2>3, <2>4, FS_Subset, FS_CardinalityType
  <2>6. Cardinality(Recent) < PerHour
    BY <2>1 DEF RoomIsLeft
  <2> QED BY <1>1, <2>2, <2>4, <2>5, <2>6 DEF RoomIsLeft
<1> QED BY <1>2, <1>3, OnlyCreateAddsRows

-----------------------------------------------------------------------------
(* Nobody else uses the key of a call that is about to insert.               *)
KeysAreFree == \A c \in Call : At(c, "creating") => SameKey(c) = {}

(* The lock keeps others from using the key between decision and insertion.  *)
LEMMA KeysStayFree ==
    ASSUME InvTypeOK, LocksHeld, KeysAreFree, [InvNext]_vars
    PROVE  KeysAreFree'
<1> SUFFICES ASSUME NEW c \in Call, At(c, "creating")' PROVE SameKey(c)' = {}
  BY DEF KeysAreFree
<1>1. SameKey(c) = {} /\ call'[c].key = call[c].key
  BY CreatingIsDecided DEF KeysAreFree, Verdict
<1>2. ASSUME NEW i \in Call PROVE RowStays(i)
  <2>1. CASE At(c, "creating")
    <3>1. At(i, "creating") => i = c
      BY <2>1 DEF LocksHeld, At
    <3> QED BY <3>1, OnlyCreateAddsRows DEF Create, At
  <2>2. CASE DecideInvite(c)
    BY <2>2 DEF DecideInvite, RowStays
  <2> QED BY <2>1, <2>2, CreatingIsDecided
<1> QED BY <1>1, <1>2 DEF SameKey, RowStays

(* A call that holds the lock is refused by its decision or its insertion.   *)
LEMMA LockedIsDecided ==
    ASSUME InvTypeOK, [InvNext]_vars, NEW c \in Call, At(c, "locked"), call'[c].step = "refused"
    PROVE  Verdict(c) = "refused"
<1> USE DEF InvTypeOK, At
<1>1. CASE Around
  BY <1>1, AroundIsQuiet DEF SameButSeen
<1>2. ASSUME NEW d \in Call, d # c, CallStep(d) PROVE FALSE
  BY <1>2, CallsMoveAlone
<1>3. CASE CallStep(c)
  <2>1. DecideInvite(c) \/ GoesDown(c)
    BY <1>3 DEF CallStep, StartInvite, RefuseMember, StartResend, Open, LockInvites, Create, Rotate,
       RecordDelivery,
       DecideAccept, ClaimInvitation
  <2>2. ASSUME NEW how \in Ended, End(c, how) PROVE how = "refused"
    BY <2>2 DEF End, Idle
  <2>3. ~GoesDown(c)
    BY <2>2 DEF GoesDown, Ended
  <2>4. Verdict(c) \in Ended \cup {"creating"}
    BY DEF Verdict, Ended
  <2>5. CASE Verdict(c) = "creating"
    <3>1. call' = [call EXCEPT ![c].step = "creating"]
      BY <2>1, <2>3, <2>5 DEF DecideInvite
    <3> QED BY <3>1 DEF Calls
  <2>6. CASE Verdict(c) # "creating"
    BY <2>1, <2>2, <2>3, <2>4, <2>6 DEF DecideInvite
  <2> QED BY <2>5, <2>6
<1> QED BY <1>1, <1>2, <1>3, StepsAreOfOneCall

(* A call turned down under the lock has not met its own key and request.    *)
LEMMA RetryStep ==
    ASSUME InvTypeOK, KeysAreFree, [InvNext]_vars, NEW c \in Call, NEW i \in Call,
           call'[c].step = "refused", call[c].step \in {"locked", "creating"},
           invitation[i].status # "none", invitation[i].key # None, invitation[i].key = call[c].key
    PROVE  invitation[i].roles # call[c].roles
<1>1. i \in SameKey(c)
  BY DEF SameKey
<1>2. CASE At(c, "creating")
  BY <1>1, <1>2 DEF KeysAreFree
<1>3. CASE At(c, "locked")
  BY <1>1, <1>3, LockedIsDecided DEF Verdict
<1> QED BY <1>2, <1>3 DEF At

-----------------------------------------------------------------------------
(* The limit holds with any number of calls counting at the same time.       *)
THEOREM RateLimit == InvSpec => []RateLimitHolds
<1>1. InvInit => LocksHeld /\ RoomIsLeft
  <2> SUFFICES ASSUME InvInit PROVE LocksHeld /\ RoomIsLeft
    OBVIOUS
  <2>1. Recent = {}
    BY DEF InvInit, Recent, NoInvitation
  <2>2. \A c \in Call : call[c].step = "idle"
    BY DEF InvInit, Idle
  <2> QED BY <2>1, <2>2, FS_EmptySet, PerHourAssumption DEF LocksHeld, RoomIsLeft, At
<1>2. InvTypeOK /\ InvTypeOK' /\ LocksHeld /\ RoomIsLeft /\ [InvNext]_vars => LocksHeld' /\ RoomIsLeft'
  BY LocksStayHeld, RoomStaysLeft
<1>3. RoomIsLeft => RateLimitHolds
  BY DEF RoomIsLeft, RateLimitHolds
<1> QED BY <1>1, <1>2, <1>3, TypeCorrect, PTL DEF InvSpec

(* However the calls interleave, one that repeats a request which has created *)
(* its invitation is not turned down.                                      *)
THEOREM Retries == InvSpec => RetriesAreReplayed
<1>1. InvInit => LocksHeld /\ KeysAreFree
  BY DEF InvInit, Idle, LocksHeld, KeysAreFree, At
<1>2. InvTypeOK /\ LocksHeld /\ KeysAreFree /\ [InvNext]_vars => LocksHeld' /\ KeysAreFree'
  BY LocksStayHeld, KeysStayFree
<1> DEFINE Answered ==
      \A c \in Call, i \in Call :
         ~At(c, "refused") /\ call'[c].step = "refused" /\ call[c].step \in {"locked", "creating"} =>
            ~(invitation[i].status # "none" /\ invitation[i].key # None
              /\ invitation[i].key = call[c].key /\ invitation[i].roles = call[c].roles)
<1>3. InvTypeOK /\ KeysAreFree /\ [InvNext]_vars => [Answered]_vars
  <2>1. InvTypeOK /\ KeysAreFree /\ [InvNext]_vars => Answered
    BY RetryStep
  <2> QED BY <2>1
<1>4. RetriesAreReplayed <=> [][Answered]_vars
  BY PTL DEF RetriesAreReplayed
<1> HIDE DEF Answered
<1> QED BY <1>1, <1>2, <1>3, <1>4, TypeCorrect, PTL DEF InvSpec

-----------------------------------------------------------------------------
(* A call gets to the end of its acceptance by opening the invitation and    *)
(* deciding on it; otherwise it is as far as it was.                         *)
LEMMA ClaimingIsDecided ==
    ASSUME InvTypeOK, [InvNext]_vars, NEW c \in Call, call'[c].step \in {"opening", "claiming", "joined"}
    PROVE  \/ SameButSeen(c)
           \/ \E i \in Call, x \in Identity : Open(c, i, x) /\ call'[c].step = "opening"
           \/ DecideAccept(c) /\ call'[c].step = "claiming"
           \/ ClaimInvitation(c) /\ call'[c].step = "joined"
<1> USE DEF InvTypeOK, At
<1>1. CASE Around
  BY <1>1, AroundIsQuiet
<1>2. ASSUME NEW d \in Call, d # c, CallStep(d) PROVE SameButSeen(c)
  BY <1>2, CallsMoveAlone DEF SameButSeen
<1>3. CASE CallStep(c)
  <2>1. ASSUME NEW how \in {"done", "refused"}, End(c, how) PROVE FALSE
    BY <2>1 DEF End, Idle
  <2>2. ASSUME NEW roles \in SUBSET Role, NEW key \in Key \cup {None},
               StartInvite(c, roles, key) \/ RefuseMember(c, roles, key)
        PROVE  FALSE
    BY <2>2 DEF StartInvite, RefuseMember, Idle
  <2>3. ASSUME NEW i \in Call, StartResend(c, i) PROVE FALSE
    BY <2>3 DEF StartResend, Idle
  <2>4. ASSUME NEW i \in Call, NEW x \in Identity, Open(c, i, x) PROVE call'[c].step = "opening"
    BY <2>4 DEF Open, Idle
  <2>5. ~LockInvites(c)
    BY DEF LockInvites, Calls
  <2>6. ~DecideInvite(c)
    <3>1. CASE Verdict(c) = "creating"
      BY <3>1 DEF DecideInvite, Calls
    <3>2. CASE Verdict(c) # "creating"
      <4>1. Verdict(c) \in {"done", "refused"}
        BY <3>2 DEF Verdict
      <4> QED BY <2>1, <3>2, <4>1 DEF DecideInvite
    <3> QED BY <3>1, <3>2
  <2>7. ~Create(c)
    BY <2>1 DEF Create, Idle
  <2>8. ~Rotate(c)
    BY <2>1 DEF Rotate, Calls
  <2>9. ~(RecordDelivery(c) \/ GoesDown(c))
    BY <2>1 DEF RecordDelivery, GoesDown
  <2>10. DecideAccept(c) => call'[c].step = "claiming"
    BY <2>1 DEF DecideAccept, Calls
  <2>11. ClaimInvitation(c) => call'[c].step = "joined"
    BY ZenonT(30), <2>1 DEF ClaimInvitation, Idle
  <2> QED BY <1>3, <2>2, <2>3, <2>4, <2>5, <2>6, <2>7, <2>8, <2>9, <2>10, <2>11 DEF CallStep
<1> QED BY <1>1, <1>2, <1>3, StepsAreOfOneCall

(* A call knows for whom it accepts; and from its decision to its claim, under *)
(* the access lock, what it is about to give stays the inviter's to give.   *)
Entitled ==
    \A c \in Call :
       /\ call[c].step \in {"opening", "claiming"} => call[c].who \in Identity
       /\ access /\ ~left /\ At(c, "claiming") =>
             /\ call[c].roles \subseteq power
             /\ call[c].seen = "member" =>
                   member[call[c].who] # NotAMember /\ member[call[c].who] \subseteq power

(* While the access lock is held, roles are neither taken nor given, except by *)
(* the claim that holds it, unless somebody leaves.                        *)
LEMMA PowerStays ==
    ASSUME InvTypeOK, LocksHeld, [InvNext]_vars, access, ~left', NEW c \in Call, At(c, "claiming"), ~ClaimInvitation(c)
    PROVE  /\ power' = power /\ ~left
           /\ \A x \in Identity : member[x] # NotAMember => member'[x] = member[x] \/ RemoveMember(x)
<1>1. lock["access"] = c /\ lock["access"] # None
  BY CallsAssumption DEF LocksHeld, At
<1>2. ~AccessLockIsFree
  BY <1>1 DEF AccessLockIsFree
<1>3. ASSUME NEW d \in Call, ClaimInvitation(d) PROVE FALSE
  <2>1. d # c /\ At(d, "claiming")
    BY <1>3 DEF ClaimInvitation
  <2> QED BY <1>1, <2>1 DEF LocksHeld, At
<1>4. ASSUME NEW x \in Identity, NEW roles \in SUBSET Role, AddMember(x, roles)
      PROVE  /\ power' = power /\ left' = left
             /\ \A y \in Identity : member[y] # NotAMember => member'[y] = member[y]
  BY <1>4 DEF AddMember, InvTypeOK
<1>5. ASSUME NEW x \in Identity, RemoveMember(x)
      PROVE  /\ power' = power /\ left' = left
             /\ \A y \in Identity : member[y] # NotAMember => member'[y] = member[y] \/ RemoveMember(y)
  BY <1>5 DEF RemoveMember, InvTypeOK
<1>6. ~PowerChanges /\ ~InviterStepsDown
  BY <1>2 DEF PowerChanges, InviterStepsDown
<1>7. CASE \E x \in Identity : RemoveMember(x) \/ \E roles \in SUBSET Role : AddMember(x, roles)
  BY <1>4, <1>5, <1>7
<1>8. CASE ~\E x \in Identity : RemoveMember(x) \/ \E roles \in SUBSET Role : AddMember(x, roles)
  <2>1. power' = power /\ left' = left /\ member' = member
    BY <1>3, <1>6, <1>8 DEF InvNext, StartInvite, RefuseMember, StartResend, Open, LockInvites, DecideInvite,
       Create, Rotate, RecordDelivery, DecideAccept, GoesDown, Revoke, ExpiryPasses, HourPasses,
       CooldownPasses, vars
  <2> QED BY <2>1
<1> QED BY <1>7, <1>8

(* Deciding looks at what the inviter can give; the lock keeps it so.        *)
LEMMA StaysEntitled ==
    ASSUME InvTypeOK, LocksHeld, Entitled, [InvNext]_vars
    PROVE  Entitled'
<1> SUFFICES ASSUME NEW c \in Call, call'[c].step \in {"opening", "claiming"}
    PROVE  /\ call'[c].who \in Identity
           /\ access' /\ ~left' /\ call'[c].step = "claiming" =>
                 /\ call'[c].roles \subseteq power'
                 /\ call'[c].seen = "member" =>
                       member'[call'[c].who] # NotAMember /\ member'[call'[c].who] \subseteq power'
  BY DEF Entitled, At
<1>1. CASE SameButSeen(c)
  <2>1. call'[c].who \in Identity /\ call'[c].who = call[c].who
    BY <1>1 DEF SameButSeen, Entitled
  <2>2. call'[c].seen = "member" => call[c].seen = "member"
    BY <1>1 DEF SameButSeen
  <2>3. CASE access' /\ ~left' /\ call'[c].step = "claiming"
    <3>1. access' = access
      BY AroundIsQuiet, CallsMoveAlone, StepsAreOfOneCall
    <3>2. At(c, "claiming")
      BY <1>1, <2>3 DEF SameButSeen, At
    <3>3. ~ClaimInvitation(c)
      BY ZenonT(30), <2>3 DEF ClaimInvitation, End, Idle, InvTypeOK
    <3>4. /\ power' = power /\ ~left
          /\ \A x \in Identity : member[x] # NotAMember => member'[x] = member[x] \/ RemoveMember(x)
      BY <2>3, <3>1, <3>2, <3>3, PowerStays
    <3>5. call'[c].roles \subseteq power'
      BY <1>1, <3>1, <3>2, <3>4, <2>3 DEF SameButSeen, Entitled
    <3>6. ASSUME call'[c].seen = "member"
          PROVE  member'[call'[c].who] # NotAMember /\ member'[call'[c].who] \subseteq power'
      <4>1. member[call[c].who] # NotAMember /\ member[call[c].who] \subseteq power
        BY <2>2, <2>3, <3>1, <3>2, <3>4, <3>6 DEF Entitled
      <4>2. ~RemoveMember(call[c].who)
        BY <3>6 DEF RemoveMember, InvTypeOK, Calls
      <4> QED BY <2>1, <3>4, <4>1, <4>2
    <3> QED BY <2>1, <3>5, <3>6
  <2> QED BY <2>1, <2>3
<1>2. ASSUME NEW i \in Call, NEW x \in Identity, Open(c, i, x), call'[c].step = "opening"
      PROVE  call'[c].who \in Identity
  BY <1>2 DEF Open, Idle, InvTypeOK
<1>3. CASE DecideAccept(c) /\ call'[c].step = "claiming"
  <2> DEFINE x == call[c].who
             given == Grantable(x, call[c].roles)
  <2>1. x \in Identity
    BY <1>3 DEF DecideAccept, Entitled, At
  <2>2. given # {}
    BY <1>3 DEF DecideAccept, End, Idle, InvTypeOK
  <2>3. call' = [call EXCEPT ![c].step = "claiming", ![c].roles = given,
                             ![c].seen = IF member[x] = NotAMember THEN "nobody" ELSE "member"]
    BY <1>3, <2>2 DEF DecideAccept
  <2>4. /\ call'[c].who = x /\ call'[c].roles = given
        /\ call'[c].seen = "member" => member[x] # NotAMember
    BY <2>3 DEF InvTypeOK, Calls
  <2>5. access =>
           /\ given \subseteq power
           /\ call'[c].seen = "member" => member[x] # NotAMember /\ member[x] \subseteq power
    BY <2>2, <2>4 DEF Grantable
  <2>6. access' = access /\ left' = left /\ power' = power /\ member' = member
    BY <1>3 DEF DecideAccept
  <2> QED BY <2>1, <2>4, <2>5, <2>6
<1> QED BY <1>1, <1>2, <1>3, ClaimingIsDecided

(* What an acceptance gives is the inviter's to give when it is given, unless  *)
(* they have left or stepped down.                                         *)
THEOREM WithinPower == InvSpec => GivenWithinPower
<1>1. InvInit => LocksHeld /\ Entitled
  BY DEF InvInit, Idle, LocksHeld, Entitled, At
<1>2. InvTypeOK /\ LocksHeld /\ Entitled /\ [InvNext]_vars => LocksHeld' /\ Entitled'
  BY LocksStayHeld, StaysEntitled
<1> DEFINE Given == \A c \in Call :
                      access /\ ~left /\ At(c, "claiming") /\ call'[c].step = "joined" => Within(c)
<1>3. Entitled => [Given]_vars
  BY DEF Entitled, Within
<1>4. GivenWithinPower <=> [][Given]_vars
  BY PTL DEF GivenWithinPower
<1> HIDE DEF Given
<1> QED BY <1>1, <1>2, <1>3, <1>4, TypeCorrect, PTL DEF InvSpec

-----------------------------------------------------------------------------
(* An invitation exists only once the call that creates it has inserted it.   *)
UnusedIds ==
    \A c \in Call : call[c].step \in {"idle", "inviting", "locked", "creating"} => invitation[c].status = "none"

(* A call that accepts has found an invitation and knows for whom.            *)
Accepting ==
    \A c \in Call : call[c].step \in {"opening", "claiming", "joined"} =>
                      call[c].inv \in Call /\ call[c].who \in Identity

(* A call that has not inserted its invitation yet had not before the step.  *)
LEMMA NotYetInserted ==
    ASSUME InvTypeOK, [InvNext]_vars, NEW c \in Call, call'[c].step \in {"idle", "inviting", "locked", "creating"}
    PROVE  call[c].step \in {"idle", "inviting", "locked", "creating"} /\ ~Create(c)
<1> USE DEF InvTypeOK, At
<1>1. ASSUME NEW how \in Ended, End(c, how) PROVE FALSE
  BY <1>1 DEF End, Idle, Ended
<1>2. "refused" \in Ended /\ "done" \in Ended
  BY DEF Ended
<1>3. ~Create(c)
  BY <1>1, <1>2 DEF Create, Idle
<1>4. CASE Around
  BY <1>3, <1>4, AroundIsQuiet DEF SameButSeen
<1>5. ASSUME NEW d \in Call, d # c, CallStep(d)
      PROVE  call[c].step \in {"idle", "inviting", "locked", "creating"}
  BY <1>5, CallsMoveAlone
<1>6. CASE CallStep(c)
  <2>1. ~Rotate(c)
    BY <1>1, <1>2 DEF Rotate, Calls
  <2>2. ~(RecordDelivery(c) \/ GoesDown(c) \/ DecideAccept(c))
    BY <1>1, <1>2 DEF RecordDelivery, GoesDown, DecideAccept, Calls
  <2>3. ~ClaimInvitation(c)
    <3>1. CASE call' = [call EXCEPT ![c] = [Idle EXCEPT !.step = "joined", !.inv = call[c].inv,
                                                        !.who = call[c].who, !.link = call[c].link]]
      BY <3>1 DEF Idle
    <3>2. CASE ~End(c, "refused")
      BY <3>1, <3>2 DEF ClaimInvitation
    <3> QED BY <1>1, <1>2, <3>2
  <2> QED BY <1>3, <1>6, <2>1, <2>2, <2>3 DEF CallStep, StartInvite, RefuseMember, StartResend,
          Open, LockInvites, DecideInvite
<1> QED BY <1>3, <1>4, <1>5, <1>6, StepsAreOfOneCall

(* Every insertion moves its call on.                                       *)
LEMMA IdsStayUnused ==
    ASSUME InvTypeOK, UnusedIds, [InvNext]_vars
    PROVE  UnusedIds'
<1> SUFFICES ASSUME NEW c \in Call, call'[c].step \in {"idle", "inviting", "locked", "creating"}
    PROVE  invitation'[c].status = "none"
  BY DEF UnusedIds
<1> QED BY NotYetInserted, OnlyCreateAddsRows DEF UnusedIds, RowStays

(* Opening sets both, and nothing clears them before the call ends.         *)
LEMMA StaysAccepting ==
    ASSUME InvTypeOK, Accepting, [InvNext]_vars
    PROVE  Accepting'
<1> SUFFICES ASSUME NEW c \in Call, call'[c].step \in {"opening", "claiming", "joined"}
    PROVE  call'[c].inv \in Call /\ call'[c].who \in Identity
  BY DEF Accepting
<1> USE DEF InvTypeOK
<1>1. CASE SameButSeen(c)
  BY <1>1 DEF SameButSeen, Accepting
<1>2. ASSUME NEW i \in Call, NEW x \in Identity, Open(c, i, x) PROVE call'[c].inv \in Call /\ call'[c].who \in Identity
  BY <1>2 DEF Open, Idle
<1>3. CASE DecideAccept(c) /\ call'[c].step = "claiming"
  <2>1. call'[c].inv = call[c].inv /\ call'[c].who = call[c].who
    BY <1>3 DEF DecideAccept, End, Idle, Calls
  <2> QED BY <1>3, <2>1 DEF DecideAccept, At, Accepting
<1>4. CASE ClaimInvitation(c) /\ call'[c].step = "joined"
  <2>1. call' = [call EXCEPT ![c] = [Idle EXCEPT !.step = "joined", !.inv = call[c].inv,
                                                 !.who = call[c].who, !.link = call[c].link]]
    BY <1>4 DEF ClaimInvitation, End, Idle
  <2>2. call'[c].inv = call[c].inv /\ call'[c].who = call[c].who
    BY <2>1 DEF Idle
  <2> QED BY <1>4, <2>2 DEF ClaimInvitation, At, Accepting
<1> QED BY <1>1, <1>2, <1>3, <1>4, ClaimingIsDecided

(* What has been accepted stays accepted as it was.                          *)
LEMMA AcceptedStays ==
    ASSUME InvTypeOK, UnusedIds, [InvNext]_vars, NEW i \in Call, invitation[i].status = "accepted"
    PROVE  /\ invitation'[i].status = "accepted" /\ invitation'[i].link = invitation[i].link
           /\ invitation'[i].acceptedBy = invitation[i].acceptedBy
<1> USE DEF InvTypeOK
<1>1. ASSUME NEW c \in Call, Create(c) PROVE invitation'[i] = invitation[i]
  <2>1. c # i
    BY <1>1 DEF Create, At, UnusedIds
  <2> QED BY <1>1, <2>1 DEF Create, Expired
<1>2. ASSUME NEW c \in Call, Rotate(c) PROVE invitation'[i] = invitation[i]
  BY <1>2 DEF Rotate, Pending
<1>3. ASSUME NEW c \in Call, RecordDelivery(c)
      PROVE  /\ invitation'[i].status = "accepted" /\ invitation'[i].link = invitation[i].link
             /\ invitation'[i].acceptedBy = invitation[i].acceptedBy
  BY <1>3 DEF RecordDelivery, Rows
<1>4. ASSUME NEW c \in Call, ClaimInvitation(c) PROVE invitation'[i] = invitation[i]
  BY <1>4 DEF ClaimInvitation, Claims, Pending
<1>5. ASSUME NEW j \in Call, Revoke(j) \/ ExpiryPasses(j) \/ HourPasses(j) \/ CooldownPasses(j)
      PROVE  /\ invitation'[i].status = "accepted" /\ invitation'[i].link = invitation[i].link
             /\ invitation'[i].acceptedBy = invitation[i].acceptedBy
  <2>1. CASE Revoke(j)
    BY <2>1 DEF Revoke, Pending
  <2>2. CASE ExpiryPasses(j)
    BY <2>2 DEF ExpiryPasses
  <2>3. CASE HourPasses(j)
    BY <2>3 DEF HourPasses, Rows
  <2>4. CASE CooldownPasses(j)
    BY <2>4 DEF CooldownPasses, Rows
  <2> QED BY <1>5, <2>1, <2>2, <2>3, <2>4
<1> QED BY <1>1, <1>2, <1>3, <1>4, <1>5 DEF InvNext, StartInvite, RefuseMember, StartResend, Open, LockInvites,
        DecideInvite, DecideAccept, GoesDown, RemoveMember, AddMember, PowerChanges, InviterStepsDown, vars

(* What is accepted newly has been claimed in this step.                     *)
LEMMA OnlyClaimsAccept ==
    ASSUME InvTypeOK, [InvNext]_vars, NEW i \in Call, invitation[i].status # "accepted", invitation'[i].status = "accepted"
    PROVE  \E c \in Call : ClaimInvitation(c) /\ Claims(c) /\ MembershipFits(c) /\ call[c].inv = i
<1> USE DEF InvTypeOK
<1>1. ASSUME NEW c \in Call, Create(c) PROVE FALSE
  <2>1. invitation' = invitation \/ invitation'[i].status = "pending" \/ invitation'[i] = Expired(invitation[i])
    BY ZenonT(30), <1>1 DEF Create, NoInvitation
  <2> QED BY <2>1 DEF Expired, Rows
<1>2. ASSUME NEW c \in Call, Rotate(c) PROVE FALSE
  <2>1. \/ invitation'[i] = invitation[i]
        \/ invitation'[i] = [invitation[i] EXCEPT !.link = c, !.status = "pending"]
    BY <1>2 DEF Rotate
  <2>2. invitation[i] \in Rows
    OBVIOUS
  <2> HIDE DEF InvTypeOK
  <2> QED BY <2>1, <2>2 DEF Rows
<1>3. ASSUME NEW c \in Call, RecordDelivery(c) PROVE FALSE
  BY <1>3 DEF RecordDelivery, Rows
<1>4. ASSUME NEW j \in Call, Revoke(j) \/ ExpiryPasses(j) \/ HourPasses(j) \/ CooldownPasses(j) PROVE FALSE
  <2>1. ~Revoke(j)
    BY DEF Revoke, Rows
  <2>2. ~ExpiryPasses(j)
    BY DEF ExpiryPasses, Rows
  <2>3. ~HourPasses(j)
    BY DEF HourPasses, Rows
  <2>4. ~CooldownPasses(j)
    BY DEF CooldownPasses, Rows
  <2> QED BY <1>4, <2>1, <2>2, <2>3, <2>4
<1>5. ASSUME NEW c \in Call, ClaimInvitation(c)
      PROVE  Claims(c) /\ MembershipFits(c) /\ call[c].inv = i
  BY <1>5 DEF ClaimInvitation
<1> QED BY <1>1, <1>2, <1>3, <1>4, <1>5 DEF InvNext, StartInvite, RefuseMember, StartResend, Open, LockInvites,
        DecideInvite, DecideAccept, GoesDown, RemoveMember, AddMember, PowerChanges, InviterStepsDown, vars

(* A call that has joined stays as it is.                                    *)
LEMMA JoinedStays ==
    ASSUME InvTypeOK, [InvNext]_vars, NEW c \in Call, At(c, "joined")
    PROVE  SameButSeen(c)
<1>1. CASE Around
  BY <1>1, AroundIsQuiet
<1>2. ASSUME NEW d \in Call, CallStep(d) PROVE SameButSeen(c)
  <2>1. d # c
    BY <1>2 DEF At, CallStep, StartInvite, RefuseMember, StartResend, Open, LockInvites, DecideInvite,
       Create, Rotate,
       RecordDelivery, DecideAccept, ClaimInvitation, GoesDown, Ended
  <2> QED BY <1>2, <2>1, CallsMoveAlone DEF SameButSeen
<1> QED BY <1>1, <1>2, StepsAreOfOneCall

(* A claim that finds its link makes the invitation and the call agree.       *)
LEMMA ClaimJoins ==
    ASSUME InvTypeOK, Accepting, NEW c \in Call, ClaimInvitation(c), Claims(c), MembershipFits(c)
    PROVE  /\ call'[c].step = "joined" /\ call'[c].inv = call[c].inv /\ call'[c].inv \in Call
           /\ call'[c].link = call[c].link /\ call'[c].who = call[c].who
           /\ invitation'[call[c].inv].status = "accepted"
           /\ invitation'[call[c].inv].link = call[c].link
           /\ invitation'[call[c].inv].acceptedBy = call[c].who
           /\ invitation[call[c].inv].status # "accepted"
<1> DEFINE i == call[c].inv
<1>1. i \in Call
  BY DEF ClaimInvitation, At, Accepting
<1>2. invitation' = [invitation EXCEPT ![i] = [@ EXCEPT !.status = "accepted", !.acceptedBy = call[c].who]]
  BY DEF ClaimInvitation
<1>3. call' = [call EXCEPT ![c] = [Idle EXCEPT !.step = "joined", !.inv = i, !.who = call[c].who,
                                               !.link = call[c].link]]
  BY DEF ClaimInvitation
<1>4. invitation[i].link = call[c].link /\ invitation[i].status # "accepted"
  BY DEF Claims, Pending
<1>5. /\ invitation'[i].status = "accepted" /\ invitation'[i].link = invitation[i].link
      /\ invitation'[i].acceptedBy = call[c].who
  <2>1. invitation'[i] = [invitation[i] EXCEPT !.status = "accepted", !.acceptedBy = call[c].who]
    BY <1>1, <1>2 DEF InvTypeOK
  <2>2. invitation[i] \in Rows
    BY <1>1 DEF InvTypeOK
  <2> QED BY <2>1, <2>2 DEF Rows
<1>6. /\ call'[c].step = "joined" /\ call'[c].inv = i
      /\ call'[c].link = call[c].link /\ call'[c].who = call[c].who
  BY <1>3 DEF Idle, InvTypeOK
<1> QED BY <1>1, <1>4, <1>5, <1>6

(* A claim accepts an invitation nobody accepted, and nobody undoes one.     *)
LEMMA StaysJoinedByOne ==
    ASSUME InvTypeOK, UnusedIds, Accepting, AnInvitationJoinsOne, [InvNext]_vars
    PROVE  AnInvitationJoinsOne'
<1>1. ASSUME NEW c \in Call, At(c, "joined")'
      PROVE  \/ At(c, "joined") /\ SameButSeen(c)
             \/ ClaimInvitation(c) /\ Claims(c) /\ MembershipFits(c)
  <2>1. CASE SameButSeen(c)
    BY <1>1, <2>1 DEF SameButSeen, At
  <2>2. CASE ClaimInvitation(c)
    <3>1. ~End(c, "refused")
      BY <1>1 DEF End, Idle, At, InvTypeOK
    <3> QED BY <2>2, <3>1 DEF ClaimInvitation
  <2>3. ASSUME NEW s \in {"opening", "claiming"}, call'[c].step = s PROVE FALSE
    BY <1>1, <2>3 DEF At
  <2> QED BY <1>1, <2>1, <2>2, <2>3, ClaimingIsDecided DEF At
<1>2. ASSUME NEW c \in Call, At(c, "joined")'
      PROVE  /\ call'[c].inv \in Call
             /\ invitation'[call'[c].inv].status = "accepted"
             /\ invitation'[call'[c].inv].link = call'[c].link
             /\ invitation'[call'[c].inv].acceptedBy = call'[c].who
  <2>1. CASE At(c, "joined") /\ SameButSeen(c)
    <3>1. call[c].inv \in Call
      BY <2>1 DEF Accepting, At
    <3> QED BY <2>1, <3>1, AcceptedStays DEF AnInvitationJoinsOne, SameButSeen
  <2>2. CASE ClaimInvitation(c) /\ Claims(c) /\ MembershipFits(c)
    BY <2>2, ClaimJoins
  <2> QED BY <1>1, <1>2, <2>1, <2>2
<1>3. ASSUME NEW c \in Call, NEW d \in Call, At(c, "joined")', At(d, "joined")', call'[d].inv = call'[c].inv
      PROVE  d = c
  <2>1. ASSUME NEW e \in Call, NEW f \in Call, e # f, call'[e].inv = call'[f].inv,
               At(e, "joined"), SameButSeen(e), ClaimInvitation(f), Claims(f), MembershipFits(f)
        PROVE  FALSE
    <3>1. invitation[call[e].inv].status = "accepted" /\ call'[e].inv = call[e].inv
      BY <2>1 DEF AnInvitationJoinsOne, SameButSeen
    <3>2. invitation[call[f].inv].status # "accepted" /\ call'[f].inv = call[f].inv
      BY <2>1, ClaimJoins
    <3> QED BY <2>1, <3>1, <3>2
  <2>2. ASSUME c # d, ClaimInvitation(c) PROVE ~ClaimInvitation(d)
    BY <2>2, CallsMoveAlone, <1>3 DEF CallStep, ClaimInvitation, At
  <2>3. CASE At(c, "joined") /\ SameButSeen(c) /\ At(d, "joined") /\ SameButSeen(d)
    BY <1>3, <2>3 DEF AnInvitationJoinsOne, SameButSeen
  <2> QED BY <1>1, <1>3, <2>1, <2>2, <2>3
<1>4. ASSUME NEW i \in Call, invitation'[i].status = "accepted"
      PROVE  \E c \in Call : At(c, "joined")' /\ call'[c].inv = i
  <2>1. CASE invitation[i].status = "accepted"
    <3>1. PICK c \in Call : At(c, "joined") /\ call[c].inv = i
      BY <2>1 DEF AnInvitationJoinsOne
    <3>2. At(c, "joined")' /\ call'[c].inv = i
      BY <3>1, JoinedStays DEF SameButSeen, At
    <3> QED BY <3>2
  <2>2. CASE invitation[i].status # "accepted"
    <3>1. PICK c \in Call : ClaimInvitation(c) /\ Claims(c) /\ MembershipFits(c) /\ call[c].inv = i
      BY <1>4, <2>2, OnlyClaimsAccept
    <3>2. At(c, "joined")' /\ call'[c].inv = i
      BY <3>1, ClaimJoins DEF At
    <3> QED BY <3>2
  <2> QED BY <2>1, <2>2
<1> QED BY <1>2, <1>3, <1>4 DEF AnInvitationJoinsOne

(* An acceptance is one invitation, one link, one identity, one membership,   *)
(* whatever the calls race with.                                           *)
THEOREM OneJoins == InvSpec => []AnInvitationJoinsOne
<1>1. InvInit => UnusedIds /\ Accepting /\ AnInvitationJoinsOne
  <2> SUFFICES ASSUME InvInit PROVE UnusedIds /\ Accepting /\ AnInvitationJoinsOne
    OBVIOUS
  <2>1. \A c \in Call : call[c].step = "idle" /\ invitation[c].status = "none"
    BY DEF InvInit, Idle, NoInvitation
  <2> QED BY <2>1 DEF UnusedIds, Accepting, AnInvitationJoinsOne, At
<1>2. InvTypeOK /\ UnusedIds /\ Accepting /\ AnInvitationJoinsOne /\ [InvNext]_vars
         => UnusedIds' /\ Accepting' /\ AnInvitationJoinsOne'
  BY IdsStayUnused, StaysAccepting, StaysJoinedByOne
<1> QED BY <1>1, <1>2, TypeCorrect, PTL DEF InvSpec
=============================================================================
