-------------------------- MODULE OwnershipProofs --------------------------
(***************************************************************************)
(* Proofs about Ownership, for any sets of organizations and memberships   *)
(* and any bound of the clock.                                             *)
(***************************************************************************)
EXTENDS Ownership, TLAPS

(* Reading the status in force: stated once so that the proofs below do not *)
(* open the CASE again.                                                     *)
LEMMA ActiveMeaning ==
    ASSUME TypeOK, NEW m \in Member
    PROVE  Active(m) <=> \/ status[m] = "active"
                         \/ until[m] # Never /\ until[m] <= now
BY NeverAssumption DEF TypeOK, Active, Effective

(* The tables keep their shape: only existing memberships hold the Owner    *)
(* role, and only founded organizations have memberships.                  *)
THEOREM TypeCorrect == Spec => []TypeOK
<1>1. Init => TypeOK
  BY DEF Init, TypeOK
<1>2. TypeOK /\ [Next]_vars => TypeOK'
  <2> SUFFICES ASSUME TypeOK, [Next]_vars PROVE TypeOK'
    OBVIOUS
  <2> USE DEF TypeOK, Exists
  <2>1. ASSUME NEW o \in Org, NEW m \in Member, CreateOrganizationWithOwner(o, m)
        PROVE  TypeOK'
    BY <2>1, NoOrgAssumption DEF CreateOrganizationWithOwner, NewRow
  <2>2. ASSUME NEW m \in Member, NEW o \in founded, NEW roles \in SUBSET {"Owner"},
               Create(m, o, roles)
        PROVE  TypeOK'
    BY <2>2, NoOrgAssumption DEF Create, NewRow
  <2>3. ASSUME NEW m \in Member, AssignOwnerRole(m) PROVE TypeOK'
    BY <2>3 DEF AssignOwnerRole
  <2>4. ASSUME NEW m \in Member, UnassignOwnerRole(m) PROVE TypeOK'
    BY <2>4 DEF UnassignOwnerRole
  <2>5. ASSUME NEW from \in Member, NEW to \in Member, NEW keep \in BOOLEAN,
               TransferOwnership(from, to, keep)
        PROVE  TypeOK'
    BY <2>5 DEF TransferOwnership
  <2>6. ASSUME NEW m \in Member, Block(m) PROVE TypeOK'
    BY <2>6 DEF Block, Escalate, BlockWithin
  <2>7. ASSUME NEW m \in Member, NEW end \in Time \ {0}, Suspend(m, end) PROVE TypeOK'
    BY <2>7, TimeAssumption DEF Suspend, BlockWithin, Time
  <2>8. ASSUME NEW m \in Member, Unblock(m) PROVE TypeOK'
    BY <2>8 DEF Unblock
  <2>9. ASSUME NEW m \in Member, Delete(m) PROVE TypeOK'
    BY <2>9 DEF Delete
  <2>10. ASSUME Tick PROVE TypeOK'
    BY <2>10 DEF Tick
  <2>11. CASE UNCHANGED vars
    BY <2>11 DEF vars
  <2> QED
    BY <2>1, <2>2, <2>3, <2>4, <2>5, <2>6, <2>7, <2>8, <2>9, <2>10, <2>11
       DEF Next, LeaveOrganization
<1> QED
  BY <1>1, <1>2, PTL DEF Spec

(* An Owner whom a step leaves in place, and whose sanction it does not     *)
(* touch, is as active after it as before: time only ever lifts sanctions. *)
LEMMA UntouchedStaysActive ==
    ASSUME TypeOK, TypeOK', NEW m \in Member, Active(m),
           status'[m] = status[m], until'[m] = until[m], now' >= now
    PROVE  Active(m)'
<1>1. status[m] = "active" \/ (until[m] # Never /\ until[m] <= now)
  BY ActiveMeaning
<1>2. CASE status[m] = "active"
  BY <1>2 DEF Active, Effective
<1>3. CASE until[m] # Never /\ until[m] <= now
  <2>1. until[m] \in Nat /\ now \in Nat /\ now' \in Nat
    BY <1>3 DEF TypeOK
  <2>2. until'[m] <= now'
    BY <1>3, <2>1
  <2> QED
    BY <1>3, <2>2, NeverAssumption DEF TypeOK, Active, Effective
<1> QED
  BY <1>1, <1>2, <1>3

(* The step every operation comes down to: if each organization has, after  *)
(* the step, an active Owner that the step did not touch, the invariant     *)
(* survives.                                                                *)
LEMMA SomeoneStays ==
    ASSUME TypeOK, TypeOK', founded' = founded, now' >= now,
           \A o \in founded : \E m \in Holders(o) :
              /\ Active(m)
              /\ m \in owner' /\ org'[m] = o
              /\ status'[m] = status[m] /\ until'[m] = until[m]
    PROVE  EveryOrganizationHasAnActiveOwner'
<1> SUFFICES ASSUME NEW o \in founded
             PROVE  \E m \in Holders(o)' : Active(m)'
  BY DEF EveryOrganizationHasAnActiveOwner
<1>1. PICK m \in Holders(o) :
         /\ Active(m)
         /\ m \in owner' /\ org'[m] = o
         /\ status'[m] = status[m] /\ until'[m] = until[m]
  OBVIOUS
<1>2. m \in Member
  BY DEF Holders, TypeOK
<1>3. Active(m)'
  BY <1>1, <1>2, UntouchedStaysActive
<1> QED
  BY <1>1, <1>3 DEF Holders

(* What the guard shared by unassignOwnerRole and delete buys: every       *)
(* organization has an active Owner other than the one about to go.        *)
LEMMA RemovalLeavesAnother ==
    ASSUME EveryOrganizationHasAnActiveOwner, NEW m \in Member, MayStopBeingOwner(m)
    PROVE  \A o \in founded : \E k \in Holders(o) : Active(k) /\ k # m
BY DEF EveryOrganizationHasAnActiveOwner, MayStopBeingOwner, OtherActiveOwner, Holders

(* No organization is ever left without an Owner who can still act.         *)
THEOREM AlwaysAnActiveOwner == Spec => []EveryOrganizationHasAnActiveOwner
<1>1. Init => EveryOrganizationHasAnActiveOwner
  BY DEF Init, EveryOrganizationHasAnActiveOwner
<1>2. /\ TypeOK /\ TypeOK'
      /\ EveryOrganizationHasAnActiveOwner
      /\ [Next]_vars
      => EveryOrganizationHasAnActiveOwner'
  <2> SUFFICES ASSUME TypeOK, TypeOK', EveryOrganizationHasAnActiveOwner, [Next]_vars
               PROVE  EveryOrganizationHasAnActiveOwner'
    OBVIOUS
  <2> USE DEF EveryOrganizationHasAnActiveOwner
  <2>0. now \in Nat /\ now' \in Nat
    BY DEF TypeOK
  <2>1. ASSUME NEW o \in Org, NEW m \in Member, CreateOrganizationWithOwner(o, m)
        PROVE  EveryOrganizationHasAnActiveOwner'
    <3> SUFFICES ASSUME NEW p \in founded'
                 PROVE  \E k \in Holders(p)' : Active(k)'
      OBVIOUS
    <3>1. CASE p = o
      <4>1. m \in Holders(o)'
        BY <2>1 DEF CreateOrganizationWithOwner, Holders, TypeOK
      <4>2. Active(m)'
        BY <2>1 DEF CreateOrganizationWithOwner, NewRow, Active, Effective, TypeOK
      <4> QED
        BY <3>1, <4>1, <4>2
    <3>2. CASE p # o
      <4>1. PICK k \in Holders(p) : Active(k)
        BY <2>1, <3>2 DEF CreateOrganizationWithOwner
      <4>2. k \in Member /\ k # m
        BY <2>1, <4>1, NoOrgAssumption DEF CreateOrganizationWithOwner, Exists, Holders, TypeOK
      <4>3. k \in Holders(p)' /\ Active(k)'
        BY <2>1, <4>1, <4>2, <2>0, UntouchedStaysActive
           DEF CreateOrganizationWithOwner, NewRow, Holders, TypeOK
      <4> QED
        BY <4>3
    <3> QED
      BY <3>1, <3>2
  <2>2. ASSUME NEW m \in Member, NEW o \in founded, NEW roles \in SUBSET {"Owner"},
               Create(m, o, roles)
        PROVE  EveryOrganizationHasAnActiveOwner'
    <3>1. ASSUME NEW p \in founded, NEW k \in Holders(p)
          PROVE  k \in Member /\ k # m
      BY <2>2, NoOrgAssumption DEF Create, Exists, Holders, TypeOK
    <3> QED
      BY <2>0, <2>2, <3>1, SomeoneStays DEF Create, NewRow, Holders, TypeOK
  <2>3. ASSUME NEW m \in Member, AssignOwnerRole(m)
        PROVE  EveryOrganizationHasAnActiveOwner'
    BY <2>0, <2>3, SomeoneStays DEF AssignOwnerRole, Holders
  <2>4. ASSUME NEW m \in Member, UnassignOwnerRole(m)
        PROVE  EveryOrganizationHasAnActiveOwner'
    <3>1. \A o \in founded : \E k \in Holders(o) : Active(k) /\ k # m
      BY <2>4, RemovalLeavesAnother DEF UnassignOwnerRole
    <3> QED
      BY <2>0, <2>4, <3>1, SomeoneStays DEF UnassignOwnerRole, Holders
  <2>5. ASSUME NEW from \in Member, NEW to \in Member, NEW keep \in BOOLEAN,
               TransferOwnership(from, to, keep)
        PROVE  EveryOrganizationHasAnActiveOwner'
    <3> SUFFICES ASSUME NEW o \in founded
                 PROVE  \E k \in Holders(o)' : Active(k)'
      BY <2>5 DEF TransferOwnership
    <3>1. CASE o = org[from]
      <4>1. to \in Holders(o)'
        BY <2>5, <3>1 DEF TransferOwnership, Holders
      <4>2. Active(to)'
        BY <2>0, <2>5, UntouchedStaysActive DEF TransferOwnership
      <4> QED
        BY <4>1, <4>2
    <3>2. CASE o # org[from]
      <4>1. PICK k \in Holders(o) : Active(k)
        OBVIOUS
      <4>2. k \in Member /\ k # from
        BY <3>2, <4>1 DEF Holders, TypeOK
      <4>3. k \in Holders(o)'
        BY <2>5, <4>1, <4>2 DEF TransferOwnership, Holders
      <4>4. Active(k)'
        BY <2>0, <2>5, <4>1, <4>2, UntouchedStaysActive DEF TransferOwnership
      <4> QED
        BY <4>3, <4>4
    <3> QED
      BY <3>1, <3>2
  <2>6. ASSUME NEW m \in Member, Escalate(m)
        PROVE  EveryOrganizationHasAnActiveOwner'
    <3>1. ~Active(m)
      BY <2>6 DEF Escalate, Active
    <3> QED
      BY <2>0, <2>6, <3>1, SomeoneStays DEF Escalate, Holders, TypeOK
  <2>7. ASSUME NEW m \in Member, NEW end \in Nat \cup {Never}, BlockWithin(m, end)
        PROVE  EveryOrganizationHasAnActiveOwner'
    <3>1. \A o \in founded : \E k \in Holders(o) : Active(k) /\ k # m
      BY <2>7 DEF BlockWithin, MayBeBlocked, OtherActiveOwner, Holders
    <3> QED
      BY <2>0, <2>7, <3>1, SomeoneStays DEF BlockWithin, Holders, TypeOK
  <2>8. ASSUME NEW m \in Member, Unblock(m)
        PROVE  EveryOrganizationHasAnActiveOwner'
    <3> SUFFICES ASSUME NEW o \in founded
                 PROVE  \E k \in Holders(o)' : Active(k)'
      BY <2>8 DEF Unblock
    <3>1. PICK k \in Holders(o) : Active(k)
      OBVIOUS
    <3>2. k \in Member /\ k \in Holders(o)'
      BY <2>8, <3>1 DEF Unblock, Holders, TypeOK
    <3>3. CASE k = m
      BY <2>8, <3>2, <3>3 DEF Unblock, Active, Effective, TypeOK
    <3>4. CASE k # m
      BY <2>0, <2>8, <3>1, <3>2, <3>4, UntouchedStaysActive DEF Unblock, TypeOK
    <3> QED
      BY <3>2, <3>3, <3>4
  <2>9. ASSUME NEW m \in Member, Delete(m)
        PROVE  EveryOrganizationHasAnActiveOwner'
    <3>1. \A o \in founded : \E k \in Holders(o) : Active(k) /\ k # m
      BY <2>9, RemovalLeavesAnother DEF Delete, Holders
    <3>2. \A k \in owner \ {m} : /\ k \in owner' /\ org'[k] = org[k]
                                 /\ status'[k] = status[k] /\ until'[k] = until[k]
      BY <2>9 DEF Delete, TypeOK
    <3> QED
      BY <2>0, <2>9, <3>1, <3>2, SomeoneStays DEF Delete, Holders
  <2>10. ASSUME Tick
         PROVE  EveryOrganizationHasAnActiveOwner'
    BY <2>0, <2>10, SomeoneStays DEF Tick, Holders
  <2>11. CASE UNCHANGED vars
    BY <2>0, <2>11, SomeoneStays DEF vars, Holders
  <2>12. ASSUME NEW m \in Member, NEW end \in Time \ {0}, Suspend(m, end)
         PROVE  EveryOrganizationHasAnActiveOwner'
    BY <2>7, <2>12, TimeAssumption DEF Suspend, Time
  <2>13. ASSUME NEW m \in Member, Block(m)
         PROVE  EveryOrganizationHasAnActiveOwner'
    BY <2>6, <2>7, <2>13 DEF Block
  <2>14. ASSUME NEW m \in Member, LeaveOrganization(m)
         PROVE  EveryOrganizationHasAnActiveOwner'
    BY <2>9, <2>14 DEF LeaveOrganization
  <2> HIDE DEF EveryOrganizationHasAnActiveOwner
  <2> QED
    BY <2>1, <2>2, <2>3, <2>4, <2>5, <2>8, <2>9, <2>10, <2>11, <2>12, <2>13, <2>14 DEF Next
<1> QED
  BY <1>1, <1>2, TypeCorrect, PTL DEF Spec

(* A sanction in force is never shortened, moved or downgraded by block or  *)
(* suspend; only unblocking or removing the member ends it early.          *)
THEOREM SanctionsNeverSoften == Spec => SanctionsOnlyHarden
<1> DEFINE Hardens == \A m \in Member :
                         Effective(m) # "active" /\ org'[m] = org[m] =>
                            \/ status'[m] = "active"
                            \/ until'[m] \in {until[m], Never}
<1>1. TypeOK /\ [Next]_vars => [Hardens]_vars
  <2> SUFFICES ASSUME TypeOK, Next, NEW k \in Member,
                      Effective(k) # "active", org'[k] = org[k]
               PROVE  status'[k] = "active" \/ until'[k] \in {until[k], Never}
    BY DEF vars
  <2>1. ASSUME NEW m \in Member, NEW end \in Nat \cup {Never}, BlockWithin(m, end)
        PROVE  until'[k] \in {until[k], Never}
    BY <2>1 DEF BlockWithin, Active, TypeOK
  <2>2. ASSUME NEW m \in Member, Escalate(m)
        PROVE  until'[k] \in {until[k], Never}
    BY <2>2 DEF Escalate, TypeOK
  <2>3. ASSUME NEW m \in Member, NewRow(m) \/ Unblock(m) \/ Delete(m)
        PROVE  status'[k] = "active" \/ until'[k] \in {until[k], Never}
    BY <2>3 DEF NewRow, Unblock, Delete, TypeOK
  <2>4. ASSUME NEW m \in Member, NEW end \in Time \ {0}, Suspend(m, end)
        PROVE  until'[k] \in {until[k], Never}
    BY <2>1, <2>4, TimeAssumption DEF Suspend, Time
  <2>5. ASSUME NEW m \in Member, Block(m)
        PROVE  until'[k] \in {until[k], Never}
    BY <2>1, <2>2, <2>5 DEF Block
  <2>6. ASSUME NEW m \in Member, NEW o,
               \/ CreateOrganizationWithOwner(o, m)
               \/ \E roles \in SUBSET {"Owner"} : Create(m, o, roles)
        PROVE  status'[k] = "active" \/ until'[k] \in {until[k], Never}
    BY <2>3, <2>6 DEF CreateOrganizationWithOwner, Create
  <2>7. ASSUME NEW m \in Member,
               \/ AssignOwnerRole(m) \/ UnassignOwnerRole(m) \/ Tick
               \/ \E to \in Member, keep \in BOOLEAN : TransferOwnership(m, to, keep)
        PROVE  until' = until
    BY <2>7 DEF AssignOwnerRole, UnassignOwnerRole, TransferOwnership, Tick
  <2>8. ASSUME NEW m \in Member, LeaveOrganization(m)
        PROVE  status'[k] = "active" \/ until'[k] \in {until[k], Never}
    BY <2>3, <2>8 DEF LeaveOrganization
  <2> QED
    BY <2>3, <2>4, <2>5, <2>6, <2>7, <2>8 DEF Next
<1> QED
  BY <1>1, TypeCorrect, PTL DEF Spec, SanctionsOnlyHarden
=============================================================================
