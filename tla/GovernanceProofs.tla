-------------------------- MODULE GovernanceProofs --------------------------
(***************************************************************************)
(* Proofs about the two parts of MCGovernance, which share nothing: the    *)
(* delegated changes of access, and the contextual policies.               *)
(***************************************************************************)
EXTENDS AccessService, Policies, TLAPS

-----------------------------------------------------------------------------
(***************************************************************************)
(* Proofs about AccessService, for every catalog of permissions, every set *)
(* of people and roles and any number of calls.                            *)
(***************************************************************************)
(***************************************************************************)
(* The inductive invariant.  A pending decision is still covered by the    *)
(* power it was taken with: nobody else is between decision and write, and *)
(* the code that takes no lock neither gives roles nor fills them.         *)
(***************************************************************************)

(* What the decision of a's call still guarantees at its write.            *)
Decision(a) ==
    LET c == call[a]
    IN  call[a] # NoCall =>
            /\ c.may.owner \/ c.may.keys \subseteq origin
            /\ c.op \in MemberOps => c.target \in Person /\ Covers(c.may, KeysOf(c.target))
            /\ c.op \in {"assignRole", "unassignRole"} \cup (RoleOps \ {"deleteRole"}) => c.role \in Role
            /\ c.op \in {"assignRole", "clone"} => Covers(c.may, keys[c.role])
            /\ c.op \in {"create", "setKeys", "grantKey"} => Covers(c.may, c.keys)
            /\ c.op = "clone" => c.to \in Role
            /\ c.op = "deleteRole" /\ c.to # NoRole => Covers(c.may, keys[c.to])

Decided == \A a \in Person : Decision(a)

(* At most one call is between its decision and its write.                 *)
Alone == \A a, b \in Person : call[a] # NoCall /\ call[b] # NoCall => a = b

(* Every key in a role or in a support grant came from somewhere.          *)
Sourced ==
    /\ Expand(origin) \subseteq origin
    /\ \A r \in Role : keys[r] \subseteq origin
    /\ \A p \in Person : support[p] \subseteq origin

AccessInv == TypeOK /\ Alone /\ Sourced /\ Decided

(* Expanding keys of the catalog stays inside the catalog and keeps them.  *)
LEMMA ExpandTypes ==
    ASSUME NEW S \in SUBSET Key
    PROVE  Expand(S) \in SUBSET Key /\ S \subseteq Expand(S)
BY ImpliedAssumption DEF Expand

(* Implications are followed to the end: what was expanded is closed.      *)
LEMMA ExpandCloses ==
    ASSUME NEW S \in SUBSET Key
    PROVE  Expand(Expand(S)) \subseteq Expand(S)
BY ImpliedAssumption DEF Expand

(* A closed set contains the expansion of each of its subsets.             *)
LEMMA ExpandInside ==
    ASSUME NEW S \in SUBSET Key, NEW O \in SUBSET Key, Expand(O) \subseteq O, S \subseteq O
    PROVE  Expand(S) \subseteq O
BY ImpliedAssumption DEF Expand

(* Adding an expansion to a closed set leaves it closed.                   *)
LEMMA ExpandAdds ==
    ASSUME NEW S \in SUBSET Key, NEW O \in SUBSET Key, Expand(O) \subseteq O
    PROVE  Expand(O \cup Expand(S)) \subseteq O \cup Expand(S)
<1>1. Expand(O \cup Expand(S)) = Expand(O) \cup Expand(Expand(S))
  BY ExpandTypes DEF Expand
<1> QED BY <1>1, ExpandCloses

(* What a member's roles add up to is made of keys of the catalog.         *)
LEMMA KeysOfTypes ==
    ASSUME TypeOK, NEW p \in Person
    PROVE  KeysOf(p) \in SUBSET Key
BY DEF TypeOK, KeysOf

(* The holdings of anyone are a power.                                     *)
LEMMA HoldingsTypes ==
    ASSUME TypeOK, NEW p \in Person
    PROVE  HoldingsOf(p) \in Power
<1>1. KeysOf(p) \cup support[p] \in SUBSET Key
  BY KeysOfTypes DEF TypeOK
<1>2. Expand(KeysOf(p) \cup support[p]) \in SUBSET Key
  BY <1>1, ExpandTypes
<1> QED BY <1>1, <1>2 DEF HoldingsOf, Power, Nothing

(* A key is in the expansion of a set when the set holds it or one that    *)
(* implies it: the engine looks upwards, power.ts downwards.               *)
LEMMA UpIsDown ==
    ASSUME NEW S \in SUBSET Key, NEW k \in Key
    PROVE  k \in Expand(S) <=> (k \in S \/ ImpliedBy(k) \cap S # {})
BY ImpliedAssumption DEF Expand, ImpliedBy

(* The gate and the holdings agree wherever the rows are well formed.      *)
LEMMA GateAgrees == TypeOK => GateIsHoldings
<1> SUFFICES ASSUME TypeOK, NEW p \in Person, NEW k \in Key
             PROVE  Can(p, k) <=> Covers(HoldingsOf(p), {k})
  BY DEF GateIsHoldings
<1> DEFINE S == KeysOf(p) \cup support[p]
<1>1. S \in SUBSET Key /\ KeysOf(p) \in SUBSET Key /\ support[p] \in SUBSET Key
  BY KeysOfTypes DEF TypeOK
<1>2. k \in Expand(S) <=> (k \in S \/ ImpliedBy(k) \cap S # {})
  BY <1>1, UpIsDown
<1>3. MembershipAllows(p, k) <=> (p \in owner \/ k \in KeysOf(p) \/ ImpliedBy(k) \cap KeysOf(p) # {})
  BY DEF MembershipAllows, KeysOf
<1>4. status[p] \notin Sanctioned /\ status[p] # "active" => p \notin owner /\ KeysOf(p) = {}
  BY DEF TypeOK, IsMember, KeysOf
<1>5. CASE ~active \/ status[p] \in Sanctioned
  BY <1>5 DEF Can, Covers, HoldingsOf, Nothing
<1>6. CASE active /\ status[p] \notin Sanctioned
  <2>1. CASE p \in owner
    <3>1. status[p] = "active"
      BY <2>1, <1>4, <1>6
    <3>2. HoldingsOf(p).owner
      BY <2>1, <1>6 DEF HoldingsOf
    <3> QED BY <2>1, <3>1, <3>2, <1>3, <1>6 DEF Can, Covers
  <2>2. CASE p \notin owner
    <3>1. HoldingsOf(p) = [owner |-> FALSE, keys |-> Expand(S)]
      BY <2>2, <1>6 DEF HoldingsOf
    <3>2. Covers(HoldingsOf(p), {k}) <=> k \in Expand(S)
      BY <3>1 DEF Covers
    <3>3. Can(p, k) <=> (k \in S \/ ImpliedBy(k) \cap S # {})
      BY <2>2, <1>3, <1>4, <1>6 DEF Can
    <3> QED BY <3>2, <3>3, <1>2
  <2> QED BY <2>1, <2>2
<1> QED BY <1>5, <1>6

(***************************************************************************)
(* Types.                                                                  *)
(***************************************************************************)

(* The starting state is well typed.                                       *)
LEMMA InitTypes == Init => TypeOK
<1> SUFFICES ASSUME Init PROVE TypeOK
  OBVIOUS
<1>1. UNION {TemplateKeys[r] : r \in Role} \in SUBSET Key
  BY StartAssumption
<1>2. origin \subseteq Key
  BY <1>1, ExpandTypes DEF Init
<1>3. \A r \in Role \ roles : keys[r] = {}
  BY StartAssumption DEF Init
<1>4. \A p \in Person : IsMember(p) \/ (held[p] = {} /\ p \notin owner)
  BY StartAssumption DEF Init, IsMember
<1> QED BY <1>2, <1>3, <1>4, StartAssumption DEF Init, TypeOK

(* A decision is a call.                                                   *)
LEMMA DecidesTypes ==
    ASSUME TypeOK, NEW a \in Person, NEW gate, NEW op \in MemberOps \cup RoleOps,
           NEW t \in Person \cup {NoPerson}, NEW r \in Role \cup {NoRole}, NEW ks \in SUBSET Key,
           NEW to \in Role \cup {NoRole}, Decides(a, gate, op, t, r, ks, to)
    PROVE  TypeOK'
<1> DEFINE c == [op |-> op, target |-> t, role |-> r, keys |-> ks, to |-> to, may |-> HoldingsOf(a)]
<1>1. c \in Call
  BY HoldingsTypes DEF Call
<1> HIDE DEF c
<1>2. call' = [call EXCEPT ![a] = c]
  BY DEF Decides, c
<1>3. call' \in [Person -> Call \cup {NoCall}]
  BY <1>1, <1>2 DEF TypeOK
<1> QED BY <1>3 DEF Decides, TypeOK, power, IsMember

(* Each operation of the service decides something well typed.             *)
LEMMA AskTypes ==
    ASSUME TypeOK, NEW a \in Person, Ask(a)
    PROVE  TypeOK'
<1>1. CASE \E t \in Person, r \in Role : AskAssignRole(a, t, r) \/ AskUnassignRole(a, t, r)
  BY <1>1, DecidesTypes DEF AskAssignRole, AskUnassignRole, MemberOps
<1>2. CASE \E t \in Person, op \in {"block", "suspend", "unblock"} : AskStatus(a, t, op)
  BY <1>2, DecidesTypes DEF AskStatus, MemberOps
<1>3. CASE \E t \in Person : AskRemove(a, t)
  BY <1>3, DecidesTypes DEF AskRemove, MemberOps
<1>4. CASE \E r \in Role, ks \in SUBSET Key : AskCreateRole(a, r, ks) \/ AskSetPermissions(a, r, ks)
  BY <1>4, DecidesTypes DEF AskCreateRole, AskSetPermissions, RoleOps
<1>5. CASE \E r \in Role, k \in Key : AskGrantPermission(a, r, k) \/ AskRevokePermission(a, r, k)
  <2>1. PICK r \in Role, k \in Key : AskGrantPermission(a, r, k) \/ AskRevokePermission(a, r, k)
    BY <1>5
  <2>2. {k} \in SUBSET Key
    OBVIOUS
  <2> QED BY <2>1, <2>2, DecidesTypes DEF AskGrantPermission, AskRevokePermission, RoleOps
<1>6. CASE \E r \in Role, new \in Role : AskCloneRole(a, r, new)
  BY <1>6, DecidesTypes DEF AskCloneRole, RoleOps
<1>7. CASE \E r \in Role, heir \in Role \cup {NoRole} : AskDeleteRole(a, r, heir)
  BY <1>7, DecidesTypes DEF AskDeleteRole, RoleOps
<1> QED BY <1>1, <1>2, <1>3, <1>4, <1>5, <1>6, <1>7 DEF Ask

(* A decision that is pending names members, roles and keys that exist as  *)
(* values; NoCall is not one of them.                                      *)
LEMMA CallTypes ==
    ASSUME TypeOK, NEW a \in Person, call[a] # NoCall
    PROVE  call[a] \in Call
BY DEF TypeOK

(* Each write of the service keeps the rows well typed: roles that go are  *)
(* taken from their holders, members that go lose what they held.          *)
LEMMA DoTypes ==
    ASSUME TypeOK, NEW a \in Person, Do(a), Decided
    PROVE  TypeOK'
<1> DEFINE c == call[a]
<1>1. call[a] # NoCall => call[a] \in Call /\ c.target \in Person \cup {NoPerson} /\ c.role \in Role \cup {NoRole}
                          /\ c.keys \in SUBSET Key /\ c.to \in Role \cup {NoRole}
  BY CallTypes DEF Call
<1>2. call' = [call EXCEPT ![a] = NoCall] => call' \in [Person -> Call \cup {NoCall}]
  BY DEF TypeOK
<1>3. \A S \in SUBSET Key : Circulates(a, S) => origin' \subseteq Key
  BY ExpandTypes DEF Circulates, TypeOK
<1>4. CASE DoAssignRole(a)
  <2>1. c.target \in Person /\ c.role \in Role
    BY <1>4, <1>1 DEF DoAssignRole, Writes, Decided, Decision, MemberOps
  <2>2. keys[c.role] \in SUBSET Key
    BY <2>1 DEF TypeOK
  <2>3. origin' \subseteq Key
    BY <1>3, <1>4, <2>2 DEF DoAssignRole
  <2>4. held' = [held EXCEPT ![c.target] = @ \cup {c.role}] /\ c.role \in roles /\ IsMember(c.target)
    BY <1>4 DEF DoAssignRole
  <2>5. held' \in [Person -> SUBSET Role] /\ (\A p \in Person : held'[p] \subseteq roles)
    BY <2>1, <2>4 DEF TypeOK
  <2>6. \A p \in Person : IsMember(p) \/ (held'[p] = {} /\ p \notin owner)
    BY <2>1, <2>4 DEF TypeOK
  <2> QED BY <1>4, <1>2, <2>3, <2>5, <2>6 DEF DoAssignRole, Writes, TypeOK, IsMember
<1>5. CASE DoUnassignRole(a)
  BY <1>5, <1>2 DEF DoUnassignRole, Writes, TypeOK, IsMember
<1>6. CASE DoBlock(a)
  BY <1>6, <1>2 DEF DoBlock, Writes, TypeOK, IsMember, Sanctioned
<1>7. CASE DoSuspend(a)
  BY <1>7, <1>2 DEF DoSuspend, Writes, TypeOK, IsMember, Sanctioned
<1>8. CASE DoUnblock(a)
  BY <1>8, <1>2 DEF DoUnblock, Writes, TypeOK, IsMember, Sanctioned
<1>9. CASE DoRemove(a)
  BY <1>9, <1>2 DEF DoRemove, Writes, TypeOK, IsMember, Sanctioned
<1>10. CASE DoCreateRole(a)
  <2>1. c.role \in Role /\ c.keys \in SUBSET Key
    BY <1>10, <1>1 DEF DoCreateRole, Writes, Decided, Decision, RoleOps
  <2>2. origin' \subseteq Key
    BY <1>3, <1>10, <2>1 DEF DoCreateRole, NewRole
  <2> QED BY <1>10, <1>2, <2>1, <2>2 DEF DoCreateRole, NewRole, Writes, TypeOK, IsMember
<1>11. CASE DoCloneRole(a)
  <2>1. c.role \in Role /\ c.to \in Role
    BY <1>11, <1>1 DEF DoCloneRole, Writes, Decided, Decision, RoleOps
  <2>2. keys[c.role] \in SUBSET Key
    BY <2>1 DEF TypeOK
  <2>3. origin' \subseteq Key
    BY <1>3, <1>11, <2>2 DEF DoCloneRole, NewRole
  <2>4. /\ roles' = roles \cup {c.to}
        /\ keys' = [keys EXCEPT ![c.to] = keys[c.role]]
        /\ UNCHANGED <<status, held, owner, support, active, calls, outside>>
        /\ call' = [call EXCEPT ![a] = NoCall]
    BY <1>11 DEF DoCloneRole, NewRole, Writes
  <2>5. keys' \in [Role -> SUBSET Key] /\ \A r \in Role \ roles' : keys'[r] = {}
    BY <2>1, <2>2, <2>4 DEF TypeOK
  <2> QED BY <1>2, <2>1, <2>3, <2>4, <2>5 DEF TypeOK, IsMember
<1>12. ASSUME NEW ks \in SUBSET Key, ChangeKeys(a, ks), origin' \subseteq Key,
              call' = [call EXCEPT ![a] = NoCall], UNCHANGED <<owner, support, active, calls, outside>>
       PROVE  TypeOK'
  <2>1. c.role \in roles /\ c.role \in Role
    BY <1>12 DEF ChangeKeys, TypeOK
  <2>2. keys' = [keys EXCEPT ![c.role] = ks] /\ UNCHANGED <<roles, status, held>>
    BY <1>12 DEF ChangeKeys
  <2>3. keys' \in [Role -> SUBSET Key] /\ \A r \in Role \ roles : keys'[r] = {}
    BY <2>1, <2>2 DEF TypeOK
  <2> QED BY <1>2, <1>12, <2>2, <2>3 DEF TypeOK, IsMember
<1>13. CASE DoSetPermissions(a) \/ DoGrantPermission(a)
  <2>1. c.role \in Role /\ c.keys \in SUBSET Key
    BY <1>13, <1>1 DEF DoSetPermissions, DoGrantPermission, Writes, Decided, Decision, RoleOps
  <2>2. origin' \subseteq Key
    BY <1>3, <1>13, <2>1 DEF DoSetPermissions, DoGrantPermission
  <2>3. keys[c.role] \cup c.keys \in SUBSET Key
    BY <2>1 DEF TypeOK
  <2>4. CASE DoSetPermissions(a)
    BY <2>4, <1>12, <2>1, <2>2 DEF DoSetPermissions, Writes
  <2>5. CASE DoGrantPermission(a)
    BY <2>5, <1>12, <2>2, <2>3 DEF DoGrantPermission, Writes
  <2> QED BY <1>13, <2>4, <2>5
<1>14. CASE DoRevokePermission(a)
  <2>1. c.role \in Role
    BY <1>14, <1>1 DEF DoRevokePermission, ChangeKeys, TypeOK
  <2>2. keys[c.role] \ c.keys \in SUBSET Key /\ origin' \subseteq Key
    BY <1>14, <2>1 DEF DoRevokePermission, TypeOK
  <2> QED BY <1>14, <1>12, <2>2 DEF DoRevokePermission, Writes
<1>15. CASE DoDeleteRole(a)
  <2> DEFINE r == c.role
             heir == c.to
  <2>1. r \in Role /\ r \in roles
    BY <1>15 DEF DoDeleteRole, TypeOK
  <2>2. heir # NoRole => heir \in roles /\ heir # r
    BY <1>15 DEF DoDeleteRole
  <2>3. (IF heir = NoRole THEN {} ELSE keys[heir]) \in SUBSET Key
    BY <2>2 DEF TypeOK
  <2>4. origin' \subseteq Key
    BY <1>3, <1>15, <2>3 DEF DoDeleteRole
  <2>5. held' = [p \in Person |->
                  IF r \in held[p] /\ heir # NoRole THEN (held[p] \ {r}) \cup {heir} ELSE held[p] \ {r}]
    BY <1>15 DEF DoDeleteRole
  <2>6. \A p \in Person : held'[p] \subseteq roles \ {r}
    BY <2>2, <2>5 DEF TypeOK
  <2>7. held' \in [Person -> SUBSET Role]
    BY <2>5, <2>6 DEF TypeOK
  <2>8. \A p \in Person : IsMember(p) \/ (held'[p] = {} /\ p \notin owner)
    BY <2>5 DEF TypeOK
  <2>9. /\ roles' = roles \ {r}
        /\ keys' = [keys EXCEPT ![r] = {}]
        /\ UNCHANGED <<status, owner, support, active, calls, outside>>
        /\ call' = [call EXCEPT ![a] = NoCall]
    BY <1>15 DEF DoDeleteRole, Writes
  <2>10. keys' \in [Role -> SUBSET Key] /\ \A q \in Role \ (roles \ {r}) : keys'[q] = {}
    BY <2>1, <2>9 DEF TypeOK
  <2> QED BY <1>2, <2>4, <2>6, <2>7, <2>8, <2>9, <2>10 DEF TypeOK, IsMember
<1>16. CASE RolledBack(a)
  BY <1>16, <1>2 DEF RolledBack, power, TypeOK, IsMember
<1> QED
  BY <1>4, <1>5, <1>6, <1>7, <1>8, <1>9, <1>10, <1>11, <1>13, <1>14, <1>15, <1>16 DEF Do

(* The code that takes no lock keeps the types too.                        *)
LEMMA NoLockTypes ==
    ASSUME TypeOK, NoLock
    PROVE  TypeOK'
<1>1. CASE \E from, to \in Person, keep \in BOOLEAN : TransferOwnership(from, to, keep)
  BY <1>1 DEF TransferOwnership, Outside, TypeOK, IsMember
<1>2. CASE \E p \in Person : LeaveOrganization(p)
  BY <1>2 DEF LeaveOrganization, Outside, TypeOK, IsMember, Sanctioned
<1>3. CASE \E p \in Person : Join(p)
  BY <1>3 DEF Join, Outside, TypeOK, IsMember, Sanctioned
<1>4. CASE \E p \in Person : SuspensionEnds(p)
  BY <1>4 DEF SuspensionEnds, Outside, TypeOK, IsMember, Sanctioned
<1>5. CASE \E p \in Person : SupportEnds(p)
  BY <1>5 DEF SupportEnds, Outside, TypeOK, IsMember
<1>6. CASE \E p \in Person, ks \in SUBSET Key : SupportStarts(p, ks)
  BY <1>6, ExpandTypes DEF SupportStarts, Outside, TypeOK, IsMember
<1>7. CASE \E on \in BOOLEAN : SetOrganizationStatus(on)
  BY <1>7 DEF SetOrganizationStatus, Outside, TypeOK, IsMember
<1> QED BY <1>1, <1>2, <1>3, <1>4, <1>5, <1>6, <1>7 DEF NoLock

(***************************************************************************)
(* The inductive step.                                                     *)
(***************************************************************************)

(* What anyone holds came from somewhere when roles and grants did.        *)
LEMMA HoldingsSourced ==
    ASSUME TypeOK, Sourced, NEW p \in Person
    PROVE  HoldingsOf(p).owner \/ HoldingsOf(p).keys \subseteq origin
<1>1. KeysOf(p) \cup support[p] \in SUBSET Key /\ KeysOf(p) \cup support[p] \subseteq origin
  BY KeysOfTypes DEF TypeOK, Sourced, KeysOf
<1>2. Expand(KeysOf(p) \cup support[p]) \subseteq origin
  BY <1>1, ExpandInside DEF TypeOK, Sourced
<1> QED BY <1>2 DEF HoldingsOf, Nothing

(* The founding state meets the invariant.                                 *)
LEMMA InitInv == Init => AccessInv
<1> SUFFICES ASSUME Init PROVE AccessInv
  OBVIOUS
<1> DEFINE U == UNION {TemplateKeys[r] : r \in Role}
<1>1. U \in SUBSET Key /\ \A r \in Role : TemplateKeys[r] \subseteq U
  BY StartAssumption
<1>2. Expand(Expand(U)) \subseteq Expand(U) /\ U \subseteq Expand(U)
  BY <1>1, ExpandCloses, ExpandTypes
<1>3. Sourced
  BY <1>1, <1>2 DEF Init, Sourced
<1>4. Alone /\ Decided
  BY DEF Init, Alone, Decided, Decision
<1> QED BY <1>3, <1>4, InitTypes DEF AccessInv

(* A decision keeps the invariant when its own checks were made.           *)
LEMMA DecidesKeeps ==
    ASSUME AccessInv, NEW a \in Person, NEW gate, NEW op \in MemberOps \cup RoleOps,
           NEW t \in Person \cup {NoPerson}, NEW role \in Role \cup {NoRole}, NEW ks \in SUBSET Key,
           NEW to \in Role \cup {NoRole},
           Decides(a, gate, op, t, role, ks, to),
           op \in MemberOps => t \in Person /\ Covers(HoldingsOf(a), KeysOf(t)),
           op \in {"assignRole", "unassignRole"} \cup (RoleOps \ {"deleteRole"}) => role \in Role,
           op \in {"assignRole", "clone"} => Covers(HoldingsOf(a), keys[role]),
           op \in {"create", "setKeys", "grantKey"} => Covers(HoldingsOf(a), ks),
           op = "clone" => to \in Role,
           op = "deleteRole" /\ to # NoRole => Covers(HoldingsOf(a), keys[to])
    PROVE  Alone' /\ Sourced' /\ Decided' /\ call'[a] # NoCall /\ call[a] = NoCall
<1> DEFINE c == [op |-> op, target |-> t, role |-> role, keys |-> ks, to |-> to, may |-> HoldingsOf(a)]
<1>1. c \in Call
  BY HoldingsTypes DEF Call, AccessInv
<1>2. /\ c.op = op /\ c.target = t /\ c.role = role /\ c.keys = ks /\ c.to = to
      /\ c.may = HoldingsOf(a)
  OBVIOUS
<1>3. c # NoCall
  BY <1>1, NoCallAssumption
<1> HIDE DEF c
<1>4. /\ call' = [call EXCEPT ![a] = c]
      /\ \A p \in Person : call[p] = NoCall
      /\ UNCHANGED <<keys, held, origin, support>>
  BY DEF Decides, LockFree, power, c
<1>5. call'[a] = c /\ \A p \in Person \ {a} : call'[p] = NoCall
  BY <1>4 DEF AccessInv, TypeOK
<1>6. Alone'
  BY <1>5 DEF Alone
<1>7. Sourced'
  BY <1>4 DEF AccessInv, Sourced, Expand
<1>8. \A p \in Person : KeysOf(p)' = KeysOf(p)
  BY <1>4 DEF KeysOf
<1>9. c.may.owner \/ c.may.keys \subseteq origin'
  BY <1>2, <1>4, HoldingsSourced DEF AccessInv
<1>10. Decision(a)'
  BY <1>2, <1>4, <1>5, <1>8, <1>9 DEF Decision, Covers
<1>11. \A p \in Person \ {a} : Decision(p)'
  BY <1>5 DEF Decision
<1> QED BY <1>3, <1>4, <1>5, <1>6, <1>7, <1>10, <1>11 DEF Decided

(* Every operation of the service makes the checks its write relies on.    *)
LEMMA AskStep ==
    ASSUME AccessInv, NEW a \in Person, Ask(a)
    PROVE  Alone' /\ Sourced' /\ Decided' /\ call'[a] # NoCall /\ call[a] = NoCall
<1>1. CASE \E t \in Person, r \in Role : AskAssignRole(a, t, r) \/ AskUnassignRole(a, t, r)
  <2>1. PICK t \in Person, r \in Role : AskAssignRole(a, t, r) \/ AskUnassignRole(a, t, r)
    BY <1>1
  <2>2. CASE AskAssignRole(a, t, r)
    BY SMTT(30), <2>2, DecidesKeeps DEF AskAssignRole, CanTouchMember, Holds, MemberOps, RoleOps
  <2>3. CASE AskUnassignRole(a, t, r)
    BY <2>3, DecidesKeeps DEF AskUnassignRole, CanTouchMember, MemberOps, RoleOps
  <2> QED BY <2>1, <2>2, <2>3
<1>2. CASE \E t \in Person, op \in {"block", "suspend", "unblock"} : AskStatus(a, t, op)
  <2>1. PICK t \in Person, op \in {"block", "suspend", "unblock"} : AskStatus(a, t, op)
    BY <1>2
  <2>2. Decides(a, MembersBlock, op, t, NoRole, {}, NoRole) /\ Covers(HoldingsOf(a), KeysOf(t))
    BY <2>1 DEF AskStatus, CanTouchMember
  <2>3. {} \in SUBSET Key /\ op \in MemberOps
    BY DEF MemberOps
  <2>4. op \notin {"assignRole", "unassignRole", "clone"} \cup RoleOps
    BY DEF RoleOps
  <2> QED BY <2>2, <2>3, <2>4, DecidesKeeps DEF RoleOps
<1>3. CASE \E t \in Person : AskRemove(a, t)
  <2>1. PICK t \in Person : AskRemove(a, t)
    BY <1>3
  <2>2. Decides(a, MembersRemove, "remove", t, NoRole, {}, NoRole) /\ Covers(HoldingsOf(a), KeysOf(t))
    BY <2>1 DEF AskRemove, CanTouchMember
  <2> QED BY SMTT(30), <2>2, DecidesKeeps DEF MemberOps, RoleOps
<1>4. CASE \E r \in Role, ks \in SUBSET Key : AskCreateRole(a, r, ks) \/ AskSetPermissions(a, r, ks)
  <2>1. PICK r \in Role, ks \in SUBSET Key : AskCreateRole(a, r, ks) \/ AskSetPermissions(a, r, ks)
    BY <1>4
  <2>2. CASE AskCreateRole(a, r, ks)
    BY <2>2, DecidesKeeps DEF AskCreateRole, Holds, MemberOps, RoleOps
  <2>3. CASE AskSetPermissions(a, r, ks)
    <3>1. Covers(HoldingsOf(a), ks)
      BY <2>3 DEF AskSetPermissions, Holds, Covers
    <3> QED BY SMTT(30), <2>3, <3>1, DecidesKeeps DEF AskSetPermissions, MemberOps, RoleOps
  <2> QED BY <2>1, <2>2, <2>3
<1>5. CASE \E r \in Role, k \in Key : AskGrantPermission(a, r, k) \/ AskRevokePermission(a, r, k)
  <2>1. PICK r \in Role, k \in Key : AskGrantPermission(a, r, k) \/ AskRevokePermission(a, r, k)
    BY <1>5
  <2> DEFINE ks == {k}
  <2>2. ks \in SUBSET Key
    OBVIOUS
  <2>3. CASE AskGrantPermission(a, r, k)
    <3>1. Decides(a, RolesManage, "grantKey", NoPerson, r, ks, NoRole) /\ Covers(HoldingsOf(a), ks)
      BY <2>3 DEF AskGrantPermission, Holds
    <3> HIDE DEF ks
    <3> QED BY <2>2, <3>1, DecidesKeeps DEF MemberOps, RoleOps
  <2>4. CASE AskRevokePermission(a, r, k)
    <3>1. Decides(a, RolesManage, "revokeKey", NoPerson, r, ks, NoRole)
      BY <2>4 DEF AskRevokePermission
    <3>2. "revokeKey" \in RoleOps /\ "revokeKey" \notin MemberOps
      BY DEF MemberOps, RoleOps
    <3> HIDE DEF ks
    <3> QED BY <2>2, <3>1, <3>2, DecidesKeeps, SMTT(60)
  <2> QED BY <2>1, <2>3, <2>4
<1>6. CASE \E r \in Role, new \in Role : AskCloneRole(a, r, new)
  BY <1>6, DecidesKeeps DEF AskCloneRole, Holds, MemberOps, RoleOps
<1>7. CASE \E r \in Role, heir \in Role \cup {NoRole} : AskDeleteRole(a, r, heir)
  <2>1. PICK r \in Role, heir \in Role \cup {NoRole} : AskDeleteRole(a, r, heir)
    BY <1>7
  <2>2. /\ Decides(a, RolesManage, "deleteRole", NoPerson, r, {}, heir)
        /\ heir # NoRole => Covers(HoldingsOf(a), keys[heir])
    BY <2>1 DEF AskDeleteRole, Holds
  <2>3. {} \in SUBSET Key /\ "deleteRole" \in RoleOps /\ "deleteRole" \notin MemberOps
    BY DEF MemberOps, RoleOps
  <2> QED BY <2>2, <2>3, DecidesKeeps, SMTT(60)
<1> QED BY <1>1, <1>2, <1>3, <1>4, <1>5, <1>6, <1>7 DEF Ask

(* Keys an Owner or a holder hands out stay in circulation, which stays    *)
(* closed.                                                                 *)
LEMMA CirculatesKeeps ==
    ASSUME AccessInv, NEW a \in Person, call[a] # NoCall, NEW ks \in SUBSET Key,
           Covers(call[a].may, ks), Circulates(a, ks)
    PROVE  origin \subseteq origin' /\ ks \subseteq origin' /\ Expand(origin') \subseteq origin'
<1>1. call[a].may.owner \/ call[a].may.keys \subseteq origin
  BY DEF AccessInv, Decided, Decision
<1>2. Expand(origin) \subseteq origin /\ origin \in SUBSET Key
  BY DEF AccessInv, Sourced, TypeOK
<1>3. CASE call[a].may.owner
  <2>1. origin' = origin \cup Expand(ks)
    BY <1>3 DEF Circulates
  <2>2. Expand(origin \cup Expand(ks)) \subseteq origin \cup Expand(ks)
    BY <1>2, ExpandAdds
  <2> QED BY <2>1, <2>2, ExpandTypes
<1>4. CASE ~call[a].may.owner
  BY <1>1, <1>2, <1>4 DEF Circulates, Covers
<1> QED BY <1>3, <1>4

(* A write whose keys are covered and in circulation keeps the invariant:  *)
(* the call it ends was the only one.                                      *)
LEMMA WriteKeeps ==
    ASSUME AccessInv, NEW a \in Person, call[a] # NoCall,
           call' = [call EXCEPT ![a] = NoCall], support' = support,
           origin \subseteq origin', Expand(origin') \subseteq origin',
           \A r \in Role : keys'[r] \subseteq origin'
    PROVE  Alone' /\ Sourced' /\ Decided'
<1>1. \A p \in Person : call'[p] = NoCall
  BY DEF AccessInv, Alone, TypeOK
<1>2. Sourced'
  <2>1. Expand(origin)' = Expand(origin')
    BY DEF Expand
  <2> QED BY <2>1 DEF AccessInv, Sourced
<1> QED BY <1>1, <1>2 DEF Alone, Decided, Decision

(* Every write keeps the invariant, and gives nobody a key that was not    *)
(* held when it was decided.                                               *)
LEMMA DoStep ==
    ASSUME AccessInv, NEW a \in Person, Do(a)
    PROVE  /\ Alone' /\ Sourced' /\ Decided'
           /\ \A p \in Person : Covers(call[a].may, KeysOf(p)' \ KeysOf(p))
           /\ call[a] # NoCall
<1> DEFINE c == call[a]
           Given == \A p \in Person : Covers(call[a].may, KeysOf(p)' \ KeysOf(p))
<1> HIDE DEF Given
<1>1. call[a] # NoCall /\ call' = [call EXCEPT ![a] = NoCall] /\ support' = support
  BY DEF Do, DoAssignRole, DoUnassignRole, DoBlock, DoSuspend, DoUnblock, DoRemove, DoCreateRole,
         DoCloneRole, DoSetPermissions, DoGrantPermission, DoRevokePermission, DoDeleteRole,
         RolledBack, Writes
<1>2. c \in Call /\ c.keys \in SUBSET Key
  BY <1>1, CallTypes DEF AccessInv, Call
<1>3. Decision(a)
  BY DEF AccessInv, Decided
<1>4. \A r \in Role : keys[r] \in SUBSET Key /\ keys[r] \subseteq origin
  BY DEF AccessInv, TypeOK, Sourced
<1>5. Expand(origin) \subseteq origin /\ origin \in SUBSET Key
  BY DEF AccessInv, TypeOK, Sourced
<1>6. ASSUME UNCHANGED <<keys, origin>>, \A p \in Person : held'[p] \subseteq held[p]
      PROVE  Alone' /\ Sourced' /\ Decided' /\ Given
  <2>1. \A p \in Person : KeysOf(p)' \subseteq KeysOf(p)
    BY <1>6 DEF KeysOf
  <2>2. Given
    BY <2>1 DEF Covers, Given
  <2> QED BY <1>1, <1>4, <1>5, <1>6, <2>2, WriteKeeps
<1>7. CASE DoUnassignRole(a) \/ DoBlock(a) \/ DoSuspend(a) \/ DoUnblock(a) \/ DoRemove(a) \/ RolledBack(a)
  <2>1. UNCHANGED <<keys, origin>>
    BY <1>7 DEF DoUnassignRole, DoBlock, DoSuspend, DoUnblock, DoRemove, RolledBack, power
  <2>2. \A p \in Person : held'[p] \subseteq held[p]
    BY <1>7 DEF DoUnassignRole, DoBlock, DoSuspend, DoUnblock, DoRemove, RolledBack, power, AccessInv, TypeOK
  <2> QED BY <2>1, <2>2, <1>1, <1>6 DEF Given
<1>8. CASE DoAssignRole(a)
  <2>1. c.role \in Role /\ Covers(c.may, keys[c.role]) /\ c.target \in Person
    BY <1>1, <1>3, <1>8 DEF DoAssignRole, Writes, Decision, MemberOps
  <2>2. /\ held' = [held EXCEPT ![c.target] = @ \cup {c.role}]
        /\ keys' = keys /\ Circulates(a, keys[c.role])
    BY <1>8 DEF DoAssignRole
  <2>3. origin \subseteq origin' /\ Expand(origin') \subseteq origin'
    BY <1>1, <1>4, <2>1, <2>2, CirculatesKeeps
  <2>4. \A p \in Person : held'[p] \subseteq held[p] \cup {c.role}
    BY <2>2 DEF AccessInv, TypeOK
  <2>5. \A p \in Person : KeysOf(p)' \subseteq KeysOf(p) \cup keys[c.role]
    BY <2>2, <2>4 DEF KeysOf
  <2>6. Given
    BY <2>1, <2>5 DEF Covers, Given
  <2> QED BY <1>1, <1>4, <2>2, <2>3, <2>6, WriteKeeps DEF Given
<1>9. ASSUME NEW r \in Role, NEW ks \in SUBSET Key, Covers(c.may, ks \ keys[r]),
             keys' = [keys EXCEPT ![r] = ks], held' = held,
             origin \subseteq origin', ks \subseteq origin', Expand(origin') \subseteq origin'
      PROVE  Alone' /\ Sourced' /\ Decided' /\ Given
  <2>1. \A q \in Role : keys'[q] \subseteq origin'
    BY <1>4, <1>9 DEF AccessInv, TypeOK
  <2>2. \A q \in Role : keys'[q] \subseteq keys[q] \cup (ks \ keys[r])
    BY <1>9 DEF AccessInv, TypeOK
  <2>3. \A p \in Person : KeysOf(p)' \subseteq KeysOf(p) \cup (ks \ keys[r])
    BY <1>9, <2>2 DEF KeysOf, AccessInv, TypeOK
  <2>4. Given
    BY <1>9, <2>3 DEF Covers, Given
  <2> QED BY <1>1, <1>9, <2>1, <2>4, WriteKeeps
<1>10. ASSUME NEW r \in Role, NEW ks \in SUBSET Key, Covers(c.may, ks), Circulates(a, ks),
              keys' = [keys EXCEPT ![r] = ks], held' = held
       PROVE  Alone' /\ Sourced' /\ Decided' /\ Given
  <2>1. origin \subseteq origin' /\ ks \subseteq origin' /\ Expand(origin') \subseteq origin'
    BY <1>1, <1>10, CirculatesKeeps
  <2>2. Covers(c.may, ks \ keys[r])
    BY <1>10 DEF Covers
  <2> QED BY <1>9, <1>10, <2>1, <2>2
<1>11. CASE DoCreateRole(a)
  <2>1. c.role \in Role /\ Covers(c.may, c.keys)
    BY <1>1, <1>3, <1>11 DEF DoCreateRole, Writes, Decision, RoleOps
  <2> QED BY <1>1, <1>2, <1>10, <1>11, <2>1 DEF Given, DoCreateRole, NewRole
<1>12. CASE DoCloneRole(a)
  <2>1. c.role \in Role /\ c.to \in Role /\ Covers(c.may, keys[c.role])
    BY <1>1, <1>3, <1>12 DEF DoCloneRole, Writes, Decision, RoleOps
  <2> QED BY <1>1, <1>4, <1>10, <1>12, <2>1 DEF Given, DoCloneRole, NewRole
<1>13. CASE DoSetPermissions(a)
  <2>1. c.role \in Role /\ Covers(c.may, c.keys)
    BY <1>1, <1>3, <1>13 DEF DoSetPermissions, Writes, Decision, RoleOps
  <2> QED BY <1>1, <1>2, <1>10, <1>13, <2>1 DEF Given, DoSetPermissions, ChangeKeys
<1>14. CASE DoGrantPermission(a)
  <2>1. c.role \in Role /\ Covers(c.may, c.keys)
    BY <1>1, <1>3, <1>14 DEF DoGrantPermission, Writes, Decision, RoleOps
  <2>2. origin \subseteq origin' /\ c.keys \subseteq origin' /\ Expand(origin') \subseteq origin'
    BY <1>1, <1>2, <1>14, <2>1, CirculatesKeeps DEF DoGrantPermission
  <2>3. keys[c.role] \cup c.keys \in SUBSET Key /\ keys[c.role] \cup c.keys \subseteq origin'
    BY <1>2, <1>4, <2>1, <2>2
  <2>4. Covers(c.may, (keys[c.role] \cup c.keys) \ keys[c.role])
    BY <2>1 DEF Covers
  <2>5. keys' = [keys EXCEPT ![c.role] = keys[c.role] \cup c.keys] /\ held' = held
    BY <1>14 DEF DoGrantPermission, ChangeKeys
  <2> QED BY <1>1, <1>9, <2>1, <2>2, <2>3, <2>4, <2>5 DEF Given
<1>15. CASE DoRevokePermission(a)
  <2>1. c.role \in Role
    BY <1>15 DEF DoRevokePermission, ChangeKeys, AccessInv, TypeOK
  <2>2. keys[c.role] \ c.keys \in SUBSET Key /\ keys[c.role] \ c.keys \subseteq origin
    BY <1>4, <2>1
  <2>3. Covers(c.may, (keys[c.role] \ c.keys) \ keys[c.role])
    BY DEF Covers
  <2>4. keys' = [keys EXCEPT ![c.role] = keys[c.role] \ c.keys] /\ held' = held /\ origin' = origin
    BY <1>15 DEF DoRevokePermission, ChangeKeys
  <2> QED BY <1>1, <1>5, <1>9, <2>1, <2>2, <2>3, <2>4 DEF Given
<1>16. CASE DoDeleteRole(a)
  <2> DEFINE r == c.role
             heir == c.to
             left == IF heir = NoRole THEN {} ELSE keys[heir]
  <2>1. /\ r \in Role
        /\ heir # NoRole => heir \in Role /\ heir # r /\ Covers(c.may, keys[heir])
    BY <1>1, <1>3, <1>16 DEF DoDeleteRole, Writes, Decision, RoleOps, AccessInv, TypeOK
  <2>2. left \in SUBSET Key /\ Covers(c.may, left)
    BY <1>4, <2>1 DEF Covers
  <2>3. /\ keys' = [keys EXCEPT ![r] = {}]
        /\ held' = [p \in Person |->
                      IF r \in held[p] /\ heir # NoRole THEN (held[p] \ {r}) \cup {heir} ELSE held[p] \ {r}]
        /\ Circulates(a, left)
    BY <1>16 DEF DoDeleteRole
  <2>4. origin \subseteq origin' /\ Expand(origin') \subseteq origin'
    BY <1>1, <2>2, <2>3, CirculatesKeeps
  <2>5. \A q \in Role : keys'[q] \subseteq keys[q]
    BY <2>1, <2>3 DEF AccessInv, TypeOK
  <2>6. \A p \in Person : held'[p] \subseteq held[p] \cup (IF heir = NoRole THEN {} ELSE {heir})
    BY <2>3
  <2>7. \A p \in Person : KeysOf(p)' \subseteq KeysOf(p) \cup left
    <3>1. SUFFICES ASSUME NEW p \in Person, NEW q \in held'[p]
                   PROVE  keys'[q] \subseteq KeysOf(p) \cup left
      BY DEF KeysOf
    <3>2. q \in Role
      BY <2>1, <2>6 DEF AccessInv, TypeOK
    <3>3. CASE q \in held[p]
      BY <2>5, <3>2, <3>3 DEF KeysOf
    <3>4. CASE heir # NoRole /\ q = heir
      BY <2>5, <3>2, <3>4
    <3> QED BY <2>6, <3>3, <3>4
  <2>8. Given
    BY <2>2, <2>7 DEF Covers, Given
  <2>9. \A q \in Role : keys'[q] \subseteq origin'
    BY <1>4, <2>4, <2>5
  <2> QED BY <1>1, <2>4, <2>8, <2>9, WriteKeeps DEF Given
<1> QED BY <1>1, <1>7, <1>8, <1>11, <1>12, <1>13, <1>14, <1>15, <1>16 DEF Do, Given

(* The code that takes no lock gives nobody a role and fills no role, so a *)
(* pending decision still stands.                                          *)
LEMMA NoLockStep ==
    ASSUME AccessInv, NoLock
    PROVE  Alone' /\ Sourced' /\ Decided' /\ UNCHANGED call
<1>1. UNCHANGED <<keys, call>>
  BY DEF NoLock, TransferOwnership, LeaveOrganization, Join, SuspensionEnds, SupportEnds,
         SupportStarts, SetOrganizationStatus, Outside
<1>2. \A p \in Person : held'[p] \subseteq held[p]
  BY DEF NoLock, TransferOwnership, LeaveOrganization, Join, SuspensionEnds, SupportEnds,
         SupportStarts, SetOrganizationStatus, Outside, AccessInv, TypeOK
<1>3. origin \subseteq origin' /\ Expand(origin') \subseteq origin' /\ \A p \in Person : support'[p] \subseteq origin'
  <2>1. CASE \E p \in Person, ks \in SUBSET Key : SupportStarts(p, ks)
    <3>1. PICK p \in Person, ks \in SUBSET Key : SupportStarts(p, ks)
      BY <2>1
    <3>2. /\ support' = [support EXCEPT ![p] = @ \cup ks]
          /\ origin' = origin \cup Expand(ks)
      BY <3>1 DEF SupportStarts
    <3>3. Expand(origin \cup Expand(ks)) \subseteq origin \cup Expand(ks) /\ ks \subseteq Expand(ks)
      BY ExpandAdds, ExpandTypes DEF AccessInv, Sourced, TypeOK
    <3>4. \A q \in Person : support'[q] \subseteq support[q] \cup ks
      BY <3>2 DEF AccessInv, TypeOK
    <3> QED BY <3>2, <3>3, <3>4 DEF AccessInv, Sourced
  <2>2. CASE \E p \in Person : SupportEnds(p)
    BY <2>2 DEF SupportEnds, AccessInv, Sourced, TypeOK
  <2>3. CASE ~(\E p \in Person, ks \in SUBSET Key : SupportStarts(p, ks)) /\ ~(\E p \in Person : SupportEnds(p))
    <3>1. UNCHANGED <<origin, support>>
      BY <2>3 DEF NoLock, TransferOwnership, LeaveOrganization, Join, SuspensionEnds, SetOrganizationStatus
    <3> QED BY <3>1 DEF AccessInv, Sourced
  <2> QED BY <2>1, <2>2, <2>3
<1>4. Sourced'
  <2>1. Expand(origin)' = Expand(origin')
    BY DEF Expand
  <2> QED BY <1>1, <1>3, <2>1 DEF AccessInv, Sourced
<1>5. \A p \in Person : KeysOf(p)' \subseteq KeysOf(p)
  BY <1>1, <1>2 DEF KeysOf
<1>6. ASSUME NEW p \in Person PROVE Decision(p)'
  <2>1. Decision(p)
    BY DEF AccessInv, Decided
  <2>2. \A t \in Person : \A may : Covers(may, KeysOf(t)) => Covers(may, KeysOf(t)')
    BY <1>5 DEF Covers
  <2> QED BY <1>1, <1>3, <2>1, <2>2 DEF Decision, Covers
<1> QED BY <1>1, <1>4, <1>6 DEF AccessInv, Alone, Decided

(* The invariant is kept by every step.                                    *)
LEMMA NextInv == AccessInv /\ [Next]_vars => AccessInv'
<1> SUFFICES ASSUME AccessInv, [Next]_vars PROVE AccessInv'
  OBVIOUS
<1>1. CASE \E a \in Person : Ask(a)
  BY <1>1, AskStep, AskTypes DEF AccessInv
<1>2. CASE \E a \in Person : Do(a)
  BY <1>2, DoStep, DoTypes DEF AccessInv
<1>3. CASE NoLock
  BY <1>3, NoLockStep, NoLockTypes DEF AccessInv
<1>4. CASE UNCHANGED vars
  BY <1>4 DEF vars, AccessInv, TypeOK, IsMember, Alone, Sourced, Expand, Decided, Decision, Covers, KeysOf
<1> QED BY <1>1, <1>2, <1>3, <1>4 DEF Next

(* The invariant holds of every run.                                       *)
THEOREM Inductive == Spec => []AccessInv
<1>1. Init => AccessInv
  BY InitInv
<1>2. AccessInv /\ [Next]_vars => AccessInv'
  BY NextInv
<1> QED BY <1>1, <1>2, PTL DEF Spec

(* Roles and members only refer to rows that exist, and everything has its *)
(* type.                                                                   *)
THEOREM TypeCorrect == Spec => []TypeOK
<1>1. AccessInv => TypeOK
  BY DEF AccessInv
<1> QED BY <1>1, Inductive, PTL

(* The permission gate of the engine and the holdings that the four rules  *)
(* compare always give the same answer.                                    *)
THEOREM GateAndHoldingsAgree == Spec => []GateIsHoldings
<1> QED BY GateAgrees, TypeCorrect, PTL

(* No escalation through any number of calls: who is not an Owner holds    *)
(* only what an Owner, the host or a support grant put in circulation.     *)
THEOREM NoEscalation == Spec => []PowerHasASource
<1>1. AccessInv => PowerHasASource
  BY HoldingsSourced DEF AccessInv, PowerHasASource
<1> QED BY <1>1, Inductive, PTL

(* The member a pending call is about still holds nothing its actor did    *)
(* not hold when the call was decided.                                     *)
THEOREM DecisionsStand == Spec => []ReachIsKept
<1>1. AccessInv => ReachIsKept
  BY DEF AccessInv, Decided, Decision, ReachIsKept
<1> QED BY <1>1, Inductive, PTL

(* No write gives anybody a key its actor did not hold at the decision.    *)
THEOREM NothingUnheldIsGiven == Spec => GivesWhatItHeld
<1> DEFINE Given == \A a \in Person : (call[a] # NoCall /\ call'[a] = NoCall) =>
                       \A p \in Person : Covers(call[a].may, KeysOf(p)' \ KeysOf(p))
<1>1. AccessInv /\ [Next]_vars => [Given]_vars
  <2> SUFFICES ASSUME AccessInv, Next PROVE Given
    OBVIOUS
  <2>1. CASE \E a \in Person : Ask(a)
    <3>1. PICK a \in Person : Ask(a)
      BY <2>1
    <3>2. call'[a] # NoCall /\ \A b \in Person \ {a} : call'[b] = call[b]
      <4>1. call'[a] # NoCall /\ call[a] = NoCall
        BY <3>1, AskStep
      <4>2. \A b \in Person : call[b] = NoCall
        BY <3>1 DEF Ask, AskAssignRole, AskUnassignRole, AskStatus, AskRemove, AskCreateRole,
                    AskSetPermissions, AskGrantPermission, AskRevokePermission, AskCloneRole,
                    AskDeleteRole, Decides, LockFree
      <4>3. Alone'
        BY <3>1, AskStep
      <4> QED BY <4>1, <4>2, <4>3 DEF Alone
    <3> QED BY <3>2
  <2>2. CASE \E a \in Person : Do(a)
    <3>1. PICK a \in Person : Do(a)
      BY <2>2
    <3>2. call[a] # NoCall /\ \A p \in Person : Covers(call[a].may, KeysOf(p)' \ KeysOf(p))
      BY <3>1, DoStep
    <3> QED BY <3>2 DEF AccessInv, Alone
  <2>3. CASE NoLock
    BY <2>3, NoLockStep
  <2> QED BY <2>1, <2>2, <2>3 DEF Next
<1>2. GivesWhatItHeld <=> [][Given]_vars
  BY PTL DEF GivesWhatItHeld
<1> HIDE DEF Given
<1> QED BY <1>1, <1>2, Inductive, PTL DEF Spec

-----------------------------------------------------------------------------
(***************************************************************************)
(* Proofs about Policies: its types, the separation of duties, what is     *)
(* published by whom, and the set every answer of the engine is from.      *)
(*                                                                         *)
(* The separation of duties rests on versions: a row only ever changes     *)
(* together with its version, so a call whose version still is the row's   *)
(* knows the row.  The cache rests on numbers: a number names one set for  *)
(* as long as it is the organization's, and is never handed out again.     *)
(***************************************************************************)
(* What a call has read of a row that still has the version it has read.   *)
StillKnown(c) ==
    LET p == policy[serving[c].id]
    IN  /\ serving[c].op = "activate" =>
              serving[c].published /\ (separate /\ p.status # "active" => p.author # serving[c].actor)
        /\ serving[c].op = "update" /\ p.status = "active" /\ serving[c].definition # Unset =>
              serving[c].published /\ ~separate

CallIsPinned(c) ==
    serving[c].pc = "write" =>
        /\ serving[c].actor \in Actor /\ serving[c].id \in Policy
        /\ policy[serving[c].id].status \in Live \cup {"gone"}
        /\ policy[serving[c].id].status \in Live => serving[c].version <= policy[serving[c].id].version
        /\ policy[serving[c].id].status \in Live /\ Pinned(c) => StillKnown(c)

(* A number that is the organization's stands for its set.                 *)
Names(number, set) ==
    /\ number <= sequence
    /\ number = revision /\ number # 0 => set = ActiveSet

AskIsSound(q) ==
    /\ ask[q].pc # "idle" => ActiveSet \in ask[q].seen
    /\ ask[q].pc = "policies" => ask[q].revision <= sequence
    /\ ask[q].pc = "store" => Names(ask[q].revision, ask[q].set) /\ ask[q].set \in ask[q].seen
    /\ ask[q].pc = "answer" /\ ask[q].revision # 0 => ask[q].set \in ask[q].seen

PoliciesInv ==
    /\ PolicyTypeOK
    /\ DutiesAreSeparate
    /\ \A c \in Clerk : CallIsPinned(c)
    /\ cached.there => Names(cached.revision, cached.set)
    /\ \A q \in Question : AskIsSound(q)

(* The set in force is a set of what may be in force.                      *)
LEMMA ActiveSetType == PolicyTypeOK => ActiveSet \in SUBSET Enforceable
BY DEF PolicyTypeOK, PolicyRow, ActiveSet, Enforceable, Live

(* The call of an idle clerk is of the type of a call.                     *)
LEMMA IdleType ==
    Idle \in [pc : {"idle", "write"}, op : {"update", "activate"}, actor : Actor \cup {Unset},
              id : Policy \cup {Unset}, definition : Definition \cup {Unset},
              version : Nat, published : BOOLEAN]
BY DEF Idle

(* What a write of one row does: the row, its version, the number.         *)
Changed(p, row) ==
    /\ p \in Policy /\ row \in PolicyRow
    /\ row.status \in Live => row.definition \in Definition /\ row.author \in Actor
    /\ row.status \in Live \cup {"gone"}
    /\ policy[p].status \in Live /\ row.status \in Live => row.version > policy[p].version
    /\ policy[p].status = "gone" => row.status = "gone"
    /\ separate /\ row.status = "active" => row.activator # row.author
    /\ Becomes(p, row)

(* Questions and cache survive a change of the number that is new.         *)
LEMMA NumberedStep ==
    ASSUME PoliciesInv, PolicyTypeOK', Seen, sequence' \in Nat, UNCHANGED cached,
           revision' = 0 \/ revision' > sequence, sequence' >= sequence
    PROVE  /\ cached'.there => Names(cached.revision, cached.set)'
           /\ \A q \in Question : AskIsSound(q)'
<1>1. sequence \in Nat /\ revision' \in Nat /\ cached.revision \in Nat /\ \A q \in Question : ask[q].revision \in Nat
    BY DEF PoliciesInv, PolicyTypeOK
<1>2. ASSUME NEW n \in Nat, NEW set, Names(n, set) PROVE Names(n, set)'
    BY <1>1, <1>2 DEF Names
<1>3. cached'.there => Names(cached.revision, cached.set)'
    BY <1>1, <1>2 DEF PoliciesInv, Names
<1>4. ASSUME NEW q \in Question PROVE AskIsSound(q)'
  <2>1. AskIsSound(q) /\ ask[q].revision \in Nat
    BY <1>1 DEF PoliciesInv
  <2>2. ask'[q] = IF ask[q].pc = "idle" THEN ask[q] ELSE [ask[q] EXCEPT !.seen = @ \cup {ActiveSet'}]
    BY DEF Seen
  <2>3. ask[q] \in [pc : {"idle", "check", "revision", "policies", "store", "answer"},
                    revision : Nat, set : SUBSET Enforceable, seen : SUBSET SUBSET Enforceable]
    BY DEF PoliciesInv, PolicyTypeOK
  <2>4. /\ ask'[q].pc = ask[q].pc /\ ask'[q].revision = ask[q].revision /\ ask'[q].set = ask[q].set
        /\ ask[q].pc # "idle" => ask'[q].seen = ask[q].seen \cup {ActiveSet'}
    BY <2>2, <2>3
  <2>5. ask[q].pc = "store" => Names(ask[q].revision, ask[q].set)'
    <3>1. CASE ask[q].pc = "store"
      <4>1. Names(ask[q].revision, ask[q].set)
        BY <2>1, <3>1 DEF AskIsSound
      <4>2. ask[q].revision <= sequence' /\ ~(ask[q].revision = revision' /\ ask[q].revision # 0)
        BY <4>1, <1>1, <2>1 DEF Names
      <4> QED
        BY <4>2, <2>4 DEF Names
    <3> QED
      BY <3>1
  <2>6. ask[q].pc = "policies" => ask[q].revision <= sequence'
    BY <1>1, <2>1 DEF AskIsSound
  <2> QED
    BY <2>1, <2>4, <2>5, <2>6 DEF AskIsSound, Names
<1> QED
    BY <1>3, <1>4

(* A write keeps the invariant, when the call that made it ends or when    *)
(* there was none.                                                         *)
LEMMA ChangedStep ==
    ASSUME PoliciesInv, NEW p \in Policy, NEW row, Changed(p, row),
           serving' = serving \/ \E c \in Clerk : serving' = [serving EXCEPT ![c] = Idle],
           UNCHANGED <<separate, holds, cached>>,
           spent' \in [calls : Nat, shifts : Nat, gone : Nat]
    PROVE  PoliciesInv'
<1>1. /\ policy' = [policy EXCEPT ![p] = row] /\ sequence' = sequence + 1 /\ revision' = sequence + 1 /\ Seen
      /\ row \in PolicyRow /\ sequence \in Nat
    BY DEF Changed, Becomes, NextNumber, PoliciesInv, PolicyTypeOK
<1>2. policy' \in [Policy -> PolicyRow] /\ policy'[p] = row /\ \A o \in Policy \ {p} : policy'[o] = policy[o]
    BY <1>1 DEF PoliciesInv, PolicyTypeOK
<1>3. \A o \in Policy : policy'[o].status \in Live => policy'[o].definition \in Definition /\ policy'[o].author \in Actor
    BY <1>2 DEF PoliciesInv, PolicyTypeOK, Changed
<1>4. ActiveSet' \in SUBSET Enforceable
    BY <1>2, <1>3 DEF ActiveSet, Enforceable, PolicyRow, Live
<1>5. ask' \in [Question -> [pc : {"idle", "check", "revision", "policies", "store", "answer"},
                             revision : Nat, set : SUBSET Enforceable, seen : SUBSET SUBSET Enforceable]]
  <2> SUFFICES ASSUME NEW q \in Question
               PROVE  ask'[q] \in [pc : {"idle", "check", "revision", "policies", "store", "answer"},
                                   revision : Nat, set : SUBSET Enforceable, seen : SUBSET SUBSET Enforceable]
    BY <1>1 DEF Seen
  <2>1. ask[q] \in [pc : {"idle", "check", "revision", "policies", "store", "answer"},
                    revision : Nat, set : SUBSET Enforceable, seen : SUBSET SUBSET Enforceable]
    BY DEF PoliciesInv, PolicyTypeOK
  <2>2. ask'[q] = IF ask[q].pc = "idle" THEN ask[q] ELSE [ask[q] EXCEPT !.seen = @ \cup {ActiveSet'}]
    BY <1>1 DEF Seen
  <2>3. ask[q].seen \cup {ActiveSet'} \in SUBSET SUBSET Enforceable
    BY <1>4, <2>1
  <2> QED
    BY <2>1, <2>2, <2>3
<1>6. ASSUME NEW c \in Clerk PROVE serving'[c] = serving[c] \/ serving'[c] = Idle
    BY DEF PoliciesInv, PolicyTypeOK
<1>7. PolicyTypeOK'
  <2>1. serving' \in [Clerk -> [pc : {"idle", "write"}, op : {"update", "activate"}, actor : Actor \cup {Unset},
                             id : Policy \cup {Unset}, definition : Definition \cup {Unset},
                             version : Nat, published : BOOLEAN]]
    BY IdleType DEF PoliciesInv, PolicyTypeOK
  <2>2. \A c \in Clerk : serving'[c].pc # "idle" => serving'[c].actor \in Actor /\ serving'[c].id \in Policy
    BY <1>6 DEF PoliciesInv, PolicyTypeOK, Idle
  <2>3. revision' \in Nat /\ sequence' \in Nat /\ revision' <= sequence'
    BY <1>1
  <2> QED
    BY <1>2, <1>3, <1>5, <2>1, <2>2, <2>3 DEF PoliciesInv, PolicyTypeOK
<1>8. DutiesAreSeparate'
    BY <1>2 DEF PoliciesInv, DutiesAreSeparate, Changed
<1>9. ASSUME NEW c \in Clerk PROVE CallIsPinned(c)'
  <2>1. CASE serving'[c] = Idle
    BY <2>1 DEF CallIsPinned, Idle
  <2>2. CASE serving'[c] = serving[c] /\ serving[c].pc = "write"
    <3>1. CallIsPinned(c) /\ serving[c].id \in Policy /\ serving[c].version \in Nat
      BY <2>2 DEF PoliciesInv, PolicyTypeOK
    <3>2. CASE serving[c].id # p
      BY <1>2, <2>2, <3>1, <3>2 DEF CallIsPinned, Pinned, StillKnown
    <3>3. CASE serving[c].id = p
      <4>1. policy[p].version \in Nat /\ row.version \in Nat
        BY <1>2 DEF PoliciesInv, PolicyTypeOK, PolicyRow
      <4>2. row.status \in Live \cup {"gone"} /\ (row.status \in Live => serving[c].version < row.version)
        BY <2>2, <3>1, <3>3, <4>1 DEF CallIsPinned, Changed
      <4>3. row.status \in Live => row.version # serving[c].version /\ serving[c].version <= row.version
        BY <4>1, <4>2, <3>1
      <4> QED
        BY <1>2, <2>2, <3>1, <3>3, <4>2, <4>3 DEF CallIsPinned, Pinned
    <3> QED
      BY <3>2, <3>3
  <2>3. CASE serving'[c] = serving[c] /\ serving[c].pc # "write"
    BY <2>3 DEF CallIsPinned
  <2> QED
    BY <1>6, <2>1, <2>2, <2>3
<1>10. revision' > sequence /\ sequence' >= sequence /\ sequence' \in Nat
    BY <1>1
<1>11. /\ cached'.there => Names(cached.revision, cached.set)'
       /\ \A q \in Question : AskIsSound(q)'
    BY <1>1, <1>7, <1>10, NumberedStep
<1> QED
    BY <1>7, <1>8, <1>9, <1>11 DEF PoliciesInv

(* The writes that read nothing before the lock.                           *)
LEMMA DirectStep ==
    ASSUME PoliciesInv, NEW a \in Actor, NEW p \in Policy, NEW d \in Definition,
           Create(a, p, d) \/ Disable(a, p) \/ Retire(a, p) \/ Delete(a, p)
    PROVE  PoliciesInv'
<1>1. policy[p] \in PolicyRow /\ policy[p].version \in Nat /\ policy[p].version + 1 > policy[p].version
      /\ (policy[p].status \in Live => policy[p].definition \in Definition /\ policy[p].author \in Actor)
    BY DEF PoliciesInv, PolicyTypeOK, PolicyRow
<1>2. serving' = serving /\ UNCHANGED <<separate, holds, cached>> /\ spent' \in [calls : Nat, shifts : Nat, gone : Nat]
    BY DEF Create, Disable, Retire, Delete, Directly, Counts, PoliciesInv, PolicyTypeOK
<1>3. CASE Create(a, p, d)
  <2> DEFINE row == [status |-> "draft", definition |-> d, version |-> 1, author |-> a, activator |-> Unset]
  <2>1. row \in PolicyRow /\ row.status = "draft"
    BY DEF PolicyRow, Live
  <2>2. Changed(p, row)
    BY <1>3, <2>1 DEF Create, Changed, Live
  <2> HIDE DEF row
  <2> QED
    BY <1>2, <2>2, ChangedStep
<1>4. CASE Disable(a, p)
  <2> DEFINE row == [policy[p] EXCEPT !.status = "disabled", !.version = @ + 1]
  <2>1. /\ row \in PolicyRow /\ row.status = "disabled" /\ row.version = policy[p].version + 1
        /\ row.definition = policy[p].definition /\ row.author = policy[p].author
    <3>1. row = [f \in {"status", "definition", "version", "author", "activator"} |->
                   IF f = "version" THEN policy[p].version + 1 ELSE IF f = "status" THEN "disabled" ELSE policy[p][f]]
      BY <1>1 DEF PolicyRow
    <3>2. row = [status |-> "disabled", definition |-> policy[p].definition, version |-> policy[p].version + 1,
                 author |-> policy[p].author, activator |-> policy[p].activator]
      BY <3>1
    <3> QED
      BY <1>1, <3>2 DEF PolicyRow, Live
  <2>2. policy[p].status = "active" /\ Becomes(p, row)
    BY <1>4 DEF Disable
  <2> HIDE DEF row
  <2>3. Changed(p, row)
    BY <1>1, <2>1, <2>2 DEF Changed, Live
  <2> QED
    BY <1>2, <2>3, ChangedStep
<1>5. CASE Retire(a, p)
  <2> DEFINE row == [policy[p] EXCEPT !.status = "retired", !.version = @ + 1]
  <2>1. /\ row \in PolicyRow /\ row.status = "retired" /\ row.version = policy[p].version + 1
        /\ row.definition = policy[p].definition /\ row.author = policy[p].author
    <3>1. row = [f \in {"status", "definition", "version", "author", "activator"} |->
                   IF f = "version" THEN policy[p].version + 1 ELSE IF f = "status" THEN "retired" ELSE policy[p][f]]
      BY <1>1 DEF PolicyRow
    <3>2. row = [status |-> "retired", definition |-> policy[p].definition, version |-> policy[p].version + 1,
                 author |-> policy[p].author, activator |-> policy[p].activator]
      BY <3>1
    <3> QED
      BY <1>1, <3>2 DEF PolicyRow, Live
  <2>2. policy[p].status \in {"active", "disabled"} /\ Becomes(p, row)
    BY <1>5 DEF Retire
  <2> HIDE DEF row
  <2>3. Changed(p, row)
    BY <1>1, <2>1, <2>2 DEF Changed, Live
  <2> QED
    BY <1>2, <2>3, ChangedStep
<1>6. CASE Delete(a, p)
  <2> DEFINE row == [NoPolicy EXCEPT !.status = "gone"]
  <2>1. row \in PolicyRow /\ row.status = "gone"
    BY DEF PolicyRow, NoPolicy, Live
  <2>2. Changed(p, row)
    BY <1>6, <2>1 DEF Delete, Changed, Live
  <2> HIDE DEF row
  <2> QED
    BY <1>2, <2>2, ChangedStep
<1> QED
    BY <1>3, <1>4, <1>5, <1>6

(* An update writes for the version it has read: of an active policy it    *)
(* changes the definition only when duties are not separate.               *)
LEMMA UpdateStep == ASSUME PoliciesInv, NEW c \in Clerk, Update(c) PROVE PoliciesInv'
<1> DEFINE p == serving[c].id
           d == serving[c].definition
           row == IF d = Unset THEN [policy[p] EXCEPT !.version = @ + 1]
                  ELSE [policy[p] EXCEPT !.version = @ + 1, !.definition = d, !.author = serving[c].actor]
<1>1. /\ serving[c].pc = "write" /\ serving[c].op = "update" /\ serving' = [serving EXCEPT ![c] = Idle]
      /\ UNCHANGED <<separate, holds, cached, spent>>
      /\ policy[p].status \in Live \ {"retired"} /\ Pinned(c) /\ Becomes(p, row)
    BY DEF Update, Commits
<1>2. p \in Policy /\ serving[c].actor \in Actor /\ d \in Definition \cup {Unset}
    BY <1>1 DEF PoliciesInv, PolicyTypeOK
<1>3. policy[p] \in PolicyRow /\ policy[p].version \in Nat /\ policy[p].version + 1 > policy[p].version
      /\ policy[p].definition \in Definition /\ policy[p].author \in Actor
    BY <1>1, <1>2 DEF PoliciesInv, PolicyTypeOK, PolicyRow
<1>4. /\ row \in PolicyRow /\ row.status = policy[p].status /\ row.version = policy[p].version + 1
      /\ row.activator = policy[p].activator /\ row.definition \in Definition /\ row.author \in Actor
      /\ (d = Unset => row.author = policy[p].author)
  <2> DEFINE wrote == IF d = Unset THEN policy[p].definition ELSE d
             whose == IF d = Unset THEN policy[p].author ELSE serving[c].actor
  <2>1. row = [status |-> policy[p].status, definition |-> wrote, version |-> policy[p].version + 1,
               author |-> whose, activator |-> policy[p].activator]
    BY <1>3 DEF PolicyRow
  <2>2. wrote \in Definition /\ whose \in Actor
    BY <1>2, <1>3
  <2> QED
    BY <1>3, <2>1, <2>2 DEF PolicyRow
<1>5. StillKnown(c)
    BY <1>1, <1>2 DEF PoliciesInv, CallIsPinned, Live
<1>6. separate /\ row.status = "active" => row.activator # row.author
    BY <1>1, <1>2, <1>4, <1>5 DEF PoliciesInv, StillKnown, DutiesAreSeparate
<1>7. spent' \in [calls : Nat, shifts : Nat, gone : Nat]
    BY <1>1 DEF PoliciesInv, PolicyTypeOK
<1> HIDE DEF row, p, d
<1>8. Changed(p, row)
    BY <1>1, <1>2, <1>3, <1>4, <1>6 DEF Changed, Live
<1> QED
    BY <1>1, <1>2, <1>7, <1>8, ChangedStep

(* An activation knows that the author it has read is still the author.    *)
LEMMA ActivateStep == ASSUME PoliciesInv, NEW c \in Clerk, Activate(c) PROVE PoliciesInv'
<1> DEFINE p == serving[c].id
           row == [policy[p] EXCEPT !.status = "active", !.version = @ + 1, !.activator = serving[c].actor]
<1>1. /\ serving[c].pc = "write" /\ serving[c].op = "activate" /\ serving' = [serving EXCEPT ![c] = Idle]
      /\ UNCHANGED <<separate, holds, cached, spent>>
      /\ policy[p].status \in {"draft", "disabled"} /\ Pinned(c) /\ Becomes(p, row)
    BY DEF Activate, Commits
<1>2. p \in Policy /\ serving[c].actor \in Actor
    BY <1>1 DEF PoliciesInv, PolicyTypeOK
<1>3. policy[p] \in PolicyRow /\ policy[p].version \in Nat /\ policy[p].version + 1 > policy[p].version
      /\ policy[p].definition \in Definition /\ policy[p].author \in Actor
    BY <1>1, <1>2 DEF PoliciesInv, PolicyTypeOK, PolicyRow, Live
<1>4. /\ row \in PolicyRow /\ row.status = "active" /\ row.version = policy[p].version + 1
      /\ row.activator = serving[c].actor /\ row.definition = policy[p].definition /\ row.author = policy[p].author
  <2>1. row = [f \in {"status", "definition", "version", "author", "activator"} |->
                  IF f = "activator" THEN serving[c].actor ELSE IF f = "version" THEN policy[p].version + 1
                  ELSE IF f = "status" THEN "active" ELSE policy[p][f]]
    BY <1>3 DEF PolicyRow
  <2>2. row = [status |-> "active", definition |-> policy[p].definition, version |-> policy[p].version + 1,
               author |-> policy[p].author, activator |-> serving[c].actor]
    BY <2>1
  <2> QED
    BY <1>2, <1>3, <2>2 DEF PolicyRow, Live
<1>5. StillKnown(c)
    BY <1>1, <1>2 DEF PoliciesInv, CallIsPinned, Live
<1>6. separate => row.activator # row.author
    BY <1>1, <1>4, <1>5 DEF StillKnown
<1>7. spent' \in [calls : Nat, shifts : Nat, gone : Nat]
    BY <1>1 DEF PoliciesInv, PolicyTypeOK
<1> HIDE DEF row, p
<1>8. Changed(p, row)
    BY <1>1, <1>2, <1>3, <1>4, <1>6 DEF Changed, Live
<1> QED
    BY <1>1, <1>2, <1>7, <1>8, ChangedStep

(* Nothing but the calls, or what actors may do, changes.                  *)
LEMMA CallStep ==
    ASSUME PoliciesInv, NEW c \in Clerk,
           \/ \E a \in Actor, p \in Policy, d \in Definition \cup {Unset} :
                 ReadForUpdate(c, a, p, d) \/ ReadForActivate(c, a, p)
           \/ GivesUp(c)
    PROVE  PoliciesInv'
<1>0. UNCHANGED <<separate, holds, policy, revision, sequence, cached, ask>> /\ (Counts \/ UNCHANGED spent)
    BY DEF ReadForUpdate, ReadForActivate, GivesUp, Reads
<1>1. UNCHANGED <<separate, holds, policy, revision, sequence, cached, ask>>
      /\ spent' \in [calls : Nat, shifts : Nat, gone : Nat]
    BY <1>0 DEF Counts, PoliciesInv, PolicyTypeOK
<1> DEFINE CallType == [pc : {"idle", "write"}, op : {"update", "activate"}, actor : Actor \cup {Unset},
                        id : Policy \cup {Unset}, definition : Definition \cup {Unset},
                        version : Nat, published : BOOLEAN]
           Fine(left) == /\ serving' = [serving EXCEPT ![c] = left] /\ left \in CallType
                         /\ (left.pc # "idle" => left.actor \in Actor /\ left.id \in Policy)
                         /\ CallIsPinned(c)'
<1>2. Fine(serving'[c])
  <2>1. CASE GivesUp(c)
    <3>1. serving' = [serving EXCEPT ![c] = Idle] /\ serving'[c] = Idle
      BY <2>1 DEF GivesUp, PoliciesInv, PolicyTypeOK
    <3> QED
      BY <3>1, IdleType DEF CallIsPinned, Idle
  <2>2. ASSUME NEW a \in Actor, NEW p \in Policy, NEW d \in Definition \cup {Unset},
               ReadForUpdate(c, a, p, d) \/ ReadForActivate(c, a, p)
        PROVE  Fine(serving'[c])
    <3>1. policy[p].version \in Nat /\ (policy[p].status = "active") \in BOOLEAN /\ policy[p].status \in Live
      BY <2>2 DEF PoliciesInv, PolicyTypeOK, PolicyRow, ReadForUpdate, ReadForActivate, Reads
    <3>2. CASE ReadForUpdate(c, a, p, d)
      <4> DEFINE edits == policy[p].status = "active" /\ d # Unset
                 left == [pc |-> "write", op |-> "update", actor |-> a, id |-> p, definition |-> d,
                          version |-> policy[p].version, published |-> edits]
      <4>1. serving' = [serving EXCEPT ![c] = left] /\ (edits => ~separate)
        BY <3>2 DEF ReadForUpdate, Reads
      <4>2. serving'[c] = left
        BY <4>1 DEF PoliciesInv, PolicyTypeOK
      <4>3. left \in CallType
        BY <3>1
      <4>4. /\ serving'[c].pc = "write" /\ serving'[c].op = "update" /\ serving'[c].actor = a /\ serving'[c].id = p
            /\ serving'[c].definition = d /\ serving'[c].version = policy[p].version
        BY <4>2
      <4>5. policy[p].status = "active" /\ d # Unset => serving'[c].published
        <5>1. serving'[c].published = edits
          BY <4>2
        <5> QED
          BY <5>1
      <4>6. CallIsPinned(c)'
        <5> HIDE DEF left, edits
        <5>1. edits => ~separate
          BY <4>1
        <5>2. policy[p].status = "active" /\ d # Unset => ~separate
          BY <5>1 DEF edits
        <5> QED
          BY <1>1, <3>1, <4>4, <4>5, <5>2 DEF CallIsPinned, Pinned, StillKnown
      <4> QED
        BY <4>1, <4>2, <4>3, <4>6
    <3>3. CASE ReadForActivate(c, a, p)
      <4> DEFINE left == [pc |-> "write", op |-> "activate", actor |-> a, id |-> p, definition |-> Unset,
                          version |-> policy[p].version, published |-> TRUE]
      <4>1. serving' = [serving EXCEPT ![c] = left] /\ (separate /\ policy[p].status # "active" => policy[p].author # a)
        BY <3>3 DEF ReadForActivate, Reads
      <4>2. serving'[c] = left
        BY <4>1 DEF PoliciesInv, PolicyTypeOK
      <4>3. left \in CallType
        BY <3>1
      <4>4. CallIsPinned(c)'
        BY <1>1, <3>1, <4>1, <4>2 DEF CallIsPinned, Pinned, StillKnown
      <4> QED
        BY <4>1, <4>2, <4>3, <4>4
    <3> QED
      BY <2>2, <3>2, <3>3
  <2> QED
    BY <2>1, <2>2
<1>3. \A other \in Clerk \ {c} : serving'[other] = serving[other]
    BY <1>2 DEF PoliciesInv, PolicyTypeOK
<1>4. PolicyTypeOK'
    BY <1>1, <1>2, <1>3 DEF PoliciesInv, PolicyTypeOK
<1>5. ASSUME NEW other \in Clerk PROVE CallIsPinned(other)'
  <2>1. CASE other = c
    BY <1>2, <2>1
  <2>2. CASE other # c
    BY <1>1, <1>3, <2>2 DEF PoliciesInv, CallIsPinned, Pinned, StillKnown
  <2> QED
    BY <2>1, <2>2
<1>6. ASSUME NEW q \in Question PROVE AskIsSound(q)'
    BY <1>1 DEF PoliciesInv, AskIsSound, Names, ActiveSet
<1> QED
    BY <1>1, <1>4, <1>5, <1>6 DEF PoliciesInv, DutiesAreSeparate, Names, ActiveSet

(* The engine changes its questions and its cache.                         *)
LEMMA EngineStep ==
    ASSUME PoliciesInv, (\E q \in Question : Evaluates(q)) \/ Forget
    PROVE  PoliciesInv'
<1>1. UNCHANGED <<separate, holds, policy, revision, sequence, serving, spent>>
    BY DEF Evaluates, Asked, CheckCache, ReadRevision, ReadPolicies, Store, Answer, Forget, Engine
<1>2. ActiveSet' = ActiveSet /\ ActiveSet \in SUBSET Enforceable
    BY <1>1, ActiveSetType DEF ActiveSet, PoliciesInv
<1>3. DutiesAreSeparate' /\ \A c \in Clerk : CallIsPinned(c)'
    BY <1>1 DEF PoliciesInv, DutiesAreSeparate, CallIsPinned, Pinned, StillKnown
<1> DEFINE Type == [pc : {"idle", "check", "revision", "policies", "store", "answer"},
                    revision : Nat, set : SUBSET Enforceable, seen : SUBSET SUBSET Enforceable]
<1>4. ask \in [Question -> Type] /\ cached \in [there : BOOLEAN, revision : Nat, set : SUBSET Enforceable]
      /\ revision \in Nat /\ sequence \in Nat /\ revision <= sequence
    BY DEF PoliciesInv, PolicyTypeOK
<1>5. CASE Forget
  <2>1. PolicyTypeOK'
    BY <1>1, <1>5 DEF Forget, PoliciesInv, PolicyTypeOK
  <2>2. ASSUME NEW q \in Question PROVE AskIsSound(q)'
    BY <1>1, <1>2, <1>5 DEF Forget, PoliciesInv, AskIsSound, Names
  <2> QED
    BY <1>3, <1>5, <2>1, <2>2 DEF Forget, PoliciesInv
<1>6. ASSUME NEW q \in Question, Evaluates(q) PROVE PoliciesInv'
  <2>1. /\ ask' = [ask EXCEPT ![q] = ask'[q]] /\ ask'[q] \in Type
        /\ cached' \in [there : BOOLEAN, revision : Nat, set : SUBSET Enforceable]
        /\ AskIsSound(q)'
        /\ cached'.there => Names(cached.revision, cached.set)'
    <3>1. ask[q] \in Type /\ AskIsSound(q) /\ (cached.there => Names(cached.revision, cached.set))
      BY <1>4 DEF PoliciesInv
    <3>2. CASE Asked(q)
      <4>1. ask'[q] = [Unasked EXCEPT !.pc = "check", !.seen = {ActiveSet}] /\ UNCHANGED cached
        BY <1>4, <3>2 DEF Asked
      <4>2. ask'[q] = [pc |-> "check", revision |-> 0, set |-> {}, seen |-> {ActiveSet}]
        BY <4>1 DEF Unasked
      <4>3. ask'[q] \in Type
        BY <1>2, <4>2
      <4>4. AskIsSound(q)'
        BY <1>2, <4>2 DEF AskIsSound
      <4> QED
        BY <1>1, <1>2, <1>4, <3>1, <3>2, <4>1, <4>3, <4>4 DEF Asked, Names
    <3>3. CASE CheckCache(q)
      <4>1. UNCHANGED cached /\ ask[q].pc = "check"
            /\ ask'[q] = IF cached.there /\ cached.revision = revision
                         THEN [ask[q] EXCEPT !.pc = "answer", !.revision = revision, !.set = cached.set]
                         ELSE [ask[q] EXCEPT !.pc = "revision"]
        BY <1>4, <3>3 DEF CheckCache
      <4>2. CASE cached.there /\ cached.revision = revision
        <5>1. ask'[q] = [pc |-> "answer", revision |-> revision, set |-> cached.set, seen |-> ask[q].seen]
          BY <3>1, <4>1, <4>2
        <5>2. revision # 0 => cached.set = ActiveSet
          BY <3>1, <4>2 DEF Names
        <5> QED
          BY <1>1, <1>2, <1>4, <3>1, <3>3, <4>1, <5>1, <5>2 DEF CheckCache, AskIsSound, Names
      <4>3. CASE ~(cached.there /\ cached.revision = revision)
        <5>1. ask'[q] = [pc |-> "revision", revision |-> ask[q].revision, set |-> ask[q].set, seen |-> ask[q].seen]
          BY <3>1, <4>1, <4>3
        <5> QED
          BY <1>1, <1>2, <1>4, <3>1, <3>3, <4>1, <5>1 DEF CheckCache, AskIsSound, Names
      <4> QED
        BY <4>2, <4>3
    <3>4. CASE ReadRevision(q)
      <4>1. UNCHANGED cached /\ ask[q].pc = "revision"
            /\ ask'[q] = [pc |-> "policies", revision |-> revision, set |-> ask[q].set, seen |-> ask[q].seen]
        BY <1>4, <3>1, <3>4 DEF ReadRevision
      <4> QED
        BY <1>1, <1>2, <1>4, <3>1, <3>4, <4>1 DEF ReadRevision, AskIsSound, Names
    <3>5. CASE ReadPolicies(q)
      <4>1. UNCHANGED cached /\ ask[q].pc = "policies"
            /\ ask'[q] = [pc |-> "store", revision |-> ask[q].revision, set |-> ActiveSet, seen |-> ask[q].seen]
        BY <1>4, <3>1, <3>5 DEF ReadPolicies
      <4> QED
        BY <1>1, <1>2, <1>4, <3>1, <3>5, <4>1 DEF ReadPolicies, AskIsSound, Names
    <3>6. CASE Store(q)
      <4>1. ask[q].pc = "store" /\ cached' = [there |-> TRUE, revision |-> ask[q].revision, set |-> ask[q].set]
            /\ ask'[q] = [pc |-> "answer", revision |-> ask[q].revision, set |-> ask[q].set, seen |-> ask[q].seen]
        BY <1>4, <3>1, <3>6 DEF Store
      <4> QED
        BY <1>1, <1>2, <1>4, <3>1, <3>6, <4>1 DEF Store, AskIsSound, Names
    <3>7. CASE Answer(q)
      <4>1. UNCHANGED cached /\ ask'[q] = [pc |-> "idle", revision |-> 0, set |-> {}, seen |-> {}]
        BY <1>4, <3>7 DEF Answer, Unasked
      <4> QED
        BY <1>1, <1>2, <1>4, <3>1, <3>7, <4>1 DEF Answer, AskIsSound, Names
    <3> QED
      BY <1>6, <3>2, <3>3, <3>4, <3>5, <3>6, <3>7 DEF Evaluates
  <2> HIDE DEF Type
  <2>2. ask' \in [Question -> Type] /\ \A other \in Question \ {q} : ask'[other] = ask[other]
    BY <1>4, <2>1
  <2>3. PolicyTypeOK'
    BY <1>1, <2>1, <2>2 DEF PoliciesInv, PolicyTypeOK, Type
  <2>4. ASSUME NEW other \in Question PROVE AskIsSound(other)'
    <3>1. CASE other = q
      BY <2>1, <3>1
    <3>2. CASE other # q
      BY <1>1, <1>2, <2>2, <3>2 DEF PoliciesInv, AskIsSound, Names
    <3> QED
      BY <3>1, <3>2
  <2> QED
    BY <1>3, <2>1, <2>3, <2>4 DEF PoliciesInv
<1> QED
    BY <1>5, <1>6

(* The rows are gone with the organization, and no number stands for it.   *)
LEMMA RecreatedStep == ASSUME PoliciesInv, Recreated PROVE PoliciesInv'
<1>1. /\ policy' = [p \in Policy |-> IF policy[p].status = "none" THEN NoPolicy ELSE [NoPolicy EXCEPT !.status = "gone"]]
      /\ revision' = 0 /\ Seen /\ UNCHANGED <<separate, holds, sequence, serving, cached>>
      /\ spent' \in [calls : Nat, shifts : Nat, gone : Nat]
    BY DEF Recreated, PoliciesInv, PolicyTypeOK
<1>2. \A p \in Policy : /\ policy'[p] \in PolicyRow /\ policy'[p].status \in {"none", "gone"}
                        /\ policy[p].status \in Live \cup {"gone"} => policy'[p].status = "gone"
    BY <1>1 DEF NoPolicy, PolicyRow, Live
<1>3. ActiveSet' = {}
    BY <1>2 DEF ActiveSet
<1>4. ask' \in [Question -> [pc : {"idle", "check", "revision", "policies", "store", "answer"},
                             revision : Nat, set : SUBSET Enforceable, seen : SUBSET SUBSET Enforceable]]
  <2> SUFFICES ASSUME NEW q \in Question
               PROVE  ask'[q] \in [pc : {"idle", "check", "revision", "policies", "store", "answer"},
                                   revision : Nat, set : SUBSET Enforceable, seen : SUBSET SUBSET Enforceable]
    BY <1>1 DEF Seen
  <2>1. ask[q] \in [pc : {"idle", "check", "revision", "policies", "store", "answer"},
                    revision : Nat, set : SUBSET Enforceable, seen : SUBSET SUBSET Enforceable]
    BY DEF PoliciesInv, PolicyTypeOK
  <2>2. ask'[q] = IF ask[q].pc = "idle" THEN ask[q] ELSE [ask[q] EXCEPT !.seen = @ \cup {{}}]
    BY <1>1, <1>3 DEF Seen
  <2> QED
    BY <2>1, <2>2
<1>5. PolicyTypeOK'
  <2>1. policy' \in [Policy -> PolicyRow] /\ \A p \in Policy : policy'[p].status \notin Live
    BY <1>1, <1>2 DEF Live
  <2>2. revision' \in Nat /\ sequence' \in Nat /\ revision' <= sequence'
    BY <1>1 DEF PoliciesInv, PolicyTypeOK
  <2> QED
    BY <1>1, <1>4, <2>1, <2>2 DEF PoliciesInv, PolicyTypeOK
<1>6. DutiesAreSeparate'
    BY <1>2 DEF DutiesAreSeparate
<1>7. ASSUME NEW c \in Clerk PROVE CallIsPinned(c)'
    BY <1>1, <1>2 DEF PoliciesInv, CallIsPinned, Live
<1>8. sequence \in Nat /\ sequence' >= sequence /\ sequence' \in Nat
    BY <1>1 DEF PoliciesInv, PolicyTypeOK
<1>9. /\ cached'.there => Names(cached.revision, cached.set)'
      /\ \A q \in Question : AskIsSound(q)'
    BY <1>1, <1>5, <1>8, NumberedStep
<1> QED
    BY <1>5, <1>6, <1>7, <1>9 DEF PoliciesInv

(* Nothing is there yet.                                                   *)
LEMMA PoliciesInitIsGood == PolicyInit => PoliciesInv
<1> SUFFICES ASSUME PolicyInit PROVE PoliciesInv
    OBVIOUS
<1>1. PolicyTypeOK
    BY IdleType DEF PolicyInit, PolicyTypeOK, NoPolicy, PolicyRow, Live, Unasked, Idle
<1>2. \A q \in Question : AskIsSound(q)
    BY DEF PolicyInit, AskIsSound, Unasked
<1>3. \A c \in Clerk : CallIsPinned(c)
    BY DEF PolicyInit, CallIsPinned, Idle
<1> QED
    BY <1>1, <1>2, <1>3 DEF PolicyInit, PoliciesInv, DutiesAreSeparate, NoPolicy

(* Every action keeps the invariant.                                       *)
THEOREM PoliciesInductive == PoliciesInv /\ [PolicyNext]_pvars => PoliciesInv'
<1> SUFFICES ASSUME PoliciesInv, [PolicyNext]_pvars PROVE PoliciesInv'
    OBVIOUS
<1>1. ASSUME NEW a \in Actor, NEW p \in Policy, Serves(a, p) PROVE PoliciesInv'
  <2>1. ASSUME NEW d \in Definition, Create(a, p, d) PROVE PoliciesInv'
    BY <2>1, DirectStep
  <2>2. CASE Disable(a, p) \/ Retire(a, p) \/ Delete(a, p)
    <3>1. CASE \E d \in Definition : TRUE
      BY <2>2, <3>1, DirectStep
    <3>2. CASE Definition = {}
      <4>1. policy[p].status \in Live
        BY <2>2 DEF Disable, Retire, Delete, Live
      <4> QED
        BY <3>2, <4>1 DEF PoliciesInv, PolicyTypeOK
    <3> QED
      BY <3>1, <3>2
  <2>3. ASSUME NEW c \in Clerk, NEW d \in Definition \cup {Unset},
               ReadForActivate(c, a, p) \/ ReadForUpdate(c, a, p, d)
        PROVE  PoliciesInv'
    BY <2>3, CallStep
  <2> QED
    BY <1>1, <2>1, <2>2, <2>3 DEF Serves
<1>2. ASSUME NEW c \in Clerk, Update(c) \/ Activate(c) \/ GivesUp(c) PROVE PoliciesInv'
    BY <1>2, UpdateStep, ActivateStep, CallStep
<1>3. CASE (\E q \in Question : Evaluates(q)) \/ Forget
    BY <1>3, EngineStep
<1>4. ASSUME NEW a \in Actor, NEW holding \in SUBSET AdminKey, Shift(a, holding) PROVE PoliciesInv'
  <2>1. PolicyTypeOK'
    BY <1>4 DEF Shift, PoliciesInv, PolicyTypeOK
  <2> QED
    BY <1>4, <2>1 DEF Shift, PoliciesInv, DutiesAreSeparate, CallIsPinned, Pinned, StillKnown, AskIsSound, Names, ActiveSet
<1>5. CASE Recreated
    BY <1>5, RecreatedStep
<1>6. CASE UNCHANGED pvars
  <2>1. PolicyTypeOK'
    BY <1>6 DEF pvars, PoliciesInv, PolicyTypeOK
  <2> QED
    BY <1>6, <2>1 DEF pvars, PoliciesInv, DutiesAreSeparate, CallIsPinned, Pinned, StillKnown, AskIsSound, Names, ActiveSet
<1> QED
    BY <1>1, <1>2, <1>3, <1>4, <1>5, <1>6 DEF PolicyNext

(* The types of rows, calls, numbers, cache and questions.                 *)
THEOREM PoliciesTypeCorrect == PolicySpec => []PolicyTypeOK
<1>1. PoliciesInv => PolicyTypeOK
    BY DEF PoliciesInv
<1> QED
    BY <1>1, PoliciesInitIsGood, PoliciesInductive, PTL DEF PolicySpec

(* With separation of duties on, no active policy was put live by whoever  *)
(* wrote its revision: whatever changes between check and write.           *)
THEOREM NobodyPublishesTheirOwn == PolicySpec => []DutiesAreSeparate
<1>1. PoliciesInv => DutiesAreSeparate
    BY DEF PoliciesInv
<1> QED
    BY <1>1, PoliciesInitIsGood, PoliciesInductive, PTL DEF PolicySpec

(* An answer is from a set that was in force while it was asked for.       *)
THEOREM AnswersAreNeverStale == PolicySpec => []AnswersAreInForce
<1>1. PoliciesInv => AnswersAreInForce
    BY DEF PoliciesInv, AskIsSound, AnswersAreInForce
<1> QED
    BY <1>1, PoliciesInitIsGood, PoliciesInductive, PTL DEF PolicySpec

(* What is enforced changes only by a call that showed it may publish.     *)
THEOREM OnlyPublishersChangeWhatIsEnforced == PolicySpec => EnforcementIsPublished
<1>1. ASSUME PoliciesInv, [PolicyNext]_pvars, NEW c \in Clerk, ActiveSet' # ActiveSet, serving'[c] # serving[c]
      PROVE  serving[c].published
  <2>1. ~(UNCHANGED policy) /\ ~(UNCHANGED serving)
    BY <1>1 DEF ActiveSet
  <2>2. PICK w \in Clerk : Update(w) \/ Activate(w)
    <3>1. ~\E a \in Actor, p \in Policy : Serves(a, p)
      BY ZenonT(30), <2>1 DEF Serves, Create, Disable, Retire, Delete, Directly, ReadForActivate, ReadForUpdate, Reads
    <3>2. ~\E w \in Clerk : GivesUp(w)
      BY <2>1 DEF GivesUp
    <3>3. ~(\E q \in Question : Evaluates(q)) /\ ~Forget
      BY <2>1 DEF Evaluates, Asked, CheckCache, ReadRevision, ReadPolicies, Store, Answer, Forget, Engine
    <3>4. ~Recreated /\ ~\E a \in Actor, holding \in SUBSET AdminKey : Shift(a, holding)
      BY <2>1 DEF Shift, Recreated
    <3> QED
      BY <1>1, <2>1, <3>1, <3>2, <3>3, <3>4 DEF PolicyNext, pvars, Serves
  <2>3. w = c /\ serving[c].pc = "write" /\ serving[c].id \in Policy
    BY <1>1, <2>2 DEF Update, Activate, Commits, PoliciesInv, PolicyTypeOK
  <2>4. CASE Activate(c)
    BY <1>1, <2>3, <2>4 DEF Activate, Commits, PoliciesInv, CallIsPinned, StillKnown, Live
  <2>5. CASE Update(c)
    <3> DEFINE p == serving[c].id
               d == serving[c].definition
    <3>1. StillKnown(c) /\ serving[c].op = "update" /\ p \in Policy
          /\ policy' = [policy EXCEPT ![p] = IF d = Unset THEN [policy[p] EXCEPT !.version = @ + 1]
                 ELSE [policy[p] EXCEPT !.version = @ + 1, !.definition = d, !.author = serving[c].actor]]
      BY <1>1, <2>3, <2>5 DEF Update, Commits, Becomes, PoliciesInv, CallIsPinned, Live
    <3>2. policy[p].status = "active" /\ d # Unset
      <4>1. policy \in [Policy -> PolicyRow] /\ policy[p] \in PolicyRow
        BY <1>1, <3>1 DEF PoliciesInv, PolicyTypeOK
      <4>2. \A o \in Policy : policy'[o].status = policy[o].status
        BY <3>1, <4>1 DEF PolicyRow
      <4>3. ASSUME policy[p].status # "active" \/ d = Unset PROVE FALSE
        <5>1. \A o \in Policy : policy[o].status = "active" => policy'[o].definition = policy[o].definition
          BY <3>1, <4>1, <4>3 DEF PolicyRow
        <5> QED
          BY <1>1, <4>2, <5>1 DEF ActiveSet
      <4> QED
        BY <4>3
    <3> QED
      BY <3>1, <3>2 DEF StillKnown
  <2> QED
    BY <2>2, <2>3, <2>4, <2>5
<1>2. PoliciesInv /\ [PolicyNext]_pvars =>
         [\A c \in Clerk : ActiveSet' # ActiveSet /\ serving'[c] # serving[c] => serving[c].published]_pvars
    BY <1>1
<1> QED
    BY <1>2, PoliciesInitIsGood, PoliciesInductive, PTL DEF PolicySpec, EnforcementIsPublished
=============================================================================
