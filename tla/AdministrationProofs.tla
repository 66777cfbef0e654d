------------------------ MODULE AdministrationProofs ------------------------
(***************************************************************************)
(* Proofs about the two parts of MCAdministration, which share nothing:    *)
(* the tree of teams, and the platform administration with its support     *)
(* grants.                                                                 *)
(***************************************************************************)
EXTENDS TeamTree, PlatformSupport, FiniteSetTheorems, WellFoundedInduction, TLAPS

-----------------------------------------------------------------------------
(***************************************************************************)
(* An active team hangs from an active team or from the top, for every     *)
(* number of teams, transactions, attempts and levels.                     *)
(*                                                                         *)
(* The argument: what a transaction found when it checked the place stays  *)
(* true until it writes, because whoever could spoil it needs the lock of  *)
(* the repository (Checked), and the row it writes over is the one it read *)
(* (SeenIsOld: a version is never given twice).                            *)
(***************************************************************************)
(* Whoever is about to check a place holds the repository's lock.          *)
Locked(p) == tx[p] # Idle /\ tx[p].pc = "check" => rowsLock = p

(* A row that still has the version that was read is that row, unless it   *)
(* was deleted.                                                            *)
SeenIsOld(p) ==
    tx[p] # Idle =>
        LET row == team[tx[p].team]
            seen == tx[p].seen
        IN  /\ seen.version <= row.version
            /\ seen.version = row.version => row.parent = seen.parent /\ row.status \in {seen.status, "gone"}

(* What a transaction that may write now has read or checked.              *)
Checked(p) ==
    tx[p] # Idle /\ tx[p].pc = "write" =>
        /\ tx[p].op = "archive" => rowsLock = p /\ ~HasActiveChild(tx[p].team)
        /\ tx[p].op \in {"create", "move"} /\ tx[p].to # Top =>
              rowsLock = p /\ team[tx[p].to].status = "active"
        /\ tx[p].op = "restore" /\ tx[p].seen.parent # Top =>
              rowsLock = p /\ team[tx[p].seen.parent].status = "active"
        /\ tx[p].op = "edit" => tx[p].seen.status = "active"

(* The inductive invariant.                                                *)
TreeInv ==
    /\ TreeTypeOK
    /\ ActiveUnderActive
    /\ \A p \in Process : Locked(p) /\ SeenIsOld(p) /\ Checked(p)

(* What a transaction in flight looks like.                                *)
LEMMA TxShape ==
    ASSUME TreeTypeOK, NEW p \in Process, tx[p] # Idle
    PROVE  /\ tx[p] \in [pc : {"lock", "read", "relock", "check", "write"},
                         op : {"create", "move", "edit", "archive", "restore"},
                         team : Team, to : Place, seen : Row, tries : Nat]
           /\ tx[p].team \in Team /\ tx[p].seen \in Row /\ team[tx[p].team] \in Row
BY DEF TreeTypeOK, Tx

(* A call that begins keeps the types.                                     *)
LEMMA StartTypes ==
    ASSUME TreeTypeOK, NEW p \in Process, NEW t \in Team, NEW to \in Place,
           NEW op \in {"create", "move", "edit", "archive", "restore"}, NEW pc \in {"lock", "read", "write"},
           Starts(p, op, t, to, pc)
    PROVE  TreeTypeOK'
<1> DEFINE new == [pc |-> pc, op |-> op, team |-> t, to |-> to, seen |-> team[t], tries |-> 0]
<1>1. new \in Tx
    BY DEF Tx, TreeTypeOK
<1>2. new # Idle /\ tx' = [tx EXCEPT ![p] = new]
    BY DEF Starts, Idle
<1>3. tx' \in [Process -> Tx]
    BY <1>1, <1>2 DEF TreeTypeOK
<1>4. \A q \in Process : tx'[q] = Idle => q \notin {treeLock', rowsLock'}
    BY <1>2 DEF TreeTypeOK, Starts
<1> QED
    BY <1>3, <1>4 DEF TreeTypeOK, Starts

(* So does one that ends.                                                  *)
LEMMA EndTypes ==
    ASSUME TreeTypeOK, NEW p \in Process, Ends(p), UNCHANGED changes, team' \in [Team -> Row]
    PROVE  TreeTypeOK'
<1>1. tx' \in [Process -> Tx]
    BY DEF TreeTypeOK, Ends, Tx
<1>2. treeLock' \in Process \cup {Nobody} /\ rowsLock' \in Process \cup {Nobody}
    BY DEF TreeTypeOK, Ends
<1>3. \A q \in Process : tx'[q] = Idle => q \notin {treeLock', rowsLock'}
    BY TreeAssumption DEF TreeTypeOK, Ends
<1> QED
    BY <1>1, <1>2, <1>3 DEF TreeTypeOK

(* And one that goes on, holding the locks it had and perhaps another.     *)
LEMMA GoOnTypes ==
    ASSUME TreeTypeOK, NEW p \in Process, tx[p] # Idle,
           NEW pc \in {"read", "relock", "check", "write"}, NEW seen \in Row, NEW tries \in Nat,
           tx' = [tx EXCEPT ![p] = [tx[p] EXCEPT !.pc = pc, !.seen = seen, !.tries = tries]],
           UNCHANGED <<team, changes>>, treeLock' \in {treeLock, p}, rowsLock' \in {rowsLock, p}
    PROVE  TreeTypeOK' /\ tx'[p] # Idle
<1> DEFINE new == [tx[p] EXCEPT !.pc = pc, !.seen = seen, !.tries = tries]
<1>1. new \in Tx \ {Idle}
  <2>1. new \in [pc : {"lock", "read", "relock", "check", "write"},
                 op : {"create", "move", "edit", "archive", "restore"},
                 team : Team, to : Place, seen : Row, tries : Nat]
    BY TxShape
  <2>2. new.pc # "idle"
    BY <2>1, TxShape
  <2> QED
    BY <2>1, <2>2 DEF Tx, Idle
<1>2. tx' \in [Process -> Tx] /\ tx'[p] # Idle
    BY <1>1 DEF TreeTypeOK
<1>3. \A q \in Process : tx'[q] = Idle => q \notin {treeLock', rowsLock'}
    BY <1>1 DEF TreeTypeOK
<1> QED
    BY <1>2, <1>3 DEF TreeTypeOK

(* A step of one transaction that writes nothing is judged by what it      *)
(* leaves of that transaction: the others see the same rows and locks.     *)
LEMMA StepOfOne ==
    ASSUME TreeInv, NEW p \in Process, TreeTypeOK', UNCHANGED team,
           \A q \in Process \ {p} : tx'[q] = tx[q] /\ (rowsLock = q => rowsLock' = q),
           Locked(p)', SeenIsOld(p)', Checked(p)'
    PROVE  TreeInv'
<1>1. ActiveUnderActive'
    BY DEF TreeInv, ActiveUnderActive
<1>2. ASSUME NEW q \in Process \ {p} PROVE Locked(q)' /\ SeenIsOld(q)' /\ Checked(q)'
  <2>1. tx'[q] = tx[q] /\ (rowsLock = q => rowsLock' = q) /\ Locked(q) /\ SeenIsOld(q) /\ Checked(q)
    BY DEF TreeInv
  <2>2. Locked(q)'
    BY <2>1 DEF Locked
  <2>3. SeenIsOld(q)'
    BY <2>1 DEF SeenIsOld
  <2>4. Checked(q)'
    BY <2>1 DEF Checked, HasActiveChild
  <2> QED
    BY <2>2, <2>3, <2>4
<1> QED
    BY <1>1, <1>2 DEF TreeInv

(* A call that begins has read one row and checked nothing.                *)
LEMMA StartStep ==
    ASSUME TreeInv, NEW p \in Process, NEW t \in Team, NEW to \in Place,
           NEW op \in {"create", "move", "edit", "archive", "restore"}, NEW pc \in {"lock", "read", "write"},
           Starts(p, op, t, to, pc),
           pc = "write" => op = "create" /\ to = Top
    PROVE  TreeInv'
<1> DEFINE new == [pc |-> pc, op |-> op, team |-> t, to |-> to, seen |-> team[t], tries |-> 0]
<1>1. TreeTypeOK'
    BY StartTypes DEF TreeInv
<1>2. tx' = [tx EXCEPT ![p] = new] /\ tx'[p] = new /\ UNCHANGED <<team, rowsLock>>
    BY DEF Starts, TreeInv, TreeTypeOK
<1>3. Locked(p)'
    BY <1>2 DEF Locked
<1>4. SeenIsOld(p)'
  <2>1. team[t] \in Row
    BY DEF TreeInv, TreeTypeOK
  <2> QED
    BY <1>2, <2>1 DEF SeenIsOld, Row
<1>5. Checked(p)'
    BY <1>2 DEF Checked
<1>6. \A q \in Process \ {p} : tx'[q] = tx[q] /\ (rowsLock = q => rowsLock' = q)
    BY <1>2 DEF TreeInv, TreeTypeOK
<1> QED
    BY <1>1, <1>2, <1>3, <1>4, <1>5, <1>6, StepOfOne

(* A call that ends without writing leaves nothing to be judged.           *)
LEMMA EndStep ==
    ASSUME TreeInv, NEW p \in Process, Ends(p), UNCHANGED <<team, changes>>
    PROVE  TreeInv'
<1>1. TreeTypeOK'
    BY EndTypes DEF TreeInv, TreeTypeOK
<1>2. tx'[p] = Idle
    BY DEF Ends, TreeInv, TreeTypeOK
<1>3. Locked(p)' /\ SeenIsOld(p)' /\ Checked(p)'
    BY <1>2 DEF Locked, SeenIsOld, Checked
<1>4. \A q \in Process \ {p} : tx'[q] = tx[q] /\ (rowsLock = q => rowsLock' = q)
    BY DEF Ends, TreeInv, TreeTypeOK
<1> QED
    BY <1>1, <1>3, <1>4, StepOfOne

(* Waiting is over: a lock is taken, and nothing was read anew.            *)
LEMMA LockStep ==
    ASSUME TreeInv, NEW p \in Process, TakeLock(p) \/ LockTree(p)
    PROVE  TreeInv'
<1> DEFINE pc == tx'[p].pc
<1>1. tx[p] # Idle /\ tx[p].seen \in Row /\ tx[p].tries \in Nat
    BY TxShape DEF TreeInv, TakeLock, LockTree, At
<1>2. PICK to \in {"read", "relock", "check"} : tx' = [tx EXCEPT ![p].pc = to] /\ (to = "check" => LockTree(p))
    BY DEF TakeLock, LockTree, GoTo
<1>3. tx' = [tx EXCEPT ![p] = [tx[p] EXCEPT !.pc = to, !.seen = tx[p].seen, !.tries = tx[p].tries]]
    BY <1>1, <1>2, TxShape DEF TreeInv
<1>4. TreeTypeOK' /\ tx'[p] # Idle
    BY <1>1, <1>3, GoOnTypes DEF TreeInv, TakeLock, LockTree
<1>5. tx'[p] = [tx[p] EXCEPT !.pc = to]
    BY <1>2 DEF TreeInv, TreeTypeOK
<1>6. tx'[p].pc = to /\ tx'[p].team = tx[p].team /\ tx'[p].seen = tx[p].seen /\ UNCHANGED team
    BY <1>1, <1>5, TxShape DEF TreeInv, TakeLock, LockTree
<1>7. Locked(p)'
    BY <1>2, <1>6 DEF Locked, LockTree
<1>8. SeenIsOld(p)'
    BY <1>1, <1>6 DEF SeenIsOld, TreeInv
<1>9. Checked(p)'
    BY <1>6 DEF Checked
<1>10. \A q \in Process \ {p} : tx'[q] = tx[q] /\ (rowsLock = q => rowsLock' = q)
    BY <1>2, TreeAssumption DEF TreeInv, TreeTypeOK, TakeLock, LockTree, RowsLockFree
<1> QED
    BY <1>4, <1>6, <1>7, <1>8, <1>9, <1>10, StepOfOne

(* Reading the row: only a change that needs no place may write at once,   *)
(* and then what it read is still there.                                   *)
LEMMA ReadStep ==
    ASSUME TreeInv, NEW p \in Process, ReadRow(p)
    PROVE  TreeInv'
<1>1. CASE NothingToDo(p)
    BY <1>1, EndStep DEF ReadRow
<1>2. CASE ~NothingToDo(p)
  <2> DEFINE row == team[tx[p].team]
             pc == IF NoPlaceToCheck(p) THEN "write" ELSE "relock"
  <2>1. tx[p] # Idle /\ row \in Row /\ tx[p].tries \in Nat /\ pc \in {"read", "relock", "check", "write"}
    BY TxShape DEF TreeInv, ReadRow, At
  <2>2. tx' = [tx EXCEPT ![p] = [tx[p] EXCEPT !.pc = pc, !.seen = row]] /\ UNCHANGED <<team, changes, treeLock, rowsLock>>
    BY <1>2 DEF ReadRow
  <2>3. tx' = [tx EXCEPT ![p] = [tx[p] EXCEPT !.pc = pc, !.seen = row, !.tries = tx[p].tries]]
    BY <2>1, <2>2, TxShape DEF TreeInv
  <2>4. TreeTypeOK' /\ tx'[p] # Idle
    BY <2>1, <2>2, <2>3, GoOnTypes DEF TreeInv
  <2>5. tx'[p] = [tx[p] EXCEPT !.pc = pc, !.seen = row]
    BY <2>2 DEF TreeInv, TreeTypeOK
  <2>6. /\ tx'[p].pc = pc /\ tx'[p].team = tx[p].team /\ tx'[p].seen = row
        /\ tx'[p].op = tx[p].op /\ tx'[p].to = tx[p].to
    BY <2>1, <2>5, TxShape DEF TreeInv
  <2>7. Locked(p)'
    BY <2>6 DEF Locked
  <2>8. SeenIsOld(p)'
    BY <2>1, <2>2, <2>6 DEF SeenIsOld, Row
  <2>9. Checked(p)'
    <3>1. pc = "write" => NoPlaceToCheck(p)
      OBVIOUS
    <3>2. tx[p].op = "edit" => row.status = "active"
      BY <1>2, <2>1 DEF NothingToDo, IsTeam
    <3> QED
      BY <2>2, <2>6, <3>1, <3>2 DEF Checked, NoPlaceToCheck
  <2>10. \A q \in Process \ {p} : tx'[q] = tx[q] /\ (rowsLock = q => rowsLock' = q)
    BY <2>2 DEF TreeInv, TreeTypeOK
  <2> QED
    BY <2>2, <2>4, <2>7, <2>8, <2>9, <2>10, StepOfOne
<1> QED
    BY <1>1, <1>2

(* The place is checked with the lock of the repository in hand.           *)
LEMMA CheckStep ==
    ASSUME TreeInv, NEW p \in Process, Check(p)
    PROVE  TreeInv'
<1>1. CASE ~MayProceed(p)
    BY <1>1, EndStep DEF Check
<1>2. CASE MayProceed(p)
  <2>1. tx[p] # Idle /\ tx[p].seen \in Row /\ tx[p].tries \in Nat
    BY TxShape DEF TreeInv, Check, At
  <2>2. tx' = [tx EXCEPT ![p].pc = "write"] /\ UNCHANGED <<team, changes, treeLock, rowsLock>>
    BY <1>2 DEF Check, GoTo
  <2>3. tx' = [tx EXCEPT ![p] = [tx[p] EXCEPT !.pc = "write", !.seen = tx[p].seen, !.tries = tx[p].tries]]
    BY <2>1, <2>2, TxShape DEF TreeInv
  <2>4. TreeTypeOK' /\ tx'[p] # Idle
    BY <2>1, <2>2, <2>3, GoOnTypes DEF TreeInv
  <2>5. tx'[p] = [tx[p] EXCEPT !.pc = "write"]
    BY <2>2 DEF TreeInv, TreeTypeOK
  <2>6. /\ tx'[p].pc = "write" /\ tx'[p].team = tx[p].team /\ tx'[p].seen = tx[p].seen
        /\ tx'[p].op = tx[p].op /\ tx'[p].to = tx[p].to
    BY <2>1, <2>5, TxShape DEF TreeInv
  <2>7. Locked(p)'
    BY <2>6 DEF Locked
  <2>8. SeenIsOld(p)'
    BY <2>1, <2>2, <2>6 DEF SeenIsOld, TreeInv
  <2>9. Checked(p)'
    <3>1. rowsLock = p /\ rowsLock' = p
      BY <2>1, <2>2 DEF TreeInv, Locked, Check, At
    <3> QED
      BY <1>2, <2>2, <2>6, <3>1 DEF Checked, MayProceed, MayBePlaced, HasActiveChild
  <2>10. \A q \in Process \ {p} : tx'[q] = tx[q] /\ (rowsLock = q => rowsLock' = q)
    BY <2>2 DEF TreeInv, TreeTypeOK
  <2> QED
    BY <2>2, <2>4, <2>7, <2>8, <2>9, <2>10, StepOfOne
<1> QED
    BY <1>1, <1>2

(* A write that found somebody in between starts over or gives up.         *)
LEMMA MissedStep ==
    ASSUME TreeInv, NEW p \in Process, WriteMissed(p)
    PROVE  TreeInv'
<1>1. CASE Ends(p)
    BY <1>1, EndStep DEF WriteMissed
<1>2. CASE ~Ends(p)
  <2>1. tx[p] # Idle /\ tx[p].seen \in Row /\ tx[p].tries + 1 \in Nat
    BY TxShape DEF TreeInv, WriteMissed, At
  <2>2. /\ tx' = [tx EXCEPT ![p] = [tx[p] EXCEPT !.pc = "read", !.tries = tx[p].tries + 1]]
        /\ UNCHANGED <<team, changes, treeLock, rowsLock>>
    BY <1>2 DEF WriteMissed
  <2>3. tx' = [tx EXCEPT ![p] = [tx[p] EXCEPT !.pc = "read", !.seen = tx[p].seen, !.tries = tx[p].tries + 1]]
    BY <2>1, <2>2, TxShape DEF TreeInv
  <2>4. TreeTypeOK' /\ tx'[p] # Idle
    BY <2>1, <2>2, <2>3, GoOnTypes DEF TreeInv
  <2>5. tx'[p] = [tx[p] EXCEPT !.pc = "read", !.tries = tx[p].tries + 1]
    BY <2>2 DEF TreeInv, TreeTypeOK
  <2>6. tx'[p].pc = "read" /\ tx'[p].team = tx[p].team /\ tx'[p].seen = tx[p].seen
    BY <2>1, <2>5, TxShape DEF TreeInv
  <2>7. Locked(p)' /\ Checked(p)'
    BY <2>6 DEF Locked, Checked
  <2>8. SeenIsOld(p)'
    BY <2>1, <2>2, <2>6 DEF SeenIsOld, TreeInv
  <2>9. \A q \in Process \ {p} : tx'[q] = tx[q] /\ (rowsLock = q => rowsLock' = q)
    BY <2>2 DEF TreeInv, TreeTypeOK
  <2> QED
    BY <2>2, <2>4, <2>7, <2>8, <2>9, StepOfOne
<1> QED
    BY <1>1, <1>2

(* The write: over the row that was read, in a place that is still good.   *)
LEMMA WriteStep ==
    ASSUME TreeInv, NEW p \in Process, Write(p)
    PROVE  TreeInv'
<1> DEFINE t == tx[p].team
           seen == tx[p].seen
           new == Written(p)
<1>1. /\ tx[p] # Idle /\ tx[p].pc = "write" /\ t \in Team /\ seen \in Row /\ team[t] \in Row
      /\ tx[p].op \in {"create", "move", "edit", "archive", "restore"} /\ tx[p].to \in Place
    BY TxShape DEF TreeInv, Write, At
<1>2. team' = [team EXCEPT ![t] = new] /\ Ends(p) /\ UNCHANGED changes
    BY DEF Write
<1>3. team[t].status = seen.status /\ team[t].version = seen.version /\ team[t].parent = seen.parent
    BY <1>1 DEF Write, Unchanged, TreeInv, SeenIsOld
<1>4. /\ new \in Row /\ new.version = seen.version + 1
      /\ new.status = IF tx[p].op = "archive" THEN "archived" ELSE "active"
      /\ new.parent = IF tx[p].op \in {"create", "move"} THEN tx[p].to ELSE seen.parent
    BY <1>1 DEF Written, Row
<1>5. team'[t] = new /\ \A s \in Team \ {t} : team'[s] = team[s]
    BY <1>1, <1>2 DEF TreeInv, TreeTypeOK
<1> HIDE DEF new
<1>6. TreeTypeOK'
  <2>1. team' \in [Team -> Row]
    BY <1>1, <1>2, <1>4 DEF TreeInv, TreeTypeOK
  <2> QED
    BY <1>2, <2>1, EndTypes DEF TreeInv
<1>7. Checked(p) /\ ActiveUnderActive /\ Top \notin Team
    BY TreeAssumption DEF TreeInv
<1>8. ActiveUnderActive'
  <2> SUFFICES ASSUME NEW s \in Team, team'[s].status = "active"
               PROVE  team'[s].parent = Top \/ team'[team'[s].parent].status = "active"
    BY DEF ActiveUnderActive
  <2>1. CASE s = t
    <3>1. new.parent = Top \/ team[new.parent].status = "active"
      BY <1>1, <1>3, <1>4, <1>5, <1>7, <2>1 DEF Checked, ActiveUnderActive
    <3>2. new.parent = Top \/ new.parent \in Team
      BY <1>4 DEF Row, Place
    <3> QED
      BY <1>5, <2>1, <3>1, <3>2
  <2>2. CASE s # t
    <3>1. team[s].status = "active" /\ team'[s].parent = team[s].parent /\ team[s].parent \in Place
      BY <1>5, <2>2 DEF TreeInv, TreeTypeOK, Row
    <3>2. CASE team[s].parent = t
      <4>1. HasActiveChild(t)
        BY <3>1, <3>2 DEF HasActiveChild
      <4> QED
        BY <1>1, <1>4, <1>5, <1>7, <3>1, <3>2, <4>1 DEF Checked
    <3>3. CASE team[s].parent # t
      BY <1>5, <1>7, <3>1, <3>3 DEF ActiveUnderActive, Place
    <3> QED
      BY <3>2, <3>3
  <2> QED
    BY <2>1, <2>2
<1>9. ASSUME NEW q \in Process PROVE Locked(q)' /\ SeenIsOld(q)' /\ Checked(q)'
  <2>1. CASE q = p
    <3>1. tx'[q] = Idle
      BY <1>2, <2>1 DEF Ends, TreeInv, TreeTypeOK
    <3> QED
      BY <3>1 DEF Locked, SeenIsOld, Checked
  <2>2. CASE q # p
    <3>1. tx'[q] = tx[q] /\ (rowsLock = q => rowsLock' = q) /\ Locked(q) /\ SeenIsOld(q) /\ Checked(q)
      BY <1>2, <2>2 DEF Ends, TreeInv, TreeTypeOK
    <3>2. Locked(q)'
      BY <3>1 DEF Locked
    <3>3. SeenIsOld(q)'
      <4>1. CASE tx[q] # Idle
        <5>1. tx[q].team \in Team /\ tx[q].seen \in Row
          BY <4>1, TxShape DEF TreeInv
        <5>2. CASE tx[q].team = t
          <6>1. tx[q].seen.version <= team[t].version
            BY <3>1, <4>1, <5>2 DEF SeenIsOld
          <6>2. tx[q].seen.version < team'[t].version
            BY <1>1, <1>3, <1>4, <1>5, <5>1, <6>1 DEF Row
          <6>3. tx[q].seen.version \in Nat /\ team'[t].version \in Nat
            BY <1>4, <1>5, <5>1 DEF Row
          <6> QED
            BY <3>1, <5>2, <6>2, <6>3 DEF SeenIsOld
        <5>3. CASE tx[q].team # t
          BY <1>5, <3>1, <5>1, <5>3 DEF SeenIsOld
        <5> QED
          BY <5>2, <5>3
      <4> QED
        BY <3>1, <4>1 DEF SeenIsOld
    <3>4. Checked(q)'
      <4> SUFFICES ASSUME tx[q] # Idle, tx[q].pc = "write" PROVE Checked(q)'
        BY <3>1 DEF Checked
      <4>1. tx[q].team \in Team /\ tx[q].to \in Place /\ tx[q].seen.parent \in Place
        BY TxShape DEF TreeInv, Row
      <4>2. rowsLock = q => /\ tx[p].op # "archive"
                            /\ new.status = "active"
                            /\ tx[p].op \in {"create", "move", "restore"} => new.parent = Top
                            /\ tx[p].op = "edit" => team[t].status = "active" /\ new.parent = team[t].parent
        BY <1>1, <1>3, <1>4, <1>7, <2>2 DEF Checked
      <4>3. rowsLock = q /\ ~HasActiveChild(tx[q].team) => ~HasActiveChild(tx[q].team)'
        BY <1>1, <1>5, <1>7, <3>1, <4>1, <4>2 DEF HasActiveChild
      <4>4. \A s \in Team : rowsLock = q /\ team[s].status = "active" => team'[s].status = "active"
        BY <1>5, <4>2
      <4> QED
        BY <3>1, <4>1, <4>3, <4>4 DEF Checked, Place
    <3> QED
      BY <3>2, <3>3, <3>4
  <2> QED
    BY <2>1, <2>2
<1> QED
    BY <1>6, <1>8, <1>9 DEF TreeInv

(* A team that is deleted was archived, so nobody active hangs from it and *)
(* nobody is about to put something under it.                              *)
LEMMA DeleteStep ==
    ASSUME TreeInv, NEW t \in Team, DeleteTeam(t)
    PROVE  TreeInv'
<1>1. /\ team' = [team EXCEPT ![t].status = "gone"] /\ team[t].status = "archived"
      /\ UNCHANGED <<treeLock, rowsLock, tx, changes>>
    BY DEF DeleteTeam
<1>2. \A s \in Team : /\ team[s] \in Row /\ team'[s].parent = team[s].parent
                      /\ team'[s].version = team[s].version
                      /\ team'[s].status = IF s = t THEN "gone" ELSE team[s].status
    BY <1>1 DEF TreeInv, TreeTypeOK, Row
<1>3. TreeTypeOK'
    BY <1>1 DEF TreeInv, TreeTypeOK, Row
<1>4. ActiveUnderActive'
  <2> SUFFICES ASSUME NEW s \in Team, team'[s].status = "active"
               PROVE  team'[s].parent = Top \/ team'[team'[s].parent].status = "active"
    BY DEF ActiveUnderActive
  <2>1. team[s].status = "active" /\ team'[s].parent = team[s].parent
    BY <1>2
  <2>2. team[s].parent = Top \/ (team[s].parent \in Team /\ team[team[s].parent].status = "active")
    BY <1>2, <2>1 DEF TreeInv, ActiveUnderActive, Row, Place
  <2> QED
    BY <1>1, <1>2, <2>1, <2>2
<1>5. ASSUME NEW q \in Process PROVE Locked(q)' /\ SeenIsOld(q)' /\ Checked(q)'
  <2>1. Locked(q) /\ SeenIsOld(q) /\ Checked(q) /\ tx'[q] = tx[q] /\ rowsLock' = rowsLock
    BY <1>1 DEF TreeInv
  <2>2. tx[q] # Idle => tx[q].team \in Team /\ tx[q].to \in Place /\ tx[q].seen.parent \in Place
    BY TxShape DEF TreeInv, Row
  <2>3. \A s \in Team : team[s].status = "active" => team'[s].status = "active"
    BY <1>1, <1>2
  <2>4. \A s \in Team : HasActiveChild(s)' => HasActiveChild(s)
    BY <1>2 DEF HasActiveChild
  <2>5. SeenIsOld(q)'
    BY <1>2, <2>1, <2>2 DEF SeenIsOld
  <2>6. Checked(q)'
    BY <2>1, <2>2, <2>3, <2>4 DEF Checked, Place
  <2> QED
    BY <2>1, <2>5, <2>6 DEF Locked
<1> QED
    BY <1>3, <1>4, <1>5 DEF TreeInv

(* The planted tree is good, and nobody is under way.                      *)
LEMMA InitIsGood == TreeInit => TreeInv
<1> SUFFICES ASSUME TreeInit PROVE TreeInv
    OBVIOUS
<1>1. PICK tree \in Planted :
        team = [t \in Team |-> IF t \in DOMAIN tree
                              THEN [status |-> "active", parent |-> tree[t], version |-> 1]
                              ELSE [status |-> "none", parent |-> Top, version |-> 0]]
    BY DEF TreeInit
<1>2. DOMAIN tree \subseteq Team /\ \A t \in DOMAIN tree : tree[t] \in DOMAIN tree \cup {Top}
    BY TreeAssumption
<1>3. \A p \in Process : tx[p] = Idle
    BY DEF TreeInit
<1>4. \A t \in Team : team[t] \in Row
    BY <1>1, <1>2 DEF Row, Place
<1>5. TreeTypeOK
    BY <1>1, <1>4, TreeAssumption DEF TreeTypeOK, TreeInit, Tx
<1>6. ActiveUnderActive
    BY <1>1, <1>2 DEF ActiveUnderActive
<1> QED
    BY <1>3, <1>5, <1>6 DEF TreeInv, Locked, SeenIsOld, Checked

(* Every action keeps the invariant.                                       *)
THEOREM TreeInductive == TreeInv /\ [TreeNext]_treeVars => TreeInv'
<1> SUFFICES ASSUME TreeInv, [TreeNext]_treeVars PROVE TreeInv'
    OBVIOUS
<1>1. ASSUME NEW p \in Process, NEW t \in Team, NEW to \in Place, StartCreate(p, t, to) PROVE TreeInv'
    BY <1>1, StartStep DEF StartCreate
<1>2. ASSUME NEW p \in Process, NEW t \in Team, NEW to \in Place, StartMove(p, t, to) PROVE TreeInv'
    BY <1>2, StartStep DEF StartMove
<1>3. ASSUME NEW p \in Process, NEW t \in Team, StartEdit(p, t) PROVE TreeInv'
  <2>1. team[t].parent \in Place
    BY DEF TreeInv, TreeTypeOK, Row
  <2> QED
    BY <1>3, <2>1, StartStep DEF StartEdit
<1>4. ASSUME NEW p \in Process, NEW t \in Team, StartArchive(p, t) \/ StartRestore(p, t) PROVE TreeInv'
    BY <1>4, StartStep DEF StartArchive, StartRestore, Place
<1>5. ASSUME NEW p \in Process, Steps(p) PROVE TreeInv'
    BY <1>5, LockStep, ReadStep, CheckStep, WriteStep, MissedStep DEF Steps
<1>6. ASSUME NEW p \in Process, GivesUp(p) PROVE TreeInv'
    BY <1>6, EndStep DEF GivesUp
<1>7. ASSUME NEW t \in Team, DeleteTeam(t) PROVE TreeInv'
    BY <1>7, DeleteStep
<1>8. CASE UNCHANGED treeVars
  <2>1. TreeTypeOK' /\ ActiveUnderActive'
    BY <1>8 DEF treeVars, TreeInv, TreeTypeOK, ActiveUnderActive
  <2>2. ASSUME NEW q \in Process PROVE Locked(q)' /\ SeenIsOld(q)' /\ Checked(q)'
    BY <1>8 DEF treeVars, TreeInv, Locked, SeenIsOld, Checked, HasActiveChild
  <2> QED
    BY <2>1, <2>2 DEF TreeInv
<1> QED
    BY <1>1, <1>2, <1>3, <1>4, <1>5, <1>6, <1>7, <1>8 DEF TreeNext

(* Types, and no lock without a transaction: whatever ends a call, its     *)
(* locks go with it.                                                       *)
THEOREM TreeTypeCorrect == TreeSpec => []TreeTypeOK
<1>1. TreeInv => TreeTypeOK
    BY DEF TreeInv
<1> QED
    BY <1>1, InitIsGood, TreeInductive, PTL DEF TreeSpec

(* However creations, moves, archives, restores and deletions overlap, an  *)
(* active team hangs from an active team or from the top.                  *)
THEOREM NoActiveTeamUnderAnArchivedOne == TreeSpec => []ActiveUnderActive
<1>1. TreeInv => ActiveUnderActive
    BY DEF TreeInv
<1> QED
    BY <1>1, InitIsGood, TreeInductive, PTL DEF TreeSpec

-----------------------------------------------------------------------------
(***************************************************************************)
(* The tree stays a tree.                                                  *)
(*                                                                         *)
(* The argument: `Above` is a least closed set, so what is above a team    *)
(* after a change is bounded by naming a closed set around it.  A team     *)
(* that goes to the top takes nothing but what was above it from those     *)
(* below, and such a change needs no lock; so a place that was found good  *)
(* (Placed) stays good until the write (PlaceHolds).                       *)
(***************************************************************************)
Trees == [Team -> Place]

(* A set of teams with all their parents.                                  *)
Closed(parent, S) == S \subseteq Team /\ \A x \in S : parent[x] \in S \/ parent[x] = Top

LEMMA AboveLeast ==
    ASSUME NEW parent \in Trees, NEW t \in Team
    PROVE  /\ t \in Above(parent, t)
           /\ Closed(parent, Above(parent, t))
           /\ \A S : Closed(parent, S) /\ t \in S => Above(parent, t) \subseteq S
<1> DEFINE closed == {S \in SUBSET Team : t \in S /\ \A x \in S : parent[x] \in S \/ parent[x] = Top}
<1>1. Above(parent, t) = {s \in Team : \A S \in closed : s \in S}
  BY DEF Above
<1>2. t \in Above(parent, t) /\ Above(parent, t) \subseteq Team
  BY <1>1
<1>3. ASSUME NEW x \in Above(parent, t), parent[x] # Top PROVE parent[x] \in Above(parent, t)
  <2>1. parent[x] \in Team
    BY <1>2, <1>3 DEF Trees, Place
  <2>2. \A S \in closed : parent[x] \in S
    BY <1>1, <1>3
  <2> QED
    BY <1>1, <2>1, <2>2
<1>4. ASSUME NEW S, Closed(parent, S), t \in S PROVE Above(parent, t) \subseteq S
  <2>1. S \in closed
    BY <1>4 DEF Closed
  <2> QED
    BY <1>1, <2>1
<1> QED
  BY <1>2, <1>3, <1>4 DEF Closed

(* What is above something above a team is above the team.                 *)
LEMMA AboveTransitive ==
    ASSUME NEW parent \in Trees, NEW t \in Team, NEW s \in Above(parent, t)
    PROVE  s \in Team /\ Above(parent, s) \subseteq Above(parent, t)
BY AboveLeast DEF Closed

(* A team and what is above its parent.                                    *)
LEMMA AboveParent ==
    ASSUME NEW parent \in Trees, NEW t \in Team
    PROVE  /\ parent[t] = Top => Above(parent, t) = {t}
           /\ parent[t] # Top => /\ parent[t] \in Team
                                 /\ Above(parent, t) = {t} \cup Above(parent, parent[t])
<1>1. t \in Above(parent, t) /\ Closed(parent, Above(parent, t))
  BY AboveLeast
<1>2. CASE parent[t] = Top
  <2>1. Closed(parent, {t})
    BY <1>2 DEF Closed
  <2> QED
    BY <1>1, <1>2, <2>1, AboveLeast
<1>3. CASE parent[t] # Top
  <2>1. parent[t] \in Team /\ parent[t] \in Above(parent, t)
    BY <1>1, <1>3 DEF Closed, Trees, Place
  <2>2. Above(parent, parent[t]) \subseteq Above(parent, t)
    BY <2>1, AboveTransitive
  <2>3. parent[t] \in Above(parent, parent[t]) /\ Closed(parent, Above(parent, parent[t]))
    BY <2>1, AboveLeast
  <2>4. Closed(parent, {t} \cup Above(parent, parent[t]))
    BY <2>3 DEF Closed
  <2> QED
    BY <1>1, <1>3, <2>1, <2>2, <2>4, AboveLeast
<1> QED
  BY <1>2, <1>3

(* Of two teams above a third, one is above the other.                     *)
LEMMA AboveIsAChain ==
    ASSUME NEW parent \in Trees, NEW s \in Team, NEW t \in Above(parent, s), NEW x \in Above(parent, s)
    PROVE  x \in Above(parent, t) \/ t \in Above(parent, x)
<1> DEFINE C == {y \in Team : t \in Above(parent, y)} \cup Above(parent, t)
<1>1. t \in Team /\ x \in Team
  BY AboveTransitive
<1>2. t \in Above(parent, t) /\ Closed(parent, Above(parent, t))
  BY <1>1, AboveLeast
<1>3. Closed(parent, C)
  <2>1. C \subseteq Team
    BY <1>2 DEF Closed
  <2>2. ASSUME NEW y \in Team, t \in Above(parent, y), parent[y] # Top PROVE parent[y] \in C
    <3>1. CASE y = t
      BY <1>2, <2>2, <3>1 DEF Closed
    <3>2. CASE y # t
      BY <2>2, <3>2, AboveParent
    <3> QED
      BY <3>1, <3>2
  <2> QED
    BY <1>2, <2>1, <2>2 DEF Closed
<1>4. Above(parent, s) \subseteq C
  BY <1>3, AboveLeast
<1> QED
  BY <1>4

(* In a tree no two teams are above each other.                            *)
Acyclic(parent, T) == \A t \in T : parent[t] # Top => t \notin Above(parent, parent[t])

LEMMA NoLoop ==
    ASSUME NEW parent \in Trees, NEW T, Closed(parent, T), Acyclic(parent, T),
           NEW x \in T, NEW y \in Above(parent, x), x \in Above(parent, y)
    PROVE  x = y
<1> SUFFICES ASSUME x # y PROVE FALSE
  OBVIOUS
<1>1. x \in Team
  BY DEF Closed
<1>2. parent[x] \in Team /\ parent[x] # Top /\ y \in Above(parent, parent[x])
  BY <1>1, AboveParent
<1>3. x \in Above(parent, parent[x])
  BY <1>2, AboveTransitive
<1> QED
  BY <1>2, <1>3 DEF Acyclic

-----------------------------------------------------------------------------
(* A team moves.                                                           *)
(* Those it is not above see the same.                                     *)
LEMMA MoveElsewhere ==
    ASSUME NEW parent \in Trees, NEW after \in Trees, NEW t \in Team,
           \A x \in Team : x # t => after[x] = parent[x],
           NEW s \in Team, t \notin Above(parent, s)
    PROVE  Above(after, s) = Above(parent, s)
<1>1. after \in Trees /\ \A x \in Team : x # t => after[x] = parent[x]
  OBVIOUS
<1>2. /\ s \in Above(parent, s) /\ Closed(parent, Above(parent, s))
      /\ s \in Above(after, s) /\ Closed(after, Above(after, s))
  BY <1>1, AboveLeast
<1>3. Closed(after, Above(parent, s))
  BY <1>1, <1>2 DEF Closed
<1>4. Above(after, s) \subseteq Above(parent, s)
  BY <1>1, <1>2, <1>3, AboveLeast
<1>5. Closed(parent, Above(after, s))
  BY <1>1, <1>2, <1>4 DEF Closed
<1>6. Above(parent, s) \subseteq Above(after, s)
  BY <1>2, <1>5, AboveLeast
<1> QED
  BY <1>4, <1>6

(* When it goes to the top, nobody gets anybody new above.                 *)
LEMMA MoveToTop ==
    ASSUME NEW parent \in Trees, NEW t \in Team, NEW after, after = [parent EXCEPT ![t] = Top], NEW s \in Team
    PROVE  Above(after, s) \subseteq Above(parent, s)
<1>1. after \in Trees /\ after[t] = Top /\ \A x \in Team : x # t => after[x] = parent[x]
  BY DEF Trees, Place
<1>2. s \in Above(parent, s) /\ Closed(parent, Above(parent, s))
  BY AboveLeast
<1>3. Closed(after, Above(parent, s))
  BY <1>1, <1>2 DEF Closed
<1> QED
  BY <1>1, <1>2, <1>3, AboveLeast

(* When it goes under another team, those below have that team and what is *)
(* above it instead of what was above the team that went.                  *)
LEMMA MoveUnder ==
    ASSUME NEW parent \in Trees, NEW t \in Team, NEW p \in Team, t \notin Above(parent, p),
           NEW after, after = [parent EXCEPT ![t] = p],
           NEW T, Closed(parent, T), Acyclic(parent, T), NEW s \in T, t \in Above(parent, s), s # t
    PROVE  Above(after, s) \subseteq (Above(parent, s) \ Above(parent, t)) \cup {t} \cup Above(parent, p)
<1> DEFINE S == (Above(parent, s) \ Above(parent, t)) \cup {t} \cup Above(parent, p)
<1>1. p # Top /\ p \in Place /\ s \in Team
  BY TreeAssumption DEF Place, Closed
<1>2. after \in Trees /\ after[t] = p /\ \A x \in Team : x # t => after[x] = parent[x]
  BY <1>1 DEF Trees
<1>3. /\ Closed(parent, Above(parent, s)) /\ s \in Above(parent, s)
      /\ Closed(parent, Above(parent, t)) /\ t \in Above(parent, t)
      /\ Closed(parent, Above(parent, p)) /\ p \in Above(parent, p)
  BY <1>1, AboveLeast
<1>4. ASSUME NEW x \in Above(parent, s) \ Above(parent, t) PROVE after[x] \in S \/ after[x] = Top
  <2>1. x \in Team /\ x # t /\ t \in Above(parent, x) /\ x \in T
    <3>1. Above(parent, s) \subseteq T
      BY <1>1, AboveLeast
    <3> QED
      BY <1>1, <1>3, <3>1, AboveIsAChain DEF Closed
  <2>2. parent[x] \in Team /\ parent[x] \in Above(parent, s) /\ t \in Above(parent, parent[x])
    BY <1>3, <2>1, AboveParent, TreeAssumption DEF Closed
  <2>3. CASE parent[x] \in Above(parent, t)
    <3>1. t \in T
      BY <2>1, AboveLeast
    <3>2. parent[x] = t
      BY <2>2, <2>3, <3>1, NoLoop
    <3> QED
      BY <1>2, <2>1, <3>2
  <2>4. CASE parent[x] \notin Above(parent, t)
    BY <1>2, <2>1, <2>2, <2>4
  <2> QED
    BY <2>3, <2>4
<1>5. ASSUME NEW x \in Above(parent, p) PROVE after[x] \in S \/ after[x] = Top
  BY <1>2, <1>3, <1>5 DEF Closed
<1>6. Closed(after, S)
  <2>1. S \subseteq Team
    BY <1>3 DEF Closed
  <2>2. after[t] \in S
    BY <1>2, <1>3
  <2> QED
    BY <1>4, <1>5, <2>1, <2>2 DEF Closed
<1>7. s \in S
  BY <1>1, <1>3, NoLoop
<1> QED
  BY <1>1, <1>2, <1>6, <1>7, AboveLeast

-----------------------------------------------------------------------------
(* Levels.                                                                 *)
LEMMA Sizes ==
    /\ \A S \in SUBSET Team : Cardinality(S) \in Nat /\ Cardinality(S) <= Cardinality(Team)
    /\ \A S, R \in SUBSET Team : S \subseteq R => Cardinality(S) <= Cardinality(R)
    /\ \A S \in SUBSET Team, t \in Team : Cardinality({t} \cup S) <= Cardinality(S) + 1
    /\ \A S, R \in SUBSET Team, t \in Team :
          Cardinality(S \cup {t} \cup R) <= Cardinality(S) + 1 + Cardinality(R)
<1>1. IsFiniteSet(Team) /\ \A S \in SUBSET Team : IsFiniteSet(S)
  BY TreeAssumption, FS_Subset
<1>2. \A S \in SUBSET Team : Cardinality(S) \in Nat /\ Cardinality(S) <= Cardinality(Team)
  BY <1>1, FS_Subset, FS_CardinalityType
<1>3. \A S, R \in SUBSET Team : S \subseteq R => Cardinality(S) <= Cardinality(R)
  BY <1>1, FS_Subset
<1>4. ASSUME NEW S \in SUBSET Team, NEW t \in Team
      PROVE  Cardinality(S \cup {t}) \in Nat /\ Cardinality(S \cup {t}) <= Cardinality(S) + 1
  BY <1>1, <1>2, FS_AddElement
<1>5. ASSUME NEW S \in SUBSET Team, NEW R \in SUBSET Team
      PROVE  Cardinality(S \cup R) <= Cardinality(S) + Cardinality(R)
  <2>1. Cardinality(S \cup R) = Cardinality(S) + Cardinality(R) - Cardinality(S \cap R)
    BY <1>1, FS_Union
  <2>2. Cardinality(S \cap R) \in Nat
    BY <1>2
  <2> QED
    BY <1>2, <2>1, <2>2
<1>6. ASSUME NEW S \in SUBSET Team, NEW t \in Team PROVE Cardinality({t} \cup S) <= Cardinality(S) + 1
  <2>1. {t} \cup S = S \cup {t}
    OBVIOUS
  <2> QED
    BY <1>4, <2>1
<1>7. ASSUME NEW S \in SUBSET Team, NEW R \in SUBSET Team, NEW t \in Team
      PROVE  Cardinality(S \cup {t} \cup R) <= Cardinality(S) + 1 + Cardinality(R)
  <2>1. S \cup {t} \in SUBSET Team
    OBVIOUS
  <2>2. Cardinality((S \cup {t}) \cup R) <= Cardinality(S \cup {t}) + Cardinality(R)
    BY <1>5, <2>1
  <2>3. Cardinality((S \cup {t}) \cup R) \in Nat /\ Cardinality(S) \in Nat /\ Cardinality(R) \in Nat
    BY <1>2
  <2> QED
    BY <1>4, <2>2, <2>3
<1> QED
  BY <1>2, <1>3, <1>6, <1>7

LEMMA SomeLevels == MaxDepth \in Nat \ {0}
BY TreeAssumption

(* A good place under p for team t of a tree.                              *)
Placed(parent, T, t, p) ==
    /\ t \notin Above(parent, p)
    /\ Cardinality(Above(parent, p)) + 1 <= MaxDepth
    /\ \A s \in T : s # t /\ t \in Above(parent, s) =>
          Cardinality(Above(parent, p)) + 1 + Cardinality(Above(parent, s) \ Above(parent, t)) <= MaxDepth

LEMMA TreeToTop ==
    ASSUME NEW parent \in Trees, NEW T, Closed(parent, T), IsTree(parent, T), NEW t \in Team,
           NEW after, after = [parent EXCEPT ![t] = Top]
    PROVE  Closed(after, T \cup {t}) /\ IsTree(after, T \cup {t})
<1>1. after \in Trees /\ after[t] = Top /\ \A x \in Team : x # t => after[x] = parent[x]
  BY DEF Trees, Place
<1>2. Closed(after, T \cup {t})
  BY <1>1 DEF Closed
<1>3. ASSUME NEW s \in T \cup {t}
      PROVE  /\ after[s] # Top => s \notin Above(after, after[s])
             /\ Cardinality(Above(after, s)) <= MaxDepth
  <2>1. CASE s = t
    <3>1. Above(after, t) = {t} /\ Cardinality({t}) = 1
      BY <1>1, AboveParent, FS_Singleton
    <3>2. Cardinality(Above(after, s)) = 1
      BY <2>1, <3>1
    <3> QED
      BY <1>1, <2>1, <3>2, SomeLevels
  <2>2. CASE s # t
    <3>1. s \in T /\ s \in Team /\ after[s] = parent[s]
      BY <1>1, <2>2 DEF Closed
    <3>2. Above(after, s) \subseteq Above(parent, s) /\ Above(parent, s) \subseteq Team
      BY <3>1, MoveToTop, AboveLeast DEF Closed
    <3>3. Cardinality(Above(after, s)) <= Cardinality(Above(parent, s))
      BY <3>2, Sizes
    <3>4. Cardinality(Above(after, s)) \in Nat /\ Cardinality(Above(parent, s)) \in Nat
      BY <3>2, Sizes
    <3>5. Cardinality(Above(parent, s)) <= MaxDepth
      BY <3>1 DEF IsTree
    <3>6. ASSUME parent[s] # Top PROVE s \notin Above(after, parent[s])
      <4>1. parent[s] \in Team /\ s \notin Above(parent, parent[s])
        BY <3>1, <3>6 DEF IsTree, Trees, Place
      <4> QED
        BY <4>1, MoveToTop
    <3> QED
      BY <3>1, <3>3, <3>4, <3>5, <3>6, SomeLevels
  <2> QED
    BY <2>1, <2>2
<1> QED
  BY <1>2, <1>3 DEF IsTree

LEMMA TreeUnder ==
    ASSUME NEW parent \in Trees, NEW T, Closed(parent, T), IsTree(parent, T), NEW t \in Team,
           NEW p \in T, Placed(parent, T, t, p),
           NEW after, after = [parent EXCEPT ![t] = p]
    PROVE  Closed(after, T \cup {t}) /\ IsTree(after, T \cup {t})
<1>1. /\ p \in Team /\ p \in Place /\ p # Top
      /\ after \in Trees /\ after[t] = p /\ \A x \in Team : x # t => after[x] = parent[x]
  BY TreeAssumption DEF Trees, Place, Closed
<1>2. Closed(after, T \cup {t})
  BY <1>1 DEF Closed
<1>3. Acyclic(parent, T)
  BY DEF IsTree, Acyclic
<1>4. ASSUME NEW s \in Team, t \notin Above(parent, s) PROVE Above(after, s) = Above(parent, s)
  BY ZenonT(30), <1>1, <1>4, MoveElsewhere
<1>5. /\ Above(after, p) = Above(parent, p) /\ Above(after, t) = {t} \cup Above(parent, p)
      /\ t \notin Above(parent, p) /\ Above(parent, p) \subseteq Team
  <2>1. Above(after, p) = Above(parent, p)
    BY <1>1, <1>4 DEF Placed
  <2>2. Above(parent, p) \subseteq Team
    BY <1>1, AboveLeast DEF Closed
  <2>3. Above(after, t) = {t} \cup Above(after, p)
    <3>1. after \in Trees /\ after[t] # Top /\ after[t] = p
      BY <1>1
    <3>2. Above(after, t) = {t} \cup Above(after, after[t])
      BY <3>1, AboveParent
    <3> QED
      BY <3>1, <3>2
  <2> QED
    BY <2>1, <2>2, <2>3 DEF Placed
<1>6. ASSUME NEW s \in T, t \in Above(parent, s), s # t
      PROVE  Above(after, s) \subseteq (Above(parent, s) \ Above(parent, t)) \cup {t} \cup Above(parent, p)
  BY <1>1, <1>3, <1>5, <1>6, MoveUnder
<1>7. ASSUME NEW s \in T \cup {t}
      PROVE  /\ after[s] # Top => s \notin Above(after, after[s])
             /\ Cardinality(Above(after, s)) <= MaxDepth
  <2> DEFINE up == Cardinality(Above(parent, p))
  <2>1. CASE s = t
    <3>1. Cardinality({t} \cup Above(parent, p)) <= up + 1 /\ up \in Nat /\ up + 1 <= MaxDepth
      BY <1>5, Sizes DEF Placed
    <3>2. Cardinality({t} \cup Above(parent, p)) \in Nat
      BY <1>5, Sizes
    <3>3. Cardinality(Above(after, s)) <= MaxDepth
      <4>1. Above(after, s) = {t} \cup Above(parent, p)
        BY <1>5, <2>1
      <4> DEFINE n == Cardinality({t} \cup Above(parent, p))
      <4>2. n \in Nat /\ n <= up + 1 /\ up + 1 <= MaxDepth /\ up \in Nat /\ MaxDepth \in Nat
        BY <3>1, <3>2, SomeLevels
      <4>3. n <= MaxDepth
        <5> HIDE DEF n, up
        <5> QED
          BY <4>2
      <4> QED
        BY <4>1, <4>3
    <3> QED
      BY <1>1, <1>5, <2>1, <3>3
  <2>2. CASE s # t /\ t \notin Above(parent, s)
    <3>1. s \in T /\ s \in Team /\ after[s] = parent[s]
      BY <1>1, <2>2 DEF Closed
    <3>2. Above(after, s) = Above(parent, s)
      BY <1>4, <2>2, <3>1
    <3>3. ASSUME parent[s] # Top PROVE s \notin Above(after, parent[s])
      <4>1. parent[s] \in Team /\ t \notin Above(parent, parent[s])
        BY <2>2, <3>1, <3>3, AboveParent
      <4>2. Above(after, parent[s]) = Above(parent, parent[s])
        BY <1>4, <4>1
      <4> QED
        BY <3>1, <3>3, <4>2 DEF IsTree
    <3> QED
      BY <3>1, <3>2, <3>3 DEF IsTree
  <2>3. CASE s # t /\ t \in Above(parent, s)
    <3>1. s \in T /\ s \in Team /\ after[s] = parent[s]
      BY <1>1, <2>3 DEF Closed
    <3>2. parent[s] \in Team /\ parent[s] # Top /\ t \in Above(parent, parent[s]) /\ parent[s] \in T
      BY <2>3, <3>1, AboveParent DEF Closed
    <3>3. s \notin Above(parent, parent[s])
      BY <3>1, <3>2 DEF IsTree
    <3>4. s \notin Above(parent, p)
      BY <1>1, <1>5, <2>3, AboveTransitive
    <3>5. s \notin Above(after, parent[s])
      <4>1. CASE parent[s] = t
        BY <1>5, <2>3, <3>4, <4>1
      <4>2. CASE parent[s] # t
        <5>1. Above(after, parent[s])
                 \subseteq (Above(parent, parent[s]) \ Above(parent, t)) \cup {t} \cup Above(parent, p)
          BY <1>6, <3>2, <4>2
        <5> QED
          BY <2>3, <3>3, <3>4, <5>1
      <4> QED
        BY <4>1, <4>2
    <3> DEFINE rest == Above(parent, s) \ Above(parent, t)
    <3>6. Above(after, s) \subseteq rest \cup {t} \cup Above(parent, p)
      BY <1>6, <2>3, <3>1
    <3>7. rest \subseteq Team /\ rest \cup {t} \cup Above(parent, p) \subseteq Team
      BY <1>5, <3>1, AboveLeast DEF Closed
    <3>8. up + 1 + Cardinality(rest) <= MaxDepth
      BY <2>3, <3>1 DEF Placed
    <3> HIDE DEF rest
    <3>9. Cardinality(rest \cup {t} \cup Above(parent, p)) <= Cardinality(rest) + 1 + up
      BY <1>5, <3>7, Sizes
    <3>10. Cardinality(Above(after, s)) <= Cardinality(rest \cup {t} \cup Above(parent, p))
      BY <3>6, <3>7, Sizes
    <3>11. /\ Cardinality(Above(after, s)) \in Nat /\ Cardinality(rest) \in Nat /\ up \in Nat
           /\ Cardinality(rest \cup {t} \cup Above(parent, p)) \in Nat
      <4>1. Above(after, s) \in SUBSET Team
        BY <3>6, <3>7
      <4> QED
        BY <1>5, <3>7, <4>1, Sizes
    <3> QED
      BY <3>1, <3>5, <3>8, <3>9, <3>10, <3>11, SomeLevels
  <2> QED
    BY <2>1, <2>2, <2>3
<1> QED
  BY <1>2, <1>7 DEF IsTree

(* A place that was found good stays good when another team goes to the top. *)
LEMMA PlacedStays ==
    ASSUME NEW parent \in Trees, NEW T, Closed(parent, T), Acyclic(parent, T), NEW t \in Team, NEW p \in T,
           Placed(parent, T, t, p), NEW x \in Team, x # t, NEW after, after = [parent EXCEPT ![x] = Top]
    PROVE  Placed(after, T \cup {x}, t, p)
<1>1. /\ p \in Team /\ after \in Trees /\ after[x] = Top
      /\ \A y \in Team : Above(after, y) \subseteq Above(parent, y)
      /\ \A y \in Team : Above(parent, y) \subseteq Team
  BY ZenonT(30), MoveToTop, AboveLeast DEF Trees, Place, Closed
<1>2. t \notin Above(after, p)
  BY <1>1 DEF Placed
<1> DEFINE up == Cardinality(Above(parent, p))
           upAfter == Cardinality(Above(after, p))
<1>3. up \in Nat /\ upAfter \in Nat /\ upAfter <= up /\ up + 1 <= MaxDepth
  <2>1. Above(after, p) \in SUBSET Team /\ Above(parent, p) \in SUBSET Team
    BY <1>1
  <2> QED
    BY <1>1, <2>1, Sizes DEF Placed
<1>4. ASSUME NEW s \in T \cup {x}, s # t, t \in Above(after, s)
      PROVE  upAfter + 1 + Cardinality(Above(after, s) \ Above(after, t)) <= MaxDepth
  <2>1. s \in T /\ s \in Team
    <3>1. s # x
      <4>1. Above(after, x) = {x}
        BY <1>1, AboveParent
      <4> QED
        BY <1>4, <4>1
    <3> QED
      BY <3>1 DEF Closed
  <2>2. t \in Above(parent, s) /\ t \in T
    <3>1. Above(parent, s) \subseteq T
      BY <2>1, AboveLeast
    <3> QED
      BY <1>1, <1>4, <2>1, <3>1
  <2>3. Above(after, s) \ Above(after, t) \subseteq Above(parent, s) \ Above(parent, t)
    <3> SUFFICES ASSUME NEW y \in Above(after, s), y \notin Above(after, t), y \in Above(parent, t) PROVE FALSE
      BY <1>1, <2>1
    <3>1. t \in Above(after, y) /\ y \in Team
      BY <1>1, <1>4, <2>1, AboveIsAChain
    <3>2. t \in Above(parent, y)
      BY <1>1, <3>1
    <3>3. t = y
      BY <2>2, <3>2, NoLoop
    <3> QED
      BY <1>1, <3>3, AboveLeast
  <2> DEFINE rest == Above(parent, s) \ Above(parent, t)
             restAfter == Above(after, s) \ Above(after, t)
  <2>4. rest \in SUBSET Team /\ restAfter \in SUBSET Team /\ restAfter \subseteq rest
    BY <1>1, <2>1, <2>3
  <2>5. up + 1 + Cardinality(rest) <= MaxDepth
    BY <1>4, <2>1, <2>2 DEF Placed
  <2> HIDE DEF rest, restAfter
  <2>6. Cardinality(rest) \in Nat /\ Cardinality(restAfter) \in Nat /\ Cardinality(restAfter) <= Cardinality(rest)
    BY <2>4, Sizes
  <2>7. upAfter + 1 + Cardinality(restAfter) <= MaxDepth
    BY <1>3, <2>5, <2>6, SomeLevels
  <2> QED
    BY <2>7 DEF restAfter
<1>5. upAfter + 1 <= MaxDepth
  BY <1>3, SomeLevels
<1> QED
  BY <1>2, <1>4, <1>5 DEF Placed

-----------------------------------------------------------------------------
(* Who may write now has read a row that is there, or creates a team.      *)
SeenTeam(p) ==
    tx[p] # Idle =>
        /\ tx[p].op = "create" => tx[p].seen.status = "none" /\ tx[p].pc # "read"
        /\ tx[p].op # "create" /\ tx[p].pc \in {"relock", "check", "write"} =>
              tx[p].seen.status \in {"active", "archived"}
        /\ tx[p].op = "move" /\ tx[p].pc \in {"relock", "check", "write"} => tx[p].seen.status = "active"

(* The place that was found good is good as long as the team did not change. *)
PlaceHolds(p) ==
    /\ tx[p] # Idle /\ tx[p].pc = "write"
    /\ tx[p].op \in {"create", "move"} /\ tx[p].to # Top
    /\ Unchanged(p)
    => Placed(Parents, Teams, tx[p].team, tx[p].to)

Forest ==
    /\ Closed(Parents, Teams) /\ TreeStaysATree
    /\ \A p \in Process : SeenTeam(p) /\ PlaceHolds(p)

LEMMA ParentsType ==
    ASSUME TreeTypeOK
    PROVE  /\ Parents \in Trees /\ \A t \in Team : Parents[t] = team[t].parent
           /\ Teams \subseteq Team
BY DEF TreeTypeOK, Row, Parents, Trees, Teams

LEMMA LeastNatural ==
    ASSUME NEW T \in SUBSET Nat, T # {}
    PROVE  \E n \in T : \A i \in T : n <= i
<1> DEFINE Less == OpToRel(<, Nat)
<1>1. \A i, n \in Nat : i < n => <<i, n>> \in Less
  BY Zenon DEF OpToRel
<1>2. IsWellFoundedOn(Less, Nat)
  BY NatLessThanWellFounded, Zenon
<1> HIDE DEF Less
<1>3. PICK n \in T : \A i \in T : ~(<<i, n>> \in Less)
  BY <1>2, WFMin
<1>4. \A i \in T : ~(i < n)
  BY <1>1, <1>3
<1> QED
  BY <1>4

(* The height is the least number that no team below exceeds.              *)
LEMMA HeightBounds ==
    ASSUME NEW parent \in Trees, NEW T \in SUBSET Team, NEW t \in Team
    PROVE  /\ Height(parent, T, t) \in Nat /\ Height(parent, T, t) <= Cardinality(Team)
           /\ \A s \in Below(parent, T, t) :
                 Cardinality(Above(parent, s) \ Above(parent, t)) <= Height(parent, T, t)
           /\ \A h \in 0 .. Cardinality(Team) :
                 (\A s \in Below(parent, T, t) : Cardinality(Above(parent, s) \ Above(parent, t)) <= h)
                 => Height(parent, T, t) <= h
<1> DEFINE below == Below(parent, T, t)
           down(s) == Cardinality(Above(parent, s) \ Above(parent, t))
           levels == {down(s) : s \in below}
           enough == {h \in 0 .. Cardinality(Team) : \A n \in levels : n <= h}
<1>1. ASSUME NEW s \in below PROVE down(s) \in Nat /\ down(s) <= Cardinality(Team)
  <2>1. Above(parent, s) \ Above(parent, t) \in SUBSET Team
    BY DEF Above
  <2> QED
    BY <2>1, Sizes
<1>2. Cardinality(Team) \in Nat
  BY TreeAssumption, FS_CardinalityType
<1>3. Height(parent, T, t) = CHOOSE h \in enough : \A g \in enough : h <= g
  BY DEF Height
<1> HIDE DEF below, down
<1>4. Cardinality(Team) \in enough
  BY <1>1, <1>2
<1>5. enough \in SUBSET Nat /\ enough # {}
  BY <1>2, <1>4
<1>6. \E h \in enough : \A g \in enough : h <= g
  <2> HIDE DEF enough
  <2> QED
    BY <1>5, LeastNatural
<1>7. Height(parent, T, t) \in enough /\ \A g \in enough : Height(parent, T, t) <= g
  <2> HIDE DEF enough
  <2> QED
    BY <1>3, <1>6
<1>8. \A h \in 0 .. Cardinality(Team) : h \in enough <=> \A s \in below : down(s) <= h
  OBVIOUS
<1>9. Height(parent, T, t) \in 0 .. Cardinality(Team)
  BY <1>7
<1> QED
  BY <1>2, <1>7, <1>8, <1>9 DEF below, down

(* What assertTeamPlacement finds out by the height says the same of every  *)
(* team below.                                                             *)
LEMMA PlaceFound ==
    ASSUME NEW parent \in Trees, NEW T \in SUBSET Team, NEW t \in Team, NEW p \in Team
    PROVE  Fits(parent, T, t, p) <=> Placed(parent, T, t, p)
<1> DEFINE up == Cardinality(Above(parent, p))
           height == Height(parent, T, t)
           down(s) == Cardinality(Above(parent, s) \ Above(parent, t))
<1>1. up \in Nat /\ height \in Nat /\ MaxDepth \in Nat /\ \A s \in Team : down(s) \in Nat
  <2>1. Above(parent, p) \in SUBSET Team /\ \A s \in Team : Above(parent, s) \ Above(parent, t) \in SUBSET Team
    BY DEF Above
  <2> QED
    BY <2>1, Sizes, HeightBounds, SomeLevels
<1>2. \A s : s \in Below(parent, T, t) <=> s \in T /\ s # t /\ t \in Above(parent, s)
  BY DEF Below
<1>3. ASSUME Fits(parent, T, t, p) PROVE Placed(parent, T, t, p)
  <2>1. t \notin Above(parent, p) /\ up + 1 + height <= MaxDepth
    BY <1>3 DEF Fits
  <2>2. ASSUME NEW s \in T, s # t, t \in Above(parent, s) PROVE up + 1 + down(s) <= MaxDepth
    <3>1. down(s) <= height
      BY <1>2, <2>2, HeightBounds
    <3> HIDE DEF up, height, down
    <3> QED
      BY <1>1, <2>1, <3>1
  <2>3. up + 1 <= MaxDepth
    <3> HIDE DEF up, height
    <3> QED
      BY <1>1, <2>1
  <2> QED
    BY <2>1, <2>2, <2>3 DEF Placed
<1>4. ASSUME Placed(parent, T, t, p) PROVE Fits(parent, T, t, p)
  <2>1. /\ t \notin Above(parent, p) /\ up + 1 <= MaxDepth
        /\ \A s \in Below(parent, T, t) : up + 1 + down(s) <= MaxDepth
    BY <1>2, <1>4 DEF Placed
  <2> DEFINE room == MaxDepth - up - 1
  <2>2. room \in Nat
    <3> HIDE DEF up
    <3> QED
      BY <1>1, <2>1
  <2>3. \A s \in Below(parent, T, t) : s \in Team
    BY <1>2
  <2>4. \A s \in Below(parent, T, t) : down(s) <= room
    <3> HIDE DEF up, down
    <3> QED
      BY <1>1, <2>1, <2>3
  <2>5. height <= room
    <3>1. CASE room \in 0 .. Cardinality(Team)
      BY <2>4, <3>1, HeightBounds
    <3>2. CASE room \notin 0 .. Cardinality(Team)
      <4>1. height <= Cardinality(Team) /\ Cardinality(Team) \in Nat
        BY HeightBounds, TreeAssumption, FS_CardinalityType
      <4> HIDE DEF room, height
      <4> QED
        BY <1>1, <2>2, <3>2, <4>1
    <3> QED
      BY <3>1, <3>2
  <2>6. up + 1 + height <= MaxDepth
    <3> HIDE DEF up, height
    <3> QED
      BY <1>1, <2>5
  <2> QED
    BY <2>1, <2>6 DEF Fits
<1> QED
  BY <1>3, <1>4

(* A step that leaves the rows alone is judged by what it leaves of its own *)
(* transaction.                                                            *)
LEMMA ForestOfOne ==
    ASSUME Forest, NEW p \in Process, UNCHANGED team, \A q \in Process \ {p} : tx'[q] = tx[q],
           SeenTeam(p)', PlaceHolds(p)'
    PROVE  Forest'
<1>1. Parents' = Parents /\ Teams' = Teams
  BY DEF Parents, Teams, IsTeam
<1>2. Closed(Parents, Teams)' /\ TreeStaysATree'
  BY <1>1 DEF Forest, TreeStaysATree, Teams
<1>3. ASSUME NEW q \in Process \ {p} PROVE SeenTeam(q)' /\ PlaceHolds(q)'
  <2>1. tx'[q] = tx[q] /\ SeenTeam(q) /\ PlaceHolds(q)
    BY DEF Forest
  <2> QED
    BY <1>1, <2>1 DEF SeenTeam, PlaceHolds, Unchanged
<1> QED
  BY <1>2, <1>3 DEF Forest

LEMMA ForestStarts ==
    ASSUME TreeInv, Forest, NEW p \in Process, NEW t \in Team, NEW to \in Place,
           NEW op \in {"create", "move", "edit", "archive", "restore"}, NEW pc \in {"lock", "read", "write"},
           Starts(p, op, t, to, pc),
           pc = "write" => op = "create" /\ to = Top,
           op = "create" => team[t].status = "none" /\ pc # "read"
    PROVE  Forest'
<1> DEFINE new == [pc |-> pc, op |-> op, team |-> t, to |-> to, seen |-> team[t], tries |-> 0]
<1>1. tx' = [tx EXCEPT ![p] = new] /\ tx'[p] = new /\ UNCHANGED team
  BY DEF Starts, TreeInv, TreeTypeOK
<1>2. SeenTeam(p)' /\ PlaceHolds(p)'
  BY <1>1 DEF SeenTeam, PlaceHolds
<1>3. \A q \in Process \ {p} : tx'[q] = tx[q]
  BY <1>1 DEF TreeInv, TreeTypeOK
<1> QED
  BY <1>1, <1>2, <1>3, ForestOfOne

LEMMA ForestEnds ==
    ASSUME TreeInv, Forest, NEW p \in Process, Ends(p), UNCHANGED team
    PROVE  Forest'
<1>1. tx'[p] = Idle /\ \A q \in Process \ {p} : tx'[q] = tx[q]
  BY DEF Ends, TreeInv, TreeTypeOK
<1> QED
  BY <1>1, ForestOfOne DEF SeenTeam, PlaceHolds

(* What a transaction in flight does before it writes.                     *)
LEMMA ForestGoesOn ==
    ASSUME TreeInv, Forest, NEW p \in Process,
           TakeLock(p) \/ ReadRow(p) \/ LockTree(p) \/ Check(p) \/ WriteMissed(p), ~Ends(p)
    PROVE  Forest'
<1>1. TreeTypeOK /\ tx[p] # Idle /\ UNCHANGED team
  BY DEF TreeInv, TakeLock, ReadRow, LockTree, Check, WriteMissed, At
<1>2. PICK pc \in {"read", "relock", "check", "write"}, seen \in Row, tries \in Nat :
         tx' = [tx EXCEPT ![p] = [tx[p] EXCEPT !.pc = pc, !.seen = seen, !.tries = tries]]
  <2>1. CASE TakeLock(p) \/ LockTree(p) \/ Check(p)
    <3>1. PICK pc \in {"read", "relock", "check", "write"} : tx' = [tx EXCEPT ![p].pc = pc]
      BY <2>1 DEF TakeLock, LockTree, Check, GoTo
    <3>2. tx' = [tx EXCEPT ![p] = [tx[p] EXCEPT !.pc = pc, !.seen = tx[p].seen, !.tries = tx[p].tries]]
      BY <1>1, <3>1, TxShape
    <3> QED
      BY <1>1, <3>2, TxShape
  <2>2. CASE ReadRow(p)
    <3> DEFINE pc == IF NoPlaceToCheck(p) THEN "write" ELSE "relock"
    <3>1. tx' = [tx EXCEPT ![p] = [tx[p] EXCEPT !.pc = pc, !.seen = team[tx[p].team]]]
      BY <2>2 DEF ReadRow
    <3>2. tx' = [tx EXCEPT ![p] = [tx[p] EXCEPT !.pc = pc, !.seen = team[tx[p].team], !.tries = tx[p].tries]]
      BY <1>1, <3>1, TxShape
    <3>3. pc \in {"read", "relock", "check", "write"}
      OBVIOUS
    <3> QED
      BY <1>1, <3>2, <3>3, TxShape
  <2>3. CASE WriteMissed(p)
    <3>1. tx' = [tx EXCEPT ![p] = [tx[p] EXCEPT !.pc = "read", !.tries = tx[p].tries + 1]]
      BY <2>3 DEF WriteMissed
    <3>2. tx' = [tx EXCEPT ![p] = [tx[p] EXCEPT !.pc = "read", !.seen = tx[p].seen, !.tries = tx[p].tries + 1]]
      BY <1>1, <3>1, TxShape
    <3>3. tx[p].seen \in Row /\ tx[p].tries + 1 \in Nat
      BY <1>1, TxShape
    <3> QED
      BY <3>2, <3>3
  <2> QED
    BY <2>1, <2>2, <2>3
<1>3. tx'[p] = [tx[p] EXCEPT !.pc = pc, !.seen = seen, !.tries = tries]
  BY <1>1, <1>2 DEF TreeTypeOK
<1>4. /\ tx'[p].pc = pc /\ tx'[p].seen = seen /\ tx'[p].op = tx[p].op
      /\ tx'[p].to = tx[p].to /\ tx'[p].team = tx[p].team
  BY <1>1, <1>3, TxShape
<1>5. /\ TakeLock(p) => seen = tx[p].seen /\ pc = (IF tx[p].op = "create" THEN "relock" ELSE "read")
      /\ LockTree(p) => seen = tx[p].seen /\ tx[p].pc = "relock" /\ pc = "check"
      /\ Check(p) => seen = tx[p].seen /\ tx[p].pc = "check" /\ MayProceed(p) /\ pc = "write"
      /\ WriteMissed(p) => seen = tx[p].seen /\ pc = "read" /\ tx[p].op # "create"
      /\ ReadRow(p) => /\ seen = team[tx[p].team] /\ ~NothingToDo(p)
                       /\ pc \in {"write", "relock"} /\ (pc = "write" => NoPlaceToCheck(p))
  <2>1. TakeLock(p) \/ LockTree(p) \/ Check(p) => seen = tx[p].seen /\ tx'[p].pc = pc
    <3> SUFFICES ASSUME TakeLock(p) \/ LockTree(p) \/ Check(p) PROVE seen = tx[p].seen
      BY <1>4
    <3>1. PICK go \in {"read", "relock", "check", "write"} : tx' = [tx EXCEPT ![p].pc = go]
      BY DEF TakeLock, LockTree, Check, GoTo
    <3>2. tx'[p].seen = tx[p].seen
      BY <1>1, <3>1, TxShape DEF TreeTypeOK
    <3> QED
      BY <1>4, <3>2
  <2>2. TakeLock(p) => pc = (IF tx[p].op = "create" THEN "relock" ELSE "read")
    BY <1>1, <1>4, TxShape DEF TakeLock, GoTo, TreeTypeOK
  <2>3. LockTree(p) => tx[p].pc = "relock" /\ pc = "check"
    BY <1>1, <1>4, TxShape DEF LockTree, GoTo, TreeTypeOK, At
  <2>4. Check(p) => tx[p].pc = "check" /\ MayProceed(p) /\ pc = "write"
    <3>1. Check(p) => tx[p].pc = "check" /\ MayProceed(p) /\ tx' = [tx EXCEPT ![p].pc = "write"]
      BY DEF Check, At, GoTo
    <3> QED
      BY <1>1, <1>4, <3>1, TxShape DEF TreeTypeOK
  <2>5. WriteMissed(p) => seen = tx[p].seen /\ pc = "read" /\ tx[p].op # "create"
    <3> SUFFICES ASSUME WriteMissed(p) PROVE seen = tx[p].seen /\ pc = "read" /\ tx[p].op # "create"
      OBVIOUS
    <3>1. /\ tx' = [tx EXCEPT ![p] = [tx[p] EXCEPT !.pc = "read", !.tries = tx[p].tries + 1]]
          /\ tx[p].op # "create"
      BY DEF WriteMissed
    <3>2. tx'[p].seen = tx[p].seen /\ tx'[p].pc = "read"
      BY <1>1, <3>1, TxShape DEF TreeTypeOK
    <3> QED
      BY <1>4, <3>1, <3>2
  <2>6. ReadRow(p) => /\ seen = team[tx[p].team] /\ ~NothingToDo(p)
                      /\ pc \in {"write", "relock"} /\ (pc = "write" => NoPlaceToCheck(p))
    <3> SUFFICES ASSUME ReadRow(p)
                 PROVE  /\ seen = team[tx[p].team] /\ ~NothingToDo(p)
                        /\ pc \in {"write", "relock"} /\ (pc = "write" => NoPlaceToCheck(p))
      OBVIOUS
    <3> DEFINE go == IF NoPlaceToCheck(p) THEN "write" ELSE "relock"
    <3>1. tx' = [tx EXCEPT ![p] = [tx[p] EXCEPT !.pc = go, !.seen = team[tx[p].team]]] /\ ~NothingToDo(p)
      BY DEF ReadRow
    <3>2. tx'[p].seen = team[tx[p].team] /\ tx'[p].pc = go
      BY <1>1, <3>1, TxShape DEF TreeTypeOK
    <3> QED
      BY <1>4, <3>1, <3>2
  <2> QED
    BY <2>1, <2>2, <2>3, <2>4, <2>5, <2>6
<1>6. SeenTeam(p) /\ tx[p].team \in Team /\ tx[p].to \in Place
      /\ tx[p].op \in {"create", "move", "edit", "archive", "restore"}
  BY <1>1, TxShape DEF Forest
<1>7. SeenTeam(p)'
  <2>1. CASE ReadRow(p)
    <3>1. /\ seen.status \in {"active", "archived"} /\ tx[p].op # "create"
          /\ tx[p].op = "move" => seen.status = "active"
      BY <1>1, <1>5, <1>6, <2>1 DEF NothingToDo, IsTeam, SeenTeam, ReadRow, At
    <3> QED
      BY <1>4, <3>1 DEF SeenTeam
  <2>2. CASE ~ReadRow(p)
    BY <1>1, <1>4, <1>5, <1>6, <2>2 DEF SeenTeam
  <2> QED
    BY <2>1, <2>2
<1>8. PlaceHolds(p)'
  <2> SUFFICES ASSUME pc = "write", tx[p].op \in {"create", "move"}, tx[p].to # Top
               PROVE  Placed(Parents, Teams, tx[p].team, tx[p].to)'
    BY <1>4 DEF PlaceHolds
  <2>1. Parents' = Parents /\ Teams' = Teams
    BY <1>1 DEF Parents, Teams, IsTeam
  <2>2. Check(p)
    BY <1>5, <1>6 DEF NoPlaceToCheck
  <2>3. Fits(Parents, Teams, tx[p].team, tx[p].to) /\ tx[p].to \in Team
    BY <1>5, <1>6, <2>2 DEF MayProceed, MayBePlaced, Place
  <2>4. Placed(Parents, Teams, tx[p].team, tx[p].to)
    BY <1>1, <1>6, <2>3, PlaceFound, ParentsType
  <2> QED
    BY <1>4, <2>1, <2>4 DEF Placed
<1>9. \A q \in Process \ {p} : tx'[q] = tx[q]
  BY <1>1, <1>2 DEF TreeTypeOK
<1> QED
  BY <1>1, <1>7, <1>8, <1>9, ForestOfOne

(* The write: the parent stays, or the team goes to the top, or to a place  *)
(* that was found good under the lock.                                     *)
LEMMA ForestWrites ==
    ASSUME TreeInv, Forest, NEW p \in Process, Write(p)
    PROVE  Forest'
<1> DEFINE t == tx[p].team
           seen == tx[p].seen
           to == Written(p).parent
<1>1. /\ TreeTypeOK /\ tx[p] # Idle /\ tx[p].pc = "write" /\ t \in Team /\ seen \in Row
      /\ tx[p].op \in {"create", "move", "edit", "archive", "restore"} /\ tx[p].to \in Place
  BY TxShape DEF TreeInv, Write, At
<1>2. team' = [team EXCEPT ![t] = Written(p)] /\ Ends(p) /\ Unchanged(p)
  BY DEF Write
<1>3. /\ SeenIsOld(p) /\ Checked(p) /\ SeenTeam(p) /\ PlaceHolds(p)
      /\ team[t].version = seen.version /\ team[t].status = seen.status
  BY <1>2 DEF TreeInv, Forest, Unchanged
<1>4. team[t].parent = seen.parent
  BY <1>1, <1>3 DEF SeenIsOld
<1>5. /\ Written(p).status \in {"active", "archived"} /\ Written(p).version = seen.version + 1
      /\ to = IF tx[p].op \in {"create", "move"} THEN tx[p].to ELSE seen.parent
      /\ to \in Place
  BY <1>1 DEF Written, Row
<1>6. /\ Parents \in Trees /\ Teams \subseteq Team /\ Closed(Parents, Teams) /\ IsTree(Parents, Teams)
      /\ Acyclic(Parents, Teams)
  BY <1>1, ParentsType DEF Forest, TreeStaysATree, IsTree, Acyclic, Teams
<1>7. Teams' = Teams \cup {t}
  <2>1. \A s \in Team : IsTeam(s)' <=> IsTeam(s) \/ s = t
    BY <1>1, <1>2, <1>5 DEF IsTeam, TreeTypeOK
  <2> QED
    BY <1>1, <2>1 DEF Teams
<1>8. Parents' = [Parents EXCEPT ![t] = to]
  <2>1. \A s \in Team : team'[s].parent = IF s = t THEN to ELSE team[s].parent
    BY <1>1, <1>2 DEF TreeTypeOK
  <2> QED
    BY <1>1, <2>1 DEF Parents
<1> HIDE DEF to, t, seen
<1>9. \/ to = Parents[t] /\ t \in Teams
      \/ to = Top
      \/ to \in Teams /\ rowsLock = p /\ Placed(Parents, Teams, t, to)
  <2>1. CASE tx[p].op \in {"create", "move"} /\ tx[p].to # Top
    <3>1. to = tx[p].to /\ to \in Teams /\ rowsLock = p
      BY <1>1, <1>3, <1>5, <2>1 DEF Checked, Teams, IsTeam, Place
    <3>2. Placed(Parents, Teams, t, to)
      BY <1>1, <1>2, <1>3, <2>1, <3>1 DEF PlaceHolds, t
    <3> QED
      BY <3>1, <3>2
  <2>2. CASE tx[p].op \in {"edit", "archive", "restore"}
    <3>1. to = Parents[t]
      BY <1>1, <1>4, <1>5, <2>2, ParentsType
    <3>2. t \in Teams
      BY <1>1, <1>3, <2>2 DEF SeenTeam, Teams, IsTeam, seen
    <3> QED
      BY <3>1, <3>2
  <2> QED
    BY <1>1, <1>5, <2>1, <2>2
<1>10. Closed(Parents', Teams') /\ IsTree(Parents', Teams')
  <2>1. CASE to = Parents[t] /\ t \in Teams
    <3>1. Parents' = Parents /\ Teams' = Teams
      BY <1>6, <1>7, <1>8, <2>1 DEF Trees
    <3> QED
      BY <1>6, <3>1
  <2>2. CASE to = Top
    BY <1>1, <1>6, <1>7, <1>8, <2>2, TreeToTop
  <2>3. CASE to \in Teams /\ Placed(Parents, Teams, t, to)
    BY <1>1, <1>6, <1>7, <1>8, <2>3, TreeUnder
  <2> QED
    BY <1>9, <2>1, <2>2, <2>3
<1>11. Closed(Parents, Teams)' /\ TreeStaysATree'
  BY <1>10 DEF Closed, IsTree, TreeStaysATree, Teams, Above
<1>12. ASSUME NEW q \in Process PROVE SeenTeam(q)' /\ PlaceHolds(q)'
  <2>1. CASE q = p
    <3>1. tx'[q] = Idle
      BY <1>1, <1>2, <2>1 DEF Ends, TreeTypeOK
    <3> QED
      BY <3>1 DEF SeenTeam, PlaceHolds
  <2>2. CASE q # p
    <3>1. tx'[q] = tx[q] /\ SeenTeam(q) /\ PlaceHolds(q) /\ SeenIsOld(q) /\ Checked(q)
      BY <1>2, <2>2 DEF Ends, TreeInv, TreeTypeOK, Forest
    <3>2. SeenTeam(q)'
      BY <3>1 DEF SeenTeam
    <3>3. PlaceHolds(q)'
      <4> DEFINE r == tx[q].team
                 d == tx[q].to
      <4> SUFFICES ASSUME tx[q] # Idle, tx[q].pc = "write", tx[q].op \in {"create", "move"}, d # Top,
                          Unchanged(q)'
                   PROVE  Placed(Parents, Teams, r, d)'
        BY <3>1 DEF PlaceHolds
      <4>1. r \in Team /\ tx[q].seen \in Row /\ d \in Place
        BY <1>1, TxShape
      <4>2. rowsLock = q /\ team[d].status = "active" /\ d \in Team
        BY <3>1, <4>1 DEF Checked, Place
      <4>3. d \in Teams
        BY <4>2 DEF Teams, IsTeam
      <4>4. r # t
        <5> SUFFICES ASSUME r = t PROVE FALSE
          OBVIOUS
        <5>1. tx[q].seen.version <= team[t].version
          BY <3>1 DEF SeenIsOld
        <5>2. team'[t].version = seen.version + 1
          BY <1>1, <1>2, <1>5 DEF TreeTypeOK
        <5>3. team'[t].version = tx[q].seen.version
          BY <3>1 DEF Unchanged
        <5> QED
          BY <1>1, <1>3, <4>1, <5>1, <5>2, <5>3 DEF Row
      <4>5. Unchanged(q)
        BY <1>1, <1>2, <3>1, <4>1, <4>4 DEF Unchanged, TreeTypeOK
      <4>6. Placed(Parents, Teams, r, d)
        BY <3>1, <4>5 DEF PlaceHolds
      <4>7. Placed(Parents', Teams', r, d)
        <5>1. CASE to = Parents[t] /\ t \in Teams
          <6>1. Parents' = Parents /\ Teams' = Teams
            BY <1>6, <1>7, <1>8, <5>1 DEF Trees
          <6> QED
            BY <4>6, <6>1
        <5>2. CASE to = Top
          BY <1>1, <1>6, <1>7, <1>8, <4>1, <4>3, <4>4, <4>6, <5>2, PlacedStays
        <5> QED
          BY <1>9, <2>2, <4>2, <5>1, <5>2
      <4> QED
        BY <3>1, <4>7 DEF Placed, Above
    <3> QED
      BY <3>2, <3>3
  <2> QED
    BY <2>1, <2>2
<1> QED
  BY <1>11, <1>12 DEF Forest

(* A team without sub-teams goes: the others keep their place.              *)
LEMMA ForestDeletes ==
    ASSUME TreeInv, Forest, NEW t \in Team, DeleteTeam(t)
    PROVE  Forest'
<1>1. /\ TreeTypeOK /\ team' = [team EXCEPT ![t].status = "gone"] /\ ~HasChild(t) /\ tx' = tx
      /\ Closed(Parents, Teams) /\ IsTree(Parents, Teams)
  BY DEF DeleteTeam, TreeInv, Forest, TreeStaysATree, Teams
<1>2. \A s \in Team : /\ team'[s].parent = team[s].parent /\ team'[s].version = team[s].version
                      /\ team'[s].status = IF s = t THEN "gone" ELSE team[s].status
  BY <1>1 DEF TreeTypeOK, Row
<1>3. Parents' = Parents
  BY <1>2 DEF Parents
<1>4. Teams' = Teams \ {t}
  BY <1>2 DEF Teams, IsTeam
<1>5. Closed(Parents, Teams \ {t})
  BY <1>1, ParentsType DEF Closed, HasChild, Teams
<1>6. IsTree(Parents, Teams \ {t})
  BY <1>1 DEF IsTree
<1>7. Closed(Parents, Teams)' /\ TreeStaysATree'
  BY <1>3, <1>4, <1>5, <1>6 DEF Closed, IsTree, TreeStaysATree, Teams, Above
<1>8. ASSUME NEW q \in Process PROVE SeenTeam(q)' /\ PlaceHolds(q)'
  <2>1. SeenTeam(q) /\ PlaceHolds(q) /\ tx'[q] = tx[q]
    BY <1>1 DEF Forest
  <2>2. SeenTeam(q)'
    BY <2>1 DEF SeenTeam
  <2>3. PlaceHolds(q)'
    <3> SUFFICES ASSUME tx[q] # Idle, tx[q].pc = "write", tx[q].op \in {"create", "move"}, tx[q].to # Top,
                        Unchanged(q)'
                 PROVE  Placed(Parents, Teams, tx[q].team, tx[q].to)'
      BY <2>1 DEF PlaceHolds
    <3>1. tx[q].team \in Team /\ tx[q].seen.status # "gone"
      BY <1>1, <2>1, TxShape DEF SeenTeam
    <3>2. Unchanged(q)
      BY <1>2, <2>1, <3>1 DEF Unchanged
    <3>3. Placed(Parents, Teams, tx[q].team, tx[q].to)
      BY <2>1, <3>2 DEF PlaceHolds
    <3>4. Placed(Parents', Teams', tx[q].team, tx[q].to)
      BY <1>3, <1>4, <3>3 DEF Placed
    <3> QED
      BY <2>1, <3>4 DEF Placed, Above
  <2> QED
    BY <2>2, <2>3
<1> QED
  BY <1>7, <1>8 DEF Forest

LEMMA ForestInit == TreeInit => Forest
<1> SUFFICES ASSUME TreeInit PROVE Forest
  OBVIOUS
<1>1. PICK tree \in Planted :
        team = [t \in Team |-> IF t \in DOMAIN tree
                              THEN [status |-> "active", parent |-> tree[t], version |-> 1]
                              ELSE [status |-> "none", parent |-> Top, version |-> 0]]
  BY DEF TreeInit
<1>2. /\ DOMAIN tree \subseteq Team /\ \A t \in DOMAIN tree : tree[t] \in DOMAIN tree \cup {Top}
      /\ IsTree([t \in Team |-> IF t \in DOMAIN tree THEN tree[t] ELSE Top], DOMAIN tree)
  BY TreeAssumption
<1>3. Parents = [t \in Team |-> IF t \in DOMAIN tree THEN tree[t] ELSE Top]
  BY <1>1 DEF Parents
<1>4. Teams = DOMAIN tree
  BY <1>1, <1>2 DEF Teams, IsTeam
<1>5. Closed(Parents, Teams)
  BY <1>2, <1>3, <1>4 DEF Closed
<1>6. TreeStaysATree
  BY <1>2, <1>3, <1>4 DEF TreeStaysATree, Teams
<1>7. \A p \in Process : tx[p] = Idle
  BY DEF TreeInit
<1> QED
  BY <1>5, <1>6, <1>7 DEF Forest, SeenTeam, PlaceHolds

LEMMA ForestStep == TreeInv /\ Forest /\ [TreeNext]_treeVars => Forest'
<1> SUFFICES ASSUME TreeInv, Forest, [TreeNext]_treeVars PROVE Forest'
  OBVIOUS
<1>1. ASSUME NEW p \in Process, NEW t \in Team, NEW to \in Place, StartCreate(p, t, to) PROVE Forest'
  BY <1>1, ForestStarts DEF StartCreate
<1>2. ASSUME NEW p \in Process, NEW t \in Team, NEW to \in Place, StartMove(p, t, to) PROVE Forest'
  BY <1>2, ForestStarts DEF StartMove
<1>3. ASSUME NEW p \in Process, NEW t \in Team, StartEdit(p, t) PROVE Forest'
  <2>1. team[t].parent \in Place
    BY DEF TreeInv, TreeTypeOK, Row
  <2> QED
    BY <1>3, <2>1, ForestStarts DEF StartEdit
<1>4. ASSUME NEW p \in Process, NEW t \in Team, StartArchive(p, t) \/ StartRestore(p, t) PROVE Forest'
  BY <1>4, ForestStarts DEF StartArchive, StartRestore, Place
<1>5. ASSUME NEW p \in Process, Steps(p) PROVE Forest'
  <2>1. CASE Write(p)
    BY <2>1, ForestWrites
  <2>2. CASE TakeLock(p) \/ ReadRow(p) \/ LockTree(p) \/ Check(p) \/ WriteMissed(p)
    <3>1. UNCHANGED team
      BY <2>2 DEF TakeLock, ReadRow, LockTree, Check, WriteMissed
    <3> QED
      BY <2>2, <3>1, ForestEnds, ForestGoesOn
  <2> QED
    BY <1>5, <2>1, <2>2 DEF Steps
<1>6. ASSUME NEW p \in Process, GivesUp(p) PROVE Forest'
  BY <1>6, ForestEnds DEF GivesUp
<1>7. ASSUME NEW t \in Team, DeleteTeam(t) PROVE Forest'
  BY <1>7, ForestDeletes
<1>8. CASE UNCHANGED treeVars
  <2>1. Parents' = Parents /\ Teams' = Teams /\ tx' = tx /\ team' = team
    BY <1>8 DEF treeVars, Parents, Teams, IsTeam
  <2>2. Closed(Parents, Teams)' /\ TreeStaysATree'
    BY <2>1 DEF Forest, TreeStaysATree, Teams, IsTeam
  <2>3. \A q \in Process : SeenTeam(q)' /\ PlaceHolds(q)'
    BY <2>1 DEF Forest, SeenTeam, PlaceHolds, Unchanged
  <2> QED
    BY <2>2, <2>3 DEF Forest
<1> QED
  BY <1>1, <1>2, <1>3, <1>4, <1>5, <1>6, <1>7, <1>8 DEF TreeNext

(* Whatever moves, creations, archives, restores and deletions overlap, no  *)
(* team ends above itself and none deeper than MAX_TEAM_DEPTH, for every   *)
(* number of teams, levels and transactions: the lock of the repository is *)
(* enough, though moves to the top do without it.                          *)
THEOREM MovesKeepTheTree == TreeSpec => []TreeStaysATree
<1>1. TreeInit => TreeInv /\ Forest
  BY InitIsGood, ForestInit
<1>2. (TreeInv /\ Forest) /\ [TreeNext]_treeVars => (TreeInv /\ Forest)'
  BY TreeInductive, ForestStep
<1>3. TreeInv /\ Forest => TreeStaysATree
  BY DEF Forest
<1> QED
  BY <1>1, <1>2, <1>3, PTL DEF TreeSpec

-----------------------------------------------------------------------------
(***************************************************************************)
(* The calls are those of the in-memory storage.                           *)
(*                                                                         *)
(* The argument: a call takes effect with its write.  By then what it       *)
(* checked is true still (Checked, PlaceHolds) and the row is the one that *)
(* it read (SeenIsOld), so the write is the call of AtomicTeams over the   *)
(* rows of that moment; every other step, and an edit, leaves them alone.  *)
(***************************************************************************)
(* The abstract module speaks of the same teams and places.                *)
LEMMA SameTeams ==
    /\ A!Teams = Teams
    /\ \A t, p \in Team : A!Fits(Parents, Teams, t, p) <=> Fits(Parents, Teams, t, p)
    /\ A!IsTree(Parents, Teams) <=> IsTree(Parents, Teams)
<1>1. A!Teams = Teams
  BY DEF A!Teams, Teams, IsTeam
<1>2. \A S : A!Cardinality(S) = Cardinality(S)
  BY DEF A!Cardinality, Cardinality
<1>3. \A parent, t : A!Above(parent, t) = Above(parent, t)
  BY DEF A!Above, Above
<1>4. \A parent, T, t : A!Below(parent, T, t) = Below(parent, T, t)
  BY <1>3 DEF A!Below, Below
<1>5. ASSUME NEW parent, NEW T, NEW t PROVE A!Height(parent, T, t) = Height(parent, T, t)
  <2> DEFINE levels == {Cardinality(Above(parent, s) \ Above(parent, t)) : s \in Below(parent, T, t)}
             enough == {h \in 0 .. Cardinality(Team) : \A n \in levels : n <= h}
             itsLevels == {A!Cardinality(A!Above(parent, s) \ A!Above(parent, t)) : s \in A!Below(parent, T, t)}
             itsEnough == {h \in 0 .. A!Cardinality(Team) : \A n \in itsLevels : n <= h}
  <2>1. itsLevels = levels
    BY <1>2, <1>3, <1>4
  <2>2. A!Height(parent, T, t) = CHOOSE h \in itsEnough : \A g \in itsEnough : h <= g
    BY DEF A!Height
  <2>3. Height(parent, T, t) = CHOOSE h \in enough : \A g \in enough : h <= g
    BY DEF Height
  <2>4. itsEnough = enough
    <3> HIDE DEF levels, itsLevels
    <3> QED
      BY <1>2, <2>1
  <2> HIDE DEF enough, itsEnough
  <2> QED
    BY <2>2, <2>3, <2>4
<1>6. \A t, p \in Team : A!Fits(Parents, Teams, t, p) <=> Fits(Parents, Teams, t, p)
  BY <1>3, <1>5, <1>2 DEF A!Fits, Fits
<1>7. A!IsTree(Parents, Teams) <=> IsTree(Parents, Teams)
  BY <1>3, <1>2 DEF A!IsTree, IsTree
<1> QED
  BY <1>1, <1>6, <1>7

LEMMA SameRows == UNCHANGED team => UNCHANGED A!vars
BY DEF A!vars, Parents

(* The planted trees are trees of active teams.                            *)
LEMMA PlantedIsATree == TreeInit => A!Init
<1> SUFFICES ASSUME TreeInit PROVE A!Init
  OBVIOUS
<1> DEFINE status == [t \in Team |-> team[t].status]
<1>1. TreeTypeOK /\ Closed(Parents, Teams) /\ IsTree(Parents, Teams)
  BY InitIsGood, ForestInit DEF TreeInv, Forest, TreeStaysATree
<1>2. \A t \in Team : team[t].status \in {"none", "active"} /\ (~IsTeam(t) => team[t].parent = Top)
  BY DEF TreeInit, IsTeam
<1>3. status \in [Team -> {"none", "active"}] /\ Parents \in [Team -> Team \cup {Top}]
  BY <1>1, <1>2, ParentsType DEF Trees, Place
<1>4. \A t \in Team : Parents[t] \in {Top} \cup IF t \in Teams THEN Teams ELSE {}
  BY <1>1, <1>2, ParentsType DEF Closed, Teams
<1> QED
  BY <1>1, <1>3, <1>4, SameTeams DEF A!Init

(* A write that changes more than names is the call it belongs to.         *)
LEMMA WriteIsACall ==
    ASSUME TreeInv, Forest, NEW p \in Process, Write(p)
    PROVE  [A!Next]_A!vars
<1> DEFINE t == tx[p].team
           seen == tx[p].seen
           to == Written(p).parent
           status == [s \in Team |-> team[s].status]
<1>1. /\ TreeTypeOK /\ tx[p] # Idle /\ tx[p].pc = "write" /\ t \in Team /\ seen \in Row
      /\ tx[p].op \in {"create", "move", "edit", "archive", "restore"} /\ tx[p].to \in Place
  BY TxShape DEF TreeInv, Write, At
<1>2. team' = [team EXCEPT ![t] = Written(p)] /\ Unchanged(p)
  BY DEF Write
<1>3. /\ SeenIsOld(p) /\ Checked(p) /\ SeenTeam(p) /\ PlaceHolds(p)
      /\ team[t].version = seen.version /\ team[t].status = seen.status
  BY <1>2 DEF TreeInv, Forest, Unchanged
<1>4. team[t].parent = seen.parent
  BY <1>1, <1>3 DEF SeenIsOld
<1>5. /\ Written(p).status = IF tx[p].op = "archive" THEN "archived" ELSE "active"
      /\ to = IF tx[p].op \in {"create", "move"} THEN tx[p].to ELSE seen.parent
      /\ to \in Place
  BY <1>1 DEF Written, Row
<1>6. Parents \in Trees /\ \A s \in Team : Parents[s] = team[s].parent
  BY <1>1, ParentsType
<1>7. /\ Parents' = [Parents EXCEPT ![t] = to]
      /\ status' = [status EXCEPT ![t] = Written(p).status]
  BY <1>1, <1>2 DEF Parents, TreeTypeOK
<1>8. PICK x \in Team, y \in Place : x = t /\ y = to
  BY <1>1, <1>5
<1>9. CASE tx[p].op = "create" \/ (tx[p].op = "move" /\ Parents[t] # to)
  <2>1. to = tx[p].to /\ status'[t] = "active"
    BY <1>1, <1>5, <1>7, <1>9
  <2>2. A!MayHang(x, y)
    <3>1. CASE to = Top
      BY <1>8, <3>1 DEF A!MayHang
    <3>2. CASE to # Top
      <4>1. to \in Team /\ team[to].status = "active"
        BY <1>1, <1>3, <1>5, <1>9, <2>1, <3>2 DEF Checked, Place
      <4>2. Placed(Parents, Teams, t, to)
        BY <1>1, <1>2, <1>3, <1>9, <2>1, <3>2 DEF PlaceHolds
      <4>3. Fits(Parents, Teams, t, to)
        BY <1>1, <1>6, <4>1, <4>2, PlaceFound, ParentsType
      <4> QED
        BY <1>1, <1>8, <4>1, <4>3, SameTeams DEF A!MayHang
    <3> QED
      BY <3>1, <3>2
  <2>3. CASE tx[p].op = "create"
    <3>1. status[t] = "none" /\ Written(p).status = "active"
      BY <1>1, <1>3, <1>5, <2>3 DEF SeenTeam
    <3>2. A!CreateTeam(x, y)
      BY <1>1, <1>8, <1>7, <2>2, <3>1 DEF A!CreateTeam
    <3> QED
      BY <3>2 DEF A!Next, Place
  <2>4. CASE tx[p].op = "move" /\ Parents[t] # to
    <3>1. status[t] = "active" /\ Written(p).status = "active"
      BY <1>1, <1>3, <1>5, <2>4 DEF SeenTeam
    <3>2. A!MoveTeam(x, y)
      BY <1>1, <1>8, <1>7, <2>2, <2>4, <3>1 DEF A!MoveTeam
    <3> QED
      BY <3>2 DEF A!Next, Place
  <2> QED
    BY <1>9, <2>3, <2>4
<1>10. CASE tx[p].op # "create" /\ Parents[t] = to
  <2>1. Parents' = Parents /\ t \in Teams
    BY <1>1, <1>3, <1>6, <1>7, <1>10 DEF Trees, SeenTeam, Teams, IsTeam
  <2>2. CASE Written(p).status = team[t].status
    <3>1. status' = status
      BY <1>1, <1>7, <2>2
    <3> QED
      BY <2>1, <3>1 DEF A!vars
  <2>3. CASE Written(p).status # team[t].status
    <3>1. tx[p].op \in {"archive", "restore"}
      <4>1. tx[p].op \in {"move", "edit"} => seen.status = "active" /\ Written(p).status = "active"
        BY <1>1, <1>3, <1>5 DEF SeenTeam, Checked
      <4> QED
        BY <1>1, <1>3, <1>10, <2>3, <4>1
    <3>2. CASE tx[p].op = "archive"
      <4>1. status[t] = "active" /\ Written(p).status = "archived" /\ ~HasActiveChild(t)
        BY <1>1, <1>3, <1>5, <2>1, <2>3, <3>2 DEF Checked, Teams, IsTeam
      <4>2. A!ArchiveTeam(x)
        BY <1>1, <1>6, <1>7, <1>8, <2>1, <4>1 DEF A!ArchiveTeam, HasActiveChild
      <4> QED
        BY <4>2 DEF A!Next
    <3>3. CASE tx[p].op = "restore"
      <4>1. status[t] = "archived" /\ Written(p).status = "active"
        BY <1>1, <1>3, <1>5, <2>1, <2>3, <3>3 DEF Teams, IsTeam
      <4>2. to = Top \/ (to \in Team /\ team[to].status = "active")
        BY <1>1, <1>3, <1>5, <3>3 DEF Checked, Place
      <4>3. A!RestoreTeam(x)
        BY <1>1, <1>7, <1>10, <1>8, <2>1, <4>1, <4>2 DEF A!RestoreTeam
      <4> QED
        BY <4>3 DEF A!Next
    <3> QED
      BY <3>1, <3>2, <3>3
  <2> QED
    BY <2>2, <2>3
<1> QED
  BY <1>1, <1>4, <1>5, <1>6, <1>9, <1>10

LEMMA DeleteIsACall ==
    ASSUME TreeInv, NEW t \in Team, DeleteTeam(t)
    PROVE  A!Next
<1> DEFINE status == [s \in Team |-> team[s].status]
<1>1. \A s \in Team : /\ team'[s].parent = team[s].parent
                      /\ team'[s].status = IF s = t THEN "gone" ELSE team[s].status
  BY DEF DeleteTeam, TreeInv, TreeTypeOK, Row
<1>2. Parents' = Parents /\ status' = [status EXCEPT ![t] = "gone"] /\ status[t] = "archived"
  BY <1>1 DEF Parents, DeleteTeam
<1>3. ~\E s \in A!Teams : Parents[s] = t
  BY SameTeams DEF DeleteTeam, HasChild, Teams, Parents
<1> QED
  BY <1>2, <1>3 DEF A!Next, A!DeleteTeam

LEMMA TeamStepIsACall == TreeInv /\ Forest /\ [TreeNext]_treeVars => [A!Next]_A!vars
<1> SUFFICES ASSUME TreeInv, Forest, [TreeNext]_treeVars PROVE [A!Next]_A!vars
  OBVIOUS
<1>1. ASSUME NEW p \in Process, Write(p) PROVE [A!Next]_A!vars
  BY <1>1, WriteIsACall
<1>2. ASSUME NEW t \in Team, DeleteTeam(t) PROVE [A!Next]_A!vars
  BY <1>2, DeleteIsACall
<1>3. CASE /\ ~\E p \in Process : Write(p)
           /\ ~\E t \in Team : DeleteTeam(t)
  <2>1. ASSUME NEW p \in Process, NEW t \in Team, NEW to \in Place, StartCreate(p, t, to) \/ StartMove(p, t, to)
        PROVE  UNCHANGED team
    BY <2>1 DEF StartCreate, StartMove, Starts
  <2>2. ASSUME NEW p \in Process, NEW t \in Team, StartEdit(p, t) \/ StartArchive(p, t) \/ StartRestore(p, t)
        PROVE  UNCHANGED team
    BY <2>2 DEF StartEdit, StartArchive, StartRestore, Starts
  <2>3. ASSUME NEW p \in Process, Steps(p) \/ GivesUp(p), ~Write(p) PROVE UNCHANGED team
    BY <2>3 DEF Steps, TakeLock, ReadRow, LockTree, Check, WriteMissed, GivesUp
  <2>4. UNCHANGED treeVars => UNCHANGED team
    BY DEF treeVars
  <2>5. UNCHANGED team
    BY <1>3, <2>1, <2>2, <2>3, <2>4 DEF TreeNext
  <2> QED
    BY <2>5, SameRows
<1> QED
  BY <1>1, <1>2, <1>3

(* However the statements of calls interleave, break off and start over,   *)
(* what the rows show is what the in-memory storage shows for some order   *)
(* of the same calls: each takes effect at once, where it is allowed, or   *)
(* not at all.  For every number of teams, levels, transactions and        *)
(* attempts.                                                               *)
THEOREM TeamsImplementAtomicTeams == TreeSpec => TeamsAreAtomic
<1>1. TreeInit => TreeInv /\ Forest /\ A!Init
  BY InitIsGood, ForestInit, PlantedIsATree
<1>2. (TreeInv /\ Forest) /\ [TreeNext]_treeVars => (TreeInv /\ Forest)' /\ [A!Next]_A!vars
  BY TreeInductive, ForestStep, TeamStepIsACall
<1> QED
  BY <1>1, <1>2, PTL DEF TreeSpec, TeamsAreAtomic, A!Spec

-----------------------------------------------------------------------------
(***************************************************************************)
(* Support access is held by who may open it, for every number of          *)
(* operators, roles, grants and processes.                                 *)
(*                                                                         *)
(* The argument: every active grant of somebody without the right is in    *)
(* the hands of a call that has not dealt with it (Covered).  A change that *)
(* takes a right away starts such a call in the same step; a call that is  *)
(* done has found no other grant of that identity, and one that is opened  *)
(* meanwhile is in the hands of the call that opens it, which asks again.  *)
(***************************************************************************)
(* A call that will look at the grant, or at its operator, again.          *)
InCharge(c, g) ==
    /\ grant[g].of \in Pending(c)
    /\ call[c].pc \in {"revoke", "recheck", "undo"} /\ call[c].who = grant[g].of => g \in call[c].found

(* Somebody who may open support has it, or a call is in charge of it, or  *)
(* one failed.                                                             *)
Covered(g) ==
    grant[g].state = "active" =>
        \/ MayPlatform(grant[g].of, SupportGrant)
        \/ grant[g].of \in cut
        \/ \E c \in Clerk : InCharge(c, g)

(* The inductive invariant.                                                *)
SupportInv == PlatformTypeOK /\ \A g \in Grant : Covered(g)

(* Types: what a call may be.                                              *)
LEMMA LeftTypes ==
    ASSUME NEW pc \in {"page", "ask", "search", "revoke", "create", "recheck"}, NEW who \in Operator \cup {Nothing},
           NEW role \in CustomRole \cup {Nothing}, NEW todo \in SUBSET Operator, NEW found \in SUBSET Grant,
           pc \in {"create", "page"} => todo = {},
           pc \in {"search", "revoke"} => who \in todo,
           pc \in {"create", "recheck"} => who \in Operator,
           pc = "recheck" => \E g \in Grant : found = {g}
    PROVE  CallTypeOK(Left(pc, who, role, todo, found)) /\ CallTypeOK(Resting)
BY DEF Left, Resting, CallTypeOK

(* Types: one call goes on, and grants keep theirs.                        *)
LEMMA CallTypes ==
    ASSUME PlatformTypeOK, NEW c \in Clerk, NEW left, CallTypeOK(left), call' = [call EXCEPT ![c] = left],
           UNCHANGED <<powers, operator>>, asked' \in Nat, broken' \in Nat, cut' \subseteq Operator,
           grant' \in [Grant -> [state : {"none", "active", "revoked"}, of : Operator \cup {Nothing}]],
           \A g \in Grant : grant'[g].state = "active" => grant'[g] = grant[g] \/ grant'[g].of \in Operator
    PROVE  PlatformTypeOK' /\ call'[c] = left /\ \A d \in Clerk \ {c} : call'[d] = call[d]
<1>1. OperatorTypeOK'
    BY DEF PlatformTypeOK, OperatorTypeOK
<1>2. call'[c] = left /\ DOMAIN call' = Clerk /\ \A d \in Clerk \ {c} : call'[d] = call[d]
    BY DEF PlatformTypeOK
<1>3. \A d \in Clerk : CallTypeOK(call'[d])
    BY <1>2 DEF PlatformTypeOK
<1>4. (\A d \in Clerk : CallTypeOK(call[d]))'
    BY <1>3 DEF CallTypeOK
<1>5. \A g \in Grant : grant'[g].state = "active" => grant'[g].of \in Operator
    BY DEF PlatformTypeOK
<1> QED
    BY <1>1, <1>2, <1>4, <1>5 DEF PlatformTypeOK

(* A step of one call, judged by the grants that call was in charge of and *)
(* by those it opens: rights are as before, and so is what others do.      *)
LEMMA CallStep ==
    ASSUME SupportInv, PlatformTypeOK', NEW c \in Clerk, UNCHANGED <<powers, operator>>, cut \subseteq cut',
           \A d \in Clerk \ {c} : call'[d] = call[d],
           \A g \in Grant : grant'[g].state = "active" =>
               \/ grant[g].state = "active" /\ grant'[g] = grant[g]
               \/ InCharge(c, g)',
           \A g \in Grant : grant'[g].state = "active" /\ grant'[g] = grant[g] /\ InCharge(c, g) =>
               InCharge(c, g)' \/ grant[g].of \in cut' \/ MayPlatform(grant[g].of, SupportGrant)
    PROVE  SupportInv'
<1>1. ASSUME NEW g \in Grant, grant'[g].state = "active", ~InCharge(c, g)'
      PROVE  MayPlatform(grant[g].of, SupportGrant)' \/ grant'[g].of \in cut' \/ \E d \in Clerk : InCharge(d, g)'
  <2>1. grant[g].state = "active" /\ grant'[g] = grant[g] /\ Covered(g)
    BY <1>1 DEF SupportInv
  <2>2. MayPlatform(grant[g].of, SupportGrant) => MayPlatform(grant[g].of, SupportGrant)'
    BY <2>1 DEF MayPlatform, PermissionsOf, PowersOf
  <2>3. ASSUME NEW d \in Clerk \ {c}, InCharge(d, g) PROVE InCharge(d, g)'
    BY <2>1, <2>3 DEF InCharge, Pending
  <2>4. InCharge(c, g) => grant[g].of \in cut' \/ MayPlatform(grant[g].of, SupportGrant)
    BY <1>1, <2>1
  <2> QED
    BY <2>1, <2>2, <2>3, <2>4 DEF Covered
<1>2. ASSUME NEW g \in Grant PROVE Covered(g)'
    BY <1>1 DEF Covered
<1> QED
    BY <1>2 DEF SupportInv

(* What is known of the call a clerk is busy with.                         *)
LEMMA CallShape ==
    ASSUME PlatformTypeOK, NEW c \in Clerk
    PROVE  /\ CallTypeOK(call[c])
           /\ call[c].todo \subseteq Operator /\ call[c].found \subseteq Grant
           /\ \A g \in Grant : grant[g] \in [state : {"none", "active", "revoked"}, of : Operator \cup {Nothing}]
BY DEF PlatformTypeOK, CallTypeOK

(* The call goes on to another identity, or is done.                       *)
LEMMA NextTypes ==
    ASSUME PlatformTypeOK, NEW c \in Clerk, NEW o \in call[c].todo, NextIdentity(c, o)
    PROVE  \E left : /\ CallTypeOK(left) /\ call' = [call EXCEPT ![c] = left]
                     /\ left.todo = call[c].todo \ {o} /\ left.pc \in {"idle", "ask"}
<1>1. call[c].todo \subseteq Operator
    BY CallShape
<1>2. CASE call[c].todo = {o}
  <2>1. call' = [call EXCEPT ![c] = Resting] /\ Resting.todo = call[c].todo \ {o} /\ Resting.pc = "idle"
    BY <1>2 DEF NextIdentity, Resting, Left
  <2>2. CallTypeOK(Resting)
    BY DEF CallTypeOK, Resting, Left
  <2> QED
    BY <2>1, <2>2
<1>3. CASE call[c].todo # {o}
  <2> DEFINE left == Left("ask", Nothing, Nothing, call[c].todo \ {o}, {})
  <2>1. call' = [call EXCEPT ![c] = left]
    BY <1>3 DEF NextIdentity
  <2>2. CallTypeOK(left) /\ left.todo = call[c].todo \ {o} /\ left.pc = "ask"
    BY <1>1 DEF CallTypeOK, Left
  <2> QED
    BY <2>1, <2>2
<1> QED
    BY <1>2, <1>3

(* The holders of the role, read after it changed.                         *)
LEMMA ReadHoldersStep ==
    ASSUME SupportInv, NEW c \in Clerk, ReadHolders(c)
    PROVE  SupportInv'
<1> DEFINE holders == {o \in Operator : call[c].role \in operator[o].roles}
           left == IF holders = {} THEN Resting ELSE Left("ask", Nothing, Nothing, holders, {})
<1>1. call' = [call EXCEPT ![c] = left] /\ call[c].pc = "page" /\ UNCHANGED <<powers, operator, grant, asked, broken, cut>>
    BY DEF ReadHolders
<1>2. CallTypeOK(left) /\ left.todo = holders /\ left.pc \in {"idle", "ask"}
    BY DEF CallTypeOK, Left, Resting
<1> HIDE DEF left
<1>3. PlatformTypeOK' /\ call'[c] = left /\ \A d \in Clerk \ {c} : call'[d] = call[d]
  <2>1. grant' \in [Grant -> [state : {"none", "active", "revoked"}, of : Operator \cup {Nothing}]]
    BY <1>1 DEF SupportInv, PlatformTypeOK
  <2> QED
    BY <1>1, <1>2, <2>1, CallTypes DEF SupportInv, PlatformTypeOK
<1>4. \A g \in Grant : InCharge(c, g) => InCharge(c, g)'
    BY <1>1, <1>2, <1>3 DEF InCharge, Pending
<1> QED
    BY <1>1, <1>3, <1>4, CallStep

(* Asked: who is entitled needs nobody in charge of what they have.        *)
LEMMA AskStep ==
    ASSUME SupportInv, NEW c \in Clerk, NEW o \in Operator, AskEntitled(c, o)
    PROVE  SupportInv'
<1>1. call[c].pc = "ask" /\ o \in call[c].todo /\ UNCHANGED <<powers, operator, grant, asked, broken, cut>>
    BY DEF AskEntitled
<1>2. grant' \in [Grant -> [state : {"none", "active", "revoked"}, of : Operator \cup {Nothing}]]
    BY <1>1 DEF SupportInv, PlatformTypeOK
<1>3. CASE MayPlatform(o, SupportGrant)
  <2>1. PICK left : /\ CallTypeOK(left) /\ call' = [call EXCEPT ![c] = left]
                    /\ left.todo = call[c].todo \ {o} /\ left.pc \in {"idle", "ask"}
    BY <1>1, <1>3, NextTypes DEF AskEntitled, SupportInv
  <2>2. PlatformTypeOK' /\ call'[c] = left /\ \A d \in Clerk \ {c} : call'[d] = call[d]
    BY <1>1, <1>2, <2>1, CallTypes DEF SupportInv, PlatformTypeOK
  <2>3. \A g \in Grant : InCharge(c, g) => InCharge(c, g)' \/ grant[g].of = o
    BY <1>1, <2>1, <2>2 DEF InCharge, Pending
  <2> QED
    BY <1>1, <1>3, <2>2, <2>3, CallStep
<1>4. CASE ~MayPlatform(o, SupportGrant)
  <2> DEFINE left == Left("search", o, Nothing, call[c].todo, {})
  <2>1. call' = [call EXCEPT ![c] = left]
    BY <1>4 DEF AskEntitled
  <2>2. CallTypeOK(left) /\ left.todo = call[c].todo /\ left.pc = "search"
    BY <1>1, CallShape DEF CallTypeOK, Left, SupportInv
  <2> HIDE DEF left
  <2>3. PlatformTypeOK' /\ call'[c] = left /\ \A d \in Clerk \ {c} : call'[d] = call[d]
    BY <1>1, <1>2, <2>1, <2>2, CallTypes DEF SupportInv, PlatformTypeOK
  <2>4. \A g \in Grant : InCharge(c, g) => InCharge(c, g)'
    BY <1>1, <2>2, <2>3 DEF InCharge, Pending
  <2> QED
    BY <1>1, <2>3, <2>4, CallStep
<1> QED
    BY <1>3, <1>4

(* Searched: what was found is all there is.                               *)
LEMMA SearchStep ==
    ASSUME SupportInv, NEW c \in Clerk, SearchGrants(c)
    PROVE  SupportInv'
<1> DEFINE o == call[c].who
           found == {g \in Grant : grant[g] = [state |-> "active", of |-> o]}
<1>1. call[c].pc = "search" /\ o \in call[c].todo /\ UNCHANGED <<powers, operator, grant, asked, broken, cut>>
    BY CallShape DEF SearchGrants, SupportInv, CallTypeOK
<1>2. grant' \in [Grant -> [state : {"none", "active", "revoked"}, of : Operator \cup {Nothing}]]
    BY <1>1 DEF SupportInv, PlatformTypeOK
<1>3. \A g \in Grant : grant[g].state = "active" /\ grant[g].of = o => g \in found
    BY CallShape DEF SupportInv
<1>4. CASE found = {}
  <2>1. PICK left : /\ CallTypeOK(left) /\ call' = [call EXCEPT ![c] = left]
                    /\ left.todo = call[c].todo \ {o} /\ left.pc \in {"idle", "ask"}
    BY <1>1, <1>4, NextTypes DEF SearchGrants, SupportInv
  <2>2. PlatformTypeOK' /\ call'[c] = left /\ \A d \in Clerk \ {c} : call'[d] = call[d]
    BY <1>1, <1>2, <2>1, CallTypes DEF SupportInv, PlatformTypeOK
  <2>3. \A g \in Grant : InCharge(c, g) => InCharge(c, g)' \/ grant[g].of = o
    BY <1>1, <2>1, <2>2 DEF InCharge, Pending
  <2> QED
    BY <1>1, <1>3, <1>4, <2>2, <2>3, CallStep
<1>5. CASE found # {}
  <2> DEFINE left == Left("revoke", o, Nothing, call[c].todo, found)
  <2>1. call' = [call EXCEPT ![c] = left]
    BY <1>5 DEF SearchGrants
  <2>2. CallTypeOK(left) /\ left.todo = call[c].todo /\ left.pc = "revoke" /\ left.found = found /\ left.who = o
    BY <1>1, CallShape DEF CallTypeOK, Left, SupportInv
  <2> HIDE DEF left, found
  <2>3. PlatformTypeOK' /\ call'[c] = left /\ \A d \in Clerk \ {c} : call'[d] = call[d]
    BY <1>1, <1>2, <2>1, <2>2, CallTypes DEF SupportInv, PlatformTypeOK
  <2>4. \A g \in Grant : grant[g].state = "active" /\ InCharge(c, g) => InCharge(c, g)'
    BY <1>1, <1>3, <2>2, <2>3 DEF InCharge, Pending
  <2> QED
    BY <1>1, <2>3, <2>4, CallStep
<1> QED
    BY <1>4, <1>5

(* Revoked: what is left of the found ones is all there is.                *)
LEMMA RevokeStep ==
    ASSUME SupportInv, NEW c \in Clerk, NEW g \in Grant, RevokeFound(c, g)
    PROVE  SupportInv'
<1> DEFINE o == call[c].who
<1>1. /\ call[c].pc = "revoke" /\ o \in call[c].todo /\ g \in call[c].found
      /\ grant' = [grant EXCEPT ![g].state = "revoked"] /\ UNCHANGED <<powers, operator, asked, broken, cut>>
    BY CallShape DEF RevokeFound, SupportInv, CallTypeOK
<1>2. \A h \in Grant : /\ h # g => grant'[h] = grant[h]
                       /\ grant'[g].state = "revoked" /\ grant'[g].of = grant[g].of
    BY <1>1, CallShape DEF SupportInv, PlatformTypeOK
<1>3. grant' \in [Grant -> [state : {"none", "active", "revoked"}, of : Operator \cup {Nothing}]]
    BY <1>1 DEF SupportInv, PlatformTypeOK
<1>4. CASE call[c].found = {g}
  <2>1. PICK left : /\ CallTypeOK(left) /\ call' = [call EXCEPT ![c] = left]
                    /\ left.todo = call[c].todo \ {o} /\ left.pc \in {"idle", "ask"}
    BY <1>1, <1>4, NextTypes DEF RevokeFound, SupportInv
  <2>2. PlatformTypeOK' /\ call'[c] = left /\ \A d \in Clerk \ {c} : call'[d] = call[d]
    BY <1>1, <1>2, <1>3, <2>1, CallTypes DEF SupportInv, PlatformTypeOK
  <2>3. \A h \in Grant \ {g} : InCharge(c, h) => InCharge(c, h)'
    BY <1>1, <1>2, <1>4, <2>1, <2>2 DEF InCharge, Pending
  <2> QED
    BY <1>1, <1>2, <2>2, <2>3, CallStep
<1>5. CASE call[c].found # {g}
  <2> DEFINE left == [call[c] EXCEPT !.found = @ \ {g}]
  <2>1. call' = [call EXCEPT ![c] = left]
    BY <1>1, <1>5 DEF RevokeFound
  <2>2. /\ CallTypeOK(left) /\ left.todo = call[c].todo /\ left.pc = "revoke" /\ left.who = o
        /\ left.found = call[c].found \ {g}
    <3>1. CallTypeOK(call[c])
      BY CallShape DEF SupportInv
    <3>2. left.todo = call[c].todo /\ left.pc = "revoke" /\ left.who = o /\ left.found = call[c].found \ {g}
      BY <1>1, <3>1 DEF CallTypeOK
    <3>3. left \in [pc : {"idle", "page", "ask", "search", "revoke", "create", "recheck", "undo"},
                   who : Operator \cup {Nothing}, role : CustomRole \cup {Nothing},
                   todo : SUBSET Operator, found : SUBSET Grant]
      BY <1>1, <3>1 DEF CallTypeOK
    <3> HIDE DEF left
    <3> QED
      BY <1>1, <3>1, <3>2, <3>3 DEF CallTypeOK
  <2> HIDE DEF left
  <2>3. PlatformTypeOK' /\ call'[c] = left /\ \A d \in Clerk \ {c} : call'[d] = call[d]
    BY <1>1, <1>2, <1>3, <2>1, <2>2, CallTypes DEF SupportInv, PlatformTypeOK
  <2>4. \A h \in Grant \ {g} : InCharge(c, h) => InCharge(c, h)'
    BY <1>1, <1>2, <2>2, <2>3 DEF InCharge, Pending
  <2> QED
    BY <1>1, <1>2, <2>3, <2>4, CallStep
<1> QED
    BY <1>4, <1>5

(* Opened: the call that opened it is in charge of it.                     *)
LEMMA CreateStep ==
    ASSUME SupportInv, NEW c \in Clerk, NEW g \in Grant, CreateGrant(c, g)
    PROVE  SupportInv'
<1> DEFINE left == Left("recheck", call[c].who, Nothing, {}, {g})
           new == [state |-> "active", of |-> call[c].who]
<1>1. /\ call[c].pc = "create" /\ call[c].todo = {} /\ call[c].who \in Operator
      /\ grant' = [grant EXCEPT ![g] = new] /\ call' = [call EXCEPT ![c] = left]
      /\ UNCHANGED <<powers, operator, asked, broken, cut>>
    BY CallShape DEF CreateGrant, SupportInv, CallTypeOK
<1>2. /\ CallTypeOK(left) /\ left.todo = {} /\ left.pc = "recheck"
      /\ left.who = call[c].who /\ left.found = {g}
    BY <1>1 DEF CallTypeOK, Left
<1>3. grant' \in [Grant -> [state : {"none", "active", "revoked"}, of : Operator \cup {Nothing}]]
    BY <1>1 DEF SupportInv, PlatformTypeOK
<1>4. grant'[g] = new /\ \A h \in Grant \ {g} : grant'[h] = grant[h]
    BY <1>1 DEF SupportInv, PlatformTypeOK
<1> HIDE DEF left
<1>5. PlatformTypeOK' /\ call'[c] = left /\ \A d \in Clerk \ {c} : call'[d] = call[d]
    BY <1>1, <1>2, <1>3, <1>4, CallTypes DEF SupportInv, PlatformTypeOK
<1>6. InCharge(c, g)'
    BY <1>2, <1>4, <1>5 DEF InCharge, Pending
<1>7. \A h \in Grant : ~InCharge(c, h)
    BY <1>1 DEF InCharge, Pending
<1> QED
    BY <1>1, <1>4, <1>5, <1>6, <1>7, CallStep

(* Asked once more: who is entitled keeps it.                              *)
LEMMA RecheckStep ==
    ASSUME SupportInv, NEW c \in Clerk, Recheck(c)
    PROVE  SupportInv'
<1> DEFINE o == call[c].who
           left == IF MayPlatform(o, SupportGrant) THEN Resting ELSE [call[c] EXCEPT !.pc = "undo"]
<1>1. /\ call[c].pc = "recheck" /\ call' = [call EXCEPT ![c] = left]
      /\ UNCHANGED <<powers, operator, grant, asked, broken, cut>>
    BY DEF Recheck
<1>2. /\ CallTypeOK(left)
      /\ ~MayPlatform(o, SupportGrant) => left.pc = "undo" /\ left.who = o /\ left.found = call[c].found
  <2>1. CallTypeOK(call[c])
    BY CallShape DEF SupportInv
  <2>2. CASE MayPlatform(o, SupportGrant)
    BY <2>2 DEF CallTypeOK, Resting, Left
  <2>3. CASE ~MayPlatform(o, SupportGrant)
    <3>1. /\ left.pc = "undo" /\ left.who = o /\ left.found = call[c].found /\ left.todo = call[c].todo
          /\ left \in [pc : {"idle", "page", "ask", "search", "revoke", "create", "recheck", "undo"},
                       who : Operator \cup {Nothing}, role : CustomRole \cup {Nothing},
                       todo : SUBSET Operator, found : SUBSET Grant]
      BY <2>1, <2>3 DEF CallTypeOK
    <3> HIDE DEF left
    <3> QED
      BY <1>1, <2>1, <3>1 DEF CallTypeOK
  <2> QED
    BY <2>2, <2>3
<1> HIDE DEF left
<1>3. PlatformTypeOK' /\ call'[c] = left /\ \A d \in Clerk \ {c} : call'[d] = call[d]
    BY <1>1, <1>2, CallTypes DEF SupportInv, PlatformTypeOK
<1>4. \A g \in Grant : InCharge(c, g) => InCharge(c, g)' \/ MayPlatform(grant[g].of, SupportGrant)
    BY <1>1, <1>2, <1>3 DEF InCharge, Pending
<1> QED
    BY <1>1, <1>3, <1>4, CallStep

(* Taken back: the one grant this call opened.                             *)
LEMMA UndoStep ==
    ASSUME SupportInv, NEW c \in Clerk, NEW g \in Grant, UndoGrant(c, g)
    PROVE  SupportInv'
<1>1. /\ call[c].pc = "undo" /\ call[c].found = {g} /\ call' = [call EXCEPT ![c] = Resting]
      /\ grant' = [grant EXCEPT ![g].state = "revoked"] /\ UNCHANGED <<powers, operator, asked, broken, cut>>
    BY CallShape DEF UndoGrant, SupportInv, CallTypeOK
<1>2. CallTypeOK(Resting)
    BY DEF CallTypeOK, Resting, Left
<1>3. grant' \in [Grant -> [state : {"none", "active", "revoked"}, of : Operator \cup {Nothing}]]
    BY <1>1 DEF SupportInv, PlatformTypeOK
<1>4. grant'[g].state = "revoked" /\ \A h \in Grant \ {g} : grant'[h] = grant[h]
    BY <1>1, CallShape DEF SupportInv, PlatformTypeOK
<1>5. PlatformTypeOK' /\ \A d \in Clerk \ {c} : call'[d] = call[d]
    BY <1>1, <1>2, <1>3, <1>4, CallTypes DEF SupportInv, PlatformTypeOK
<1>6. \A h \in Grant \ {g} : ~InCharge(c, h)
    BY <1>1 DEF InCharge, Pending
<1> QED
    BY <1>1, <1>4, <1>5, <1>6, CallStep

(* A call that is about to open a grant is in charge of none.              *)
LEMMA StartGrantStep ==
    ASSUME SupportInv, NEW c \in Clerk, NEW a \in Operator, StartGrant(c, a)
    PROVE  SupportInv'
<1> DEFINE left == Left("create", a, Nothing, {}, {})
<1>1. /\ call[c].pc = "idle" /\ call[c].todo = {} /\ call' = [call EXCEPT ![c] = left]
      /\ asked' = asked + 1 /\ UNCHANGED <<powers, operator, grant, broken, cut>>
    BY CallShape DEF StartGrant, Then, Asks, SupportInv, CallTypeOK
<1>2. CallTypeOK(left) /\ asked' \in Nat
    BY <1>1 DEF CallTypeOK, Left, SupportInv, PlatformTypeOK
<1> HIDE DEF left
<1>3. PlatformTypeOK' /\ \A d \in Clerk \ {c} : call'[d] = call[d]
    BY <1>1, <1>2, CallTypes DEF SupportInv, PlatformTypeOK
<1>4. \A g \in Grant : ~InCharge(c, g)
    BY <1>1 DEF InCharge, Pending
<1> QED
    BY <1>1, <1>3, <1>4, CallStep

(* A call that fails leaves a mark for everybody it had not dealt with.    *)
LEMMA BreaksStep ==
    ASSUME SupportInv, NEW c \in Clerk, Breaks(c)
    PROVE  SupportInv'
<1>1. /\ call' = [call EXCEPT ![c] = Resting] /\ cut' = cut \cup Pending(c) /\ broken' = broken + 1
      /\ UNCHANGED <<powers, operator, grant, asked>>
    BY DEF Breaks
<1>2. CallTypeOK(Resting)
    BY DEF CallTypeOK, Resting, Left
<1>3. Pending(c) \subseteq Operator /\ broken' \in Nat
    BY <1>1, CallShape DEF Pending, SupportInv, CallTypeOK, PlatformTypeOK
<1>4. PlatformTypeOK' /\ \A d \in Clerk \ {c} : call'[d] = call[d]
    BY <1>1, <1>2, <1>3, CallTypes DEF SupportInv, PlatformTypeOK
<1>5. \A g \in Grant : InCharge(c, g) => grant[g].of \in cut'
    BY <1>1 DEF InCharge
<1> QED
    BY <1>1, <1>4, <1>5, CallStep

(* A change of operators and roles, judged by what it does to the rights:  *)
(* who loses theirs is looked at by the call that made the change, and the *)
(* holders of a role another call has yet to read stay or are looked at.   *)
LEMMA ChangeStep ==
    ASSUME SupportInv, PlatformTypeOK', UNCHANGED <<grant, cut>>,
           NEW lost \in SUBSET Operator,
           \A o \in Operator \ lost : MayPlatform(o, SupportGrant) => MayPlatform(o, SupportGrant)',
           \A o \in Operator \ lost : operator[o].roles \subseteq operator'[o].roles,
           \A d \in Clerk : call'[d] = call[d] \/ call[d].pc = "idle",
           lost = {} \/ \E c \in Clerk : lost \subseteq Pending(c)' /\ call'[c].pc \notin {"revoke", "recheck", "undo"}
    PROVE  SupportInv'
<1> SUFFICES ASSUME NEW g \in Grant, grant[g].state = "active" PROVE Covered(g)'
    BY DEF SupportInv, Covered
<1>1. grant[g].of \in Operator /\ grant'[g] = grant[g] /\ Covered(g)
    BY DEF SupportInv, PlatformTypeOK
<1>2. CASE grant[g].of \in lost
  <2>1. \E c \in Clerk : InCharge(c, g)'
    BY <1>1, <1>2 DEF InCharge
  <2> QED
    BY <2>1 DEF Covered
<1>3. CASE grant[g].of \notin lost
  <2>1. MayPlatform(grant[g].of, SupportGrant) => MayPlatform(grant[g].of, SupportGrant)'
    BY <1>1, <1>3
  <2>2. ASSUME NEW d \in Clerk, InCharge(d, g) PROVE InCharge(d, g)'
    <3>1. call[d].pc # "idle" /\ call'[d] = call[d]
      BY <2>2, CallShape DEF InCharge, Pending, SupportInv, CallTypeOK
    <3> QED
      BY <1>1, <1>3, <2>2, <3>1 DEF InCharge, Pending
  <2> QED
    BY <1>1, <2>1, <2>2 DEF Covered
<1> QED
    BY <1>2, <1>3

(* Types: a change of operators and roles, and what is to follow.          *)
LEMMA ChangeTypes ==
    ASSUME PlatformTypeOK, OperatorTypeOK', UNCHANGED <<grant, broken, cut>>, Asks \/ UNCHANGED asked,
           \/ UNCHANGED call
           \/ \E c \in Clerk : \E left : CallTypeOK(left) /\ call' = [call EXCEPT ![c] = left]
    PROVE  PlatformTypeOK'
<1>1. DOMAIN call' = Clerk /\ \A d \in Clerk : CallTypeOK(call'[d])
    BY DEF PlatformTypeOK
<1>2. (\A d \in Clerk : CallTypeOK(call[d]))'
    BY <1>1 DEF CallTypeOK
<1>3. asked' \in Nat
    BY DEF PlatformTypeOK, Asks
<1> QED
    BY <1>1, <1>2, <1>3 DEF PlatformTypeOK

(* Somebody whose membership and roles only grow keeps the right.          *)
LEMMA RightsGrow ==
    ASSUME NEW o \in Operator,
           operator[o].status = "active" => operator'[o].status = "active",
           operator[o].roles \subseteq operator'[o].roles,
           \A r \in operator[o].roles : powers[r] \subseteq powers'[r]
    PROVE  MayPlatform(o, SupportGrant) => MayPlatform(o, SupportGrant)'
BY DEF MayPlatform, PermissionsOf, PowersOf, Covers

(* What is known of the operators.                                         *)
LEMMA OperatorShape ==
    ASSUME OperatorTypeOK, NEW o \in Operator
    PROVE  /\ operator[o] \in [status : {"none", "active", "suspended"}, roles : SUBSET DOMAIN powers]
           /\ operator[o].roles \subseteq DOMAIN powers
BY DEF OperatorTypeOK

(* Changes after which everybody may do at least what they might before.   *)
LEMMA GrowingStep ==
    ASSUME SupportInv, NEW a \in Operator, NEW o \in Operator, NEW r \in PlatformRole, NEW keys \in SUBSET Power,
           NEW roles \in SUBSET DOMAIN powers,
           \/ Bootstrap(o) \/ CreateRole(a, r, keys) \/ DeleteRole(a, r) \/ AddOperator(a, o, roles)
           \/ Reactivate(a, o) \/ (r \in DOMAIN powers /\ AssignPlatformRole(a, o, r))
    PROVE  SupportInv'
<1>1. OperatorTypeOK /\ Power \subseteq PlatformKey /\ All \in PlatformKey /\ UNCHANGED <<grant, call, broken, cut>>
    BY PlatformAssumption DEF SupportInv, PlatformTypeOK, PlatformKey, Bootstrap, CreateRole, DeleteRole, AddOperator,
       Reactivate, AssignPlatformRole
<1>2. /\ OperatorTypeOK'
      /\ \A any \in Operator :
            /\ operator[any].status = "active" => operator'[any].status = "active"
            /\ operator[any].roles \subseteq operator'[any].roles
            /\ \A held \in operator[any].roles : powers[held] \subseteq powers'[held]
  <2>1. CASE Bootstrap(o)
    <3>1. /\ operator' = [operator EXCEPT ![o] = [status |-> "active", roles |-> {AdminRole}]]
          /\ powers' = WithRole(AdminRole, {All})
          /\ \A any \in Operator : operator[any].status = "none"
      BY <2>1 DEF Bootstrap
    <3>2. \A any \in Operator : operator[any].roles = {}
      BY <1>1, <3>1 DEF OperatorTypeOK
    <3> QED
      BY <1>1, <3>1, <3>2 DEF OperatorTypeOK, WithRole, PlatformRole
  <2>2. CASE CreateRole(a, r, keys)
    BY <1>1, <2>2 DEF CreateRole, OperatorTypeOK, WithRole, PlatformRole
  <2>3. CASE DeleteRole(a, r)
    BY <1>1, <2>3 DEF DeleteRole, OperatorTypeOK, PlatformRole
  <2>4. CASE AddOperator(a, o, roles)
    BY <1>1, <2>4 DEF AddOperator, OperatorTypeOK
  <2>5. CASE Reactivate(a, o)
    BY <1>1, <2>5 DEF Reactivate, OperatorTypeOK
  <2>6. CASE r \in DOMAIN powers /\ AssignPlatformRole(a, o, r)
    BY <1>1, <2>6 DEF AssignPlatformRole, OperatorTypeOK
  <2> QED
    BY <2>1, <2>2, <2>3, <2>4, <2>5, <2>6
<1>3. PlatformTypeOK'
    BY <1>1, <1>2, ChangeTypes DEF SupportInv, Bootstrap, CreateRole, DeleteRole, AddOperator, Reactivate, AssignPlatformRole
<1>4. ASSUME NEW any \in Operator PROVE MayPlatform(any, SupportGrant) => MayPlatform(any, SupportGrant)'
  <2>1. /\ operator[any].status = "active" => operator'[any].status = "active"
        /\ operator[any].roles \subseteq operator'[any].roles
        /\ \A held \in operator[any].roles : powers[held] \subseteq powers'[held]
    BY <1>2
  <2> QED
    BY <2>1, RightsGrow
<1> DEFINE lost == {}
<1>5. lost \in SUBSET Operator /\ lost = {} /\ Operator \ lost = Operator
    OBVIOUS
<1> HIDE DEF lost
<1>6. \A any \in Operator \ lost : operator[any].roles \subseteq operator'[any].roles
    BY <1>2, <1>5
<1>7. \A any \in Operator \ lost : MayPlatform(any, SupportGrant) => MayPlatform(any, SupportGrant)'
    BY <1>4, <1>5
<1>8. \A d \in Clerk : call'[d] = call[d] \/ call[d].pc = "idle"
    BY <1>1
<1> QED
    BY <1>1, <1>3, <1>5, <1>6, <1>7, <1>8, ChangeStep

(* Suspended, removed, or a role less: that operator is looked at next.    *)
LEMMA LosingStep ==
    ASSUME SupportInv, NEW c \in Clerk, NEW a \in Operator, NEW o \in Operator, NEW r,
           SuspendOperator(c, a, o) \/ RemoveOperator(c, a, o) \/ UnassignPlatformRole(c, a, o, r)
    PROVE  SupportInv'
<1> DEFINE left == LookAt(o)
           lost == {o}
<1>1. /\ call[c].pc = "idle" /\ call' = [call EXCEPT ![c] = left] /\ Asks
      /\ UNCHANGED <<powers, grant, broken, cut>> /\ OperatorTypeOK
    BY DEF SuspendOperator, RemoveOperator, UnassignPlatformRole, Then, SupportInv, PlatformTypeOK
<1>2. CallTypeOK(left) /\ left.pc = "ask" /\ left.todo = {o}
    BY DEF CallTypeOK, LookAt, Left
<1> HIDE DEF left
<1>3. OperatorTypeOK' /\ \A any \in Operator \ {o} : operator'[any] = operator[any]
  <2>1. CASE SuspendOperator(c, a, o)
    BY <1>1, <2>1 DEF SuspendOperator, OperatorTypeOK
  <2>2. CASE RemoveOperator(c, a, o)
    BY <1>1, <2>2 DEF RemoveOperator, OperatorTypeOK
  <2>3. CASE UnassignPlatformRole(c, a, o, r)
    BY <1>1, <2>3 DEF UnassignPlatformRole, OperatorTypeOK
  <2> QED
    BY <2>1, <2>2, <2>3
<1>4. PlatformTypeOK'
    BY <1>1, <1>2, <1>3, ChangeTypes DEF SupportInv
<1>5. call'[c] = left /\ \A d \in Clerk \ {c} : call'[d] = call[d]
    BY <1>1 DEF SupportInv, PlatformTypeOK
<1>6. lost \in SUBSET Operator /\ lost \subseteq Pending(c)' /\ call'[c].pc \notin {"revoke", "recheck", "undo"}
    BY <1>2, <1>5 DEF Pending
<1>7. \A any \in Operator \ lost : operator'[any] = operator[any]
    BY <1>3
<1> HIDE DEF lost
<1>8. ASSUME NEW any \in Operator \ lost PROVE MayPlatform(any, SupportGrant) => MayPlatform(any, SupportGrant)'
  <2>1. operator'[any] = operator[any] /\ powers' = powers
    BY <1>1, <1>7
  <2> QED
    BY <2>1, RightsGrow
<1>9. \A any \in Operator \ lost : operator[any].roles \subseteq operator'[any].roles
    BY <1>7
<1>10. \A d \in Clerk : call'[d] = call[d] \/ call[d].pc = "idle"
    BY <1>1, <1>5
<1> QED
    BY <1>1, <1>4, <1>6, <1>8, <1>9, <1>10, ChangeStep

(* A role with other permissions: its holders are looked at next.          *)
LEMMA UpdateStep ==
    ASSUME SupportInv, NEW c \in Clerk, NEW a \in Operator, NEW r \in CustomRole, r \in DOMAIN powers,
           NEW keys \in SUBSET Power, UpdateRole(c, a, r, keys)
    PROVE  SupportInv'
<1> DEFINE left == Left("page", Nothing, r, {}, {})
           lost == {o \in Operator : r \in operator[o].roles}
<1>1. /\ call[c].pc = "idle" /\ call' = [call EXCEPT ![c] = left] /\ Asks /\ powers' = [powers EXCEPT ![r] = keys]
      /\ UNCHANGED <<operator, grant, broken, cut>> /\ OperatorTypeOK /\ Power \subseteq PlatformKey
    BY PlatformAssumption DEF UpdateRole, Then, SupportInv, PlatformTypeOK
<1>2. CallTypeOK(left) /\ left.pc = "page" /\ left.role = r
    BY DEF CallTypeOK, Left
<1> HIDE DEF left
<1>3. OperatorTypeOK'
    BY <1>1 DEF OperatorTypeOK
<1>4. PlatformTypeOK'
    BY <1>1, <1>2, <1>3, ChangeTypes DEF SupportInv
<1>5. call'[c] = left /\ \A d \in Clerk \ {c} : call'[d] = call[d]
    BY <1>1 DEF SupportInv, PlatformTypeOK
<1>6. lost \in SUBSET Operator /\ lost \subseteq Pending(c)' /\ call'[c].pc \notin {"revoke", "recheck", "undo"}
    BY <1>1, <1>2, <1>5 DEF Pending
<1>7. ASSUME NEW any \in Operator \ lost PROVE MayPlatform(any, SupportGrant) => MayPlatform(any, SupportGrant)'
  <2>1. operator'[any] = operator[any] /\ \A held \in operator[any].roles : powers[held] \subseteq powers'[held]
    BY <1>1, OperatorShape DEF OperatorTypeOK
  <2> QED
    BY <2>1, RightsGrow
<1> HIDE DEF lost
<1>8. \A any \in Operator \ lost : operator[any].roles \subseteq operator'[any].roles
    BY <1>1
<1>9. \A d \in Clerk : call'[d] = call[d] \/ call[d].pc = "idle"
    BY <1>1, <1>5
<1> QED
    BY <1>1, <1>4, <1>6, <1>7, <1>8, <1>9, ChangeStep

(* A grant ended on request is one grant less to be in charge of.          *)
LEMMA RevokeSupportStep ==
    ASSUME SupportInv, NEW a \in Operator, NEW g \in Grant, RevokeSupport(a, g)
    PROVE  SupportInv'
<1>1. grant' = [grant EXCEPT ![g].state = "revoked"] /\ Asks /\ UNCHANGED <<powers, operator, call, broken, cut>>
    BY DEF RevokeSupport
<1>2. /\ grant' \in [Grant -> [state : {"none", "active", "revoked"}, of : Operator \cup {Nothing}]]
      /\ grant'[g].state = "revoked" /\ \A h \in Grant \ {g} : grant'[h] = grant[h]
    BY <1>1, CallShape DEF SupportInv, PlatformTypeOK
<1>3. PlatformTypeOK'
    BY <1>1, <1>2 DEF SupportInv, PlatformTypeOK, OperatorTypeOK, CallTypeOK, Asks
<1>4. ASSUME NEW h \in Grant PROVE Covered(h)'
  <2>1. CASE h = g
    BY <1>2, <2>1 DEF Covered
  <2>2. CASE h # g
    <3>1. grant'[h] = grant[h] /\ Covered(h)
      BY <1>2, <2>2 DEF SupportInv
    <3>2. \A d \in Clerk : InCharge(d, h) => InCharge(d, h)'
      BY <1>1, <3>1 DEF InCharge, Pending
    <3>3. MayPlatform(grant[h].of, SupportGrant) => MayPlatform(grant[h].of, SupportGrant)'
      BY <1>1, <3>1 DEF MayPlatform, PermissionsOf, PowersOf
    <3> QED
      BY <1>1, <3>1, <3>2, <3>3 DEF Covered
  <2> QED
    BY <2>1, <2>2
<1> QED
    BY <1>3, <1>4 DEF SupportInv

(* Nothing is there yet.                                                   *)
LEMMA PlatformInitIsGood == PlatformInit => SupportInv
<1> SUFFICES ASSUME PlatformInit PROVE SupportInv
    OBVIOUS
<1>1. OperatorTypeOK
    BY DEF PlatformInit, OperatorTypeOK
<1>2. \A c \in Clerk : CallTypeOK(call[c])
    BY DEF PlatformInit, CallTypeOK, Resting, Left
<1>3. PlatformTypeOK
    BY <1>1, <1>2 DEF PlatformInit, PlatformTypeOK
<1>4. \A g \in Grant : Covered(g)
    BY DEF PlatformInit, Covered
<1> QED
    BY <1>3, <1>4 DEF SupportInv

(* Every action keeps the invariant.                                       *)
THEOREM PlatformInductive == SupportInv /\ [PlatformNext]_platformVars => SupportInv'
<1> SUFFICES ASSUME SupportInv, [PlatformNext]_platformVars PROVE SupportInv'
    OBVIOUS
<1>1. AdminRole \in PlatformRole /\ CustomRole \subseteq PlatformRole /\ {} \in SUBSET Power /\ {} \in SUBSET DOMAIN powers
      /\ DOMAIN powers \subseteq PlatformRole
    BY DEF PlatformRole, SupportInv, PlatformTypeOK, OperatorTypeOK
<1>2. ASSUME NEW a \in Operator, NEW o \in Operator, Bootstrap(o) \/ Reactivate(a, o) PROVE SupportInv'
  <2>1. \/ Bootstrap(o) \/ CreateRole(a, AdminRole, {}) \/ DeleteRole(a, AdminRole) \/ AddOperator(a, o, {})
        \/ Reactivate(a, o) \/ (AdminRole \in DOMAIN powers /\ AssignPlatformRole(a, o, AdminRole))
    BY <1>2
  <2> QED
    BY <1>1, <2>1, GrowingStep
<1>3. ASSUME NEW a \in Operator, NEW o \in Operator, NEW roles \in SUBSET DOMAIN powers, AddOperator(a, o, roles)
      PROVE  SupportInv'
  <2>1. \/ Bootstrap(o) \/ CreateRole(a, AdminRole, {}) \/ DeleteRole(a, AdminRole) \/ AddOperator(a, o, roles)
        \/ Reactivate(a, o) \/ (AdminRole \in DOMAIN powers /\ AssignPlatformRole(a, o, AdminRole))
    BY <1>3
  <2> QED
    BY <1>1, <2>1, GrowingStep
<1>4. ASSUME NEW a \in Operator, NEW o \in Operator, NEW r \in DOMAIN powers, AssignPlatformRole(a, o, r) PROVE SupportInv'
  <2>1. \/ Bootstrap(o) \/ CreateRole(a, r, {}) \/ DeleteRole(a, r) \/ AddOperator(a, o, {})
        \/ Reactivate(a, o) \/ (r \in DOMAIN powers /\ AssignPlatformRole(a, o, r))
    BY <1>4
  <2> QED
    BY <1>1, <2>1, GrowingStep
<1>5. ASSUME NEW a \in Operator, NEW o \in Operator, NEW r \in CustomRole, NEW keys \in SUBSET Power, CreateRole(a, r, keys) \/ DeleteRole(a, r)
      PROVE  SupportInv'
  <2>1. \/ Bootstrap(o) \/ CreateRole(a, r, keys) \/ DeleteRole(a, r) \/ AddOperator(a, o, {})
        \/ Reactivate(a, o) \/ (r \in DOMAIN powers /\ AssignPlatformRole(a, o, r))
    BY <1>5
  <2> QED
    BY <1>1, <2>1, GrowingStep
<1>6. ASSUME NEW a \in Operator, NEW o \in Operator, NEW c \in Clerk, NEW r \in operator[o].roles,
             UnassignPlatformRole(c, a, o, r)
      PROVE  SupportInv'
    BY <1>6, LosingStep
<1>7. ASSUME NEW a \in Operator, NEW o \in Operator, NEW c \in Clerk, SuspendOperator(c, a, o) \/ RemoveOperator(c, a, o)
      PROVE  SupportInv'
    BY <1>7, LosingStep
<1>8. ASSUME NEW a \in Operator, NEW c \in Clerk, NEW r \in CustomRole, NEW keys \in SUBSET Power,
             r \in DOMAIN powers, UpdateRole(c, a, r, keys)
      PROVE  SupportInv'
    BY <1>8, UpdateStep
<1>9. ASSUME NEW a \in Operator, NEW c \in Clerk, StartGrant(c, a) PROVE SupportInv'
    BY <1>9, StartGrantStep
<1>10. ASSUME NEW a \in Operator, NEW g \in Grant, RevokeSupport(a, g) PROVE SupportInv'
    BY <1>10, RevokeSupportStep
<1>11. ASSUME NEW c \in Clerk, Goes(c) PROVE SupportInv'
    BY <1>11, ReadHoldersStep, SearchStep, RecheckStep, AskStep, RevokeStep, CreateStep, UndoStep DEF Goes
<1>12. ASSUME NEW c \in Clerk, Breaks(c) PROVE SupportInv'
    BY <1>12, BreaksStep
<1>13. CASE UNCHANGED platformVars
  <2>1. PlatformTypeOK'
    BY <1>13 DEF platformVars, SupportInv, PlatformTypeOK, OperatorTypeOK, CallTypeOK
  <2>2. ASSUME NEW g \in Grant PROVE Covered(g)'
    <3>1. Covered(g)
      BY DEF SupportInv
    <3> QED
      BY <1>13, <3>1 DEF platformVars, Covered, InCharge, Pending, MayPlatform, PermissionsOf, PowersOf
  <2> QED
    BY <2>1, <2>2 DEF SupportInv
<1> QED
    BY <1>2, <1>3, <1>4, <1>5, <1>6, <1>7, <1>8, <1>9, <1>10, <1>11, <1>12, <1>13 DEF PlatformNext

(* The types of operators, roles, grants and calls in flight.              *)
THEOREM PlatformTypeCorrect == PlatformSpec => []PlatformTypeOK
<1>1. SupportInv => PlatformTypeOK
    BY DEF SupportInv
<1> QED
    BY <1>1, PlatformInitIsGood, PlatformInductive, PTL DEF PlatformSpec

(* Whoever has support access may open it, or a call that will look at it  *)
(* is under way, or such a call failed half way: whatever is suspended,    *)
(* removed, unassigned, edited or opened meanwhile.                        *)
THEOREM SupportOutlivesNothing == PlatformSpec => []SupportIsEntitled
<1>1. SupportInv => SupportIsEntitled
  <2> SUFFICES ASSUME SupportInv, NEW o \in Operator, NEW g \in Grant, grant[g] = [state |-> "active", of |-> o]
               PROVE  MayPlatform(o, SupportGrant) \/ o \in cut \/ \E c \in Clerk : o \in Pending(c)
    BY DEF SupportIsEntitled, HasSupport
  <2>1. Covered(g) /\ grant[g].state = "active" /\ grant[g].of = o
    BY DEF SupportInv
  <2> QED
    BY <2>1 DEF Covered, InCharge
<1> QED
    BY <1>1, PlatformInitIsGood, PlatformInductive, PTL DEF PlatformSpec
=============================================================================
