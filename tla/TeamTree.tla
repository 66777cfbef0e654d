------------------------------ MODULE TeamTree ------------------------------
(***************************************************************************)
(* The tree of teams of one organization on PostgreSQL: createTeam,        *)
(* updateTeam, archiveTeam, restoreTeam and deleteTeam of the team service *)
(* over the team repository, statement by statement (READ COMMITTED).      *)
(*                                                                         *)
(* A call is one transaction: the service may take its advisory lock of    *)
(* the tree, the repository reads the row (`mutate`), takes a lock of its  *)
(* own (the same name under another hash, so another lock), checks the     *)
(* place it is about to take, and writes guarded by the version it read;   *)
(* when somebody got in between it starts over.  The write is the last     *)
(* statement about the tree, so write and commit are one step.             *)
(*                                                                         *)
(* Names, slugs, metadata and pinned versions are not modelled, and a      *)
(* permission is either granted or refused.  AtomicTeams has the same calls *)
(* in one step each.                                                       *)
(***************************************************************************)
EXTENDS TeamPlacement

CONSTANTS
    Process,    \* transactions that may run at once
    Nobody,     \* the lock of the tree is free
    Planted,    \* the trees the organization may start with: created team -> its parent
    Attempts,   \* attempts of `mutate`
    MaxChanges  \* bound: calls started

ASSUME TreeAssumption ==
    /\ Top \notin Team /\ Nobody \notin Process /\ IsFiniteSet(Team)
    /\ \A tree \in Planted :
          /\ DOMAIN tree \subseteq Team
          /\ \A t \in DOMAIN tree : tree[t] \in DOMAIN tree \cup {Top}
          /\ IsTree([t \in Team |-> IF t \in DOMAIN tree THEN tree[t] ELSE Top], DOMAIN tree)
    /\ MaxDepth \in Nat \ {0} /\ Attempts \in Nat \ {0} /\ MaxChanges \in Nat

VARIABLES
    team,       \* team id -> [status, parent, version]
    treeLock,   \* the process holding the lock of the service, or Nobody
    rowsLock,   \* the process holding the lock of the repository, or Nobody
    tx,         \* process -> its transaction
    changes     \* calls started (bound)

treeVars == <<team, treeLock, rowsLock, tx, changes>>

Place == Team \cup {Top}
Row == [status : {"none", "active", "archived", "gone"}, parent : Place, version : Nat]
Idle == [pc |-> "idle"]
Tx == {Idle} \cup
      [pc : {"lock", "read", "relock", "check", "write"}, op : {"create", "move", "edit", "archive", "restore"},
       team : Team, to : Place, seen : Row, tries : Nat]

(* Types; and a lock belongs to a transaction that runs.                   *)
TreeTypeOK ==
    /\ team \in [Team -> Row]
    /\ treeLock \in Process \cup {Nobody} /\ rowsLock \in Process \cup {Nobody}
    /\ tx \in [Process -> Tx]
    /\ changes \in Nat
    /\ \A p \in Process : tx[p] = Idle => p \notin {treeLock, rowsLock}

IsTeam(t) == team[t].status \in {"active", "archived"}

Parents == [t \in Team |-> team[t].parent]

Teams == {t \in Team : IsTeam(t)}

(* assertTeamPlacement over placementFacts.                                *)
MayBePlaced(t, p) == team[p].status = "active" /\ Fits(Parents, Teams, t, p)

HasActiveChild(t) == \E s \in Team : team[s].parent = t /\ team[s].status = "active"

HasChild(t) == \E s \in Team : team[s].parent = t /\ IsTeam(s)

(***************************************************************************)
(* Starting a call.                                                        *)
(***************************************************************************)
Starts(p, op, t, to, pc) ==
    /\ tx[p] = Idle
    /\ changes < MaxChanges
    /\ changes' = changes + 1
    /\ tx' = [tx EXCEPT ![p] = [pc |-> pc, op |-> op, team |-> t, to |-> to, seen |-> team[t], tries |-> 0]]
    /\ UNCHANGED <<team, treeLock, rowsLock>>

StartCreate(p, t, to) ==
    /\ team[t].status = "none"
    /\ Starts(p, "create", t, to, IF to = Top THEN "write" ELSE "lock")

(* updateTeam reads the row before any lock: only when the parent differs   *)
(* does it take the lock and ask for the permission over the destination.  *)
StartMove(p, t, to) ==
    /\ IsTeam(t)
    /\ IF team[t].parent # to THEN Starts(p, "move", t, to, "lock")
                              ELSE Starts(p, "move", t, to, "read")

(* A change of name: no lock and no new place.                             *)
StartEdit(p, t) == IsTeam(t) /\ Starts(p, "edit", t, team[t].parent, "read")

StartArchive(p, t) == IsTeam(t) /\ Starts(p, "archive", t, Top, "lock")

StartRestore(p, t) == IsTeam(t) /\ Starts(p, "restore", t, Top, "lock")

(***************************************************************************)
(* The steps of a call.                                                    *)
(***************************************************************************)
At(p, pc) == tx[p] # Idle /\ tx[p].pc = pc

GoTo(p, pc) == tx' = [tx EXCEPT ![p].pc = pc]

(* Mutant: the repository's lock belongs to the session.                   *)
Ends_sessionLock(p) ==
    /\ tx' = [tx EXCEPT ![p] = Idle]
    /\ treeLock' = IF treeLock = p THEN Nobody ELSE treeLock
    /\ UNCHANGED rowsLock

(* Commit, rollback or refusal: the locks go with the transaction.         *)
Ends(p) ==
    /\ tx' = [tx EXCEPT ![p] = Idle]
    /\ treeLock' = IF treeLock = p THEN Nobody ELSE treeLock
    /\ rowsLock' = IF rowsLock = p THEN Nobody ELSE rowsLock

TakeLock(p) ==
    /\ At(p, "lock") /\ treeLock = Nobody
    /\ treeLock' = p
    /\ GoTo(p, IF tx[p].op = "create" THEN "relock" ELSE "read")
    /\ UNCHANGED <<team, rowsLock, changes>>

(* Mutant: archived teams are changed like others.                         *)
NothingToDo_archivedToo(p) ==
    LET row == team[tx[p].team]
    IN  \/ ~IsTeam(tx[p].team)
        \/ tx[p].op = "move" /\ row.parent = tx[p].to
        \/ tx[p].op = "restore" /\ row.status = "active"

(* What `mutate` reads may leave nothing to do, or nothing allowed.        *)
NothingToDo(p) ==
    LET row == team[tx[p].team]
    IN  \/ ~IsTeam(tx[p].team)
        \/ tx[p].op \in {"move", "edit", "archive"} /\ row.status = "archived"
        \/ tx[p].op = "move" /\ row.parent = tx[p].to
        \/ tx[p].op = "restore" /\ row.status = "active"

(* The place of a team that goes to the top, or stays, is not checked.     *)
NoPlaceToCheck(p) ==
    \/ tx[p].op = "edit"
    \/ tx[p].op = "move" /\ tx[p].to = Top
    \/ tx[p].op = "restore" /\ team[tx[p].team].parent = Top

ReadRow(p) ==
    /\ At(p, "read")
    /\ IF NothingToDo(p)
       THEN Ends(p)
       ELSE /\ tx' = [tx EXCEPT ![p] = [tx[p] EXCEPT !.pc = IF NoPlaceToCheck(p) THEN "write" ELSE "relock",
                                                    !.seen = team[tx[p].team]]]
            /\ UNCHANGED <<treeLock, rowsLock>>
    /\ UNCHANGED <<team, changes>>

RowsLockFree_skipped(p) == TRUE     \* mutant

(* lockTree: an attempt that starts over holds it already.                 *)
RowsLockFree(p) == rowsLock \in {Nobody, p}

LockTree(p) ==
    /\ At(p, "relock") /\ RowsLockFree(p)
    /\ rowsLock' = p
    /\ GoTo(p, "check")
    /\ UNCHANGED <<team, treeLock, changes>>

MayProceed(p) ==
    \/ tx[p].op \in {"create", "move"} /\ MayBePlaced(tx[p].team, tx[p].to)
    \/ tx[p].op = "archive" /\ ~HasActiveChild(tx[p].team)
    \/ tx[p].op = "restore" /\ team[tx[p].seen.parent].status = "active"

Check(p) ==
    /\ At(p, "check")
    /\ IF MayProceed(p) THEN GoTo(p, "write") /\ UNCHANGED <<treeLock, rowsLock>> ELSE Ends(p)
    /\ UNCHANGED <<team, changes>>

(* The row as the statement leaves it.                                     *)
Written(p) ==
    [status |-> IF tx[p].op = "archive" THEN "archived" ELSE "active",
     parent |-> IF tx[p].op \in {"create", "move"} THEN tx[p].to ELSE tx[p].seen.parent,
     version |-> tx[p].seen.version + 1]

(* Mutant: the update is not guarded by the version that was read.         *)
Unchanged_anyVersion(p) == team[tx[p].team].status = tx[p].seen.status

(* The guard of the write: the row is the one that was read, for an insert *)
(* none; and the parent it names still exists (teams_parent_fk).           *)
Unchanged(p) ==
    /\ team[tx[p].team].status = tx[p].seen.status
    /\ team[tx[p].team].version = tx[p].seen.version

ParentExists(p) == Written(p).parent \in {Top} \cup {s \in Team : IsTeam(s)}

Write(p) ==
    /\ At(p, "write")
    /\ Unchanged(p) /\ ParentExists(p)
    /\ team' = [team EXCEPT ![tx[p].team] = Written(p)]
    /\ Ends(p)
    /\ UNCHANGED changes

(* Somebody got in between: start over, up to five times.                  *)
WriteMissed(p) ==
    /\ At(p, "write")
    /\ ~(Unchanged(p) /\ ParentExists(p))
    /\ IF tx[p].op # "create" /\ ParentExists(p) /\ tx[p].tries + 1 < Attempts
       THEN /\ tx' = [tx EXCEPT ![p] = [tx[p] EXCEPT !.pc = "read", !.tries = @ + 1]]
            /\ UNCHANGED <<treeLock, rowsLock>>
       ELSE Ends(p)
    /\ UNCHANGED <<team, changes>>

(* A permission is refused, the connection breaks or the process dies.     *)
GivesUp(p) == tx[p] # Idle /\ Ends(p) /\ UNCHANGED <<team, changes>>

(* deleteTeam is one guarded statement and takes no lock.                  *)
DeleteTeam(t) ==
    /\ team[t].status = "archived"
    /\ ~HasChild(t)
    /\ team' = [team EXCEPT ![t].status = "gone"]
    /\ UNCHANGED <<treeLock, rowsLock, tx, changes>>

(* The teams of a planted tree are active, the others still to be created. *)
TreeInit ==
    /\ \E tree \in Planted :
          team = [t \in Team |-> IF t \in DOMAIN tree
                                THEN [status |-> "active", parent |-> tree[t], version |-> 1]
                                ELSE [status |-> "none", parent |-> Top, version |-> 0]]
    /\ treeLock = Nobody /\ rowsLock = Nobody
    /\ tx = [p \in Process |-> Idle]
    /\ changes = 0

Steps(p) == TakeLock(p) \/ ReadRow(p) \/ LockTree(p) \/ Check(p) \/ Write(p) \/ WriteMissed(p)

TreeNext ==
    \/ \E p \in Process :
         \/ \E t \in Team, to \in Place : StartCreate(p, t, to) \/ StartMove(p, t, to)
         \/ \E t \in Team : StartEdit(p, t) \/ StartArchive(p, t) \/ StartRestore(p, t)
         \/ Steps(p) \/ GivesUp(p)
    \/ \E t \in Team : DeleteTeam(t)

(* The database serves a statement that can run, and a waiting lock in     *)
(* turn: each transaction takes its next step in the end.                  *)
TreeSpec == TreeInit /\ [][TreeNext]_treeVars /\ \A p \in Process : SF_treeVars(Steps(p))

(***************************************************************************)
(* Properties.                                                             *)
(***************************************************************************)

(* Two moves that are each fine alone never close a loop together, and no  *)
(* team ends deeper than MAX_TEAM_DEPTH, whatever moves with it.           *)
TreeStaysATree == IsTree(Parents, Teams)

(* An active team hangs from an active team or from the top: archiving,    *)
(* restoring, moving and creating agree about it however they overlap.     *)
ActiveUnderActive ==
    \A t \in Team : team[t].status = "active" => team[t].parent = Top \/ team[team[t].parent].status = "active"

(* Reads, locks, checks and guarded writes together are calls of the        *)
(* in-memory storage: each takes effect in one step, when all that it       *)
(* checked is true, or not at all.                                         *)
A == INSTANCE AtomicTeams WITH status <- [t \in Team |-> team[t].status], parentOf <- Parents

TeamsAreAtomic == A!Spec

(* Every call ends: retries are bounded and the lock comes free.           *)
TreeCallsEnd == \A p \in Process : (tx[p] # Idle) ~> (tx[p] = Idle)
=============================================================================
