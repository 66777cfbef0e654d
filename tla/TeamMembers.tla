----------------------------- MODULE TeamMembers -----------------------------
(***************************************************************************)
(* Who is in which team, in PostgreSQL.  The rows of one member of the     *)
(* organization, one per team, and the transactions of the team service    *)
(* that add, move, suspend and remove them, or change what they hold there. *)
(* Each statement sees what was committed before it; a row that was changed *)
(* is locked until its transaction ends, and who waited for it writes only *)
(* if its version is still the one that was read.                          *)
(*                                                                         *)
(* The permissions each call needs, responsibilities (a label) and reasons *)
(* are left out; that the member, the roles and the team exist is assumed. *)
(***************************************************************************)
EXTENDS Naturals

CONSTANTS
    Branch,       \* teams
    TeamRole,
    Editor,       \* transactions that may run at once
    Retries,      \* attempts of one change
    MaxJobs       \* bound: calls

ASSUME MembersAssumption == Retries \in Nat \ {0} /\ MaxJobs \in Nat

VARIABLES
    open,         \* teams that are active, not archived
    place,        \* team -> the row of the member: [status, roles, version]
    job,          \* transaction -> how far it is
    jobs          \* calls made (bound)

mvars == <<open, place, job, jobs>>

MemberStatus == {"none", "pending", "active", "suspended", "removed"}
MemberRow == [status : MemberStatus, roles : SUBSET TeamRole, version : Nat]

(* `seen`: the row as it was read; `found`: the versions of source and     *)
(* destination when they were looked up.  `mine`: the rows the transaction *)
(* has written, and nobody else sees yet.                                  *)
Job == [op : {"add", "invite", "move", "accept", "suspend", "reactivate", "remove", "assign", "unassign"},
        at : Branch, from : Branch, role : TeamRole]

NoJob == [pc |-> "idle", mine |-> <<>>]

(* A transaction that has written the rows of `written`.                   *)
JobOn(written) ==
    [pc : {"source", "team", "look", "write", "read", "update", "commit"}, call : Job,
     mine : [written -> MemberRow], seen : MemberRow, found : [from : Nat, at : Nat], tries : 0 .. Retries]

MembersTypeOK ==
    /\ open \subseteq Branch
    /\ place \in [Branch -> MemberRow]
    /\ DOMAIN job = Editor
    /\ \A e \in Editor : job[e] = NoJob \/ \E written \in SUBSET Branch : job[e] \in JobOn(written)
    /\ jobs \in Nat

(***************************************************************************)
(* The transaction.                                                        *)
(***************************************************************************)
Joining == {"add", "invite", "move"}

(* The row the change is about: a move first adds and then removes.        *)
Subject(e) == IF job[e].call.op = "move" /\ job[e].pc \in {"read", "update"} THEN job[e].call.from ELSE job[e].call.at

Reads(e) == place[Subject(e)]

Step(e, pc) == job' = [job EXCEPT ![e].pc = pc]

(* Returning without a change, or an error: what was written is undone.    *)
Leave(e) == job' = [job EXCEPT ![e] = NoJob]

Unseen == UNCHANGED <<open, place, jobs>>

StartJob(e, call) ==
    /\ job[e] = NoJob /\ jobs < MaxJobs /\ jobs' = jobs + 1
    /\ call.op = "move" <=> call.at # call.from
    /\ job' = [job EXCEPT ![e] = [pc |-> CASE call.op = "move" -> "source" [] call.op \in {"add", "invite"} -> "team"
                                           [] OTHER -> "read",
                                  call |-> call, mine |-> <<>>, seen |-> place[call.at],
                                  found |-> [from |-> 0, at |-> 0], tries |-> 0]]
    /\ UNCHANGED <<open, place>>

(* moveMember: the member must be in the source team.                      *)
FindSource(e) ==
    /\ job[e].pc = "source"
    /\ LET from == place[job[e].call.from]
       IN  IF from.status \in {"none", "removed"} THEN Leave(e)
           ELSE job' = [job EXCEPT ![e] = [@ EXCEPT !.pc = "team", !.found.from = from.version]]
    /\ Unseen

(* add: an archived team accepts no new members.                           *)
FindTeam(e) ==
    /\ job[e].pc = "team"
    /\ IF job[e].call.at \in open THEN Step(e, "look") ELSE Leave(e)
    /\ Unseen

(* An attempt: what is read decides, and is what the write compares with.  *)
Deciding(e, pc) == [job[e] EXCEPT !.pc = pc, !.seen = Reads(e), !.tries = @ + 1]

(* Whoever is in the team already is refused.                              *)
FindPlace(e) ==
    /\ job[e].pc = "look"
    /\ IF Reads(e).status \in {"none", "removed"}
         THEN job' = [job EXCEPT ![e] = [Deciding(e, "write") EXCEPT !.found.at = Reads(e).version]]
         ELSE Leave(e)
    /\ Unseen

(* Another transaction has written the row and not ended: wait.            *)
Free(e) == \A o \in Editor \ {e} : Subject(e) \notin DOMAIN job[o].mine

(* Mutant: the statement does not look whether the row changed meanwhile.  *)
AsSeen_anyVersion(e) == TRUE

AsSeen(e) == Reads(e).version = job[e].seen.version /\ Reads(e).status = job[e].seen.status

Writes(e, status, roles) ==
    [b \in DOMAIN job[e].mine \cup {Subject(e)} |->
        IF b = Subject(e) THEN [status |-> status, roles |-> roles, version |-> Reads(e).version + 1] ELSE job[e].mine[b]]

HasWritten(e, pc, status, roles) == [job[e] EXCEPT !.pc = pc, !.mine = Writes(e, status, roles), !.tries = 0]

AfterAdd(e) == IF job[e].call.op = "move" THEN "read" ELSE "commit"

Added == [add |-> "active", invite |-> "pending", move |-> "active"]

(* A move gives no role.                                                   *)
Given(e) == IF job[e].call.op = "move" THEN {{}} ELSE {{}, {job[e].call.role}}

(* A member who was removed comes back on the same row, with one more role *)
(* or none.  A role that is there meanwhile ends the transaction.          *)
Revive(e) ==
    /\ job[e].pc = "write" /\ job[e].seen.status = "removed" /\ AsSeen(e) /\ Free(e)
    /\ \E given \in Given(e) :
          IF given \cap Reads(e).roles # {} THEN Leave(e)
          ELSE job' = [job EXCEPT ![e] = HasWritten(e, AfterAdd(e), Added[job[e].call.op], Reads(e).roles \cup given)]
    /\ Unseen

(* The row has changed, and the statement writes nothing.  It does not say *)
(* so: the row is read again, and one version more is taken for its own,   *)
(* whoever wrote it and whatever it says.                                  *)
MissToRevive(e) ==
    /\ job[e].pc = "write" /\ job[e].seen.status = "removed" /\ ~AsSeen(e)
    /\ CASE Reads(e).version = job[e].seen.version + 1 ->
               job' = [job EXCEPT ![e] = [@ EXCEPT !.pc = AfterAdd(e), !.tries = 0]]
         [] OTHER -> IF job[e].tries < Retries THEN Step(e, "look") ELSE Leave(e)
    /\ Unseen

(* One who never was here gets a row where the team is active.  A row that *)
(* is there meanwhile ends the transaction.                                *)
InsertPlace(e) ==
    /\ job[e].pc = "write" /\ job[e].seen.status = "none" /\ Free(e)
    /\ \E given \in Given(e) :
          IF Reads(e).status # "none" \/ job[e].call.at \notin open THEN Leave(e)
          ELSE job' = [job EXCEPT ![e] = HasWritten(e, AfterAdd(e), Added[job[e].call.op], given)]
    /\ Unseen

Target(op) == CASE op = "suspend" -> "suspended" [] op = "reactivate" -> "active" [] OTHER -> "removed"

MayBecome(from, to) ==
    \/ to = "removed" /\ from \in {"pending", "active", "suspended"}
    \/ from = "active" /\ to = "suspended"
    \/ from = "suspended" /\ to = "active"

(* Nothing to change: the call returns the row as it is.                   *)
IsSo(e) ==
    LET c == job[e].call
    IN  CASE c.op = "accept"   -> Reads(e).status = "active"
          [] c.op = "assign"   -> c.role \in Reads(e).roles
          [] c.op = "unassign" -> c.role \notin Reads(e).roles
          [] OTHER             -> Reads(e).status = Target(c.op)

Refuses(e) ==
    LET c == job[e].call
    IN  CASE c.op = "accept" -> Reads(e).status # "pending"
          [] c.op \in {"assign", "unassign"} -> FALSE
          [] OTHER -> ~MayBecome(Reads(e).status, Target(c.op))

(* mutate: read, decide.                                                   *)
ReadPlace(e) ==
    /\ job[e].pc = "read"
    /\ CASE Reads(e).status = "none" -> Leave(e)
         [] Reads(e).status # "none" /\ IsSo(e) -> Step(e, "commit")
         [] OTHER -> IF Refuses(e) THEN Leave(e)
                     ELSE job' = [job EXCEPT ![e] = Deciding(e, "update")]
    /\ Unseen

NewStatus(c, status) == CASE c.op = "accept" -> "active" [] c.op \in {"assign", "unassign"} -> status [] OTHER -> Target(c.op)

NewRoles(c, roles) ==
    CASE c.op = "assign" -> roles \cup {c.role}
      [] c.op = "unassign" -> roles \ {c.role}
      [] c.op \in {"remove", "move"} -> {}
      [] OTHER -> roles

(* Write, if nobody was faster; else from the start.                       *)
Update(e) ==
    LET c == job[e].call
    IN  /\ job[e].pc = "update" /\ Free(e)
        /\ CASE AsSeen(e) -> job' = [job EXCEPT ![e] =
                HasWritten(e, "commit", NewStatus(c, Reads(e).status), NewRoles(c, Reads(e).roles))]
             [] OTHER -> IF job[e].tries < Retries THEN Step(e, "read") ELSE Leave(e)
        /\ Unseen

(* Mutant: what was written before an error stays.                         *)
Undone_not(e) == place' = [b \in Branch |-> IF b \in DOMAIN job[e].mine THEN job[e].mine[b] ELSE place[b]]

Undone(e) == place' = place

CommitJob(e) ==
    /\ job[e].pc = "commit"
    /\ place' = [b \in Branch |-> IF b \in DOMAIN job[e].mine THEN job[e].mine[b] ELSE place[b]]
    /\ Leave(e) /\ UNCHANGED <<open, jobs>>

(* An error, a lost connection, or the victim of a deadlock.               *)
AbortJob(e) ==
    /\ job[e] # NoJob
    /\ Undone(e) /\ Leave(e) /\ UNCHANGED <<open, jobs>>

(* A team is archived or restored.                                         *)
OpenOrClose(b) ==
    /\ jobs < MaxJobs /\ jobs' = jobs + 1
    /\ open' = IF b \in open THEN open \ {b} ELSE open \cup {b}
    /\ UNCHANGED <<place, job>>

MembersInit ==
    /\ open = Branch
    /\ place = [b \in Branch |-> [status |-> "none", roles |-> {}, version |-> 0]]
    /\ job = [e \in Editor |-> NoJob] /\ jobs = 0

MembersNext ==
    \/ \E e \in Editor :
          \/ \E call \in Job : StartJob(e, call)
          \/ FindSource(e) \/ FindTeam(e) \/ FindPlace(e)
          \/ Revive(e) \/ MissToRevive(e) \/ InsertPlace(e) \/ ReadPlace(e) \/ Update(e)
          \/ CommitJob(e) \/ AbortJob(e)
    \/ \E b \in Branch : OpenOrClose(b)

MembersSpec == MembersInit /\ [][MembersNext]_mvars

(***************************************************************************)
(* Properties.                                                             *)
(***************************************************************************)
Course == {<<"pending", "active">>, <<"pending", "removed">>, <<"active", "suspended">>, <<"active", "removed">>,
           <<"suspended", "active">>, <<"suspended", "removed">>}

(* A row only changes along its course, and who was removed comes back     *)
(* only by being added again: a call decided before others changed the row *)
(* never carries it elsewhere.                                             *)
StatusesFollowTheirCourse ==
    [][\A b \in Branch : place'[b].status # place[b].status =>
          \/ <<place[b].status, place'[b].status>> \in Course
          \/ /\ place[b].status \in {"none", "removed"}
             /\ \E e \in Editor : job'[e] = NoJob /\ job[e] # NoJob /\ job[e].call.op \in Joining /\ job[e].call.at = b]_mvars

(* A move that took effect in this step.                                   *)
Moved(e) == job[e] # NoJob /\ job'[e] = NoJob /\ place' # place /\ job[e].call.op = "move"

(* A move is made as a whole.  Where it took effect, the member is out of  *)
(* the source, unless others took them out of it and put them back; and in *)
(* the destination, unless another call has written its row since the move *)
(* looked at it, which is all that adding makes sure of.                   *)
MovesAreWhole ==
    [][\A e \in Editor : Moved(e) =>
          LET from == job[e].call.from
              at   == job[e].call.at
          IN  /\ place'[from].status = "removed" \/ place'[from].version > job[e].found.from + 1
              /\ IF at \in DOMAIN job[e].mine THEN place'[at].status = "active"
                 ELSE place'[at].version > job[e].found.at]_mvars

(* "Takes someone out of one team and puts them in another, atomically":   *)
(* where a move took effect, the member is in the destination.             *)
MovesArrive == [][\A e \in Editor : Moved(e) => place'[job[e].call.at].status = "active"]_mvars
=============================================================================
