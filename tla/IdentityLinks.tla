---------------------------- MODULE IdentityLinks ----------------------------
(***************************************************************************)
(* Identity links and memberships in PostgreSQL.  Two calls each check that *)
(* the row of the other is not there: `link` asks for a membership of the  *)
(* identity it links away, the creation of a membership asks for a link of *)
(* its identity.  Nothing can be locked, for the rows do not exist yet; at *)
(* the top level both run in a serializable transaction of their own and   *)
(* try again when the database refuses it.  Inside a transaction of the    *)
(* caller they run under the isolation of that transaction, READ COMMITTED. *)
(*                                                                         *)
(* Memberships are those of one organization; the audit entry is part of   *)
(* the transaction and left out.  What a serializable transaction is       *)
(* refused for is PostgreSQL's, and external.  AtomicLinks has the same     *)
(* calls in one step each.                                                 *)
(***************************************************************************)
EXTENDS Naturals

CONSTANTS
    Person,       \* identities
    NoPerson,
    Session,      \* transactions that may run at once
    Inside,       \* what callers also do in a transaction of their own: "link", "join"
    MaxTries,     \* attempts at the top level
    MaxWrites     \* bound: calls

ASSUME LinkAssumption ==
    /\ NoPerson \notin Person /\ Inside \subseteq {"link", "join"}
    /\ MaxTries \in Nat \ {0} /\ MaxWrites \in Nat

VARIABLES
    link,         \* identity -> what it is linked to
    member,       \* identities that own a membership
    session,      \* transaction -> how far it is
    writes        \* calls made (bound)

lvars == <<link, member, session, writes>>

(* op: join `from`, or link `from` to `to`.  `view`: what a serializable   *)
(* transaction sees.  `later`: the serializable transactions that committed *)
(* since; `pivot` of one: it had missed the write of one before it.        *)
LinkCall == [op : {"link", "join"}, from : Person, to : Person]
Committed == [call : LinkCall, pivot : BOOLEAN]

NoSession == [pc |-> "idle", serializable |-> TRUE, call |-> [op |-> "join", from |-> NoPerson, to |-> NoPerson],
            view |-> [link |-> <<>>, member |-> {}], later |-> {}, tries |-> 0]

Checks == {"membership", "existing", "chainAfter", "chainBefore"}

Views == [link : [Person -> Person \cup {NoPerson}] \cup {<<>>}, member : SUBSET Person]

LinkTypeOK ==
    /\ link \in [Person -> Person \cup {NoPerson}]
    /\ member \subseteq Person
    /\ DOMAIN session = Session
    /\ \A s \in Session :
          \/ session[s] = NoSession
          \/ session[s] \in [pc : {"begin", "insert", "commit"} \cup Checks, serializable : BOOLEAN, call : LinkCall,
                             view : Views, later : SUBSET Committed, tries : 0 .. MaxTries]
    /\ writes \in Nat

To(s, pc) == session' = [session EXCEPT ![s].pc = pc]
LinkEnds(s) == session' = [session EXCEPT ![s] = NoSession]
Rows == UNCHANGED <<link, member>>

(***************************************************************************)
(* What the transaction reads.                                             *)
(***************************************************************************)
View(s) == IF session[s].serializable THEN session[s].view ELSE [link |-> link, member |-> member]

Linked(v, p) == v.link[p] # NoPerson

(* The checks of performLink, one statement each.  A link that is there    *)
(* already is answered without another insertion.                          *)
Refused(s) ==
    LET v == View(s)
        c == session[s].call
    IN  CASE session[s].pc = "membership"  -> c.from \in v.member
          [] session[s].pc = "existing"    -> Linked(v, c.from)
          [] session[s].pc = "chainAfter"  -> Linked(v, c.to)
          [] session[s].pc = "chainBefore" -> \E p \in Person : v.link[p] = c.from

After(pc) == CASE pc = "membership" -> "existing" [] pc = "existing" -> "chainAfter"
               [] pc = "chainAfter" -> "chainBefore" [] pc = "chainBefore" -> "insert"

(***************************************************************************)
(* The transaction.                                                        *)
(***************************************************************************)

(* Mutant: the creation of a membership keeps the default isolation.       *)
Isolated_linksOnly(call, inside) == ~inside /\ call.op = "link"

(* Mutant: the creation of a link keeps the default isolation.             *)
Isolated_joinsOnly(call, inside) == ~inside /\ call.op = "join"

Isolated(call, inside) == ~inside

(* An identity is not linked to itself.                                    *)
CallFor(s, call, inside) ==
    /\ session[s].pc = "idle" /\ writes < MaxWrites /\ writes' = writes + 1
    /\ call.op = "link" => call.from # call.to
    /\ inside => call.op \in Inside
    /\ session' = [session EXCEPT ![s] = [pc |-> "begin", serializable |-> Isolated(call, inside), call |-> call,
                                          view |-> NoSession.view, later |-> {}, tries |-> 0]]
    /\ Rows

(* The first statement of an attempt takes its snapshot.                   *)
Attempt(s) ==
    [pc |-> IF session[s].call.op = "link" THEN "membership" ELSE "insert",
     serializable |-> session[s].serializable, call |-> session[s].call,
     view |-> [link |-> link, member |-> member], later |-> {}, tries |-> session[s].tries + 1]

BeginAttempt(s) ==
    /\ session[s].pc = "begin"
    /\ session' = [session EXCEPT ![s] = Attempt(s)]
    /\ Rows /\ UNCHANGED writes

CheckLink(s) ==
    /\ session[s].pc \in Checks
    /\ IF Refused(s) THEN LinkEnds(s) ELSE To(s, After(session[s].pc))
    /\ Rows /\ UNCHANGED writes

(* Another transaction has inserted the row of the same key and not ended. *)
Held(s) == \E o \in Session \ {s} : session[o].pc = "commit" /\ session[o].call.op = session[s].call.op
                                    /\ session[o].call.from = session[s].call.from

Taken(call) == IF call.op = "link" THEN link[call.from] # NoPerson ELSE call.from \in member

(* The insertion waits for such a transaction; a row that has been         *)
(* committed is a unique violation and ends the call.  A membership is     *)
(* inserted where no link of the identity is visible.                      *)
Insert(s) ==
    LET c == session[s].call
    IN  /\ session[s].pc = "insert" /\ ~Held(s)
        /\ IF Taken(c) \/ (c.op = "join" /\ Linked(View(s), c.from)) THEN LinkEnds(s) ELSE To(s, "commit")
        /\ Rows /\ UNCHANGED writes

(***************************************************************************)
(* Serializable snapshot isolation: a transaction misses the write of      *)
(* another when it read what the other, that it does not see, wrote.  One  *)
(* between two others, whose second has committed, is refused.             *)
(***************************************************************************)
Misses(reader, writer) ==
    \/ reader.op = "link" /\ writer.op = "join" /\ writer.from = reader.from
    \/ reader.op = "join" /\ writer.op = "link" /\ writer.from = reader.from
    \/ /\ reader.op = "link" /\ writer.op = "link"
       /\ writer.from \in {reader.from, reader.to} \/ writer.to = reader.from

MissedBy(s) == {o \in session[s].later : Misses(session[s].call, o.call)}

(* The dangerous structure: in, through the pivot, and out.                *)
MustAbort(s) ==
    /\ session[s].serializable
    /\ \/ \E o \in MissedBy(s) : o.pivot
       \/ MissedBy(s) # {} /\ \E o \in session[s].later : Misses(o.call, session[s].call)

(* Who is still running learns of the commit of a serializable one.        *)
Commit(s) ==
    LET c == session[s].call
    IN  /\ session[s].pc = "commit" /\ ~MustAbort(s)
        /\ link' = IF c.op = "link" THEN [link EXCEPT ![c.from] = c.to] ELSE link
        /\ member' = IF c.op = "join" THEN member \cup {c.from} ELSE member
        /\ session' = [o \in Session |->
                          IF o = s THEN NoSession
                          ELSE IF session[o].pc \in {"idle", "begin"} \/ ~session[s].serializable THEN session[o]
                          ELSE [session[o] EXCEPT !.later = @ \cup {[call |-> c, pivot |-> MissedBy(s) # {}]}]]
        /\ UNCHANGED writes

(* 40001: another attempt, up to a number; also for conflicts that are none. *)
SerializationFailure(s) ==
    /\ session[s].serializable /\ session[s].pc \notin {"idle", "begin"}
    /\ IF session[s].tries < MaxTries THEN To(s, "begin") ELSE LinkEnds(s)
    /\ Rows /\ UNCHANGED writes

(* Any other error, and a caller that rolls its transaction back.          *)
RollsBack(s) ==
    /\ session[s].pc \notin {"idle", "begin"}
    /\ LinkEnds(s) /\ Rows /\ UNCHANGED writes

(***************************************************************************)
(* One statement each: a link and a membership are taken away.             *)
(***************************************************************************)
Unlink(p) ==
    /\ link[p] # NoPerson /\ writes < MaxWrites /\ writes' = writes + 1
    /\ link' = [link EXCEPT ![p] = NoPerson] /\ UNCHANGED <<member, session>>

Leaves(p) ==
    /\ p \in member /\ writes < MaxWrites /\ writes' = writes + 1
    /\ member' = member \ {p} /\ UNCHANGED <<link, session>>

LinkInit ==
    /\ link = [p \in Person |-> NoPerson] /\ member = {}
    /\ session = [s \in Session |-> NoSession] /\ writes = 0

LinkNext ==
    \/ \E s \in Session, call \in LinkCall, inside \in BOOLEAN : CallFor(s, call, inside)
    \/ \E s \in Session : BeginAttempt(s) \/ CheckLink(s) \/ Insert(s) \/ Commit(s) \/ SerializationFailure(s) \/ RollsBack(s)
    \/ \E p \in Person : Unlink(p) \/ Leaves(p)

LinkSpec == LinkInit /\ [][LinkNext]_lvars

(***************************************************************************)
(* Properties.                                                             *)
(***************************************************************************)

(* An identity that is linked away owns no membership: whichever of the    *)
(* two was asked for first, and also when both were at the same time.      *)
NobodyIsTwo == \A p \in member : link[p] = NoPerson

(* No chains: what an identity is linked to is linked to nothing.          *)
NoChains == \A p \in Person : link[p] # NoPerson => link[link[p]] = NoPerson

(* Transactions or not, what everybody sees are calls of the in-memory     *)
(* storage: one at a time, each with its checks and its write in one step. *)
Atomic == INSTANCE AtomicLinks

LinksAreAtomic == Atomic!Spec
=============================================================================
