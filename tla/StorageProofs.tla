---------------------------- MODULE StorageProofs ----------------------------
(***************************************************************************)
(* What is proved of Entitlements, TeamMembers, IdentityLinks, SharedLimit *)
(* and PolicyEvaluation, for any people, teams, quotas, servers, policies  *)
(* and conditions and any bounds.                                          *)
(*                                                                         *)
(* The limit a statement goes by was in force during its call because the  *)
(* limit in force always is among those the call has seen.  A membership    *)
(* moves along its course, and a move leaves nobody in two teams, because a *)
(* statement finds the version its call has read.  A decision is no guess  *)
(* because three-valued logic is never wrong about what it knows.          *)
(***************************************************************************)
EXTENDS Entitlements, TeamMembers, IdentityLinks, SharedLimit, PolicyEvaluation,
        FiniteSetTheorems, WellFoundedInduction, TLAPS

ConsumerType == [pc : {"idle", "load", "statement", "upsert"}, op : {"consume", "release"},
                 amount : 0 .. MaxAmount, day : 0 .. MaxDay, window : Window, limit : Limit, seen : SUBSET Limit]

(* What a call knows of the limits.                                        *)
KnowsLimits(c) ==
    /\ consumer[c].pc # "idle" /\ Defined => LimitInForce \in consumer[c].seen
    /\ consumer[c].pc = "upsert" => consumer[c].limit \in consumer[c].seen

EntInv == EntTypeOK /\ \A c \in Consumer : KnowsLimits(c)

(* The window of a day up to MaxDay is a window.                           *)
LEMMA WindowOfDay ==
    ASSUME NEW period \in Period, NEW day \in 0 .. MaxDay
    PROVE  entitlementWindow(period, day) \in Window
<1>1. MaxDay \in Nat /\ DaysPerMonth \in Nat \ {0}
    BY EntitlementAssumption
<1>2. day % DaysPerMonth \in 0 .. DaysPerMonth - 1 /\ day % DaysPerMonth <= day
    BY <1>1
<1>3. CASE period = "monthly"
    <2>1. day - (day % DaysPerMonth) + 1 \in 0 .. MaxDay + 1
        BY <1>1, <1>2
    <2> QED
        BY <1>3, <2>1 DEF entitlementWindow, Window
<1> QED
    BY <1>1, <1>3 DEF Period, entitlementWindow, Window

(* Somebody's limit is in force whenever there is a definition.            *)
LEMMA InForceType == EntTypeOK /\ Defined => LimitInForce \in Limit
BY DEF EntTypeOK, Defined, LimitInForce

(* A call that is not under way.                                           *)
LEMMA RestType == AtRest \in ConsumerType
<1>1. 0 \in 0 .. MaxAmount /\ 0 \in 0 .. MaxDay /\ 0 \in Window
    BY EntitlementAssumption DEF Window
<1> QED
    BY <1>1 DEF AtRest, ConsumerType, Limit

(* Edits: what is in force afterwards joins what the calls have seen.      *)
LEMMA EditStep ==
    ASSUME EntInv, Edited,
           definition' \in [period : Period, limit : Limit] \cup {Nowhere},
           override' \in Limit \cup {Nowhere}, usage' \in [Window -> Nat]
    PROVE  EntInv'
<1>1. Defined' => LimitInForce' \in Limit
    BY DEF Defined, LimitInForce
<1>2. \A c \in Consumer : /\ consumer'[c] = consumer[c]
                          /\ consumer[c].pc = "idle" \/ ~Defined'
                       \/ /\ Defined' /\ consumer[c].pc # "idle"
                          /\ consumer'[c] = [consumer[c] EXCEPT !.seen = @ \cup {LimitInForce'}]
    BY DEF Edited
<1>3. \A c \in Consumer : consumer'[c] \in ConsumerType /\ KnowsLimits(c)'
  <2> SUFFICES ASSUME NEW c \in Consumer PROVE consumer'[c] \in ConsumerType /\ KnowsLimits(c)'
    OBVIOUS
  <2>1. consumer[c] \in ConsumerType /\ KnowsLimits(c)
    BY DEF EntInv, EntTypeOK, ConsumerType
  <2>2. CASE consumer'[c] = consumer[c] /\ (consumer[c].pc = "idle" \/ ~Defined')
    BY <2>1, <2>2 DEF KnowsLimits
  <2>3. CASE Defined' /\ consumer'[c] = [consumer[c] EXCEPT !.seen = @ \cup {LimitInForce'}]
    BY <1>1, <2>1, <2>3 DEF KnowsLimits, ConsumerType
  <2> QED
    BY <1>2, <2>2, <2>3
<1>4. consumer' \in [Consumer -> ConsumerType]
    BY <1>3 DEF Edited
<1>5. today' = today /\ consumed' = consumed /\ edits' = edits + 1
    BY DEF Edited
<1>6. EntTypeOK'
    BY <1>4, <1>5 DEF EntInv, EntTypeOK, ConsumerType
<1> QED
    BY <1>3, <1>6 DEF EntInv

(* A step of a call: what it becomes decides.                              *)
LEMMA MoveStep ==
    ASSUME EntInv, NEW c \in Consumer, NEW to \in ConsumerType, Moves(c, to),
           to.pc # "idle" /\ Defined => LimitInForce \in to.seen,
           to.pc = "upsert" => to.limit \in to.seen,
           usage' \in [Window -> Nat], consumed' \in Nat
    PROVE  EntInv'
<1>1. consumer \in [Consumer -> ConsumerType]
    BY DEF EntInv, EntTypeOK, ConsumerType
<1>2. consumer' \in [Consumer -> ConsumerType] /\ consumer'[c] = to
      /\ \A d \in Consumer \ {c} : consumer'[d] = consumer[d]
    BY <1>1 DEF Moves
<1>3. (Defined' <=> Defined) /\ LimitInForce' = LimitInForce
    BY DEF Moves, Defined, LimitInForce
<1>4. \A d \in Consumer : KnowsLimits(d)'
    BY <1>2, <1>3 DEF EntInv, KnowsLimits
<1> QED
    BY <1>2, <1>4 DEF EntInv, EntTypeOK, Moves, ConsumerType

(* The invariant is inductive.                                             *)
LEMMA EntInductive == EntInv /\ [EntNext]_evars => EntInv'
<1> SUFFICES ASSUME EntInv, [EntNext]_evars PROVE EntInv'
    OBVIOUS
<1>0. EntTypeOK /\ consumer \in [Consumer -> ConsumerType] /\ usage \in [Window -> Nat] /\ consumed \in Nat
    BY DEF EntInv, EntTypeOK, ConsumerType
<1>1. ASSUME NEW period \in Period, NEW limit \in Limit, Define(period, limit) PROVE EntInv'
    BY <1>0, <1>1, EditStep DEF Define, EntTypeOK
<1>2. ASSUME NEW limit \in Limit, SetLimit(limit) PROVE EntInv'
    BY <1>0, <1>2, EditStep DEF SetLimit, EntTypeOK
<1>3. ASSUME Undefine PROVE EntInv'
    BY <1>0, <1>3, EditStep DEF Undefine, EntTypeOK
<1>4. ASSUME ClearLimit PROVE EntInv'
    BY <1>0, <1>4, EditStep DEF ClearLimit, EntTypeOK
<1>5. ASSUME NextDay PROVE EntInv'
  <2>1. today' \in 0 .. MaxDay
    BY <1>0, <1>5, EntitlementAssumption DEF NextDay, EntTypeOK
  <2> QED
    BY <1>5, <2>1 DEF NextDay, EntInv, EntTypeOK, KnowsLimits, Defined, LimitInForce
<1>6. ASSUME NEW c \in Consumer, NEW op \in {"consume", "release"}, NEW n \in 1 .. MaxAmount, CallEntitlement(c, op, n)
      PROVE  EntInv'
  <2> DEFINE to == [AtRest EXCEPT !.pc = "load", !.op = op, !.amount = n, !.day = today,
                                  !.seen = IF Defined THEN {LimitInForce} ELSE {}]
  <2>1. n \in 0 .. MaxAmount /\ today \in 0 .. MaxDay /\ consumed' \in Nat
    BY <1>0, <1>6, EntitlementAssumption DEF CallEntitlement, EntTypeOK
  <2>2. to \in ConsumerType /\ to.pc = "load" /\ (Defined => LimitInForce \in to.seen)
    BY <1>0, <2>1, RestType, InForceType DEF ConsumerType, AtRest
  <2>3. Moves(c, to) /\ usage' = usage
    BY <1>6 DEF CallEntitlement
  <2> HIDE DEF to
  <2> QED
    BY <1>0, <2>1, <2>2, <2>3, MoveStep
<1>7. ASSUME NEW c \in Consumer, Load(c) PROVE EntInv'
  <2>1. CASE ~Defined
    BY <1>0, <1>7, <2>1, RestType, MoveStep DEF Load, AtRest
  <2>2. CASE Defined
    <3> DEFINE to == [consumer[c] EXCEPT !.pc = "statement",
                                         !.window = entitlementWindow(definition.period, consumer[c].day)]
    <3>1. definition.period \in Period /\ consumer[c] \in ConsumerType /\ consumer[c].day \in 0 .. MaxDay
      BY <1>0, <2>2 DEF EntTypeOK, Defined, ConsumerType
    <3>2. entitlementWindow(definition.period, consumer[c].day) \in Window
      BY <3>1, WindowOfDay
    <3>3. to \in ConsumerType /\ to.pc = "statement" /\ to.seen = consumer[c].seen
      BY <3>1, <3>2 DEF ConsumerType
    <3>4. Moves(c, to) /\ UNCHANGED <<usage, consumed>> /\ consumer[c].pc = "load"
      BY <1>7, <2>2 DEF Load
    <3>5. LimitInForce \in consumer[c].seen
      BY <2>2, <3>4 DEF EntInv, KnowsLimits
    <3> HIDE DEF to
    <3> QED
      BY <1>0, <3>3, <3>4, <3>5, MoveStep
  <2> QED
    BY <2>1, <2>2
<1>8. ASSUME NEW c \in Consumer, Snapshot(c) PROVE EntInv'
  <2>1. CASE ~Defined
    BY <1>0, <1>8, <2>1, RestType, MoveStep DEF Snapshot, AtRest
  <2>2. CASE Defined
    <3> DEFINE to == [consumer[c] EXCEPT !.pc = "upsert", !.limit = LimitInForce]
    <3>1. LimitInForce \in Limit /\ consumer[c] \in ConsumerType
      BY <1>0, <2>2, InForceType
    <3>3. to \in ConsumerType /\ to.pc = "upsert" /\ to.seen = consumer[c].seen /\ to.limit = LimitInForce
      BY <3>1 DEF ConsumerType
    <3>4. Moves(c, to) /\ UNCHANGED <<usage, consumed>> /\ consumer[c].pc = "statement"
      BY <1>8, <2>2 DEF Snapshot
    <3>5. LimitInForce \in consumer[c].seen
      BY <2>2, <3>4 DEF EntInv, KnowsLimits
    <3> HIDE DEF to
    <3> QED
      BY <1>0, <3>3, <3>4, <3>5, MoveStep
  <2> QED
    BY <2>1, <2>2
<1>9. ASSUME NEW c \in Consumer, Consume(c) \/ Release(c) PROVE EntInv'
  <2>1. consumer[c].window \in Window /\ consumer[c].amount \in Nat
    BY <1>0, EntitlementAssumption DEF ConsumerType
  <2>2. usage' \in [Window -> Nat]
    BY <1>0, <1>9, <2>1 DEF Consume, Release
  <2> QED
    BY <1>0, <1>9, <2>2, RestType, MoveStep DEF Consume, Release, AtRest
<1>10. ASSUME UNCHANGED evars PROVE EntInv'
    BY <1>10 DEF evars, EntInv, EntTypeOK, KnowsLimits, Defined, LimitInForce
<1> QED
    BY <1>1, <1>2, <1>3, <1>4, <1>5, <1>6, <1>7, <1>8, <1>9, <1>10 DEF EntNext

(* It holds at the beginning.                                              *)
LEMMA EntStarts == EntInit => EntInv
<1> SUFFICES ASSUME EntInit PROVE EntInv
    OBVIOUS
<1>1. consumer \in [Consumer -> ConsumerType] /\ 0 \in 0 .. MaxDay
    BY RestType, EntitlementAssumption DEF EntInit
<1> QED
    BY <1>1 DEF EntInit, EntInv, EntTypeOK, ConsumerType, KnowsLimits, Defined, AtRest

(* Type correctness.                                                       *)
THEOREM EntTypeCorrect == EntSpec => []EntTypeOK
<1>1. EntInv => EntTypeOK
    BY DEF EntInv
<1> QED
    BY <1>1, EntStarts, EntInductive, PTL DEF EntSpec

(* What a call takes fits, with all that others took before it, a limit    *)
(* that was in force during the call (PostgresEntitlementRepository.consume). *)
THEOREM NobodySlipsUnderTheLimit == EntSpec => TakenFitsALimit
<1> DEFINE FitsOne == \A w \in Window : usage'[w] > usage[w] =>
                      \E c \in Consumer : /\ consumer'[c] # consumer[c] /\ consumer[c].window = w
                                          /\ \E limit \in consumer[c].seen : limit = Unlimited \/ usage'[w] <= limit
<1>1. EntInv /\ [EntNext]_evars => [FitsOne]_evars
  <2> SUFFICES ASSUME EntInv, EntNext, NEW w \in Window, usage'[w] > usage[w]
               PROVE  \E c \in Consumer : /\ consumer'[c] # consumer[c] /\ consumer[c].window = w
                                          /\ \E limit \in consumer[c].seen : limit = Unlimited \/ usage'[w] <= limit
    OBVIOUS
  <2>0. /\ consumer \in [Consumer -> ConsumerType] /\ usage \in [Window -> Nat]
        /\ \A v \in Window : usage[v] \in Nat
    BY DEF EntInv, EntTypeOK, ConsumerType
  <2>1. PICK c \in Consumer : Consume(c)
    <3>1. usage' # usage
      BY <2>0
    <3>2. ~Undefine
      BY <2>0 DEF Undefine
    <3>3. \A c \in Consumer : ~Release(c)
      <4> SUFFICES ASSUME NEW c \in Consumer, Release(c) PROVE FALSE
        OBVIOUS
      <4>1. consumer[c].amount \in Nat
        BY <2>0, EntitlementAssumption DEF ConsumerType
      <4> QED
        BY <2>0, <4>1 DEF Release
    <3> QED
      BY <3>1, <3>2, <3>3 DEF EntNext, Define, SetLimit, ClearLimit, NextDay, CallEntitlement, Load, Snapshot
  <2>2. consumer[c].amount \in Nat /\ consumer[c].window \in Window
    BY <2>0, EntitlementAssumption DEF ConsumerType
  <2>3. /\ consumer[c].window = w /\ usage'[w] = usage[w] + consumer[c].amount
        /\ Fits(usage[w], consumer[c].amount, consumer[c].limit)
    BY <2>0, <2>1, <2>2 DEF Consume
  <2>4. consumer[c].limit \in consumer[c].seen
    BY <2>1 DEF EntInv, KnowsLimits, Consume
  <2>5. consumer'[c] # consumer[c]
    BY <2>0, <2>1 DEF Consume, Moves, AtRest
  <2> QED
    BY <2>3, <2>4, <2>5 DEF Fits
<1> QED
    BY <1>1, EntStarts, EntInductive, PTL DEF EntSpec, TakenFitsALimit

(***************************************************************************)
(* TeamMembers.                                                            *)
(***************************************************************************)
Follows(from, to) == from = to \/ <<from, to>> \in Course

(* The row of the source of a move, from when it was found.                *)
WasThere(j) ==
    /\ place[j.call.from].version >= j.found.from
    /\ place[j.call.from].version = j.found.from => place[j.call.from].status \notin {"none", "removed"}

IsGone(j) ==
    \/ j.call.from \in DOMAIN j.mine /\ j.mine[j.call.from].status = "removed"
    \/ /\ j.call.from \notin DOMAIN j.mine
       /\ place[j.call.from].version > j.found.from
       /\ place[j.call.from].version = j.found.from + 1 => place[j.call.from].status = "removed"

(* The row of the destination: written by the move, or by another call     *)
(* since the move looked at it.                                            *)
IsThere(j) ==
    IF j.call.at \in DOMAIN j.mine THEN j.mine[j.call.at].status = "active" ELSE place[j.call.at].version > j.found.at

SoundMove(j) ==
    /\ j.call.at # j.call.from
    /\ j.pc = "write" => j.seen.version = j.found.at
    /\ j.pc \in {"read", "update", "commit"} => IsThere(j)
    /\ j.pc \in {"team", "look", "write", "read", "update"} => WasThere(j)
    /\ j.pc = "commit" => IsGone(j)

(* What a written row may become of the committed one.                     *)
SoundRow(j, b) ==
    /\ j.mine[b].version = place[b].version + 1
    /\ \/ Follows(place[b].status, j.mine[b].status)
       \/ place[b].status \in {"none", "removed"} /\ j.call.op \in Joining /\ j.call.at = b

Sound(j) ==
    /\ j.pc \in {"source", "team", "look", "write"} => j.call.op \in Joining /\ DOMAIN j.mine = {}
    /\ j.pc = "source" => j.call.op = "move"
    /\ j.pc \in {"source", "team", "look", "read"} => j.tries < Retries
    /\ j.pc = "write" => j.seen.status \in {"none", "removed"}
    /\ j.pc \in {"read", "update"} =>
          j.call.op \notin {"add", "invite"} /\ DOMAIN j.mine \subseteq (IF j.call.op = "move" THEN {j.call.at} ELSE {})
    /\ j.pc = "update" => Follows(j.seen.status, NewStatus(j.call, j.seen.status))
    /\ \A b \in DOMAIN j.mine : SoundRow(j, b)
    /\ j.call.op = "move" => SoundMove(j)

IsJob(j) == \E written \in SUBSET Branch : j \in JobOn(written)

(* Nobody writes a row that another transaction has written.               *)
Apart == \A e, o \in Editor : e # o => DOMAIN job[e].mine \cap DOMAIN job[o].mine = {}

MembersInv ==
    /\ MembersTypeOK
    /\ \A e \in Editor : job[e] = NoJob \/ Sound(job[e])
    /\ Apart

(* Who is idle has written nothing.                                        *)
LEMMA NothingMine == DOMAIN NoJob.mine = {}
BY DEF NoJob

(* A transaction takes a step of its own, writing at most rows that are    *)
(* free; what others see stays.                                            *)
LEMMA OwnStep ==
    ASSUME MembersInv, NEW e \in Editor, NEW to, job' = [job EXCEPT ![e] = to], place' = place,
           open' \subseteq Branch, jobs' \in Nat,
           \/ to = NoJob
           \/ IsJob(to) /\ Sound(to) /\ \A b \in DOMAIN to.mine \ DOMAIN job[e].mine :
                                           \A o \in Editor \ {e} : b \notin DOMAIN job[o].mine
    PROVE  MembersInv'
<1>1. DOMAIN job' = Editor /\ job'[e] = to /\ \A o \in Editor \ {e} : job'[o] = job[o]
    BY DEF MembersInv, MembersTypeOK
<1>2. MembersTypeOK'
    BY <1>1 DEF MembersInv, MembersTypeOK, IsJob
<1>3. \A j : Sound(j)' <=> Sound(j)
    BY DEF Sound, SoundRow, SoundMove, WasThere, IsThere, IsGone
<1>4. \A o \in Editor : (job[o] = NoJob \/ Sound(job[o]))'
  <2> TAKE o \in Editor
  <2>1. CASE o = e
    BY <1>1, <1>3, <2>1
  <2>2. CASE o # e
    BY <1>1, <1>3, <2>2 DEF MembersInv
  <2> QED
    BY <2>1, <2>2
<1>5. DOMAIN to.mine \subseteq DOMAIN job[e].mine
      \/ \A b \in DOMAIN to.mine \ DOMAIN job[e].mine : \A o \in Editor \ {e} : b \notin DOMAIN job[o].mine
    BY NothingMine
<1>6. \A o \in Editor \ {e} : DOMAIN to.mine \cap DOMAIN job[o].mine = {}
    BY <1>5 DEF MembersInv, Apart
<1>7. Apart'
    BY <1>1, <1>6 DEF MembersInv, Apart
<1> QED
    BY <1>2, <1>4, <1>7 DEF MembersInv

Versions == [from : Nat, at : Nat]

(* The fields of a job.                                                    *)
LEMMA JobFields ==
    ASSUME NEW j, IsJob(j)
    PROVE  /\ j.call \in Job /\ j.call.at \in Branch /\ j.call.from \in Branch
           /\ j.call.op \in {"add", "invite", "move", "accept", "suspend", "reactivate", "remove", "assign", "unassign"}
           /\ j.call.role \in TeamRole
           /\ j.seen \in MemberRow /\ j.found \in Versions /\ j.tries \in 0 .. Retries
           /\ DOMAIN j.mine \subseteq Branch /\ \A b \in DOMAIN j.mine : j.mine[b] \in MemberRow
           /\ j = [pc |-> j.pc, call |-> j.call, mine |-> j.mine, seen |-> j.seen, found |-> j.found, tries |-> j.tries]
<1>1. PICK written \in SUBSET Branch : j \in JobOn(written)
    BY DEF IsJob
<1>2. /\ j.call \in Job /\ j.seen \in MemberRow /\ j.found \in Versions /\ j.tries \in 0 .. Retries
      /\ DOMAIN j.mine = written /\ \A b \in written : j.mine[b] \in MemberRow
    BY <1>1 DEF JobOn, Versions
<1>3. j = [pc |-> j.pc, call |-> j.call, mine |-> j.mine, seen |-> j.seen, found |-> j.found, tries |-> j.tries]
    BY <1>1 DEF JobOn
<1> QED
    BY <1>2, <1>3 DEF Job

LEMMA FoundFields ==
    ASSUME NEW j, IsJob(j)
    PROVE  /\ j.found.from \in Nat /\ j.found.at \in Nat
           /\ j.found = [from |-> j.found.from, at |-> j.found.at]
           /\ \A v \in Nat : [from |-> v, at |-> j.found.at] \in Versions /\ [from |-> j.found.from, at |-> v] \in Versions
<1>1. j.found \in Versions
    BY JobFields
<1> QED
    BY <1>1 DEF Versions

(* Leaving.                                                                *)
LEMMA LeaveStep ==
    ASSUME MembersInv, NEW e \in Editor, Leave(e), place' = place, open' \subseteq Branch, jobs' \in Nat
    PROVE  MembersInv'
<1> QED
    BY OwnStep DEF Leave

(* A record of the right fields is a job.                                  *)
LEMMA MakeJob ==
    ASSUME NEW pc \in {"source", "team", "look", "write", "read", "update", "commit"}, NEW call \in Job,
           NEW written \in SUBSET Branch, NEW mine \in [written -> MemberRow], NEW seen \in MemberRow,
           NEW found \in Versions, NEW tries \in 0 .. Retries
    PROVE  IsJob([pc |-> pc, call |-> call, mine |-> mine, seen |-> seen, found |-> found, tries |-> tries])
<1> DEFINE j == [pc |-> pc, call |-> call, mine |-> mine, seen |-> seen, found |-> found, tries |-> tries]
<1>1. j \in JobOn(written)
    BY DEF JobOn, Versions
<1> QED
    BY <1>1 DEF IsJob

(* The same job, elsewhere, having seen another row, at another attempt.   *)
LEMMA SameJob ==
    ASSUME NEW j, IsJob(j), NEW pc \in {"source", "team", "look", "write", "read", "update", "commit"},
           NEW seen \in MemberRow, NEW found \in Versions, NEW tries \in 0 .. Retries
    PROVE  IsJob([pc |-> pc, call |-> j.call, mine |-> j.mine, seen |-> seen, found |-> found, tries |-> tries])
<1>1. PICK written \in SUBSET Branch : j \in JobOn(written)
    BY DEF IsJob
<1>2. j.call \in Job /\ j.mine \in [written -> MemberRow]
    BY <1>1 DEF JobOn
<1> QED
    BY <1>2, MakeJob

(* What the updates of a job come to.                                      *)
LEMMA Changed ==
    ASSUME NEW j, IsJob(j), NEW pc, NEW seen, NEW mine
    PROVE  /\ [j EXCEPT !.pc = pc, !.seen = seen, !.tries = @ + 1] = [pc |-> pc, call |-> j.call, mine |-> j.mine,
                 seen |-> seen, found |-> j.found, tries |-> j.tries + 1]
           /\ [j EXCEPT !.pc = pc, !.mine = mine, !.tries = 0] = [pc |-> pc, call |-> j.call, mine |-> mine,
                 seen |-> j.seen, found |-> j.found, tries |-> 0]
           /\ [j EXCEPT !.pc = pc, !.tries = 0] = [pc |-> pc, call |-> j.call, mine |-> j.mine,
                 seen |-> j.seen, found |-> j.found, tries |-> 0]
           /\ [j EXCEPT !.pc = pc] = [pc |-> pc, call |-> j.call, mine |-> j.mine,
                 seen |-> j.seen, found |-> j.found, tries |-> j.tries]
<1>1. PICK written \in SUBSET Branch : j \in JobOn(written)
    BY DEF IsJob
<1>2. j \in JobOn(written)
    BY <1>1
<1>0. j = [pc |-> j.pc, call |-> j.call, mine |-> j.mine, seen |-> j.seen, found |-> j.found, tries |-> j.tries]
    BY <1>2 DEF JobOn
<1> DEFINE k == [pc |-> pc, call |-> j.call, mine |-> j.mine, seen |-> j.seen, found |-> j.found, tries |-> j.tries]
           l == [pc |-> pc, call |-> j.call, mine |-> j.mine, seen |-> seen, found |-> j.found, tries |-> j.tries]
           m == [pc |-> pc, call |-> j.call, mine |-> mine, seen |-> j.seen, found |-> j.found, tries |-> j.tries]
<1>3. [j EXCEPT !.pc = pc] = k
    BY <1>0
<1>4. [j EXCEPT !.pc = pc, !.seen = seen, !.tries = @ + 1] = [pc |-> pc, call |-> j.call, mine |-> j.mine, seen |-> seen, found |-> j.found, tries |-> j.tries + 1]
  <2>1. [k EXCEPT !.seen = seen] = l
    OBVIOUS
  <2>2. [l EXCEPT !.tries = @ + 1] = [pc |-> pc, call |-> j.call, mine |-> j.mine, seen |-> seen, found |-> j.found, tries |-> j.tries + 1]
    OBVIOUS
  <2> QED
    BY <1>3, <2>1, <2>2
<1>5. [j EXCEPT !.pc = pc, !.mine = mine, !.tries = 0] = [pc |-> pc, call |-> j.call, mine |-> mine, seen |-> j.seen, found |-> j.found, tries |-> 0]
  <2>1. [k EXCEPT !.mine = mine] = m
    OBVIOUS
  <2>2. [m EXCEPT !.tries = 0] = [pc |-> pc, call |-> j.call, mine |-> mine, seen |-> j.seen, found |-> j.found, tries |-> 0]
    OBVIOUS
  <2> QED
    BY <1>3, <2>1, <2>2
<1>6. [j EXCEPT !.pc = pc, !.tries = 0] = [k EXCEPT !.tries = 0]
    BY <1>3
<1> QED
    BY <1>3, <1>4, <1>5, <1>6

(* What a move finds is noted.                                             *)
LEMMA FoundSource ==
    ASSUME NEW j, IsJob(j), NEW pc, NEW v
    PROVE  [j EXCEPT !.pc = pc, !.found.from = v]
              = [pc |-> pc, call |-> j.call, mine |-> j.mine, seen |-> j.seen,
                 found |-> [from |-> v, at |-> j.found.at], tries |-> j.tries]
<1> DEFINE f == [from |-> j.found.from, at |-> j.found.at]
           k == [pc |-> pc, call |-> j.call, mine |-> j.mine, seen |-> j.seen, found |-> f, tries |-> j.tries]
<1>1. j.found = f
    BY FoundFields
<1>2. [j EXCEPT !.pc = pc] = k
    BY <1>1, Changed
<1>3. [k EXCEPT !.found.from = v]
         = [pc |-> pc, call |-> j.call, mine |-> j.mine, seen |-> j.seen,
            found |-> [from |-> v, at |-> j.found.at], tries |-> j.tries]
    OBVIOUS
<1> QED
    BY <1>2, <1>3

(* Nothing written yet.                                                    *)
LEMMA NothingWritten == <<>> \in [{} -> MemberRow] /\ DOMAIN <<>> = {}
OBVIOUS

(* A call begins.                                                          *)
LEMMA StartStep ==
    ASSUME MembersInv, NEW e \in Editor, NEW call \in Job, StartJob(e, call)
    PROVE  MembersInv'
<1> DEFINE pc == CASE call.op = "move" -> "source" [] call.op \in {"add", "invite"} -> "team" [] OTHER -> "read"
           to == [pc |-> pc, call |-> call, mine |-> <<>>, seen |-> place[call.at], found |-> [from |-> 0, at |-> 0], tries |-> 0]
<1>1. job' = [job EXCEPT ![e] = to] /\ place' = place /\ open' = open /\ jobs' = jobs + 1
      /\ (call.op = "move" => call.at # call.from)
    BY DEF StartJob
<1>2. /\ call.op = "move" => pc = "source"
      /\ call.op \in {"add", "invite"} => pc = "team"
      /\ call.op \notin {"move", "add", "invite"} => pc = "read"
    OBVIOUS
<1> HIDE DEF pc
<1>3. place[call.at] \in MemberRow /\ 0 \in 0 .. Retries /\ [from |-> 0, at |-> 0] \in Versions
    BY MembersAssumption DEF MembersInv, MembersTypeOK, Job, Versions
<1>4. IsJob(to)
    BY <1>2, <1>3, MakeJob, NothingWritten
<1>5. DOMAIN to.mine = {} /\ to.call = call /\ to.pc = pc /\ to.tries = 0
    BY NothingWritten
<1> HIDE DEF to
<1>6. Sound(to)
    BY <1>1, <1>2, <1>5, MembersAssumption DEF Sound, SoundMove, Joining
<1>7. open' \subseteq Branch /\ jobs' \in Nat
    BY <1>1 DEF MembersInv, MembersTypeOK
<1> QED
    BY <1>1, <1>4, <1>5, <1>6, <1>7, OwnStep

(* What holds of whoever is under way.                                     *)
LEMMA UnderWay ==
    ASSUME MembersInv, NEW e \in Editor, job[e].pc # "idle"
    PROVE  /\ job[e] # NoJob /\ IsJob(job[e]) /\ Sound(job[e])
           /\ open \subseteq Branch /\ jobs \in Nat /\ \A b \in Branch : place[b] \in MemberRow
<1>1. job[e] # NoJob
    BY DEF NoJob
<1> QED
    BY <1>1 DEF MembersInv, MembersTypeOK, IsJob

(* The source and the team of an addition are found, and the row looked at. *)
LEMMA FindStep ==
    ASSUME MembersInv, NEW e \in Editor, FindSource(e) \/ FindTeam(e) \/ FindPlace(e)
    PROVE  MembersInv'
<1> DEFINE j == job[e]
<1>0. job[e].pc \in {"source", "team", "look"}
    BY DEF FindSource, FindTeam, FindPlace
<1>1. /\ IsJob(j) /\ Sound(j) /\ UNCHANGED <<open, place, jobs>>
      /\ open \subseteq Branch /\ jobs \in Nat /\ \A b \in Branch : place[b] \in MemberRow
    BY <1>0, UnderWay DEF FindSource, FindTeam, FindPlace, Unseen
<1>2. CASE Leave(e)
    BY <1>1, <1>2, LeaveStep
<1>3. CASE FindSource(e) /\ ~Leave(e)
  <2> DEFINE from == place[j.call.from]
             to == [pc |-> "team", call |-> j.call, mine |-> j.mine, seen |-> j.seen, found |-> [from |-> from.version, at |-> j.found.at], tries |-> j.tries]
  <2>1. from.status \notin {"none", "removed"}
        /\ job' = [job EXCEPT ![e] = [job[e] EXCEPT !.pc = "team", !.found.from = from.version]]
    BY <1>3 DEF FindSource
  <2>2. [j EXCEPT !.pc = "team", !.found.from = from.version] = to
    BY <1>1, FoundSource, ZenonT(40)
  <2>3. from.version \in Nat
    BY <1>1, JobFields DEF MemberRow
  <2>4. IsJob(to)
    BY <1>1, <2>3, JobFields, FoundFields, SameJob
  <2>5. Sound(to)
    BY <1>0, <1>1, <1>3, <2>1, <2>3 DEF Sound, SoundMove, WasThere, FindSource
  <2> QED
    BY <1>1, <2>1, <2>2, <2>4, <2>5, OwnStep
<1>4. CASE FindTeam(e) /\ ~Leave(e)
  <2> DEFINE to == [pc |-> "look", call |-> j.call, mine |-> j.mine, seen |-> j.seen, found |-> j.found, tries |-> j.tries]
  <2>2. job' = [job EXCEPT ![e] = to]
    BY <1>1, <1>4, JobFields DEF FindTeam, Step
  <2>4. IsJob(to)
    BY <1>1, JobFields, SameJob
  <2>5. Sound(to)
    BY <1>1, <1>4 DEF Sound, SoundMove, WasThere, FindTeam
  <2> QED
    BY <1>1, <2>2, <2>4, <2>5, OwnStep
<1>5. CASE FindPlace(e) /\ ~Leave(e)
  <2> DEFINE row == place[Subject(e)]
             f == [from |-> j.found.from, at |-> j.found.at]
             deciding == [pc |-> "write", call |-> j.call, mine |-> j.mine, seen |-> row, found |-> f, tries |-> j.tries + 1]
             to == [pc |-> "write", call |-> j.call, mine |-> j.mine, seen |-> row,
                    found |-> [from |-> j.found.from, at |-> row.version], tries |-> j.tries + 1]
  <2>1. /\ row.status \in {"none", "removed"} /\ j.pc = "look"
        /\ job' = [job EXCEPT ![e] = [Deciding(e, "write") EXCEPT !.found.at = row.version]]
    BY <1>5 DEF FindPlace, Reads
  <2>2. Subject(e) \in Branch /\ row \in MemberRow /\ j.tries + 1 \in 0 .. Retries
    BY <1>1, <2>1, JobFields, MembersAssumption DEF Subject, Sound
  <2>3. [Deciding(e, "write") EXCEPT !.found.at = row.version] = to
    <3>1. j.found = f
        BY <1>1, FoundFields
    <3>2. Deciding(e, "write") = [pc |-> "write", call |-> j.call, mine |-> j.mine, seen |-> row,
                                 found |-> j.found, tries |-> j.tries + 1]
        BY <1>1, Changed DEF Deciding, Reads
    <3>3. [deciding EXCEPT !.found.at = row.version] = to
        OBVIOUS
    <3> QED
        BY <3>1, <3>2, <3>3
  <2>4. IsJob(to) /\ row.version \in Nat
    <3>1. row.version \in Nat /\ [from |-> j.found.from, at |-> row.version] \in Versions
        BY <1>1, <2>2, FoundFields DEF MemberRow
    <3> QED
        BY <1>1, <2>2, <3>1, SameJob, JobFields
  <2>5. Sound(to)
    BY <1>1, <2>1 DEF Sound, SoundMove, WasThere
  <2> QED
    BY <1>1, <2>1, <2>3, <2>4, <2>5, OwnStep
<1> QED
    BY <1>2, <1>3, <1>4, <1>5


(* The row a transaction writes now, beside those it has written.          *)
LEMMA WrittenRows ==
    ASSUME NEW e \in Editor, IsJob(job[e]), Subject(e) \in Branch, \A b \in Branch : place[b] \in MemberRow,
           NEW status \in MemberStatus, NEW roles \in SUBSET TeamRole
    PROVE  LET now == Writes(e, status, roles)
           IN  /\ DOMAIN now = DOMAIN job[e].mine \cup {Subject(e)}
               /\ now \in [DOMAIN job[e].mine \cup {Subject(e)} -> MemberRow]
               /\ now[Subject(e)] = [status |-> status, roles |-> roles, version |-> place[Subject(e)].version + 1]
               /\ \A b \in DOMAIN job[e].mine \ {Subject(e)} : now[b] = job[e].mine[b]
<1>1. [status |-> status, roles |-> roles, version |-> place[Subject(e)].version + 1] \in MemberRow
    BY DEF MemberRow
<1>2. \A b \in DOMAIN job[e].mine : job[e].mine[b] \in MemberRow
    BY JobFields
<1> QED
    BY <1>1, <1>2 DEF Writes, Reads

(* The row of an addition is written.                                      *)
LEMMA PlacedStep ==
    ASSUME MembersInv, NEW e \in Editor, job[e].pc = "write", Free(e), Unseen, NEW roles \in SUBSET TeamRole,
           place[job[e].call.at].status \in {"none", "removed"},
           job' = [job EXCEPT ![e] = HasWritten(e, AfterAdd(e), Added[job[e].call.op], roles)]
    PROVE  MembersInv'
<1> DEFINE j == job[e]
           status == Added[j.call.op]
           next == AfterAdd(e)
           now == Writes(e, status, roles)
           to == [pc |-> next, call |-> j.call, mine |-> now, seen |-> j.seen, found |-> j.found, tries |-> 0]
<1>1. /\ IsJob(j) /\ Sound(j) /\ open \subseteq Branch /\ jobs \in Nat /\ \A b \in Branch : place[b] \in MemberRow
      /\ UNCHANGED <<open, place, jobs>>
    BY UnderWay DEF Unseen
<1>2. Subject(e) = j.call.at /\ j.call.at \in Branch /\ DOMAIN j.mine = {} /\ j.call.op \in Joining
    BY <1>1, JobFields DEF Subject, Sound
<1>3. HasWritten(e, next, status, roles) = to
    BY ZenonT(30), <1>1, Changed DEF HasWritten
<1>4. /\ status \in {"active", "pending"} /\ (j.call.op = "move" => status = "active")
      /\ next = IF j.call.op = "move" THEN "read" ELSE "commit"
    BY <1>2 DEF Added, Joining, AfterAdd
<1> HIDE DEF status, next
<1>5. /\ DOMAIN now = {j.call.at} /\ now \in [{j.call.at} -> MemberRow]
      /\ now[j.call.at] = [status |-> status, roles |-> roles, version |-> place[j.call.at].version + 1]
  <2>1. status \in MemberStatus
    BY <1>4 DEF MemberStatus
  <2>2. /\ DOMAIN now = DOMAIN j.mine \cup {Subject(e)}
        /\ now \in [DOMAIN j.mine \cup {Subject(e)} -> MemberRow]
        /\ now[Subject(e)] = [status |-> status, roles |-> roles, version |-> place[Subject(e)].version + 1]
    BY <1>1, <1>2, <2>1, WrittenRows
  <2>3. DOMAIN j.mine \cup {Subject(e)} = {j.call.at}
    BY <1>2
  <2> HIDE DEF now, j
  <2> QED
    BY <1>2, <2>2, <2>3
<1>6. IsJob(to)
    BY <1>1, <1>2, <1>4, <1>5, JobFields, MakeJob, MembersAssumption
<1> HIDE DEF now
<1>7. Sound(to)
  <2>1. SoundRow(to, j.call.at)
    BY <1>2, <1>5 DEF SoundRow
  <2>2. to.call.op = "move" => SoundMove(to)
    BY <1>1, <1>2, <1>4, <1>5 DEF Sound, SoundMove, WasThere, IsThere
  <2> QED
    BY <1>2, <1>4, <1>5, <2>1, <2>2, MembersAssumption DEF Sound, Joining
<1>8. \A b \in DOMAIN to.mine \ DOMAIN j.mine : \A o \in Editor \ {e} : b \notin DOMAIN job[o].mine
    BY <1>2, <1>5 DEF Free
<1>9. job' = [job EXCEPT ![e] = to]
    BY <1>3 DEF status, next
<1> QED
    BY <1>1, <1>6, <1>7, <1>8, <1>9, OwnStep

(* The statement of an addition writes its row or ends the transaction.    *)
LEMMA PutStep ==
    ASSUME MembersInv, NEW e \in Editor, Revive(e) \/ InsertPlace(e)
    PROVE  MembersInv'
<1> DEFINE j == job[e]
<1>0. j.pc = "write" /\ Free(e) /\ Unseen
    BY DEF Revive, InsertPlace
<1>1. /\ IsJob(j) /\ Sound(j) /\ open \subseteq Branch /\ jobs \in Nat /\ \A b \in Branch : place[b] \in MemberRow
      /\ UNCHANGED <<open, place, jobs>>
    BY <1>0, UnderWay DEF Unseen
<1>2. Reads(e) = place[j.call.at] /\ j.call.at \in Branch
    BY <1>0, <1>1, JobFields DEF Subject, Reads
<1>3. CASE Leave(e)
    BY <1>1, <1>3, LeaveStep
<1>4. CASE ~Leave(e)
  <2>1. /\ \A given \in Given(e) : given \subseteq TeamRole
        /\ place[j.call.at].roles \subseteq TeamRole
    BY <1>1, <1>2, JobFields DEF Given, MemberRow
  <2>2. CASE Revive(e)
    <3>1. PICK given \in Given(e) :
             job' = [job EXCEPT ![e] = HasWritten(e, AfterAdd(e), Added[j.call.op], Reads(e).roles \cup given)]
        BY <1>4, <2>2 DEF Revive
    <3>2. place[j.call.at].status = "removed" /\ Reads(e).roles \cup given \in SUBSET TeamRole
        BY <1>2, <2>1, <2>2 DEF Revive, AsSeen
    <3> QED
        BY <1>0, <3>1, <3>2, PlacedStep
  <2>3. CASE InsertPlace(e)
    <3>1. PICK given \in Given(e) :
             /\ Reads(e).status = "none"
             /\ job' = [job EXCEPT ![e] = HasWritten(e, AfterAdd(e), Added[j.call.op], given)]
        BY <1>4, <2>3 DEF InsertPlace
    <3> QED
        BY <1>0, <1>2, <2>1, <3>1, PlacedStep
  <2> QED
    BY <2>2, <2>3
<1> QED
    BY <1>3, <1>4

(* The statement has found another row than was read: the call starts over *)
(* or takes the row, which is a version further, for its own.              *)
LEMMA MissStep ==
    ASSUME MembersInv, NEW e \in Editor, MissToRevive(e)
    PROVE  MembersInv'
<1> DEFINE j == job[e]
<1>0. j.pc = "write" /\ Unseen
    BY DEF MissToRevive
<1>1. /\ IsJob(j) /\ Sound(j) /\ open \subseteq Branch /\ jobs \in Nat /\ \A b \in Branch : place[b] \in MemberRow
      /\ UNCHANGED <<open, place, jobs>>
    BY <1>0, UnderWay DEF Unseen
<1>2. Reads(e) = place[j.call.at] /\ j.call.at \in Branch /\ DOMAIN j.mine = {} /\ j.call.op \in Joining
    BY <1>0, <1>1, JobFields DEF Subject, Reads, Sound
<1>3. CASE Leave(e)
    BY <1>1, <1>3, LeaveStep
<1>4. CASE Step(e, "look") /\ j.tries < Retries
  <2> DEFINE to == [pc |-> "look", call |-> j.call, mine |-> j.mine, seen |-> j.seen, found |-> j.found, tries |-> j.tries]
  <2>1. job' = [job EXCEPT ![e] = [job[e] EXCEPT !.pc = "look"]]
    BY <1>4 DEF Step
  <2>2. [j EXCEPT !.pc = "look"] = to
    BY <1>1, Changed
  <2>3. IsJob(to)
    BY <1>1, JobFields, SameJob
  <2>4. Sound(to)
    BY <1>0, <1>1, <1>4 DEF Sound, SoundMove, WasThere
  <2> QED
    BY <1>0, <1>1, <2>1, <2>2, <2>3, <2>4, OwnStep
<1>5. CASE /\ Reads(e).version = j.seen.version + 1
           /\ job' = [job EXCEPT ![e] = [job[e] EXCEPT !.pc = AfterAdd(e), !.tries = 0]]
  <2> DEFINE next == AfterAdd(e)
             to == [pc |-> next, call |-> j.call, mine |-> j.mine, seen |-> j.seen, found |-> j.found, tries |-> 0]
  <2>1. next = IF j.call.op = "move" THEN "read" ELSE "commit"
    BY DEF AfterAdd
  <2>2. [j EXCEPT !.pc = next, !.tries = 0] = to
    BY <1>1, Changed
  <2> HIDE DEF next
  <2>3. IsJob(to)
    BY <1>1, <2>1, JobFields, SameJob, MembersAssumption
  <2>4. j.call.op = "move" => place[j.call.at].version > j.found.at
    <3>1. j.found.at \in Nat /\ (j.call.op = "move" => j.seen.version = j.found.at)
        BY <1>0, <1>1, FoundFields DEF Sound, SoundMove
    <3> QED
        BY <1>2, <1>5, <3>1
  <2>5. Sound(to)
    <3>1. to.call.op = "move" => SoundMove(to)
        BY <1>0, <1>1, <1>2, <2>1, <2>4 DEF Sound, SoundMove, WasThere, IsThere
    <3> QED
        BY <1>2, <2>1, <3>1, MembersAssumption DEF Sound, Joining
  <2> QED
    BY <1>1, <1>5, <2>2, <2>3, <2>5, OwnStep DEF next
<1>6. \/ Leave(e)
      \/ Step(e, "look") /\ j.tries < Retries
      \/ /\ Reads(e).version = j.seen.version + 1
         /\ job' = [job EXCEPT ![e] = [job[e] EXCEPT !.pc = AfterAdd(e), !.tries = 0]]
    BY DEF MissToRevive
<1> QED
    BY <1>3, <1>4, <1>5, <1>6

(* Where the decision of a change ends up.                                 *)
LEMMA Decided ==
    ASSUME NEW e \in Editor, job[e].call \in Job, job[e].call.op \notin {"add", "invite"},
           Reads(e) \in MemberRow, Reads(e).status # "none", ~IsSo(e), ~Refuses(e)
    PROVE  Follows(Reads(e).status, NewStatus(job[e].call, Reads(e).status))
<1> DEFINE c == job[e].call
<1>1. c.op \in {"move", "accept", "suspend", "reactivate", "remove", "assign", "unassign"}
    BY DEF Job
<1>2. CASE c.op = "accept"
    BY <1>2 DEF Follows, NewStatus, Refuses, Course
<1>3. CASE c.op \in {"assign", "unassign"}
    BY <1>3 DEF Follows, NewStatus
<1>4. CASE c.op \in {"move", "suspend", "reactivate", "remove"}
  <2>1. MayBecome(Reads(e).status, Target(c.op)) /\ NewStatus(c, Reads(e).status) = Target(c.op)
    BY <1>4 DEF Refuses, NewStatus
  <2> QED
    BY <1>4, <2>1 DEF MayBecome, Target, Follows, Course
<1> QED
    BY <1>1, <1>2, <1>3, <1>4

(* Reading the row of a change.                                            *)
LEMMA ReadStep ==
    ASSUME MembersInv, NEW e \in Editor, ReadPlace(e)
    PROVE  MembersInv'
<1> DEFINE j == job[e]
           row == place[Subject(e)]
<1>0. j.pc = "read" /\ UNCHANGED <<open, place, jobs>>
    BY DEF ReadPlace, Unseen
<1>1. /\ IsJob(j) /\ Sound(j) /\ open \subseteq Branch /\ jobs \in Nat /\ \A b \in Branch : place[b] \in MemberRow
    BY <1>0, UnderWay
<1>2. /\ Subject(e) = IF j.call.op = "move" THEN j.call.from ELSE j.call.at
      /\ Subject(e) \in Branch /\ row \in MemberRow /\ j.call \in Job
    BY <1>0, <1>1, JobFields DEF Subject
<1>3. CASE Leave(e)
    BY <1>0, <1>1, <1>3, LeaveStep
<1>4. CASE IsSo(e) /\ Step(e, "commit")
  <2> DEFINE to == [pc |-> "commit", call |-> j.call, mine |-> j.mine, seen |-> j.seen, found |-> j.found, tries |-> j.tries]
  <2>1. job' = [job EXCEPT ![e] = [job[e] EXCEPT !.pc = "commit"]]
    BY <1>4 DEF Step
  <2>2. [j EXCEPT !.pc = "commit"] = to
    BY <1>1, Changed
  <2>3. IsJob(to)
    BY <1>1, JobFields, SameJob
  <2>4. Sound(to)
    <3>1. ASSUME j.call.op = "move" PROVE IsGone(to)
      <4>1. row.status = "removed" /\ Subject(e) = j.call.from
        BY <1>2, <1>4, <3>1 DEF IsSo, Target, Reads
      <4>2. j.call.from \notin DOMAIN j.mine /\ WasThere(j)
        BY <1>0, <1>1, <3>1 DEF Sound, SoundMove
      <4>3. row.version \in Nat /\ j.found.from \in Nat
        BY <1>1, <1>2, FoundFields DEF MemberRow
      <4> QED
        BY <4>1, <4>2, <4>3 DEF IsGone, WasThere
    <3> QED
        BY <1>0, <1>1, <3>1 DEF Sound, SoundMove, SoundRow, IsThere
  <2> QED
    BY <1>0, <1>1, <2>1, <2>2, <2>3, <2>4, OwnStep
<1>5. CASE row.status # "none" /\ ~IsSo(e) /\ ~Refuses(e) /\ job' = [job EXCEPT ![e] = Deciding(e, "update")]
  <2> DEFINE to == [pc |-> "update", call |-> j.call, mine |-> j.mine, seen |-> row, found |-> j.found, tries |-> j.tries + 1]
  <2>1. Deciding(e, "update") = to
    BY <1>1, Changed DEF Deciding, Reads
  <2>2. j.tries + 1 \in 0 .. Retries
    BY <1>0, <1>1, JobFields, MembersAssumption DEF Sound
  <2>3. IsJob(to)
    BY <1>1, <1>2, <2>2, SameJob, JobFields
  <2>4. Follows(row.status, NewStatus(j.call, row.status))
    BY <1>0, <1>1, <1>2, <1>5, Decided DEF Sound, Reads
  <2>5. Sound(to)
    BY <1>0, <1>1, <2>4 DEF Sound, SoundMove, SoundRow, IsThere, WasThere
  <2> QED
    BY <1>0, <1>1, <1>5, <2>1, <2>3, <2>5, OwnStep
<1>6. \/ Leave(e)
      \/ IsSo(e) /\ Step(e, "commit")
      \/ row.status # "none" /\ ~IsSo(e) /\ ~Refuses(e) /\ job' = [job EXCEPT ![e] = Deciding(e, "update")]
  <2>1. CASE row.status = "none"
    BY <2>1 DEF ReadPlace, Reads, Leave
  <2>2. CASE row.status # "none" /\ IsSo(e)
    BY <2>2 DEF ReadPlace, Reads
  <2>3. CASE row.status # "none" /\ ~IsSo(e)
    <3>1. IF Refuses(e) THEN Leave(e) ELSE job' = [job EXCEPT ![e] = Deciding(e, "update")]
        BY <2>3 DEF ReadPlace, Reads
    <3>2. CASE Refuses(e)
        BY <3>1, <3>2
    <3>3. CASE ~Refuses(e)
        BY <2>3, <3>1, <3>3
    <3> QED
        BY <3>2, <3>3
  <2> QED
    BY <2>1, <2>2, <2>3
<1> QED
    BY <1>3, <1>4, <1>5, <1>6


(* Writing the row of a change.                                            *)
LEMMA UpdateStep ==
    ASSUME MembersInv, NEW e \in Editor, Update(e)
    PROVE  MembersInv'
<1> DEFINE j == job[e]
           row == place[Subject(e)]
           status == NewStatus(j.call, row.status)
           roles == NewRoles(j.call, row.roles)
<1>0. j.pc = "update" /\ Free(e) /\ UNCHANGED <<open, place, jobs>>
    BY DEF Update, Unseen
<1>1. /\ IsJob(j) /\ Sound(j) /\ open \subseteq Branch /\ jobs \in Nat /\ \A b \in Branch : place[b] \in MemberRow
    BY <1>0, UnderWay
<1>2. /\ Subject(e) = IF j.call.op = "move" THEN j.call.from ELSE j.call.at
      /\ Subject(e) \in Branch /\ row \in MemberRow /\ j.call \in Job
      /\ j.call.op \notin {"add", "invite"} /\ DOMAIN j.mine \subseteq (IF j.call.op = "move" THEN {j.call.at} ELSE {})
    BY <1>0, <1>1, JobFields DEF Subject, Sound
<1>3. CASE Leave(e)
    BY <1>0, <1>1, <1>3, LeaveStep
<1>4. CASE Step(e, "read") /\ j.tries < Retries
  <2> DEFINE to == [pc |-> "read", call |-> j.call, mine |-> j.mine, seen |-> j.seen, found |-> j.found, tries |-> j.tries]
  <2>1. job' = [job EXCEPT ![e] = [job[e] EXCEPT !.pc = "read"]]
    BY <1>4 DEF Step
  <2>2. [j EXCEPT !.pc = "read"] = to
    BY <1>1, Changed
  <2>3. IsJob(to)
    BY <1>1, JobFields, SameJob
  <2>4. Sound(to)
    BY <1>0, <1>1, <1>4 DEF Sound, SoundMove, SoundRow, IsThere, WasThere
  <2> QED
    BY <1>0, <1>1, <2>1, <2>2, <2>3, <2>4, OwnStep
<1>5. CASE AsSeen(e) /\ job' = [job EXCEPT ![e] = HasWritten(e, "commit", status, roles)]
  <2> DEFINE now == Writes(e, status, roles)
             to == [pc |-> "commit", call |-> j.call, mine |-> now, seen |-> j.seen, found |-> j.found, tries |-> 0]
  <2>1. HasWritten(e, "commit", status, roles) = to
    BY <1>1, Changed DEF HasWritten
  <2>2. Follows(row.status, status)
    BY <1>0, <1>1, <1>5 DEF AsSeen, Reads, Sound
  <2>3. status \in MemberStatus /\ roles \in SUBSET TeamRole
    <3>1. status \in MemberStatus
        BY <1>2, <2>2 DEF Follows, Course, MemberRow, MemberStatus
    <3>2. j.call.role \in TeamRole /\ row.roles \subseteq TeamRole
        BY <1>1, <1>2, JobFields DEF MemberRow
    <3> QED
        BY <3>1, <3>2 DEF NewRoles
  <2>4. /\ DOMAIN now = DOMAIN j.mine \cup {Subject(e)} /\ now \in [DOMAIN j.mine \cup {Subject(e)} -> MemberRow]
        /\ now[Subject(e)] = [status |-> status, roles |-> roles, version |-> row.version + 1]
        /\ \A b \in DOMAIN j.mine \ {Subject(e)} : now[b] = j.mine[b]
    <3> HIDE DEF status, roles
    <3> QED
        BY <1>1, <1>2, <2>3, WrittenRows
  <2>5. DOMAIN j.mine \cup {Subject(e)} \in SUBSET Branch
    BY <1>1, <1>2, JobFields
  <2>6. IsJob(to)
    BY <1>1, <2>4, <2>5, JobFields, MakeJob, MembersAssumption
  <2> HIDE DEF now
  <2>7. \A b \in DOMAIN to.mine : SoundRow(to, b)
    <3> TAKE b \in DOMAIN to.mine
    <3>1. CASE b = Subject(e)
        BY <2>2, <2>4, <3>1 DEF SoundRow
    <3>2. CASE b # Subject(e)
        BY <1>1, <2>4, <3>2 DEF Sound, SoundRow
    <3> QED
        BY <3>1, <3>2
  <2>8. to.call.op = "move" => SoundMove(to)
    <3>1. ASSUME j.call.op = "move"
          PROVE  /\ j.call.at # j.call.from /\ Subject(e) = j.call.from
                 /\ IsThere(j)
        BY <1>0, <1>1, <1>2, <3>1 DEF Sound, SoundMove
    <3>2. j.call.op = "move" => status = "removed"
        BY DEF NewStatus, Target
    <3> QED
        BY <2>4, <3>1, <3>2 DEF SoundMove, IsThere, IsGone
  <2>9. Sound(to)
    BY <2>7, <2>8 DEF Sound
  <2>10. \A b \in DOMAIN to.mine \ DOMAIN j.mine : \A o \in Editor \ {e} : b \notin DOMAIN job[o].mine
    BY <1>0, <2>4 DEF Free
  <2> QED
    BY <1>0, <1>1, <1>5, <2>1, <2>6, <2>9, <2>10, OwnStep
<1>6. \/ Leave(e)
      \/ Step(e, "read") /\ j.tries < Retries
      \/ AsSeen(e) /\ job' = [job EXCEPT ![e] = HasWritten(e, "commit", status, roles)]
  <2>1. CASE AsSeen(e)
    BY <2>1 DEF Update, Reads
  <2>2. CASE ~AsSeen(e)
    BY <2>2 DEF Update
  <2> QED
    BY <2>1, <2>2
<1> QED
    BY <1>3, <1>4, <1>5, <1>6

(* The rows of a transaction become those everyone sees: the others wrote  *)
(* none of them, and what they know of the rest still holds.               *)
LEMMA CommitStep ==
    ASSUME MembersInv, NEW e \in Editor, CommitJob(e)
    PROVE  MembersInv'
<1> DEFINE j == job[e]
<1>0. /\ j.pc = "commit" /\ UNCHANGED <<open, jobs>> /\ job' = [job EXCEPT ![e] = NoJob]
      /\ place' = [b \in Branch |-> IF b \in DOMAIN j.mine THEN j.mine[b] ELSE place[b]]
    BY DEF CommitJob, Leave
<1>1. /\ IsJob(j) /\ Sound(j) /\ open \subseteq Branch /\ jobs \in Nat /\ \A b \in Branch : place[b] \in MemberRow
    BY <1>0, UnderWay
<1>2. DOMAIN j.mine \subseteq Branch /\ \A b \in DOMAIN j.mine : j.mine[b] \in MemberRow /\ SoundRow(j, b)
    BY <1>1, JobFields DEF Sound
<1>3. DOMAIN job' = Editor /\ job'[e] = NoJob /\ \A o \in Editor \ {e} : job'[o] = job[o]
    BY <1>0 DEF MembersInv, MembersTypeOK
<1>4. MembersTypeOK'
  <2>1. place' \in [Branch -> MemberRow]
    BY <1>0, <1>1, <1>2
  <2> QED
    BY <1>0, <1>3, <2>1 DEF MembersInv, MembersTypeOK
<1>5. Apart'
    BY <1>3, NothingMine DEF MembersInv, Apart
<1>6. \A b \in Branch : place'[b] # place[b] => place'[b].version = place[b].version + 1
    BY <1>0, <1>2 DEF SoundRow
<1>7. ASSUME NEW k, IsJob(k), Sound(k), \A b \in DOMAIN k.mine : b \notin DOMAIN j.mine
      PROVE  Sound(k)'
  <2>2. \A b \in DOMAIN k.mine : b \in Branch /\ place'[b] = place[b]
    BY <1>0, <1>7, JobFields
  <2>3. /\ k.call.from \in Branch /\ k.found.from \in Nat /\ place[k.call.from].version \in Nat
        /\ k.call.at \in Branch /\ k.found.at \in Nat /\ place[k.call.at].version \in Nat
    BY <1>1, <1>7, JobFields, FoundFields DEF MemberRow
  <2>4. \A b \in DOMAIN k.mine : SoundRow(k, b)'
    BY <1>7, <2>2 DEF Sound, SoundRow
  <2>5. WasThere(k) => WasThere(k)'
    BY <1>6, <2>3 DEF WasThere
  <2>6. IsGone(k) => IsGone(k)'
    BY <1>6, <2>3 DEF IsGone
  <2>7. IsThere(k) => IsThere(k)'
    BY <1>6, <2>3 DEF IsThere
  <2>8. k.call.op = "move" => SoundMove(k)'
    BY <1>7, <2>5, <2>6, <2>7 DEF Sound, SoundMove
  <2> QED
    BY <1>7, <2>4, <2>8 DEF Sound
<1>8. ASSUME NEW o \in Editor \ {e}, job[o] # NoJob PROVE Sound(job[o])'
  <2>1. IsJob(job[o]) /\ Sound(job[o]) /\ job'[o] = job[o]
    BY <1>3, <1>8 DEF MembersInv, MembersTypeOK, IsJob
  <2>2. \A b \in DOMAIN job[o].mine : b \notin DOMAIN j.mine
    BY DEF MembersInv, Apart
  <2> QED
    BY <1>7, <2>1, <2>2
<1> QED
    BY <1>3, <1>4, <1>5, <1>8 DEF MembersInv

(* Every step.                                                             *)
LEMMA MembersStep ==
    MembersInv /\ [MembersNext]_mvars => MembersInv'
<1> SUFFICES ASSUME MembersInv, [MembersNext]_mvars PROVE MembersInv'
    OBVIOUS
<1>1. ASSUME NEW e \in Editor, NEW call \in Job, StartJob(e, call) PROVE MembersInv'
    BY <1>1, StartStep
<1>2. ASSUME NEW e \in Editor, FindSource(e) \/ FindTeam(e) \/ FindPlace(e) PROVE MembersInv'
    BY <1>2, FindStep
<1>3. ASSUME NEW e \in Editor, Revive(e) \/ InsertPlace(e) \/ MissToRevive(e) \/ ReadPlace(e) \/ Update(e) \/ CommitJob(e)
      PROVE  MembersInv'
    BY <1>3, PutStep, MissStep, ReadStep, UpdateStep, CommitStep
<1>4. ASSUME NEW e \in Editor, AbortJob(e) PROVE MembersInv'
    BY <1>4, LeaveStep DEF AbortJob, Undone, MembersInv, MembersTypeOK
<1>5. ASSUME NEW b \in Branch, OpenOrClose(b) PROVE MembersInv'
  <2>1. place' = place /\ job' = job /\ open' \subseteq Branch /\ jobs' \in Nat
    BY <1>5 DEF OpenOrClose, MembersInv, MembersTypeOK
  <2>2. \A k : Sound(k)' <=> Sound(k)
    BY <2>1 DEF Sound, SoundRow, SoundMove, WasThere, IsThere, IsGone
  <2> QED
    BY <2>1, <2>2 DEF MembersInv, MembersTypeOK, Apart
<1>6. CASE UNCHANGED mvars
  <2>1. \A k : Sound(k)' <=> Sound(k)
    BY <1>6 DEF mvars, Sound, SoundRow, SoundMove, WasThere, IsThere, IsGone
  <2> QED
    BY <1>6, <2>1 DEF mvars, MembersInv, MembersTypeOK, Apart
<1> QED
    BY <1>1, <1>2, <1>3, <1>4, <1>5, <1>6 DEF MembersNext

LEMMA MembersStart == MembersInit => MembersInv
<1> SUFFICES ASSUME MembersInit PROVE MembersInv
    OBVIOUS
<1>1. \A e \in Editor : job[e] = NoJob
    BY DEF MembersInit
<1>2. MembersTypeOK
    BY <1>1 DEF MembersInit, MembersTypeOK, MemberRow, MemberStatus
<1> QED
    BY <1>1, <1>2, NothingMine DEF MembersInv, Apart

(* What a step does to the rows: only a commit writes any.                 *)
LEMMA OnlyCommits ==
    ASSUME MembersInv, [MembersNext]_mvars, place' # place
    PROVE  \E e \in Editor : CommitJob(e)
<1>1. \A e \in Editor : \A call \in Job : StartJob(e, call) => place' = place
    BY DEF StartJob
<1>2. \A e \in Editor : FindSource(e) \/ FindTeam(e) \/ FindPlace(e) \/ Revive(e) \/ MissToRevive(e) \/ InsertPlace(e)
                          \/ ReadPlace(e) \/ Update(e) => place' = place
    BY DEF FindSource, FindTeam, FindPlace, Revive, MissToRevive, InsertPlace, ReadPlace, Update, Unseen
<1>3. \A e \in Editor : AbortJob(e) => place' = place
    BY DEF AbortJob, Undone
<1>4. \A b \in Branch : OpenOrClose(b) => place' = place
    BY DEF OpenOrClose
<1> QED
    BY <1>1, <1>2, <1>3, <1>4 DEF MembersNext, mvars

(* The types are kept.                                                     *)
THEOREM MembersTypeCorrect == MembersSpec => []MembersTypeOK
<1>1. MembersInv => MembersTypeOK
    BY DEF MembersInv
<1> QED
    BY <1>1, MembersStart, MembersStep, PTL DEF MembersSpec

(* Statuses follow their course, whatever the others do.                   *)
THEOREM CoursesAreFollowed == MembersSpec => StatusesFollowTheirCourse
<1> DEFINE OnCourse ==
        \A b \in Branch : place'[b].status # place[b].status =>
          \/ <<place[b].status, place'[b].status>> \in Course
          \/ /\ place[b].status \in {"none", "removed"}
             /\ \E e \in Editor : job'[e] = NoJob /\ job[e] # NoJob /\ job[e].call.op \in Joining /\ job[e].call.at = b
<1>1. ASSUME MembersInv, [MembersNext]_mvars PROVE OnCourse
  <2>1. SUFFICES ASSUME NEW b \in Branch, place'[b].status # place[b].status
                 PROVE  \/ <<place[b].status, place'[b].status>> \in Course
                        \/ /\ place[b].status \in {"none", "removed"}
                           /\ \E e \in Editor : /\ job'[e] = NoJob /\ job[e] # NoJob
                                                 /\ job[e].call.op \in Joining /\ job[e].call.at = b
    OBVIOUS
  <2>2. PICK e \in Editor : CommitJob(e)
    BY <1>1, <2>1, OnlyCommits
  <2>3. job[e] # NoJob /\ Sound(job[e])
    BY <1>1, <2>2, UnderWay DEF CommitJob
  <2>4. b \in DOMAIN job[e].mine /\ place'[b] = job[e].mine[b]
    BY <2>1, <2>2 DEF CommitJob
  <2>5. job'[e] = NoJob
    BY <1>1, <2>2 DEF CommitJob, Leave, MembersInv, MembersTypeOK
  <2>6. SoundRow(job[e], b)
    BY <2>3, <2>4 DEF Sound
  <2> QED
    BY <2>1, <2>3, <2>4, <2>5, <2>6 DEF SoundRow, Follows
<1> QED
    BY <1>1, MembersStart, MembersStep, PTL DEF MembersSpec, StatusesFollowTheirCourse

(* A move that took effect is whole: the member is out of the source, or   *)
(* others put them back; and in the destination, or another call has       *)
(* written that row since the move looked at it.                           *)
THEOREM MovesAreOfOnePiece == MembersSpec => MovesAreWhole
<1> DEFINE Whole(e) ==
        LET from == job[e].call.from
            at   == job[e].call.at
        IN  /\ place'[from].status = "removed" \/ place'[from].version > job[e].found.from + 1
            /\ IF at \in DOMAIN job[e].mine THEN place'[at].status = "active"
               ELSE place'[at].version > job[e].found.at
<1>1. ASSUME MembersInv, [MembersNext]_mvars, NEW e \in Editor, Moved(e) PROVE Whole(e)
  <2>1. PICK o \in Editor : CommitJob(o)
    BY <1>1, OnlyCommits DEF Moved
  <2>2. o = e
    BY <1>1, <2>1 DEF CommitJob, Leave, MembersInv, MembersTypeOK, Moved
  <2>3. IsJob(job[e]) /\ Sound(job[e]) /\ job[e].pc = "commit" /\ job[e].call.op = "move"
    BY <1>1, <2>1, <2>2, UnderWay DEF CommitJob, Moved
  <2>4. /\ job[e].call.at \in Branch /\ job[e].call.from \in Branch /\ job[e].found.from \in Nat
        /\ place[job[e].call.from].version \in Nat
    BY <1>1, <2>3, JobFields, FoundFields DEF MembersInv, MembersTypeOK, MemberRow
  <2>5. \A b \in Branch : place'[b] = IF b \in DOMAIN job[e].mine THEN job[e].mine[b] ELSE place[b]
    BY <2>1, <2>2 DEF CommitJob
  <2>6. IsThere(job[e]) /\ IsGone(job[e])
    BY <2>3 DEF Sound, SoundMove
  <2> QED
    BY <2>4, <2>5, <2>6 DEF IsGone, IsThere
<1>2. MembersInv /\ [MembersNext]_mvars => \A e \in Editor : Moved(e) => Whole(e)
    BY <1>1
<1> QED
    BY <1>2, MembersStart, MembersStep, PTL DEF MembersSpec, MovesAreWhole

(***************************************************************************)
(* IdentityLinks.                                                          *)
(***************************************************************************)
Running ==
    [pc : {"begin", "insert", "commit"} \cup Checks, serializable : BOOLEAN, call : LinkCall,
     view : Views, later : SUBSET Committed, tries : 0 .. MaxTries]

(* Attempts are counted until there is none left.                          *)
LinkInv ==
    /\ LinkTypeOK
    /\ \A s \in Session : session[s].pc = "begin" => session[s].tries < MaxTries
    /\ \A s \in Session : session[s] # NoSession => session[s].pc # "idle"

(* A transaction moves on, or ends.                                        *)
LEMMA SessionStep ==
    ASSUME LinkInv, NEW s \in Session, NEW to, session' = [session EXCEPT ![s] = to],
           to = NoSession \/ (to \in Running /\ (to.pc = "begin" => to.tries < MaxTries)),
           link' \in [Person -> Person \cup {NoPerson}], member' \subseteq Person, writes' \in Nat
    PROVE  LinkInv'
<1>1. DOMAIN session' = Session /\ session'[s] = to /\ \A o \in Session \ {s} : session'[o] = session[o]
    BY DEF LinkInv, LinkTypeOK
<1>2. to \in Running => to.pc # "idle"
    BY DEF Running, Checks
<1>3. NoSession.pc = "idle"
    BY DEF NoSession
<1> QED
    BY <1>1, <1>2, <1>3 DEF LinkInv, LinkTypeOK, Running

(* What is known of a transaction under way.                               *)
LEMMA SessionFields ==
    ASSUME LinkInv, NEW s \in Session, session[s].pc # "idle"
    PROVE  /\ session[s] \in Running
           /\ session[s].call \in LinkCall /\ session[s].call.from \in Person /\ session[s].call.to \in Person
           /\ session[s].pc = "begin" => session[s].tries < MaxTries
           /\ link \in [Person -> Person \cup {NoPerson}] /\ member \subseteq Person /\ writes \in Nat
<1>1. session[s] \in Running
    BY DEF LinkInv, LinkTypeOK, Running, NoSession
<1> QED
    BY <1>1 DEF LinkInv, LinkTypeOK, Running, LinkCall

(* It goes elsewhere, as it is.                                            *)
LEMMA Elsewhere ==
    ASSUME NEW r \in Running, NEW pc \in {"begin", "insert", "commit"} \cup Checks
    PROVE  [r EXCEPT !.pc = pc] \in Running /\ [r EXCEPT !.pc = pc].pc = pc
           /\ [r EXCEPT !.pc = pc].tries = r.tries
BY DEF Running

(* The types of a call's first step and of each attempt.                   *)
LEMMA BeginsTyped ==
    ASSUME LinkInv, NEW s \in Session, NEW call \in LinkCall, NEW inside \in BOOLEAN,
           CallFor(s, call, inside) \/ BeginAttempt(s)
    PROVE  LinkInv'
<1>1. CASE CallFor(s, call, inside)
  <2> DEFINE rec == [pc |-> "begin", serializable |-> Isolated(call, inside), call |-> call,
                     view |-> NoSession.view, later |-> {}, tries |-> 0]
  <2>2. NoSession.view \in Views
    BY DEF Views, NoSession
  <2>3. Isolated(call, inside) \in BOOLEAN
    BY DEF Isolated
  <2>4. rec \in Running /\ rec.tries = 0
    BY <2>2, <2>3, LinkAssumption DEF Running
  <2>5. /\ session' = [session EXCEPT ![s] = rec] /\ link' = link /\ member' = member /\ writes' = writes + 1
        /\ link \in [Person -> Person \cup {NoPerson}] /\ member \subseteq Person /\ writes \in Nat
    BY <1>1 DEF CallFor, Rows, LinkInv, LinkTypeOK
  <2>6. rec.tries < MaxTries
    BY <2>4, LinkAssumption
  <2>7. link' \in [Person -> Person \cup {NoPerson}] /\ member' \subseteq Person /\ writes' \in Nat
    BY <2>5
  <2> HIDE DEF rec
  <2> QED
    BY <2>4, <2>5, <2>6, <2>7, SessionStep
<1>2. CASE BeginAttempt(s)
  <2> DEFINE r == session[s]
             pc == IF r.call.op = "link" THEN "membership" ELSE "insert"
             view == [link |-> link, member |-> member]
             rec == [pc |-> pc, serializable |-> r.serializable, call |-> r.call, view |-> view, later |-> {},
                     tries |-> r.tries + 1]
  <2>1. r.pc = "begin" /\ r.pc # "idle" /\ UNCHANGED <<link, member, writes>>
    BY <1>2 DEF BeginAttempt, Rows
  <2>2. r \in Running /\ r.tries < MaxTries /\ link \in [Person -> Person \cup {NoPerson}]
        /\ member \subseteq Person /\ writes \in Nat
    BY <2>1, SessionFields
  <2>5. view \in Views
    BY <2>2 DEF Views
  <2>6. pc \in Checks \cup {"insert"} /\ r.tries + 1 \in 0 .. MaxTries
    BY <2>2, LinkAssumption DEF Checks, Running
  <2>7. rec \in Running /\ rec.pc # "begin"
    <3> HIDE DEF view, pc
    <3>1. pc \in {"insert", "commit"} \cup Checks /\ pc # "begin"
        BY <2>6 DEF Checks
    <3>2. r.serializable \in BOOLEAN /\ r.call \in LinkCall
        BY <2>2 DEF Running
    <3> QED
        BY <2>5, <2>6, <3>1, <3>2 DEF Running
  <2>8. session' = [session EXCEPT ![s] = rec]
    BY <1>2 DEF BeginAttempt, Attempt
  <2> HIDE DEF rec
  <2> QED
    BY <2>1, <2>2, <2>7, <2>8, SessionStep
<1> QED
    BY <1>1, <1>2

(* The types of the steps that go on, or end, one transaction.             *)
LEMMA GoesOnTyped ==
    ASSUME LinkInv, NEW s \in Session, CheckLink(s) \/ Insert(s) \/ SerializationFailure(s) \/ RollsBack(s)
    PROVE  LinkInv'
<1>1. session[s].pc # "idle" /\ UNCHANGED <<link, member, writes>>
    BY DEF CheckLink, Insert, SerializationFailure, RollsBack, Rows, Checks
<1>2. /\ session[s] \in Running /\ link \in [Person -> Person \cup {NoPerson}] /\ member \subseteq Person
      /\ writes \in Nat /\ session[s].tries \in Nat
    BY <1>1, SessionFields DEF Running
<1>3. CASE LinkEnds(s)
    BY <1>1, <1>2, <1>3, SessionStep DEF LinkEnds
<1>4. ASSUME NEW pc \in {"begin", "insert", "commit"} \cup Checks, To(s, pc),
             pc = "begin" => session[s].tries < MaxTries
      PROVE  LinkInv'
  <2> DEFINE to == [session[s] EXCEPT !.pc = pc]
  <2>1. session' = [session EXCEPT ![s] = to]
    BY <1>4 DEF To
  <2>2. to \in Running /\ to.pc = pc /\ to.tries = session[s].tries
    BY <1>2, Elsewhere
  <2> HIDE DEF to
  <2> QED
    BY <1>1, <1>2, <1>4, <2>1, <2>2, SessionStep
<1>5. \/ LinkEnds(s)
      \/ \E pc \in {"begin", "insert", "commit"} \cup Checks : To(s, pc) /\ (pc = "begin" => session[s].tries < MaxTries)
  <2>1. CASE CheckLink(s)
    <3>1. session[s].pc \in Checks => After(session[s].pc) \in {"insert"} \cup Checks
        BY DEF After, Checks
    <3>2. After(session[s].pc) # "begin"
        BY <2>1 DEF CheckLink, After, Checks
    <3> QED
        BY <2>1, <3>1, <3>2 DEF CheckLink
  <2>2. CASE Insert(s)
    BY <2>2 DEF Insert
  <2>3. CASE SerializationFailure(s)
    BY <2>3 DEF SerializationFailure
  <2>4. CASE RollsBack(s)
    BY <2>4 DEF RollsBack
  <2> QED
    BY <2>1, <2>2, <2>3, <2>4
<1> QED
    BY <1>3, <1>4, <1>5

(* The types of a commit, that those under way learn of.                   *)
LEMMA CommitTyped ==
    ASSUME LinkInv, NEW s \in Session, Commit(s)
    PROVE  LinkInv'
<1> DEFINE c == session[s].call
           entry == [call |-> c, pivot |-> MissedBy(s) # {}]
<1>1. session[s].pc # "idle"
    BY DEF Commit
<1>2. /\ c \in LinkCall /\ c.from \in Person /\ c.to \in Person
      /\ link \in [Person -> Person \cup {NoPerson}] /\ member \subseteq Person /\ writes \in Nat
    BY <1>1, SessionFields
<1>3. link' \in [Person -> Person \cup {NoPerson}] /\ member' \subseteq Person /\ writes' \in Nat
    BY <1>2 DEF Commit
<1>4. entry \in Committed
    BY <1>2 DEF Committed
<1>5. \A o \in Session : \/ session'[o] = NoSession
                         \/ session'[o] = session[o]
                         \/ /\ session[o].pc \notin {"idle", "begin"}
                            /\ session'[o] = [session[o] EXCEPT !.later = @ \cup {entry}]
    BY DEF Commit
<1> HIDE DEF entry
<1>6. ASSUME NEW o \in Session
      PROVE  /\ session'[o] = NoSession \/ session'[o] \in Running
             /\ session'[o].pc = "begin" => session'[o].tries < MaxTries
             /\ session'[o] # NoSession => session'[o].pc # "idle"
  <2>1. CASE session'[o] = NoSession
    BY <2>1 DEF NoSession
  <2>2. CASE session'[o] = session[o]
    BY <2>2 DEF LinkInv, LinkTypeOK, Running
  <2>3. CASE session[o].pc \notin {"idle", "begin"} /\ session'[o] = [session[o] EXCEPT !.later = @ \cup {entry}]
    <3>1. session[o] \in Running
        BY <2>3, SessionFields
    <3>2. session'[o] \in Running /\ session'[o].pc = session[o].pc
        BY <1>4, <2>3, <3>1 DEF Running
    <3> QED
        BY <2>3, <3>2
  <2> QED
    BY <1>5, <2>1, <2>2, <2>3
<1>7. DOMAIN session' = Session
    BY DEF Commit
<1> QED
    BY <1>3, <1>6, <1>7 DEF LinkInv, LinkTypeOK, Running

LEMMA LinksAlways == LinkSpec => []LinkInv
<1>1. LinkInit => LinkInv
    BY LinkAssumption DEF LinkInit, LinkInv, LinkTypeOK, NoSession
<1>2. LinkInv /\ [LinkNext]_lvars => LinkInv'
  <2> SUFFICES ASSUME LinkInv, [LinkNext]_lvars PROVE LinkInv'
    OBVIOUS
  <2>1. ASSUME NEW s \in Session, NEW call \in LinkCall, NEW inside \in BOOLEAN, CallFor(s, call, inside)
        PROVE  LinkInv'
    BY <2>1, BeginsTyped
  <2>2. ASSUME NEW s \in Session, BeginAttempt(s) PROVE LinkInv'
    <3>1. session[s].pc # "idle"
        BY <2>2 DEF BeginAttempt
    <3> QED
        BY <2>2, <3>1, SessionFields, BeginsTyped
  <2>3. ASSUME NEW s \in Session, CheckLink(s) \/ Insert(s) \/ SerializationFailure(s) \/ RollsBack(s)
        PROVE  LinkInv'
    BY <2>3, GoesOnTyped
  <2>4. ASSUME NEW s \in Session, Commit(s) PROVE LinkInv'
    BY <2>4, CommitTyped
  <2>5. ASSUME NEW p \in Person, Unlink(p) \/ Leaves(p) PROVE LinkInv'
    BY <2>5 DEF Unlink, Leaves, LinkInv, LinkTypeOK
  <2>6. CASE UNCHANGED lvars
    BY <2>6 DEF lvars, LinkInv, LinkTypeOK
  <2> QED
    BY <2>1, <2>2, <2>3, <2>4, <2>5, <2>6 DEF LinkNext
<1> QED
    BY <1>1, <1>2, PTL DEF LinkSpec

(* The types are kept.                                                     *)
THEOREM LinksTypeCorrect == LinkSpec => []LinkTypeOK
<1>1. LinkInv => LinkTypeOK
    BY DEF LinkInv
<1> QED
    BY <1>1, LinksAlways, PTL

(* With nothing done inside transactions of the caller, all are            *)
(* serializable, and a transaction knows of what it does not see: whatever *)
(* is linked or a member now, and was not in its view, was committed by     *)
(* one of those it has been told of.                                       *)
UnderWayAtTop(s) == session[s].pc \notin {"idle", "begin"}

KnowsLinks(s) ==
    \A p \in Person :
       link[p] # NoPerson /\ link[p] # session[s].view.link[p] =>
          \E o \in session[s].later : o.call.op = "link" /\ o.call.from = p /\ o.call.to = link[p]

KnowsMembers(s) ==
    \A p \in member \ session[s].view.member :
       \E o \in session[s].later : o.call.op = "join" /\ o.call.from = p

(* What a transaction has found in its view so far.                        *)
HasFound(s) ==
    LET c == session[s].call
        v == session[s].view
        past(steps) == session[s].pc \in steps \cup {"insert", "commit"}
    IN  /\ session[s].pc \in Checks => c.op = "link"
        /\ c.op = "link" /\ past({"existing", "chainAfter", "chainBefore"}) => c.from \notin v.member
        /\ c.op = "link" /\ past({"chainAfter", "chainBefore"}) => v.link[c.from] = NoPerson
        /\ c.op = "link" /\ past({"chainBefore"}) => v.link[c.to] = NoPerson
        /\ c.op = "link" /\ past({}) => \A p \in Person : v.link[p] # c.from
        /\ c.op = "join" /\ session[s].pc = "commit" => v.link[c.from] = NoPerson

SeesEnough(s) ==
    /\ session[s].pc # "idle" =>
          /\ session[s].serializable
          /\ session[s].call.op = "link" => session[s].call.from # session[s].call.to
    /\ UnderWayAtTop(s) => KnowsLinks(s) /\ KnowsMembers(s) /\ HasFound(s)

LinkSafe == LinkInv /\ (\A s \in Session : SeesEnough(s)) /\ NobodyIsTwo /\ NoChains

(* The steps that change no row.                                           *)
LEMMA SeesStep ==
    ASSUME LinkInv, LinkSafe, Inside = {}, NEW s \in Session, NEW call \in LinkCall, NEW inside \in BOOLEAN,
           \/ CallFor(s, call, inside) \/ BeginAttempt(s) \/ CheckLink(s) \/ Insert(s)
           \/ SerializationFailure(s) \/ RollsBack(s)
    PROVE  /\ \A o \in Session : SeesEnough(o)'
           /\ UNCHANGED <<link, member>>
<1>0. UNCHANGED <<link, member>>
    BY DEF CallFor, BeginAttempt, CheckLink, Insert, SerializationFailure, RollsBack, Rows
<1>1. \A o \in Session \ {s} : session'[o] = session[o]
    BY DEF CallFor, BeginAttempt, CheckLink, Insert, SerializationFailure, RollsBack, LinkEnds, To,
           LinkInv, LinkTypeOK
<1>2. \A o \in Session \ {s} : SeesEnough(o)'
    BY <1>0, <1>1 DEF LinkSafe, SeesEnough, UnderWayAtTop, KnowsLinks, KnowsMembers, HasFound
<1>3. s \in DOMAIN session /\ SeesEnough(s)
    BY DEF LinkSafe, LinkInv, LinkTypeOK
<1>4. ASSUME LinkEnds(s) PROVE SeesEnough(s)'
    BY <1>3, <1>4 DEF LinkEnds, NoSession, SeesEnough, UnderWayAtTop
<1>5. ASSUME CallFor(s, call, inside) PROVE SeesEnough(s)'
  <2>1. inside = FALSE
    BY <1>5 DEF CallFor
  <2>2. /\ session'[s].pc = "begin" /\ session'[s].call = call /\ session'[s].serializable = TRUE
        /\ (call.op = "link" => call.from # call.to)
    BY <1>3, <1>5, <2>1 DEF CallFor, Isolated
  <2>3. session'[s].serializable /\ ~UnderWayAtTop(s)'
    BY <2>2 DEF UnderWayAtTop
  <2> QED
    BY <2>2, <2>3 DEF SeesEnough
<1>6. ASSUME BeginAttempt(s) PROVE SeesEnough(s)'
  <2>1. session[s].pc = "begin" /\ session' = [session EXCEPT ![s] = Attempt(s)]
    BY <1>6 DEF BeginAttempt
  <2>2. /\ session'[s].view.link = link /\ session'[s].view.member = member
        /\ session'[s].call = session[s].call /\ session'[s].serializable = session[s].serializable
        /\ session'[s].pc = IF session[s].call.op = "link" THEN "membership" ELSE "insert"
        /\ session[s].call.op \in {"link", "join"}
    BY <1>3, <2>1, SessionFields DEF Attempt, LinkCall
  <2>3. KnowsLinks(s)' /\ KnowsMembers(s)'
    BY <1>0, <2>2 DEF KnowsLinks, KnowsMembers
  <2>4. HasFound(s)'
    BY <2>2 DEF HasFound, Checks
  <2>5. session[s].pc # "idle" /\ session[s].serializable
        /\ (session'[s].call.op = "link" => session'[s].call.from # session'[s].call.to)
    BY <1>3, <2>1, <2>2 DEF SeesEnough
  <2>6. session'[s].serializable
    BY <2>2, <2>5
  <2> QED
    BY <2>3, <2>4, <2>5, <2>6 DEF SeesEnough
<1>7. ASSUME UnderWayAtTop(s), HasFound(s)', \E pc : To(s, pc)
      PROVE  SeesEnough(s)'
  <2>1. /\ session'[s].view = session[s].view /\ session'[s].later = session[s].later
        /\ session'[s].call = session[s].call /\ session'[s].serializable = session[s].serializable
    BY <1>3, <1>7, SessionFields DEF To, Running, UnderWayAtTop
  <2> QED
    BY <1>0, <1>3, <1>7, <2>1 DEF SeesEnough, UnderWayAtTop, KnowsLinks, KnowsMembers
<1>8. ASSUME NEW pc, To(s, pc), UnderWayAtTop(s)
      PROVE  /\ session'[s].view = session[s].view /\ session'[s].call = session[s].call /\ session'[s].pc = pc
             /\ session[s] \in Running /\ View(s) = session[s].view
    BY <1>3, <1>8, SessionFields DEF To, UnderWayAtTop, View, SeesEnough, Running
<1>9. ASSUME CheckLink(s) /\ ~LinkEnds(s) PROVE SeesEnough(s)'
  <2>1. session[s].pc \in Checks /\ ~Refused(s) /\ To(s, After(session[s].pc)) /\ UnderWayAtTop(s)
    BY <1>9 DEF CheckLink, UnderWayAtTop, Checks
  <2>2. HasFound(s) /\ View(s) = session[s].view
    BY <1>3, <1>8, <2>1 DEF SeesEnough
  <2>3. HasFound(s)'
    <3> DEFINE pc == session[s].pc
    <3>1. session'[s].view = session[s].view /\ session'[s].call = session[s].call /\ session'[s].pc = After(pc)
        BY <1>8, <2>1
    <3>2. session[s].call.op = "link"
        BY <2>1, <2>2 DEF HasFound
    <3>3. CASE pc = "membership"
        BY <2>1, <2>2, <3>1, <3>2, <3>3 DEF HasFound, Refused, After, Checks
    <3>4. CASE pc = "existing"
        BY <2>1, <2>2, <3>1, <3>2, <3>4 DEF HasFound, Refused, After, Checks, Linked
    <3>5. CASE pc = "chainAfter"
        BY <2>1, <2>2, <3>1, <3>2, <3>5 DEF HasFound, Refused, After, Checks, Linked
    <3>6. CASE pc = "chainBefore"
        BY <2>1, <2>2, <3>1, <3>2, <3>6 DEF HasFound, Refused, After, Checks
    <3> QED
        BY <2>1, <3>3, <3>4, <3>5, <3>6 DEF Checks
  <2> QED
    BY <1>7, <2>1, <2>3
<1>10. ASSUME Insert(s) /\ ~LinkEnds(s) PROVE SeesEnough(s)'
  <2>1. session[s].pc = "insert" /\ To(s, "commit") /\ UnderWayAtTop(s)
        /\ (session[s].call.op = "join" => ~Linked(View(s), session[s].call.from))
    BY <1>10 DEF Insert, UnderWayAtTop
  <2>2. HasFound(s) /\ View(s) = session[s].view
    BY <1>3, <1>8, <2>1 DEF SeesEnough
  <2>3. HasFound(s)'
    BY <1>8, <2>1, <2>2 DEF HasFound, Checks, Linked
  <2> QED
    BY <1>7, <2>1, <2>3
<1>11. ASSUME To(s, "begin"), UnderWayAtTop(s)
       PROVE  SeesEnough(s)'
  <2>1. /\ session'[s].pc = "begin" /\ session'[s].call = session[s].call
        /\ session'[s].serializable = session[s].serializable
    BY <1>3, <1>11, SessionFields DEF To, Running, UnderWayAtTop
  <2> QED
    BY <1>3, <1>11, <2>1 DEF SeesEnough, UnderWayAtTop
<1>12. SeesEnough(s)'
    BY <1>4, <1>5, <1>6, <1>9, <1>10, <1>11 DEF SerializationFailure, RollsBack, UnderWayAtTop
<1> QED
    BY <1>0, <1>2, <1>12

(* What a commit adds, everybody under way learns.                         *)
LEMMA CommitIsTold ==
    ASSUME LinkSafe, NEW s \in Session, Commit(s), NEW o \in Session
    PROVE  SeesEnough(o)'
<1> DEFINE c == session[s].call
           entry == [call |-> c, pivot |-> MissedBy(s) # {}]
<1>1. session[s].pc = "commit" /\ SeesEnough(s) /\ SeesEnough(o)
    BY DEF Commit, LinkSafe
<1>2. session[s].serializable /\ c \in LinkCall /\ c.op \in {"link", "join"} /\ c.from \in Person
      /\ link \in [Person -> Person \cup {NoPerson}]
    BY <1>1, SessionFields DEF SeesEnough, LinkSafe, LinkCall
<1>3. CASE session'[o] = NoSession
    BY <1>3 DEF NoSession, SeesEnough, UnderWayAtTop
<1>4. CASE session'[o] = session[o] /\ session[o].pc \in {"idle", "begin"}
    BY <1>1, <1>4 DEF SeesEnough, UnderWayAtTop
<1>5. CASE session'[o] = [session[o] EXCEPT !.later = @ \cup {entry}] /\ UnderWayAtTop(o)
  <2>1. session[o] \in Running
    BY <1>5, SessionFields DEF LinkSafe, UnderWayAtTop
  <2>2. /\ session'[o].pc = session[o].pc /\ session'[o].serializable = session[o].serializable
        /\ session'[o].call = session[o].call /\ session'[o].view = session[o].view
        /\ session'[o].later = session[o].later \cup {entry}
    BY <1>5, <2>1 DEF Running
  <2>3. entry.call = c
    OBVIOUS
  <2>4. KnowsLinks(o) /\ KnowsMembers(o) /\ HasFound(o)
    BY <1>1, <1>5 DEF SeesEnough
  <2> HIDE DEF entry, c
  <2>5. link' = IF c.op = "link" THEN [link EXCEPT ![c.from] = c.to] ELSE link
    BY DEF Commit, c
  <2>6. member' = IF c.op = "join" THEN member \cup {c.from} ELSE member
    BY DEF Commit, c
  <2>7. KnowsLinks(o)'
    BY <1>2, <2>2, <2>3, <2>4, <2>5 DEF KnowsLinks
  <2>8. KnowsMembers(o)'
    BY <1>2, <2>2, <2>3, <2>4, <2>6 DEF KnowsMembers
  <2>9. HasFound(o)'
    BY <2>2, <2>4 DEF HasFound
  <2> QED
    BY <1>1, <2>2, <2>7, <2>8, <2>9 DEF SeesEnough, UnderWayAtTop
<1> QED
    BY <1>2, <1>3, <1>4, <1>5 DEF Commit, UnderWayAtTop

(* PostgreSQL's refusal comes in time: whatever was committed against what  *)
(* a transaction has found is a conflict out of it and one into it.  So     *)
(* what the checks of a call found is still so when it commits.            *)
LEMMA StillAsFound ==
    ASSUME LinkSafe, NEW s \in Session, Commit(s)
    PROVE  LET c == session[s].call
           IN  /\ c.from \in Person /\ c.to \in Person /\ c.op \in {"link", "join"}
               /\ link[c.from] = NoPerson
               /\ c.op = "link" => /\ c.from # c.to /\ c.from \notin member
                                  /\ link[c.to] = NoPerson /\ \A p \in Person : link[p] # c.from
<1> DEFINE c == session[s].call
           r == session[s]
<1>1. r.pc = "commit" /\ ~MustAbort(s) /\ SeesEnough(s)
    BY DEF Commit, LinkSafe
<1>2. r \in Running /\ c.from \in Person /\ c.to \in Person /\ link \in [Person -> Person \cup {NoPerson}]
      /\ member \subseteq Person /\ c.op \in {"link", "join"}
    BY <1>1, SessionFields DEF LinkSafe, LinkCall
<1>3. r.serializable /\ KnowsLinks(s) /\ KnowsMembers(s) /\ HasFound(s) /\ (c.op = "link" => c.from # c.to)
    BY <1>1 DEF SeesEnough, UnderWayAtTop
<1>4. ~\E o \in r.later : Misses(c, o.call) /\ Misses(o.call, c)
    BY <1>1, <1>3 DEF MustAbort, MissedBy
<1>5. r.view.link[c.from] = NoPerson
    BY <1>1, <1>2, <1>3 DEF HasFound
<1>6. link[c.from] = NoPerson
  <2> SUFFICES ASSUME link[c.from] # NoPerson PROVE FALSE
      OBVIOUS
  <2>1. PICK o \in r.later : o.call.op = "link" /\ o.call.from = c.from
      BY <1>2, <1>3, <1>5 DEF KnowsLinks
  <2> QED
      BY <1>2, <1>4, <2>1 DEF Misses
<1>7. ASSUME c.op = "link" PROVE c.from \notin member
  <2> SUFFICES ASSUME c.from \in member PROVE FALSE
      OBVIOUS
  <2>1. PICK o \in r.later : o.call.op = "join" /\ o.call.from = c.from
      BY <1>1, <1>3, <1>7 DEF KnowsMembers, HasFound
  <2> QED
      BY <1>4, <1>7, <2>1 DEF Misses
<1>8. ASSUME c.op = "link" PROVE link[c.to] = NoPerson
  <2> SUFFICES ASSUME link[c.to] # NoPerson PROVE FALSE
      OBVIOUS
  <2>1. PICK o \in r.later : o.call.op = "link" /\ o.call.from = c.to
      BY <1>1, <1>2, <1>3, <1>8 DEF KnowsLinks, HasFound
  <2> QED
      BY <1>4, <1>8, <2>1 DEF Misses
<1>9. ASSUME c.op = "link", NEW p \in Person PROVE link[p] # c.from
  <2> SUFFICES ASSUME link[p] = c.from PROVE FALSE
      OBVIOUS
  <2>1. link[p] # NoPerson /\ r.view.link[p] # c.from
      BY <1>1, <1>2, <1>3, <1>9, LinkAssumption DEF HasFound
  <2>2. PICK o \in r.later : o.call.op = "link" /\ o.call.from = p /\ o.call.to = c.from
      BY <1>3, <2>1 DEF KnowsLinks
  <2> QED
      BY <1>4, <1>9, <2>2 DEF Misses
<1> QED
    BY <1>2, <1>3, <1>6, <1>7, <1>8, <1>9

LEMMA CommitIsSafe ==
    ASSUME LinkSafe, NEW s \in Session, Commit(s)
    PROVE  NobodyIsTwo' /\ NoChains'
<1> DEFINE c == session[s].call
<1>1. /\ c.from \in Person /\ c.to \in Person /\ c.op \in {"link", "join"}
      /\ link[c.from] = NoPerson
      /\ c.op = "link" => /\ c.from # c.to /\ c.from \notin member
                         /\ link[c.to] = NoPerson /\ \A p \in Person : link[p] # c.from
    BY StillAsFound
<1>2. link \in [Person -> Person \cup {NoPerson}] /\ member \subseteq Person /\ NobodyIsTwo /\ NoChains
    BY DEF LinkSafe, LinkInv, LinkTypeOK
<1>3. CASE c.op = "join"
  <2>1. link' = link /\ member' = member \cup {c.from}
    BY <1>3 DEF Commit
  <2> QED
    BY <1>1, <1>2, <2>1 DEF NobodyIsTwo, NoChains
<1>4. CASE c.op = "link"
  <2>1. link' = [link EXCEPT ![c.from] = c.to] /\ member' = member
    BY <1>4 DEF Commit
  <2>2. NobodyIsTwo'
    BY <1>1, <1>2, <1>4, <2>1 DEF NobodyIsTwo
  <2>3. NoChains'
    BY <1>1, <1>2, <1>4, <2>1, LinkAssumption DEF NoChains
  <2> QED
    BY <2>2, <2>3
<1> QED
    BY <1>1, <1>3, <1>4

LEMMA LinksStaySafe == ASSUME Inside = {} PROVE LinkSafe /\ LinkInv' /\ [LinkNext]_lvars => LinkSafe'
<1> SUFFICES ASSUME Inside = {}, LinkSafe, LinkInv', [LinkNext]_lvars PROVE LinkSafe'
    OBVIOUS
<1>1. ASSUME NEW s \in Session, NEW call \in LinkCall, NEW inside \in BOOLEAN,
             \/ CallFor(s, call, inside) \/ BeginAttempt(s) \/ CheckLink(s) \/ Insert(s)
             \/ SerializationFailure(s) \/ RollsBack(s)
      PROVE  LinkSafe'
    BY <1>1, SeesStep DEF LinkSafe, NobodyIsTwo, NoChains
<1>2. ASSUME NEW s \in Session, Commit(s) PROVE LinkSafe'
    BY <1>2, CommitIsTold, CommitIsSafe DEF LinkSafe
<1>3. ASSUME NEW p \in Person, Unlink(p) PROVE LinkSafe'
  <2>1. link' = [link EXCEPT ![p] = NoPerson] /\ UNCHANGED <<member, session>>
        /\ link \in [Person -> Person \cup {NoPerson}] /\ link[p] # NoPerson
    BY <1>3 DEF Unlink, LinkSafe, LinkInv, LinkTypeOK
  <2>2. \A s \in Session : SeesEnough(s)'
    BY <2>1 DEF LinkSafe, SeesEnough, UnderWayAtTop, KnowsLinks, KnowsMembers, HasFound
  <2>3. NobodyIsTwo' /\ NoChains'
    BY <2>1, LinkAssumption DEF LinkSafe, NobodyIsTwo, NoChains, LinkInv, LinkTypeOK
  <2> QED
    BY <2>2, <2>3 DEF LinkSafe
<1>4. ASSUME NEW p \in Person, Leaves(p) PROVE LinkSafe'
  <2>1. member' = member \ {p} /\ UNCHANGED <<link, session>>
    BY <1>4 DEF Leaves
  <2>2. \A s \in Session : SeesEnough(s)'
    BY <2>1 DEF LinkSafe, SeesEnough, UnderWayAtTop, KnowsLinks, KnowsMembers, HasFound
  <2> QED
    BY <2>1, <2>2 DEF LinkSafe, NobodyIsTwo, NoChains
<1>5. CASE UNCHANGED lvars
    BY <1>5 DEF lvars, LinkSafe, SeesEnough, UnderWayAtTop, KnowsLinks, KnowsMembers, HasFound, NobodyIsTwo, NoChains
<1>6. ASSUME NEW s \in Session,
             BeginAttempt(s) \/ CheckLink(s) \/ Insert(s) \/ SerializationFailure(s) \/ RollsBack(s)
      PROVE  LinkSafe'
  <2>1. session[s].pc # "idle"
    BY <1>6 DEF BeginAttempt, CheckLink, Insert, SerializationFailure, RollsBack, Checks
  <2> QED
    BY <1>1, <1>6, <2>1, SessionFields DEF LinkSafe
<1> QED
    BY <1>1, <1>2, <1>3, <1>4, <1>5, <1>6 DEF LinkNext

LEMMA LinksAreSafe == ASSUME Inside = {} PROVE LinkSpec => []LinkSafe
<1>1. LinkInit => LinkSafe
    BY LinkAssumption
       DEF LinkInit, LinkSafe, LinkInv, LinkTypeOK, NoSession, SeesEnough, UnderWayAtTop, NobodyIsTwo, NoChains
<1>2. LinkSafe /\ LinkInv' /\ [LinkNext]_lvars => LinkSafe'
    BY LinksStaySafe
<1> QED
    BY <1>1, <1>2, LinksAlways, PTL DEF LinkSpec

(* An identity that is linked away owns no membership, as long as links and *)
(* memberships are made in transactions of their own: of two that each     *)
(* found the other not there, the second is refused.                       *)
THEOREM LinkedOrMember == ASSUME Inside = {} PROVE LinkSpec => []NobodyIsTwo
<1>1. LinkSafe => NobodyIsTwo
    BY DEF LinkSafe
<1> QED
    BY <1>1, LinksAreSafe, PTL

(* Under the same condition no link leads to an identity that is linked.   *)
THEOREM LinksNeverChain == ASSUME Inside = {} PROVE LinkSpec => []NoChains
<1>1. LinkSafe => NoChains
    BY DEF LinkSafe
<1> QED
    BY <1>1, LinksAreSafe, PTL

(* A commit is a call of the in-memory storage.  One that creates a        *)
(* membership that is there changes nothing.                               *)
LEMMA CommitIsACall ==
    ASSUME LinkSafe, NEW s \in Session, Commit(s)
    PROVE  [Atomic!Next]_Atomic!vars
<1> DEFINE c == session[s].call
<1>1. /\ c.from \in Person /\ c.to \in Person /\ c.op \in {"link", "join"}
      /\ link[c.from] = NoPerson
      /\ c.op = "link" => /\ c.from # c.to /\ c.from \notin member
                         /\ link[c.to] = NoPerson /\ \A p \in Person : link[p] # c.from
    BY StillAsFound
<1>2. CASE c.op = "link"
  <2>1. link' = [link EXCEPT ![c.from] = c.to] /\ member' = member
    BY <1>2 DEF Commit
  <2>2. Atomic!LinkIdentity(c.from, c.to)
    BY <1>1, <1>2, <2>1 DEF Atomic!LinkIdentity
  <2> QED
    BY <1>1, <2>2 DEF Atomic!Next
<1>3. CASE c.op = "join"
  <2>1. link' = link /\ member' = member \cup {c.from}
    BY <1>3 DEF Commit
  <2>2. CASE c.from \in member
    BY <2>1, <2>2 DEF Atomic!vars
  <2>3. CASE c.from \notin member
    <3>1. Atomic!CreateMembership(c.from)
        BY <1>1, <2>1, <2>3 DEF Atomic!CreateMembership
    <3> QED
        BY <1>1, <3>1 DEF Atomic!Next
  <2> QED
    BY <2>2, <2>3
<1> QED
    BY <1>1, <1>2, <1>3

(* Every step before the commit changes nothing anybody else sees.         *)
LEMMA LinkStepIsACall == LinkSafe /\ [LinkNext]_lvars => [Atomic!Next]_Atomic!vars
<1> SUFFICES ASSUME LinkSafe, [LinkNext]_lvars PROVE [Atomic!Next]_Atomic!vars
    OBVIOUS
<1>1. ASSUME NEW s \in Session, NEW call \in LinkCall, NEW inside \in BOOLEAN, CallFor(s, call, inside)
      PROVE  UNCHANGED Atomic!vars
    BY <1>1 DEF CallFor, Rows, Atomic!vars
<1>2. ASSUME NEW s \in Session,
             BeginAttempt(s) \/ CheckLink(s) \/ Insert(s) \/ SerializationFailure(s) \/ RollsBack(s)
      PROVE  UNCHANGED Atomic!vars
    BY <1>2 DEF BeginAttempt, CheckLink, Insert, SerializationFailure, RollsBack, Rows, Atomic!vars
<1>3. ASSUME NEW p \in Person, Unlink(p) PROVE Atomic!Next
    BY <1>3 DEF Unlink, Atomic!Next, Atomic!UnlinkIdentity
<1>4. ASSUME NEW p \in Person, Leaves(p) PROVE Atomic!Next
    BY <1>4 DEF Leaves, Atomic!Next, Atomic!DeleteMembership
<1>5. CASE UNCHANGED lvars
    BY <1>5 DEF lvars, Atomic!vars
<1> QED
    BY <1>1, <1>2, <1>3, <1>4, <1>5, CommitIsACall DEF LinkNext

(* Under the same condition links and memberships in PostgreSQL change as   *)
(* they do in memory: whatever the transactions interleave with, each       *)
(* commit is one call whose checks all hold at that instant.                *)
THEOREM LinksImplementAtomicLinks == ASSUME Inside = {} PROVE LinkSpec => LinksAreAtomic
<1>1. LinkInit => Atomic!Init
    BY DEF LinkInit, Atomic!Init
<1>2. LinkSafe /\ [LinkNext]_lvars => [Atomic!Next]_Atomic!vars
    BY LinkStepIsACall
<1> QED
    BY <1>1, <1>2, LinksAreSafe, PTL DEF LinkSpec, LinksAreAtomic, Atomic!Spec


(***************************************************************************)
(* SharedLimit.                                                            *)
(***************************************************************************)
LimitInv ==
    /\ LimitTypeOK
    /\ bucket.at <= ticks
    /\ \A p \in Server : own[p].at <= ticks

(* What time gives back fits the bucket.                                   *)
LEMMA Refills ==
    ASSUME NEW tokens \in 0 .. Burst, NEW at \in Nat, NEW to \in Nat, at <= to
    PROVE  /\ MinOf(Burst, tokens + Rate * (to - at)) \in 0 .. Burst
           /\ MinOf(Lease, MinOf(Burst, tokens + Rate * (to - at))) \in 0 .. Lease
           /\ MinOf(Burst, tokens + Rate * (to - at)) - MinOf(Lease, MinOf(Burst, tokens + Rate * (to - at))) \in 0 .. Burst
<1>1. Burst \in Nat /\ Rate \in Nat /\ Lease \in Nat
    BY LimitAssumption DEF Lease
<1>2. to - at \in Nat
    OBVIOUS
<1>3. Rate * (to - at) \in Nat
  <2> DEFINE span == to - at
  <2>1. span \in Nat
    BY <1>2
  <2> HIDE DEF span
  <2>2. Rate * span \in Nat
    BY <1>1, <2>1
  <2> QED
    BY <2>2 DEF span
<1> DEFINE n == tokens + Rate * (to - at)
<1>4. n \in Nat
    BY <1>1, <1>3
<1> HIDE DEF n
<1>5. MinOf(Burst, n) \in 0 .. Burst
    BY <1>1, <1>4 DEF MinOf
<1> DEFINE k == MinOf(Burst, n)
<1> HIDE DEF k
<1>6. k \in 0 .. Burst
    BY <1>5 DEF k
<1>7. MinOf(Lease, k) \in 0 .. Lease /\ k - MinOf(Lease, k) \in 0 .. Burst
    BY <1>1, <1>6 DEF MinOf
<1> QED
    BY <1>6, <1>7 DEF n, k

Holdings == [Server -> [tokens : 0 .. Lease, expiresAt : Nat, emptyUntil : Nat]]

(* One token less of a lease.                                              *)
LEMMA TokenSpent ==
    ASSUME NEW h \in Holdings, NEW p \in Server, h[p].tokens - 1 \in 0 .. Lease
    PROVE  [h EXCEPT ![p].tokens = @ - 1] \in Holdings
BY DEF Holdings

(* The requests of a process.                                              *)
LEMMA RequestsTyped ==
    ASSUME LimitInv, NEW p \in Server, NEW r \in Request,
           Arrives(p, r) \/ Take(p, r) \/ RefuseEmpty(p, r) \/ AskRefill(p, r) \/ Fallback(p, r)
    PROVE  LimitInv'
<1> USE DEF LimitInv, LimitTypeOK, Waiting
<1>0. Burst \in Nat /\ Lease \in Nat
    BY LimitAssumption DEF Lease
<1>1. CASE Arrives(p, r)
    BY <1>1, LimitAssumption DEF Arrives
<1>2. CASE RefuseEmpty(p, r)
    BY <1>2 DEF RefuseEmpty
<1>3. CASE Take(p, r)
  <2>1. held' \in [Server -> [tokens : 0 .. Lease, expiresAt : Nat, emptyUntil : Nat]]
    <3>1. held[p].tokens - 1 \in 0 .. Lease
        BY <1>0, <1>3 DEF Take, MayTake
    <3>2. held \in Holdings /\ held' = [held EXCEPT ![p].tokens = @ - 1]
        BY <1>3 DEF Take, Holdings
    <3> QED
        BY <3>1, <3>2, TokenSpent DEF Holdings
  <2>2. since' \in [on : BOOLEAN, at : 0 .. MaxTicks, leased : Nat, own : [Server -> Nat]]
    <3>1. Counted(since.leased) \in Nat
        BY DEF Counted
    <3> QED
        BY <1>3, <3>1 DEF Take
  <2> QED
    BY <1>3, <2>1, <2>2 DEF Take
<1>4. CASE AskRefill(p, r)
  <2>1. pending' \in [Server -> [call : {"none", "asking", "answered"}, granted : 0 .. Lease]] /\ pending'[p].call # "none"
        /\ \A s \in Server \ {p} : pending'[s] = pending[s]
    <3>1. [NoRefill EXCEPT !.call = "asking"] = [call |-> "asking", granted |-> 0]
        BY DEF NoRefill
    <3>2. pending' = [pending EXCEPT ![p] = IF pending[p].call = "none" THEN [call |-> "asking", granted |-> 0] ELSE pending[p]]
        BY <1>4, <3>1 DEF AskRefill
    <3> QED
        BY <1>0, <3>2
  <2>2. request' \in [Server -> [Request -> {"idle", "take", "takeAgain", "fallback"} \cup Waiting]]
    BY <1>4 DEF AskRefill
  <2>3. \A s \in Server \ {p} : request'[s] = request[s]
    BY <1>4 DEF AskRefill
  <2>4. \A s \in Server : (\E x \in Request : request'[s][x] \in Waiting) => pending'[s].call # "none"
    BY <2>1, <2>3
  <2> QED
    BY <1>4, <2>1, <2>2, <2>4 DEF AskRefill
<1>5. CASE Fallback(p, r)
  <2>1. own[p].tokens \in 0 .. Burst /\ own[p].at \in Nat /\ ticks \in Nat /\ own[p].at <= ticks
    OBVIOUS
  <2>2. OwnTokens(p) \in 0 .. Burst
    BY <2>1, Refills DEF OwnTokens
  <2>3. OwnTokens(p) - (IF OwnTokens(p) >= 1 THEN 1 ELSE 0) \in 0 .. Burst
    BY <1>0, <2>2
  <2>4. /\ own' \in [Server -> [tokens : 0 .. Burst, at : 0 .. MaxTicks]] /\ \A s \in Server : own'[s].at <= ticks
    BY <1>5, <2>3 DEF Fallback
  <2>5. since' \in [on : BOOLEAN, at : 0 .. MaxTicks, leased : Nat, own : [Server -> Nat]]
    <3>1. Counted(since.own[p]) \in Nat
        BY DEF Counted
    <3>2. [since.own EXCEPT ![p] = Counted(since.own[p])] \in [Server -> Nat]
        BY <3>1
    <3>3. since' = since \/ since' = [since EXCEPT !.own = [since.own EXCEPT ![p] = Counted(since.own[p])]]
        BY <1>5 DEF Fallback
    <3> QED
        BY <3>2, <3>3
  <2>6. request' \in [Server -> [Request -> {"idle", "take", "takeAgain", "fallback"} \cup Waiting]]
        /\ \A s \in Server : \A x \in Request : request'[s][x] \in Waiting => request[s][x] \in Waiting
    BY <1>5 DEF Fallback
  <2> QED
    BY <1>5, <2>4, <2>5, <2>6 DEF Fallback
<1> QED
    BY <1>1, <1>2, <1>3, <1>4, <1>5

(* The call to the storage, and what becomes of those who wait for it.     *)
LEMMA RefillsTyped ==
    ASSUME LimitInv, NEW p \in Server,
           LeaseFromBucket(p) \/ Settle(p) \/ StoreFails(p) \/ Forget(p) \/ ForgetOwn(p)
    PROVE  LimitInv'
<1> USE DEF LimitInv, LimitTypeOK, Waiting
<1>0. Burst \in Nat /\ Lease \in Nat /\ LeaseTtl \in Nat /\ EmptyFor \in Nat /\ ticks \in Nat
    BY LimitAssumption DEF Lease
<1>1. CASE LeaseFromBucket(p)
  <2>1. bucket.tokens \in 0 .. Burst /\ bucket.at \in Nat /\ bucket.at <= ticks
    OBVIOUS
  <2>2. MinOf(Lease, Refilled(bucket)) \in 0 .. Lease /\ LeftIn(bucket) \in 0 .. Burst
    BY <1>0, <2>1, Refills DEF Refilled, LeftIn
  <2>3. bucket' \in [tokens : 0 .. Burst, at : 0 .. MaxTicks] /\ bucket'.at = ticks
    BY <1>1, <2>2 DEF LeaseFromBucket
  <2>4. pending' \in [Server -> [call : {"none", "asking", "answered"}, granted : 0 .. Lease]]
        /\ \A s \in Server : pending'[s].call = "none" => pending[s].call = "none"
    BY <1>1, <2>2 DEF LeaseFromBucket
  <2> QED
    BY <1>1, <2>3, <2>4, <1>0 DEF LeaseFromBucket
<1>2. CASE Settle(p)
  <2>1. held' \in [Server -> [tokens : 0 .. Lease, expiresAt : Nat, emptyUntil : Nat]]
    BY <1>0, <1>2 DEF Settle
  <2>2. pending' \in [Server -> [call : {"none", "asking", "answered"}, granted : 0 .. Lease]]
        /\ \A s \in Server \ {p} : pending'[s] = pending[s]
    BY <1>0, <1>2 DEF Settle, NoRefill
  <2>3. request' \in [Server -> [Request -> {"idle", "take", "takeAgain", "fallback"} \cup Waiting]]
    BY <1>2 DEF Settle, AfterRefill
  <2>4. \A s \in Server \ {p} : \A x \in Request : request'[s][x] = request[s][x]
    BY <1>2 DEF Settle, AfterRefill
  <2>5. \A x \in Request : request'[p][x] \notin Waiting
    BY <1>2 DEF Settle, AfterRefill
  <2> QED
    BY <1>2, <2>1, <2>2, <2>3, <2>4, <2>5 DEF Settle
<1>3. CASE StoreFails(p)
  <2>2. pending' \in [Server -> [call : {"none", "asking", "answered"}, granted : 0 .. Lease]]
        /\ \A s \in Server \ {p} : pending'[s] = pending[s]
    BY <1>0, <1>3 DEF StoreFails, NoRefill
  <2>3. request' \in [Server -> [Request -> {"idle", "take", "takeAgain", "fallback"} \cup Waiting]]
    BY <1>3 DEF StoreFails
  <2>4. \A s \in Server \ {p} : \A x \in Request : request'[s][x] = request[s][x]
    BY <1>3 DEF StoreFails
  <2>5. \A x \in Request : request'[p][x] \notin Waiting
    BY <1>3 DEF StoreFails
  <2> QED
    BY <1>3, <2>2, <2>3, <2>4, <2>5 DEF StoreFails
<1>4. CASE Forget(p)
  <2>1. NoLease \in [tokens : 0 .. Lease, expiresAt : Nat, emptyUntil : Nat]
    BY <1>0 DEF NoLease
  <2> QED
    BY <1>4, <2>1 DEF Forget
<1>5. CASE ForgetOwn(p)
  <2>1. NoOwn \in [tokens : 0 .. Burst, at : 0 .. MaxTicks] /\ NoOwn.at <= ticks
    BY <1>0, LimitAssumption DEF NoOwn
  <2>2. since' \in [on : BOOLEAN, at : 0 .. MaxTicks, leased : Nat, own : [Server -> Nat]]
    <3>1. [since.own EXCEPT ![p] = 0] \in [Server -> Nat]
        OBVIOUS
    <3>2. since' = [since EXCEPT !.own = [since.own EXCEPT ![p] = 0]]
        BY <1>5 DEF ForgetOwn
    <3> QED
        BY <3>1, <3>2
  <2> QED
    BY <1>5, <2>1, <2>2 DEF ForgetOwn
<1> QED
    BY <1>1, <1>2, <1>3, <1>4, <1>5

LEMMA LimitAlways == LimitSpec => []LimitInv
<1>1. LimitInit => LimitInv
  <2> SUFFICES ASSUME LimitInit PROVE LimitInv
    OBVIOUS
  <2>1. Burst \in Nat /\ Lease \in Nat /\ MaxTicks \in Nat /\ MaxRequests \in Nat
    BY LimitAssumption DEF Lease
  <2>2. NoLease \in [tokens : 0 .. Lease, expiresAt : Nat, emptyUntil : Nat]
        /\ NoRefill \in [call : {"none", "asking", "answered"}, granted : 0 .. Lease]
    BY <2>1 DEF NoLease, NoRefill
  <2>3. \A p \in Server : \A r \in Request : request[p][r] = "idle"
    BY DEF LimitInit
  <2> QED
    BY <2>1, <2>2, <2>3 DEF LimitInit, LimitInv, LimitTypeOK, Waiting, NoOwn
<1>2. LimitInv /\ [LimitNext]_rvars => LimitInv'
  <2> SUFFICES ASSUME LimitInv, [LimitNext]_rvars PROVE LimitInv'
    OBVIOUS
  <2>1. ASSUME NEW p \in Server, NEW r \in Request,
               Arrives(p, r) \/ Take(p, r) \/ RefuseEmpty(p, r) \/ AskRefill(p, r) \/ Fallback(p, r)
        PROVE  LimitInv'
    BY <2>1, RequestsTyped
  <2>2. ASSUME NEW p \in Server,
               LeaseFromBucket(p) \/ Settle(p) \/ StoreFails(p) \/ Forget(p) \/ ForgetOwn(p)
        PROVE  LimitInv'
    BY <2>2, RefillsTyped
  <2>3. CASE TimePasses
    BY <2>3, LimitAssumption DEF TimePasses, LimitInv, LimitTypeOK
  <2>4. CASE StartCounting
    <3>1. since' \in [on : BOOLEAN, at : 0 .. MaxTicks, leased : Nat, own : [Server -> Nat]]
        BY <2>4 DEF StartCounting, LimitInv, LimitTypeOK
    <3> QED
        BY <2>4, <3>1 DEF StartCounting, LimitInv, LimitTypeOK
  <2>5. CASE UNCHANGED rvars
    BY <2>5 DEF rvars, LimitInv, LimitTypeOK
  <2> QED
    BY <2>1, <2>2, <2>3, <2>4, <2>5 DEF LimitNext
<1> QED
    BY <1>1, <1>2, PTL DEF LimitSpec

(* The types are kept: no bucket and no lease ever holds more than its     *)
(* size, and nobody waits for a call that nobody makes.                    *)
THEOREM LimitTypeCorrect == LimitSpec => []LimitTypeOK
<1>1. LimitInv => LimitTypeOK
    BY DEF LimitInv
<1> QED
    BY <1>1, LimitAlways, PTL

(* What a process may still let through on what it has leased, or is about *)
(* to be told it has; Out counts that for all processes.                   *)
Left(p) ==
    IF pending[p].call = "answered" THEN pending[p].granted
    ELSE IF MayTake(p) THEN held[p].tokens ELSE 0

Out == {x \in Server \X (1 .. Lease) : x[2] <= Left(x[1])}

(* A process that asks has nothing left.                                   *)
AsksWithout(p) == pending[p].call # "none" => ~MayTake(p)

Budget == Burst + Rate * (ticks - since.at)

LimitKept ==
    /\ \A p \in Server : AsksWithout(p)
    /\ IF since.on
       THEN /\ since.at <= ticks
            /\ since.leased + Cardinality(Out) + Refilled(bucket) <= Budget + Lease * Cardinality(Server)
            /\ \A p \in Server : since.own[p] + OwnTokens(p) <= Budget
       ELSE since.leased = 0 /\ \A p \in Server : since.own[p] = 0

(* What is out is finite, and no more than a lease each.                   *)
LEMMA OutIsFinite ==
    /\ IsFiniteSet(Server \X (1 .. Lease))
           /\ Cardinality(Server \X (1 .. Lease)) = Lease * Cardinality(Server)
           /\ Lease \in Nat /\ Cardinality(Server) \in Nat
           /\ IsFiniteSet(Out) /\ Cardinality(Out) \in Nat /\ Cardinality(Out) <= Lease * Cardinality(Server)
<1>1. Lease \in Nat /\ IsFiniteSet(Server) /\ Cardinality(Server) \in Nat
    BY LimitAssumption, FS_CardinalityType DEF Lease
<1>2. IsFiniteSet(1 .. Lease) /\ Cardinality(1 .. Lease) = Lease
  <2>1. Lease \in Int /\ 1 \in Int
    BY <1>1
  <2>2. IsFiniteSet(1 .. Lease) /\ Cardinality(1 .. Lease) = IF 1 > Lease THEN 0 ELSE Lease - 1 + 1
    BY <2>1, FS_Interval
  <2> QED
    BY <1>1, <2>2
<1>3. IsFiniteSet(Server \X (1 .. Lease)) /\ Cardinality(Server \X (1 .. Lease)) = Cardinality(Server) * Lease
    BY <1>1, <1>2, FS_Product
<1>4. Cardinality(Server) * Lease = Lease * Cardinality(Server)
    BY <1>1
<1>5. Out \in SUBSET (Server \X (1 .. Lease))
    BY DEF Out
<1>6. IsFiniteSet(Out) /\ Cardinality(Out) <= Cardinality(Server \X (1 .. Lease))
    BY <1>3, <1>5, FS_Subset
<1>7. Cardinality(Out) \in Nat
    BY <1>6, FS_CardinalityType
<1> QED
    BY <1>1, <1>3, <1>4, <1>6, <1>7

(* Nobody has more left than before.                                       *)
LEMMA OutShrinks ==
    ASSUME \A p \in Server : Left(p) \in Nat /\ Left(p)' \in Nat /\ Left(p)' <= Left(p)
    PROVE  Cardinality(Out') \in Nat /\ Cardinality(Out') <= Cardinality(Out)
<1>1. Out' \in SUBSET Out
  <2> SUFFICES ASSUME NEW x \in Server \X (1 .. Lease), x[2] <= Left(x[1])' PROVE x[2] <= Left(x[1])
    BY DEF Out
  <2> QED
    BY OutIsFinite
<1>2. IsFiniteSet(Out') /\ Cardinality(Out') <= Cardinality(Out)
    BY <1>1, OutIsFinite, FS_Subset
<1> QED
    BY <1>2, FS_CardinalityType

(* A process lets one through on what it has left.                         *)
LEMMA OutTaken ==
    ASSUME NEW p \in Server, Left(p) \in 1 .. Lease, Left(p)' = Left(p) - 1,
           \A s \in Server \ {p} : Left(s)' = Left(s)
    PROVE  Cardinality(Out') = Cardinality(Out) - 1
<1> DEFINE top == <<p, Left(p)>>
<1>1. top \in Out /\ Lease \in Nat
    BY OutIsFinite DEF Out
<1>2. Out' = Out \ {top}
  <2>1. ASSUME NEW x \in Server \X (1 .. Lease) PROVE x \in Out' <=> x \in Out \ {top}
    <3>1. x[2] \in Nat /\ x = <<x[1], x[2]>> /\ x[1] \in Server
        BY <1>1
    <3>2. CASE x[1] = p
        BY <3>1, <3>2, <1>1 DEF Out
    <3>3. CASE x[1] # p
        BY <3>1, <3>3 DEF Out
    <3> QED
        BY <3>2, <3>3
  <2> QED
    BY <2>1 DEF Out
<1> HIDE DEF top
<1> QED
    BY <1>1, <1>2, OutIsFinite, FS_RemoveElement

(* A process that has nothing left is granted tokens.                      *)
LEMMA OutGranted ==
    ASSUME NEW p \in Server, Left(p) = 0, Left(p)' \in 0 .. Lease,
           \A s \in Server \ {p} : Left(s)' = Left(s)
    PROVE  Cardinality(Out') = Cardinality(Out) + Left(p)'
<1> DEFINE n == Left(p)'
           new == {p} \X (1 .. n)
<1>1. Lease \in Nat /\ n \in 0 .. Lease
    BY OutIsFinite
<1>2. Out' = Out \cup new
  <2>1. ASSUME NEW x \in Server \X (1 .. Lease) PROVE x \in Out' <=> x \in Out \cup new
    <3>1. x[2] \in 1 .. Lease /\ x = <<x[1], x[2]>> /\ x[1] \in Server
        BY <1>1
    <3>2. CASE x[1] = p
      <4>1. x \in Out' <=> x[2] <= n
        BY <3>2 DEF Out
      <4>2. x \notin Out
        BY <1>1, <3>1, <3>2 DEF Out
      <4>3. x \in new <=> x[2] \in 1 .. n
        BY <3>1, <3>2
      <4> HIDE DEF new, n
      <4> QED
        BY <1>1, <3>1, <4>1, <4>2, <4>3
    <3>3. CASE x[1] # p
        BY <3>1, <3>3 DEF Out
    <3> QED
        BY <3>2, <3>3
  <2>2. Out' \subseteq Server \X (1 .. Lease) /\ Out \subseteq Server \X (1 .. Lease)
    BY DEF Out
  <2>3. new \subseteq Server \X (1 .. Lease)
    BY <1>1
  <2> HIDE DEF new
  <2> QED
    BY <2>1, <2>2, <2>3
<1>3. Out \cap new = {}
    BY <1>1 DEF Out
<1> HIDE DEF n
<1>4. IsFiniteSet(1 .. n) /\ Cardinality(1 .. n) = n
  <2>1. n \in Int /\ 1 \in Int
    BY <1>1
  <2>2. IsFiniteSet(1 .. n) /\ Cardinality(1 .. n) = IF 1 > n THEN 0 ELSE n - 1 + 1
    BY <2>1, FS_Interval
  <2> QED
    BY <1>1, <2>2
<1>5. IsFiniteSet({p}) /\ Cardinality({p}) = 1
    BY FS_Singleton
<1>6. IsFiniteSet(new) /\ Cardinality(new) = Cardinality({p}) * Cardinality(1 .. n)
    BY <1>4, <1>5, FS_Product
<1>7. Cardinality(new) = n
    BY <1>1, <1>4, <1>5, <1>6
<1> HIDE DEF new
<1>8. Cardinality({}) = 0
    BY FS_EmptySet
<1>9. Cardinality(Out \cup new) = Cardinality(Out) + Cardinality(new) - Cardinality(Out \cap new)
    BY <1>6, OutIsFinite, FS_Union
<1>10. Cardinality(Out') = Cardinality(Out \cup new) /\ Cardinality(Out \cap new) = 0
    BY <1>2, <1>3, <1>8
<1>11. Cardinality(Out) \in Nat
    BY OutIsFinite
<1>12. Cardinality(Out') = Cardinality(Out) + n
    BY <1>1, <1>7, <1>9, <1>10, <1>11
<1> QED
    BY <1>12 DEF n

(* What has been given back after one more tick, and what fits.            *)
LEMMA OneTickMore ==
    ASSUME NEW r \in Nat, NEW m \in Nat
    PROVE  r * m \in Nat /\ r * (m + 1) = r * m + r
  OBVIOUS

LEMMA GivenBack ==
    ASSUME NEW tokens \in 0 .. Burst, NEW at \in Nat, NEW to \in Nat, at <= to
    PROVE  /\ MinOf(Burst, tokens + Rate * (to - at)) \in 0 .. Burst
           /\ Rate * (to - at) \in Nat
           /\ MinOf(Burst, tokens + Rate * (to - to)) = tokens
           /\ \A next \in Nat : next = to + 1 =>
                 /\ MinOf(Burst, tokens + Rate * (next - at)) \in 0 .. Burst
                 /\ MinOf(Burst, tokens + Rate * (next - at)) <= MinOf(Burst, tokens + Rate * (to - at)) + Rate
                 /\ Rate * (next - at) = Rate * (to - at) + Rate
<1> DEFINE m == to - at
<1>1. m \in Nat /\ Burst \in Nat /\ Rate \in Nat /\ tokens \in Nat /\ tokens <= Burst
    BY LimitAssumption
<1>2. to - to = 0 /\ Rate * 0 = 0
    BY <1>1
<1>3. \A next \in Nat : next = to + 1 => next - at = m + 1
    OBVIOUS
<1> HIDE DEF m
<1> DEFINE back == Rate * m
<1>4. back \in Nat /\ Rate * (m + 1) = back + Rate
    BY <1>1, OneTickMore
<1> HIDE DEF back
<1>5. /\ MinOf(Burst, tokens + back) \in 0 .. Burst
      /\ MinOf(Burst, tokens + (back + Rate)) \in 0 .. Burst
      /\ MinOf(Burst, tokens + (back + Rate)) <= MinOf(Burst, tokens + back) + Rate
      /\ MinOf(Burst, tokens + 0) = tokens
    BY <1>1, <1>4 DEF MinOf
<1>6. ASSUME NEW next \in Nat, next = to + 1
      PROVE  /\ MinOf(Burst, tokens + Rate * (next - at)) \in 0 .. Burst
             /\ MinOf(Burst, tokens + Rate * (next - at)) <= MinOf(Burst, tokens + back) + Rate
             /\ Rate * (next - at) = back + Rate
  <2>1. next - at = m + 1
    BY <1>3, <1>6
  <2>2. Rate * (next - at) = back + Rate
    BY <1>4, <2>1
  <2> QED
    BY <1>5, <2>2
<1> QED
    BY <1>2, <1>4, <1>5, <1>6 DEF m, back

(* The numbers a step finds.                                               *)
LEMMA LimitNumbers ==
    ASSUME LimitInv
    PROVE  /\ \A p \in Server : Left(p) \in 0 .. Lease /\ OwnTokens(p) \in 0 .. Burst
           /\ Refilled(bucket) \in 0 .. Burst /\ Lease \in Nat /\ Burst \in Nat /\ Rate \in Nat
           /\ ticks \in Nat /\ since.at \in Nat /\ since.leased \in Nat
           /\ \A p \in Server : since.own[p] \in Nat
           /\ bucket.tokens \in 0 .. Burst /\ bucket.at \in Nat /\ bucket.at <= ticks
           /\ since.at <= ticks => Budget \in Nat
           /\ Lease * Cardinality(Server) \in Nat
<1>1. Lease \in Nat /\ Burst \in Nat /\ Rate \in Nat /\ Cardinality(Server) \in Nat
    BY LimitAssumption, OutIsFinite
<1>2. /\ ticks \in Nat /\ since.at \in Nat /\ since.leased \in Nat /\ \A p \in Server : since.own[p] \in Nat
      /\ bucket.tokens \in 0 .. Burst /\ bucket.at \in Nat /\ bucket.at <= ticks
    BY DEF LimitInv, LimitTypeOK
<1>3. \A p \in Server : Left(p) \in 0 .. Lease
    BY <1>1 DEF LimitInv, LimitTypeOK, Left, MayTake
<1>4. \A p \in Server : OwnTokens(p) \in 0 .. Burst
  <2> SUFFICES ASSUME NEW p \in Server PROVE OwnTokens(p) \in 0 .. Burst
    OBVIOUS
  <2>1. own[p].tokens \in 0 .. Burst /\ own[p].at \in Nat /\ own[p].at <= ticks
    BY DEF LimitInv, LimitTypeOK
  <2> QED
    BY <1>2, <2>1, GivenBack DEF OwnTokens
<1>5. Refilled(bucket) \in 0 .. Burst
    BY <1>2, GivenBack DEF Refilled
<1>6. since.at <= ticks => Budget \in Nat
  <2> SUFFICES ASSUME since.at <= ticks PROVE Budget \in Nat
    OBVIOUS
  <2>1. 0 \in 0 .. Burst
    BY <1>1
  <2>2. Rate * (ticks - since.at) \in Nat
    BY <1>2, <2>1, GivenBack
  <2> QED
    BY <1>1, <2>2 DEF Budget
<1>7. Lease * Cardinality(Server) \in Nat
    BY <1>1, OneTickMore
<1> QED
    BY <1>1, <1>2, <1>3, <1>4, <1>5, <1>6, <1>7

(* A step that gives nobody more than there was.                           *)
LEMMA GivesNothing ==
    ASSUME LimitInv, LimitInv', LimitKept, UNCHANGED <<bucket, own, ticks, since>>,
           \A p \in Server : AsksWithout(p)' /\ Left(p)' <= Left(p)
    PROVE  LimitKept'
<1>1. /\ Refilled(bucket)' = Refilled(bucket) /\ Budget' = Budget
      /\ \A p \in Server : OwnTokens(p)' = OwnTokens(p)
    BY DEF Refilled, Budget, OwnTokens
<1>2. \A p \in Server : Left(p) \in Nat /\ Left(p)' \in Nat
  <2>1. \A p \in Server : Left(p) \in 0 .. Lease
    BY LimitNumbers
  <2>2. \A p \in Server : Left(p)' \in 0 .. Lease
    <3>1. \A p \in Server : pending'[p].granted \in 0 .. Lease /\ held'[p].tokens \in 0 .. Lease
        BY DEF LimitInv, LimitTypeOK
    <3>2. 0 \in 0 .. Lease
        BY LimitNumbers
    <3> QED
        BY <3>1, <3>2 DEF Left
  <2> QED
    BY <2>1, <2>2
<1>3. Cardinality(Out') \in Nat /\ Cardinality(Out') <= Cardinality(Out) /\ Cardinality(Out) \in Nat
    BY <1>2, OutShrinks, OutIsFinite
<1>4. CASE since.on
  <2>1. /\ since.leased + Cardinality(Out) + Refilled(bucket) <= Budget + Lease * Cardinality(Server)
        /\ since.at <= ticks
    BY <1>4 DEF LimitKept
  <2>2. since.leased + Cardinality(Out') + Refilled(bucket) <= Budget + Lease * Cardinality(Server)
    BY <1>3, <2>1, LimitNumbers
  <2> QED
    BY <1>1, <1>4, <2>2 DEF LimitKept
<1> QED
    BY <1>4 DEF LimitKept

LEMMA LimitKeptStep == LimitInv /\ LimitInv' /\ LimitKept /\ [LimitNext]_rvars => LimitKept'
<1> SUFFICES ASSUME LimitInv, LimitInv', LimitKept, [LimitNext]_rvars PROVE LimitKept'
    OBVIOUS
<1>0. /\ held \in [Server -> [tokens : 0 .. Lease, expiresAt : Nat, emptyUntil : Nat]]
      /\ pending \in [Server -> [call : {"none", "asking", "answered"}, granted : 0 .. Lease]]
      /\ own \in [Server -> [tokens : 0 .. Burst, at : 0 .. MaxTicks]] /\ ticks \in Nat
      /\ \A p \in Server : Left(p) \in 0 .. Lease /\ AsksWithout(p)
      /\ Cardinality(Out) \in Nat /\ Lease \in Nat /\ Burst \in Nat /\ Rate \in Nat /\ LeaseTtl \in Nat \ {0}
    BY LimitNumbers, OutIsFinite, LimitAssumption DEF LimitInv, LimitTypeOK, LimitKept
<1>1. ASSUME NEW p \in Server, NEW r \in Request, Arrives(p, r) \/ RefuseEmpty(p, r) PROVE LimitKept'
  <2>1. UNCHANGED <<bucket, held, pending, own, ticks, since>>
    BY <1>1 DEF Arrives, RefuseEmpty
  <2> QED
    BY <1>0, <2>1, GivesNothing DEF AsksWithout, Left, MayTake
<1>2. ASSUME NEW p \in Server, NEW r \in Request, AskRefill(p, r) PROVE LimitKept'
  <2>1. /\ UNCHANGED <<bucket, held, own, ticks, since>> /\ ~MayTake(p)
        /\ \A s \in Server \ {p} : pending'[s] = pending[s]
        /\ pending'[p] = pending[p] \/ pending'[p].call = "asking"
    BY <1>0, <1>2 DEF AskRefill, NoRefill
  <2>2. \A s \in Server : MayTake(s)' <=> MayTake(s)
    BY <2>1 DEF MayTake
  <2>3. AsksWithout(p)' /\ Left(p)' <= Left(p)
    <3>1. CASE pending'[p] = pending[p]
        BY <1>0, <2>1, <2>2, <3>1 DEF AsksWithout, Left
    <3>2. CASE pending'[p].call = "asking"
        BY <1>0, <2>1, <2>2, <3>2 DEF AsksWithout, Left
    <3> QED
        BY <2>1, <3>1, <3>2
  <2>4. \A s \in Server \ {p} : AsksWithout(s)' /\ Left(s)' <= Left(s)
    BY <1>0, <2>1, <2>2 DEF AsksWithout, Left
  <2> QED
    BY <2>1, <2>3, <2>4, GivesNothing
<1>3. ASSUME NEW p \in Server, Settle(p) \/ StoreFails(p) \/ Forget(p) PROVE LimitKept'
  <2>1. UNCHANGED <<bucket, own, ticks, since>>
    BY <1>3 DEF Settle, StoreFails, Forget
  <2>2. \A s \in Server \ {p} : held'[s] = held[s] /\ pending'[s] = pending[s]
    BY <1>0, <1>3 DEF Settle, StoreFails, Forget
  <2>3. AsksWithout(p)' /\ Left(p)' <= Left(p)
    <3>1. CASE Settle(p)
        BY <1>0, <3>1 DEF Settle, NoRefill, AsksWithout, Left, MayTake
    <3>2. CASE StoreFails(p)
        BY <1>0, <3>2 DEF StoreFails, NoRefill, AsksWithout, Left, MayTake
    <3>3. CASE Forget(p)
        BY <1>0, <3>3 DEF Forget, NoLease, AsksWithout, Left, MayTake
    <3> QED
        BY <1>3, <3>1, <3>2, <3>3
  <2>4. \A s \in Server \ {p} : AsksWithout(s)' /\ Left(s)' <= Left(s)
    BY <1>0, <2>1, <2>2 DEF AsksWithout, Left, MayTake
  <2> QED
    BY <2>1, <2>3, <2>4, GivesNothing
<1>4. ASSUME NEW p \in Server, NEW r \in Request, Take(p, r) PROVE LimitKept'
  <2>1. /\ UNCHANGED <<bucket, pending, own, ticks>> /\ MayTake(p)
        /\ \A s \in Server \ {p} : held'[s] = held[s]
        /\ held'[p].tokens = held[p].tokens - 1 /\ held'[p].expiresAt = held[p].expiresAt
    BY <1>0, <1>4 DEF Take
  <2>2. /\ since'.on = since.on /\ since'.at = since.at /\ since'.own = since.own
        /\ since'.leased = IF since.on THEN since.leased + 1 ELSE since.leased
    BY <1>4 DEF Take, Counted, LimitInv, LimitTypeOK
  <2>3. pending[p].call = "none"
    BY <1>0, <2>1 DEF AsksWithout
  <2>4. Left(p) \in 1 .. Lease /\ Left(p)' = Left(p) - 1
    <3>1. held[p].tokens \in 1 .. Lease /\ Left(p) = held[p].tokens
        BY <1>0, <2>1, <2>3 DEF Left, MayTake
    <3>2. MayTake(p)' <=> held[p].tokens - 1 >= 1
        BY <1>0, <2>1 DEF MayTake
    <3>3. Left(p)' = IF MayTake(p)' THEN held[p].tokens - 1 ELSE 0
        BY <2>1, <2>3 DEF Left
    <3> QED
        BY <1>0, <3>1, <3>2, <3>3
  <2>5. \A s \in Server \ {p} : Left(s)' = Left(s) /\ AsksWithout(s)'
    BY <1>0, <2>1 DEF Left, MayTake, AsksWithout
  <2>6. Cardinality(Out') = Cardinality(Out) - 1
    BY <2>4, <2>5, OutTaken
  <2>7. AsksWithout(p)'
    BY <2>1, <2>3 DEF AsksWithout
  <2>8. Refilled(bucket)' = Refilled(bucket) /\ Budget' = Budget /\ \A s \in Server : OwnTokens(s)' = OwnTokens(s)
    BY <2>1, <2>2 DEF Refilled, Budget, OwnTokens
  <2>9. CASE since.on
    <3>1. since.leased + Cardinality(Out) + Refilled(bucket) <= Budget + Lease * Cardinality(Server)
          /\ since.at <= ticks
        BY <2>9 DEF LimitKept
    <3>2. since'.leased + Cardinality(Out') + Refilled(bucket) <= Budget + Lease * Cardinality(Server)
        BY <1>0, <2>2, <2>6, <2>9, <3>1, LimitNumbers
    <3> QED
        BY <2>1, <2>2, <2>5, <2>7, <2>8, <2>9, <3>1, <3>2 DEF LimitKept
  <2> QED
    BY <2>2, <2>5, <2>7, <2>9 DEF LimitKept
<1>5. ASSUME NEW p \in Server, LeaseFromBucket(p) PROVE LimitKept'
  <2> DEFINE n == MinOf(Lease, Refilled(bucket))
  <2>1. /\ UNCHANGED <<held, own, ticks, since>> /\ pending[p].call = "asking"
        /\ \A s \in Server \ {p} : pending'[s] = pending[s]
        /\ pending'[p].call = "answered" /\ pending'[p].granted = n
        /\ bucket' = [tokens |-> LeftIn(bucket), at |-> ticks]
    BY <1>0, <1>5 DEF LeaseFromBucket
  <2>2. /\ Refilled(bucket) \in 0 .. Burst /\ n \in 0 .. Lease /\ LeftIn(bucket) = Refilled(bucket) - n
        /\ LeftIn(bucket) \in 0 .. Burst
    BY <1>0, LimitNumbers DEF MinOf, LeftIn
  <2> HIDE DEF n
  <2>3. Left(p) = 0 /\ Left(p)' = n
    <3>1. ~MayTake(p)
        BY <1>0, <2>1 DEF AsksWithout
    <3>2. Left(p) = 0
        BY <2>1, <3>1 DEF Left
    <3>3. Left(p)' = n
        BY <2>1 DEF Left
    <3> QED
        BY <3>2, <3>3
  <2>4. \A s \in Server \ {p} : Left(s)' = Left(s)
    BY <1>0, <2>1 DEF Left, MayTake
  <2>5. \A s \in Server : AsksWithout(s)'
    BY <1>0, <2>1 DEF AsksWithout, MayTake
  <2>6. Cardinality(Out') = Cardinality(Out) + n
    BY <2>2, <2>3, <2>4, OutGranted
  <2>7. Refilled(bucket)' = Refilled(bucket) - n
    <3>0. ticks <= ticks
        BY <1>0
    <3>1. Refilled(bucket)' = MinOf(Burst, LeftIn(bucket) + Rate * (ticks - ticks))
        BY <2>1 DEF Refilled
    <3>2. MinOf(Burst, LeftIn(bucket) + Rate * (ticks - ticks)) = LeftIn(bucket)
        BY <1>0, <2>2, <3>0, GivenBack
    <3> QED
        BY <2>2, <3>1, <3>2
  <2>8. Budget' = Budget /\ \A s \in Server : OwnTokens(s)' = OwnTokens(s)
    BY <2>1 DEF Budget, OwnTokens
  <2>9. CASE since.on
    <3>1. since.leased + Cardinality(Out) + Refilled(bucket) <= Budget + Lease * Cardinality(Server)
          /\ since.at <= ticks
        BY <2>9 DEF LimitKept
    <3>2. since.leased + Cardinality(Out') + Refilled(bucket)' <= Budget + Lease * Cardinality(Server)
        BY <1>0, <2>2, <2>6, <2>7, <3>1, LimitNumbers
    <3> QED
        BY <2>1, <2>5, <2>8, <2>9, <3>1, <3>2 DEF LimitKept
  <2> QED
    BY <2>1, <2>5, <2>9 DEF LimitKept
<1>6. ASSUME NEW p \in Server, NEW r \in Request, Fallback(p, r) PROVE LimitKept'
  <2> DEFINE n == OwnTokens(p)
             left == n - (IF n >= 1 THEN 1 ELSE 0)
  <2>1. /\ UNCHANGED <<bucket, held, pending, ticks>>
        /\ own' = [own EXCEPT ![p] = [tokens |-> left, at |-> ticks]]
        /\ since' = IF n >= 1 THEN [since EXCEPT !.own[p] = Counted(@)] ELSE since
    BY <1>6 DEF Fallback
  <2>2. n \in 0 .. Burst /\ left \in 0 .. Burst
    BY <1>0, LimitNumbers
  <2> HIDE DEF n, left
  <2>3. /\ since'.on = since.on /\ since'.at = since.at /\ since'.leased = since.leased
        /\ \A s \in Server \ {p} : since'.own[s] = since.own[s]
        /\ since'.own[p] = IF n >= 1 /\ since.on THEN since.own[p] + 1 ELSE since.own[p]
    BY <2>1 DEF Counted, LimitInv, LimitTypeOK
  <2>4. OwnTokens(p)' = left
    <3>1. OwnTokens(p)' = MinOf(Burst, left + Rate * (ticks - ticks))
        BY <1>0, <2>1 DEF OwnTokens
    <3>2. ticks <= ticks
        BY <1>0
    <3>3. MinOf(Burst, left + Rate * (ticks - ticks)) = left
        BY <1>0, <2>2, <3>2, GivenBack
    <3> QED
        BY <3>1, <3>3
  <2>5. \A s \in Server \ {p} : OwnTokens(s)' = OwnTokens(s)
    BY <1>0, <2>1 DEF OwnTokens
  <2>6. \A s \in Server : AsksWithout(s)' /\ Left(s)' = Left(s)
    BY <1>0, <2>1 DEF AsksWithout, Left, MayTake
  <2>7. Cardinality(Out') <= Cardinality(Out) /\ Cardinality(Out') \in Nat
    BY <1>0, <2>6, OutShrinks
  <2>8. Refilled(bucket)' = Refilled(bucket) /\ Budget' = Budget
    BY <2>1, <2>3 DEF Refilled, Budget
  <2>9. CASE since.on
    <3>1. since.leased + Cardinality(Out) + Refilled(bucket) <= Budget + Lease * Cardinality(Server)
          /\ since.at <= ticks /\ \A s \in Server : since.own[s] + OwnTokens(s) <= Budget
        BY <2>9 DEF LimitKept
    <3>2. since.leased + Cardinality(Out') + Refilled(bucket) <= Budget + Lease * Cardinality(Server)
        BY <1>0, <2>7, <3>1, LimitNumbers
    <3>3. since'.own[p] + left <= Budget
      <4>1. since.own[p] + n <= Budget /\ since.own[p] \in Nat /\ Budget \in Nat
        BY <3>1, LimitNumbers DEF n
      <4> QED
        BY <1>0, <2>2, <2>3, <4>1 DEF left
    <3> QED
        BY <2>1, <2>3, <2>4, <2>5, <2>6, <2>8, <2>9, <3>1, <3>2, <3>3 DEF LimitKept
  <2>10. CASE ~since.on
    <3>1. since.leased = 0 /\ \A s \in Server : since.own[s] = 0
        BY <2>10 DEF LimitKept
    <3>2. since'.leased = 0 /\ \A s \in Server : since'.own[s] = 0
        BY <2>3, <2>10, <3>1
    <3> QED
        BY <2>3, <2>6, <2>10, <3>2 DEF LimitKept
  <2> QED
    BY <2>9, <2>10
<1>7. CASE TimePasses
  <2>1. UNCHANGED <<bucket, held, pending, own, since>> /\ ticks' = ticks + 1
    BY <1>7 DEF TimePasses
  <2>2. \A s \in Server : AsksWithout(s)' /\ Left(s)' <= Left(s) /\ Left(s)' \in Nat
    BY <1>0, <2>1 DEF AsksWithout, Left, MayTake
  <2>3. Cardinality(Out') <= Cardinality(Out) /\ Cardinality(Out') \in Nat
    BY <1>0, <2>2, OutShrinks
  <2> DEFINE later == ticks + 1
  <2>4. later \in Nat /\ ticks' = later /\ \A n \in Nat : n <= ticks => n <= later
    BY <1>0, <2>1
  <2> HIDE DEF later
  <2>5. later = ticks + 1
    BY DEF later
  <2>6. Refilled(bucket)' <= Refilled(bucket) + Rate /\ Refilled(bucket)' \in Nat
    <3>1. Refilled(bucket)' = MinOf(Burst, bucket.tokens + Rate * (later - bucket.at))
        BY <2>1, <2>4 DEF Refilled
    <3>2. Refilled(bucket)' <= Refilled(bucket) + Rate /\ Refilled(bucket)' \in 0 .. Burst
      <4>1. bucket.tokens \in 0 .. Burst /\ bucket.at \in Nat /\ bucket.at <= ticks
        BY LimitNumbers
      <4>2. /\ MinOf(Burst, bucket.tokens + Rate * (later - bucket.at)) \in 0 .. Burst
            /\ MinOf(Burst, bucket.tokens + Rate * (later - bucket.at))
                  <= MinOf(Burst, bucket.tokens + Rate * (ticks - bucket.at)) + Rate
        BY <1>0, <2>4, <2>5, <4>1, GivenBack
      <4> QED
        BY <3>1, <4>2 DEF Refilled
    <3> QED
        BY <1>0, <3>2
  <2>7. \A s \in Server : OwnTokens(s)' <= OwnTokens(s) + Rate /\ OwnTokens(s)' \in Nat
    <3> SUFFICES ASSUME NEW s \in Server PROVE OwnTokens(s)' <= OwnTokens(s) + Rate /\ OwnTokens(s)' \in Nat
        OBVIOUS
    <3>1. OwnTokens(s)' = MinOf(Burst, own[s].tokens + Rate * (later - own[s].at))
        BY <2>1, <2>4 DEF OwnTokens
    <3>2. own[s].tokens \in 0 .. Burst /\ own[s].at \in Nat /\ own[s].at <= ticks
        BY DEF LimitInv, LimitTypeOK
    <3>3. OwnTokens(s)' <= OwnTokens(s) + Rate /\ OwnTokens(s)' \in 0 .. Burst
      <4>1. /\ MinOf(Burst, own[s].tokens + Rate * (later - own[s].at)) \in 0 .. Burst
            /\ MinOf(Burst, own[s].tokens + Rate * (later - own[s].at))
                  <= MinOf(Burst, own[s].tokens + Rate * (ticks - own[s].at)) + Rate
        BY <1>0, <2>4, <2>5, <3>2, GivenBack
      <4> QED
        BY <3>1, <4>1 DEF OwnTokens
    <3> QED
        BY <1>0, <3>3
  <2>8. CASE since.on
    <3>1. /\ since.leased + Cardinality(Out) + Refilled(bucket) <= Budget + Lease * Cardinality(Server)
          /\ since.at <= ticks /\ \A s \in Server : since.own[s] + OwnTokens(s) <= Budget
        BY <2>8 DEF LimitKept
    <3>2. Budget' = Budget + Rate /\ Budget \in Nat
      <4> DEFINE x == Rate * (ticks - since.at)
                 y == Rate * (later - since.at)
      <4>1. 0 \in 0 .. Burst /\ since.at \in Nat
        BY <1>0, LimitNumbers
      <4>2. y = x + Rate /\ x \in Nat
        BY <1>0, <2>4, <2>5, <3>1, <4>1, GivenBack
      <4>3. Budget' = Burst + y /\ Budget = Burst + x
        BY <2>1, <2>4 DEF Budget
      <4> HIDE DEF x, y
      <4> QED
        BY <1>0, <4>2, <4>3
    <3>3. since.leased + Cardinality(Out') + Refilled(bucket)' <= Budget + Rate + Lease * Cardinality(Server)
        BY <1>0, <2>3, <2>6, <3>1, <3>2, LimitNumbers
    <3>4. \A s \in Server : since.own[s] + OwnTokens(s)' <= Budget + Rate
        BY <1>0, <2>7, <3>1, <3>2, LimitNumbers
    <3>5. since.at <= later
        BY <2>4, <3>1, LimitNumbers
    <3> QED
        BY <2>1, <2>2, <2>4, <2>8, <3>2, <3>3, <3>4, <3>5 DEF LimitKept
  <2> QED
    BY <2>1, <2>2, <2>8 DEF LimitKept
<1>8. CASE StartCounting
  <2>1. UNCHANGED <<bucket, held, pending, own, ticks>> /\ ~since.on
    BY <1>8 DEF StartCounting
  <2>2. since'.on /\ since'.at = ticks /\ since'.leased = 0 /\ \A s \in Server : since'.own[s] = 0
    BY <1>8 DEF StartCounting, LimitInv, LimitTypeOK, LimitKept
  <2>3. /\ Out' = Out /\ Refilled(bucket)' = Refilled(bucket)
        /\ \A s \in Server : OwnTokens(s)' = OwnTokens(s) /\ AsksWithout(s)'
    BY <1>0, <2>1 DEF Out, Left, MayTake, Refilled, OwnTokens, AsksWithout
  <2>4. Budget' = Burst
    BY <1>0, <2>1, <2>2 DEF Budget
  <2>5. Cardinality(Out) <= Lease * Cardinality(Server)
    BY OutIsFinite
  <2>6. 0 + Cardinality(Out) + Refilled(bucket) <= Burst + Lease * Cardinality(Server)
    BY <1>0, <2>5, LimitNumbers
  <2>7. \A s \in Server : 0 + OwnTokens(s) <= Burst
    BY <1>0, LimitNumbers
  <2>8. ticks <= ticks
    BY <1>0
  <2> QED
    BY <2>1, <2>2, <2>3, <2>4, <2>6, <2>7, <2>8 DEF LimitKept
<1>9. ASSUME NEW p \in Server, ForgetOwn(p) PROVE LimitKept'
  <2>1. /\ UNCHANGED <<bucket, held, pending, ticks>>
        /\ own' = [own EXCEPT ![p] = NoOwn] /\ since' = [since EXCEPT !.own[p] = 0]
    BY <1>9 DEF ForgetOwn
  <2>2. /\ since'.on = since.on /\ since'.at = since.at /\ since'.leased = since.leased
        /\ since'.own[p] = 0 /\ \A s \in Server \ {p} : since'.own[s] = since.own[s]
    BY <2>1 DEF LimitInv, LimitTypeOK
  <2>3. \A s \in Server \ {p} : OwnTokens(s)' = OwnTokens(s)
    BY <1>0, <2>1 DEF OwnTokens
  <2>4. OwnTokens(p)' \in 0 .. Burst
    <3>1. OwnTokens(p)' = MinOf(Burst, Burst + Rate * (ticks - 0))
        BY <1>0, <2>1 DEF OwnTokens, NoOwn
    <3>2. Burst \in 0 .. Burst /\ 0 \in Nat /\ ticks \in Nat /\ 0 <= ticks
        BY <1>0
    <3>3. MinOf(Burst, Burst + Rate * (ticks - 0)) \in 0 .. Burst
        BY <3>2, Refills
    <3> QED
        BY <1>0, <3>1, <3>3
  <2>5. /\ Out' = Out /\ Refilled(bucket)' = Refilled(bucket) /\ Budget' = Budget
        /\ \A s \in Server : AsksWithout(s)'
    BY <1>0, <2>1, <2>2 DEF Out, Left, MayTake, Refilled, AsksWithout, Budget
  <2>6. CASE since.on
    <3>1. since.at <= ticks /\ since.at \in Nat
        BY <2>6, LimitNumbers DEF LimitKept
    <3>2. Burst <= Budget /\ Budget \in Nat
      <4> DEFINE x == Rate * (ticks - since.at)
      <4>1. x \in Nat
        BY <1>0, <3>1, GivenBack
      <4>2. Budget = Burst + x
        BY DEF Budget
      <4> HIDE DEF x
      <4> QED
        BY <1>0, <4>1, <4>2
    <3>3. 0 + OwnTokens(p)' <= Budget
        BY <1>0, <2>4, <3>2
    <3>4. \A s \in Server : since'.own[s] + OwnTokens(s)' <= Budget
      <4> TAKE s \in Server
      <4>1. CASE s = p
        BY <2>2, <3>3, <4>1
      <4>2. CASE s # p
        BY <2>2, <2>3, <2>6, <4>2 DEF LimitKept
      <4> QED
        BY <4>1, <4>2
    <3> QED
        BY <2>1, <2>2, <2>5, <2>6, <3>4 DEF LimitKept
  <2>7. CASE ~since.on
    BY <2>2, <2>5, <2>7 DEF LimitKept
  <2> QED
    BY <2>6, <2>7
<1>10. CASE UNCHANGED rvars
    BY <1>10 DEF rvars, LimitKept, AsksWithout, MayTake, Out, Left, Refilled, OwnTokens, Budget
<1> QED
    BY <1>1, <1>2, <1>3, <1>4, <1>5, <1>6, <1>7, <1>8, <1>9, <1>10 DEF LimitNext

(* From any instant on, all processes together let through no more than the *)
(* burst, what the time gave back and one lease each; a process that falls  *)
(* back lets through, on its own, the burst and what the time gave back,    *)
(* and starts again when its bucket is forgotten: what is out in leases and *)
(* what is left in the bucket fit that budget.                              *)
THEOREM TheRateIsAlwaysKept == LimitSpec => []TheRateIsKept
<1>1. LimitInit => LimitKept
    BY DEF LimitInit, LimitKept, NoRefill, NoOwn, AsksWithout
<1>2. LimitInv /\ LimitKept => TheRateIsKept
  <2> SUFFICES ASSUME LimitInv, LimitKept, since.on PROVE TheRateIsKept
    BY DEF TheRateIsKept
  <2>1. /\ since.leased + Cardinality(Out) + Refilled(bucket) <= Budget + Lease * Cardinality(Server)
        /\ since.at <= ticks /\ \A s \in Server : since.own[s] + OwnTokens(s) <= Budget
    BY DEF LimitKept
  <2>2. Cardinality(Out) \in Nat
    BY OutIsFinite
  <2>3. since.leased <= Budget + Lease * Cardinality(Server)
    BY <2>1, <2>2, LimitNumbers
  <2>4. \A s \in Server : since.own[s] <= Budget
    BY <2>1, LimitNumbers
  <2> QED
    BY <2>3, <2>4 DEF TheRateIsKept, Budget
<1> QED
    BY <1>1, <1>2, LimitKeptStep, LimitAlways, PTL DEF LimitSpec

(***************************************************************************)
(* PolicyEvaluation.                                                       *)
(*                                                                         *)
(* A recursive definition chooses a function that satisfies its equation,  *)
(* so that first such a function is shown to exist: by induction over the  *)
(* levels of a condition, or over the steps of a loop.                     *)
(***************************************************************************)

(* Induction rests on this: a set of numbers has a least one.              *)
LEMMA LeastNatural ==
    ASSUME NEW T \in SUBSET Nat, T # {}
    PROVE  \E n \in T : \A i \in T : n <= i
<1> DEFINE Less == OpToRel(<, Nat)
<1>1. \A i, n \in Nat : i < n => <<i, n>> \in Less
  BY Zenon DEF OpToRel
<1>2. IsWellFoundedOn(Less, Nat)
  BY NatLessThanWellFounded, Zenon
<1> HIDE DEF Less
<1>3. PICK n \in T : \A i \in T : ~(<<i, n>> \in Less)
  BY <1>2, WFMin
<1>4. \A i \in T : ~(i < n)
  BY <1>1, <1>3
<1> QED
  BY <1>4

(* Induction over ranks: what holds of a member whenever it holds of those *)
(* of lower rank holds of all.                                             *)
LEMMA ByRank ==
    ASSUME NEW S, NEW N \in Nat, NEW rank \in [S -> 0 .. N], NEW T,
           \A x \in S : (\A y \in S : rank[y] < rank[x] => y \in T) => x \in T
    PROVE  S \subseteq T
<1> SUFFICES ASSUME ~(S \subseteq T) PROVE FALSE
    OBVIOUS
<1> DEFINE left == {rank[x] : x \in S \ T}
<1>1. left # {} /\ left \in SUBSET Nat
    OBVIOUS
<1> HIDE DEF left
<1>2. PICK n \in left : \A i \in left : n <= i
    BY <1>1, LeastNatural
<1>3. PICK x \in S \ T : rank[x] = n
    BY <1>2 DEF left
<1>4. ASSUME NEW y \in S, rank[y] < rank[x] PROVE y \in T
    <2>1. y \notin T => rank[y] \in left
        BY DEF left
    <2> QED
        BY <1>2, <1>3, <1>4, <2>1
<1> QED
    BY <1>3, <1>4

(* Induction up to a bound.                                                *)
LEMMA UpTo ==
    ASSUME NEW n \in Nat, NEW T, 0 \in T, \A i \in 1 .. n : i - 1 \in T => i \in T
    PROVE  \A i \in 0 .. n : i \in T
<1> SUFFICES ASSUME NEW j \in 0 .. n, j \notin T PROVE FALSE
    OBVIOUS
<1> DEFINE left == {i \in Nat : i <= n /\ i \notin T}
<1>1. left # {} /\ left \in SUBSET Nat
    OBVIOUS
<1>2. PICK k \in left : \A i \in left : k <= i
    <2> HIDE DEF left
    <2> QED
        BY <1>1, LeastNatural
<1>3. k \in 1 .. n /\ k - 1 \in Nat /\ k - 1 <= n /\ ~(k <= k - 1)
    BY <1>2
<1>4. k - 1 \in T
    BY <1>2, <1>3
<1> QED
    BY <1>2, <1>3, <1>4

(* A recursive definition defines something: when the value at a member    *)
(* depends on the values at members of lower rank only, there are values   *)
(* that satisfy its equation.                                              *)
Scheme(S, V) == [S -> [[S -> V] -> V]]

LooksDown(step, S, V, rank) ==
    \A x \in S : \A f, g \in [S -> V] :
        (\A y \in S : rank[y] < rank[x] => f[y] = g[y]) => step[x][f] = step[x][g]

Solves(f, S, V, step) == f \in [S -> V] /\ \A x \in S : f[x] = step[x][f]

LEMMA RecursionWorks ==
    ASSUME NEW S, NEW V, NEW start \in V, NEW N \in Nat, NEW rank \in [S -> 0 .. N],
           NEW step \in Scheme(S, V), LooksDown(step, S, V, rank)
    PROVE  \E f : Solves(f, S, V, step)
<1> DEFINE Below(n) == \E f \in [S -> V] : \A x \in S : rank[x] < n => f[x] = step[x][f]
           T == {n \in Nat : Below(n)}
<1>1. Below(0)
    <2>1. \A x \in S : ~(rank[x] < 0)
        OBVIOUS
    <2>2. [x \in S |-> start] \in [S -> V]
        OBVIOUS
    <2> QED
        BY <2>1, <2>2
<1>2. ASSUME NEW n \in Nat, Below(n)
      PROVE  Below(n + 1)
    <2>1. PICK f \in [S -> V] : \A x \in S : rank[x] < n => f[x] = step[x][f]
        BY <1>2
    <2> DEFINE g == [x \in S |-> step[x][f]]
    <2>2. g \in [S -> V]
        BY DEF Scheme
    <2>3. \A x \in S : g[x] = step[x][f]
        OBVIOUS
    <2> HIDE DEF g
    <2>4. \A y \in S : rank[y] < n => f[y] = g[y]
        BY <2>1, <2>3
    <2>5. ASSUME NEW x \in S, rank[x] < n + 1 PROVE g[x] = step[x][g]
        <3>1. \A y \in S : rank[y] < rank[x] => f[y] = g[y]
            BY <2>4, <2>5
        <3>2. step[x][f] = step[x][g]
            BY <2>2, <3>1 DEF LooksDown
        <3> QED
            BY <2>3, <3>2
    <2> QED
        BY <2>2, <2>5
<1>3. \A i \in 0 .. N + 1 : i \in T
    <2>1. 0 \in T
        BY <1>1
    <2>2. ASSUME NEW i \in 1 .. N + 1, i - 1 \in T PROVE i \in T
        <3>1. i - 1 \in Nat /\ (i - 1) + 1 = i /\ i \in Nat
            OBVIOUS
        <3>2. Below(i - 1)
            BY <2>2
        <3> HIDE DEF Below
        <3>3. Below((i - 1) + 1)
            BY <1>2, <3>1, <3>2
        <3> QED
            BY <3>1, <3>3
    <2>3. N + 1 \in Nat
        OBVIOUS
    <2> HIDE DEF T
    <2> QED
        BY <2>1, <2>2, <2>3, UpTo
<1>4. PICK f \in [S -> V] : \A x \in S : rank[x] < N + 1 => f[x] = step[x][f]
    BY <1>3
<1>5. \A x \in S : rank[x] < N + 1
    OBVIOUS
<1> QED
    BY <1>4, <1>5 DEF Solves

(* A loop of n steps, and the values it goes through.                      *)
Loop(n, V) == [1 .. n -> [V -> V]]

GoesThrough(f, n, V, start, step) ==
    /\ f \in [0 .. n -> V] /\ f[0] = start
    /\ \A i \in 1 .. n : f[i] = step[i][f[i - 1]]

LEMMA LoopWorks ==
    ASSUME NEW n \in Nat, NEW V, NEW start \in V, NEW step \in Loop(n, V)
    PROVE  \E f : GoesThrough(f, n, V, start, step)
<1> DEFINE Through(k) == \E f \in [0 .. k -> V] : f[0] = start /\ \A i \in 1 .. k : f[i] = step[i][f[i - 1]]
           T == {k \in 0 .. n : Through(k)}
<1>1. Through(0)
    <2> DEFINE f == [i \in 0 .. 0 |-> start]
    <2>1. f \in [0 .. 0 -> V] /\ f[0] = start
        OBVIOUS
    <2>2. \A i \in 1 .. 0 : f[i] = step[i][f[i - 1]]
        OBVIOUS
    <2> HIDE DEF f
    <2> QED
        BY <2>1, <2>2
<1>2. ASSUME NEW k \in 1 .. n, Through(k - 1)
      PROVE  Through(k)
    <2>1. PICK f \in [0 .. k - 1 -> V] : f[0] = start /\ \A i \in 1 .. k - 1 : f[i] = step[i][f[i - 1]]
        BY <1>2
    <2>2. k - 1 \in 0 .. k - 1 /\ f[k - 1] \in V
        OBVIOUS
    <2>3. step[k][f[k - 1]] \in V
        BY <2>2 DEF Loop
    <2> DEFINE g == [i \in 0 .. k |-> IF i = k THEN step[k][f[k - 1]] ELSE f[i]]
    <2>4. \A i \in 0 .. k : i # k => i \in 0 .. k - 1
        OBVIOUS
    <2>5. g \in [0 .. k -> V]
        BY <2>3, <2>4
    <2>6. \A i \in 0 .. k - 1 : g[i] = f[i]
        OBVIOUS
    <2>7. g[k] = step[k][f[k - 1]]
        OBVIOUS
    <2> HIDE DEF g
    <2>8. g[0] = start
        BY <2>1, <2>6
    <2>9. ASSUME NEW i \in 1 .. k PROVE g[i] = step[i][g[i - 1]]
        <3>1. i - 1 \in 0 .. k - 1
            OBVIOUS
        <3>2. CASE i = k
            BY <2>6, <2>7, <3>1, <3>2
        <3>3. CASE i # k
            BY <2>1, <2>6, <3>1, <3>3
        <3> QED
            BY <3>2, <3>3
    <2> QED
        BY <2>5, <2>8, <2>9
<1>3. \A k \in 0 .. n : k \in T
    <2>1. 0 \in T
        BY <1>1
    <2>2. ASSUME NEW k \in 1 .. n, k - 1 \in T PROVE k \in T
        <3>1. Through(k - 1)
            BY <2>2
        <3> HIDE DEF Through
        <3>2. Through(k)
            BY <1>2, <3>1
        <3> QED
            BY <3>2
    <2> HIDE DEF T
    <2> QED
        BY <2>1, <2>2, UpTo
<1>4. n \in 0 .. n
    OBVIOUS
<1>5. Through(n)
    BY <1>3, <1>4
<1> QED
    BY <1>5 DEF GoesThrough

(***************************************************************************)
(* The evaluation of a condition.                                          *)
(***************************************************************************)

Result == [value : Tri, used : Nat]

Combining == {"all", "any"}

LEMMA AfterPartType ==
    ASSUME NEW op \in Combining, NEW so \in Result, NEW part \in [Nat -> Result]
    PROVE  AfterPart(op, so, part) \in Result
<1>1. part[so.used] \in Result
    BY DEF Result
<1> QED
    BY <1>1 DEF AfterPart, Result, Tri

PartValues(n) == [1 .. n -> [Nat -> Result]]

(* What a combination knows after each of its parts.                       *)
Knows(so, op, n, parts, used) ==
    /\ so \in [0 .. n -> Result] /\ so[0] = [value |-> Negation(Settles(op)), used |-> used]
    /\ \A i \in 1 .. n : so[i] = AfterPart(op, so[i - 1], parts[i])

LEMMA CombinedWorks ==
    ASSUME NEW op \in Combining, NEW n \in Nat, NEW parts \in PartValues(n), NEW used \in Nat
    PROVE  \E so : Knows(so, op, n, parts, used) /\ Combined(op, n, parts, used) = so[n]
<1> USE DEF PartValues
<1> DEFINE start == [value |-> Negation(Settles(op)), used |-> used]
           step == [i \in 1 .. n |-> [v \in Result |-> AfterPart(op, v, parts[i])]]
<1>1. start \in Result
    BY DEF Result, Negation, Settles, Tri, Combining
<1>2. \A i \in 1 .. n : \A v \in Result : AfterPart(op, v, parts[i]) \in Result
    BY AfterPartType
<1>3. step \in Loop(n, Result)
    BY <1>2 DEF Loop
<1>4. \A i \in 1 .. n : \A v \in Result : step[i][v] = AfterPart(op, v, parts[i])
    OBVIOUS
<1> HIDE DEF start, step
<1>5. PICK f : GoesThrough(f, n, Result, start, step)
    BY <1>1, <1>3, LoopWorks
<1>6. \A i \in 1 .. n : f[i] = AfterPart(op, f[i - 1], parts[i])
    <2> TAKE i \in 1 .. n
    <2>1. i - 1 \in 0 .. n
        OBVIOUS
    <2> QED
        BY <1>4, <1>5, <2>1 DEF GoesThrough
<1> DEFINE Body(so) == [i \in 0 .. n |-> IF i = 0 THEN start ELSE AfterPart(op, so[i - 1], parts[i])]
           chosen == CHOOSE so : so = Body(so)
<1>7. f = Body(f)
    BY <1>5, <1>6 DEF GoesThrough
<1>8. chosen = Body(chosen)
    <2> HIDE DEF Body
    <2> QED
        BY <1>7
<1>9. Combined(op, n, parts, used) = chosen[n]
    BY DEF Combined, start
<1> HIDE DEF chosen
<1>10. chosen[0] = start /\ \A i \in 1 .. n : chosen[i] = AfterPart(op, chosen[i - 1], parts[i])
    BY <1>8
<1>11. DOMAIN chosen = 0 .. n /\ chosen = [i \in 0 .. n |-> chosen[i]]
    BY <1>8
<1>12. \A i \in 0 .. n : chosen[i] \in Result
    <2> DEFINE T == {i \in 0 .. n : chosen[i] \in Result}
    <2>1. 0 \in T
        BY <1>1, <1>10
    <2>2. \A i \in 1 .. n : i - 1 \in T => i \in T
        BY <1>10, AfterPartType
    <2> HIDE DEF T
    <2>3. \A i \in 0 .. n : i \in T
        BY <2>1, <2>2, UpTo
    <2> QED
        BY <2>3 DEF T
<1>13. chosen \in [0 .. n -> Result]
    BY <1>11, <1>12
<1> QED
    BY <1>9, <1>10, <1>13 DEF start, Knows

LEMMA CombinedType ==
    ASSUME NEW op \in Combining, NEW n \in Nat, NEW parts \in PartValues(n), NEW used \in Nat
    PROVE  Combined(op, n, parts, used) \in Result
<1>1. PICK so : Knows(so, op, n, parts, used) /\ Combined(op, n, parts, used) = so[n]
    BY CombinedWorks
<1> QED
    BY <1>1 DEF Knows

Facts == [Fact -> Tri]

Values == [Condition -> [Nat -> Result]]

(* What a condition can be.                                                *)
LEMMA ConditionParts ==
    ASSUME NEW c \in Condition
    PROVE  /\ MaxDepth \in Nat /\ Depth \in [Condition -> 0 .. MaxDepth]
           /\ \/ c.op = "fact" /\ c.fact \in Fact
              \/ c.op = "not" /\ 1 \in 1 .. Len(c.of)
              \/ c.op \in Combining
           /\ c.op # "fact" => /\ Len(c.of) \in Nat /\ DOMAIN c.of = 1 .. Len(c.of)
                               /\ \A i \in 1 .. Len(c.of) : c.of[i] \in Condition /\ Depth[c.of[i]] < Depth[c]
BY EvaluationAssumption, ConditionAssumption DEF Combining

LEMMA NodeType ==
    ASSUME NEW c \in Condition, NEW used \in Nat, NEW facts \in Facts, NEW limit \in Nat, NEW value \in Values
    PROVE  Node(c, used, facts, limit, value) \in Result
<1>1. used + 1 \in Nat
    OBVIOUS
<1>2. CASE used + 1 > limit
    BY <1>1, <1>2 DEF Node, Result, Tri
<1>3. CASE used + 1 <= limit /\ c.op = "fact"
    <2>1. facts[c.fact] \in Tri
        BY <1>3, ConditionParts DEF Facts, Combining
    <2> QED
        BY <1>1, <1>3, <2>1 DEF Node, Result
<1>4. CASE used + 1 <= limit /\ c.op = "not"
    <2>1. value[c.of[1]][used + 1] \in Result
        BY <1>1, <1>4, ConditionParts DEF Values, Combining
    <2>2. Node(c, used, facts, limit, value)
             = [value[c.of[1]][used + 1] EXCEPT !.value = Negation(value[c.of[1]][used + 1].value)]
        BY <1>1, <1>4 DEF Node
    <2> QED
        BY <2>1, <2>2 DEF Result, Negation, Tri
<1>5. CASE used + 1 <= limit /\ c.op \notin {"fact", "not"}
    <2> DEFINE parts == [i \in 1 .. Len(c.of) |-> value[c.of[i]]]
    <2>1. c.op \in Combining /\ Len(c.of) \in Nat /\ parts \in PartValues(Len(c.of))
        BY <1>5, ConditionParts DEF Values, PartValues
    <2>2. Node(c, used, facts, limit, value) = Combined(c.op, Len(c.of), parts, used + 1)
        BY <1>1, <1>5 DEF Node
    <2> HIDE DEF parts
    <2>3. Combined(c.op, Len(c.of), parts, used + 1) \in Result
        BY <1>1, <2>1, CombinedType
    <2> QED
        BY <2>2, <2>3
<1> QED
    BY <1>1, <1>2, <1>3, <1>4, <1>5

(* A node looks at the values of its parts only.                           *)
LEMMA NodeLooksDown ==
    ASSUME NEW c \in Condition, NEW used \in Nat, NEW facts, NEW limit \in Nat, NEW f, NEW g,
           \A y \in Condition : Depth[y] < Depth[c] => f[y] = g[y]
    PROVE  Node(c, used, facts, limit, f) = Node(c, used, facts, limit, g)
<1>1. CASE c.op = "fact"
    BY <1>1 DEF Node
<1>2. CASE c.op # "fact"
    <2>1. \A i \in 1 .. Len(c.of) : f[c.of[i]] = g[c.of[i]]
        BY <1>2, ConditionParts
    <2>2. [i \in 1 .. Len(c.of) |-> f[c.of[i]]] = [i \in 1 .. Len(c.of) |-> g[c.of[i]]]
        BY <2>1
    <2>3. c.op = "not" => f[c.of[1]] = g[c.of[1]]
        BY <2>1, ConditionParts DEF Combining
    <2> QED
        BY <1>2, <2>2, <2>3 DEF Node
<1> QED
    BY <1>1, <1>2

(* Every condition has a value, and it is what its node makes of the       *)
(* values of its parts.                                                    *)
LEMMA EvaluateWorks ==
    ASSUME NEW facts \in Facts, NEW limit \in Nat
    PROVE  /\ Evaluate(facts, limit) \in Values
           /\ \A c \in Condition : \A used \in Nat :
                 Evaluate(facts, limit)[c][used] = Node(c, used, facts, limit, Evaluate(facts, limit))
<1> DEFINE V == [Nat -> Result]
           start == [used \in Nat |-> [value |-> "unknown", used |-> used]]
           step == [c \in Condition |-> [f \in [Condition -> V] |->
                      [used \in Nat |-> Node(c, used, facts, limit, f)]]]
<1>1. start \in V
    BY DEF Result, Tri
<1>2. \A c \in Condition : \A f \in [Condition -> V] : \A used \in Nat : Node(c, used, facts, limit, f) \in Result
    BY NodeType DEF Values
<1>3. step \in Scheme(Condition, V)
    BY <1>2 DEF Scheme
<1>4. \A c \in Condition : \A f \in [Condition -> V] :
          step[c][f] = [used \in Nat |-> Node(c, used, facts, limit, f)]
    OBVIOUS
<1> HIDE DEF start, step
<1>5. LooksDown(step, Condition, V, Depth)
    <2> SUFFICES ASSUME NEW c \in Condition, NEW f \in [Condition -> V], NEW g \in [Condition -> V],
                        \A y \in Condition : Depth[y] < Depth[c] => f[y] = g[y]
                 PROVE  step[c][f] = step[c][g]
        BY DEF LooksDown
    <2>1. \A used \in Nat : Node(c, used, facts, limit, f) = Node(c, used, facts, limit, g)
        BY NodeLooksDown
    <2>2. [used \in Nat |-> Node(c, used, facts, limit, f)] = [used \in Nat |-> Node(c, used, facts, limit, g)]
        BY <2>1
    <2>3. step[c][f] = [used \in Nat |-> Node(c, used, facts, limit, f)]
        BY <1>4
    <2>4. step[c][g] = [used \in Nat |-> Node(c, used, facts, limit, g)]
        BY <1>4
    <2> QED
        BY <2>2, <2>3, <2>4
<1> DEFINE Body(f) == [c \in Condition |-> [used \in Nat |-> Node(c, used, facts, limit, f)]]
           chosen == CHOOSE f : f = Body(f)
<1>6. Evaluate(facts, limit) = chosen
    BY DEF Evaluate
<1>7. PICK f : Solves(f, Condition, V, step)
    <2>1. MaxDepth \in Nat /\ Depth \in [Condition -> 0 .. MaxDepth]
        BY EvaluationAssumption, ConditionAssumption
    <2> HIDE DEF V
    <2> QED
        BY <1>1, <1>3, <1>5, <2>1, RecursionWorks
<1>8. f = Body(f)
    <2> HIDE DEF V
    <2>1. f \in [Condition -> V] /\ \A c \in Condition : f[c] = step[c][f]
        BY <1>7 DEF Solves
    <2>2. \A c \in Condition : step[c][f] = [used \in Nat |-> Node(c, used, facts, limit, f)]
        BY <1>4, <2>1
    <2>3. f = [c \in Condition |-> f[c]]
        BY <2>1
    <2> QED
        BY <2>1, <2>2, <2>3
<1>9. chosen = Body(chosen)
    <2> HIDE DEF Body
    <2> QED
        BY <1>8
<1> HIDE DEF chosen
<1>10. ASSUME NEW c \in Condition, \A y \in Condition : Depth[y] < Depth[c] => chosen[y] = f[y]
       PROVE  chosen[c] = f[c]
    <2>1. \A used \in Nat : Node(c, used, facts, limit, chosen) = Node(c, used, facts, limit, f)
        BY <1>10, NodeLooksDown
    <2>2. [used \in Nat |-> Node(c, used, facts, limit, chosen)] = [used \in Nat |-> Node(c, used, facts, limit, f)]
        BY <2>1
    <2> QED
        BY <1>8, <1>9, <2>2
<1>11. \A c \in Condition : chosen[c] = f[c]
    <2> DEFINE T == {c \in Condition : chosen[c] = f[c]}
    <2>1. MaxDepth \in Nat /\ Depth \in [Condition -> 0 .. MaxDepth]
        BY EvaluationAssumption, ConditionAssumption
    <2>2. \A c \in Condition : (\A y \in Condition : Depth[y] < Depth[c] => y \in T) => c \in T
        BY <1>10
    <2> HIDE DEF T
    <2>3. Condition \subseteq T
        BY <2>1, <2>2, ByRank
    <2> QED
        BY <2>3 DEF T
<1>12. chosen \in Values
    BY <1>7, <1>9, <1>11 DEF Solves, Values
<1>13. \A c \in Condition : \A used \in Nat : chosen[c][used] = Node(c, used, facts, limit, chosen)
    BY <1>9
<1> QED
    BY <1>6, <1>12, <1>13

(***************************************************************************)
(* What a condition means, and that a value that is known agrees with it.  *)
(***************************************************************************)

LEMMA MeaningType ==
    ASSUME NEW c \in Condition, NEW t \in [Fact -> BOOLEAN], NEW h \in [Condition -> BOOLEAN]
    PROVE  Meaning(c, t, h) \in BOOLEAN
<1>1. CASE c.op = "fact"
    BY <1>1, ConditionParts DEF Meaning, Combining
<1>2. CASE c.op = "not"
    BY <1>2, ConditionParts DEF Meaning, Combining
<1>3. CASE c.op = "all"
    BY <1>3, ConditionParts DEF Meaning, Combining
<1>4. CASE c.op = "any"
    BY <1>4, ConditionParts DEF Meaning, Combining
<1> QED
    BY <1>1, <1>2, <1>3, <1>4, ConditionParts DEF Combining

LEMMA MeaningLooksDown ==
    ASSUME NEW c \in Condition, NEW t, NEW f, NEW g,
           \A y \in Condition : Depth[y] < Depth[c] => f[y] = g[y]
    PROVE  Meaning(c, t, f) = Meaning(c, t, g)
<1>1. CASE c.op = "fact"
    BY <1>1 DEF Meaning
<1>2. CASE c.op # "fact"
    <2>1. \A i \in 1 .. Len(c.of) : f[c.of[i]] = g[c.of[i]]
        BY <1>2, ConditionParts
    <2>2. DOMAIN c.of = 1 .. Len(c.of)
        BY <1>2, ConditionParts
    <2>3. CASE c.op = "not"
        BY <2>1, <2>3, ConditionParts DEF Meaning, Combining
    <2>4. CASE c.op = "all"
        BY <2>1, <2>2, <2>4 DEF Meaning
    <2>5. CASE c.op = "any"
        BY <2>1, <2>2, <2>5 DEF Meaning
    <2> QED
        BY <1>2, <2>3, <2>4, <2>5, ConditionParts DEF Combining
<1> QED
    BY <1>1, <1>2

LEMMA HoldsWorks ==
    ASSUME NEW t \in [Fact -> BOOLEAN]
    PROVE  /\ Holds(t) \in [Condition -> BOOLEAN]
           /\ \A c \in Condition : Holds(t)[c] = Meaning(c, t, Holds(t))
<1> DEFINE step == [c \in Condition |-> [f \in [Condition -> BOOLEAN] |-> Meaning(c, t, f)]]
<1>1. step \in Scheme(Condition, BOOLEAN)
    BY MeaningType DEF Scheme
<1>2. \A c \in Condition : \A f \in [Condition -> BOOLEAN] : step[c][f] = Meaning(c, t, f)
    OBVIOUS
<1> HIDE DEF step
<1>3. LooksDown(step, Condition, BOOLEAN, Depth)
    BY <1>2, MeaningLooksDown DEF LooksDown
<1>4. MaxDepth \in Nat /\ Depth \in [Condition -> 0 .. MaxDepth]
    BY EvaluationAssumption, ConditionAssumption
<1>5. PICK f : Solves(f, Condition, BOOLEAN, step)
    <2>1. TRUE \in BOOLEAN
        OBVIOUS
    <2> QED
        BY <1>1, <1>3, <1>4, <2>1, RecursionWorks
<1> DEFINE Body(h) == [c \in Condition |-> Meaning(c, t, h)]
           chosen == CHOOSE h : h = Body(h)
<1>6. Holds(t) = chosen
    BY DEF Holds
<1>7. f = Body(f)
    BY <1>2, <1>5 DEF Solves
<1>8. chosen = Body(chosen)
    <2> HIDE DEF Body
    <2> QED
        BY <1>7
<1> HIDE DEF chosen
<1>9. \A c \in Condition : chosen[c] = Meaning(c, t, chosen)
    BY <1>8
<1>10. ASSUME NEW c \in Condition, \A y \in Condition : Depth[y] < Depth[c] => chosen[y] = f[y]
       PROVE  chosen[c] = f[c]
    <2>1. Meaning(c, t, chosen) = Meaning(c, t, f)
        BY <1>10, MeaningLooksDown
    <2> QED
        BY <1>7, <1>9, <2>1
<1>11. \A c \in Condition : chosen[c] = f[c]
    <2> DEFINE T == {c \in Condition : chosen[c] = f[c]}
    <2>1. \A c \in Condition : (\A y \in Condition : Depth[y] < Depth[c] => y \in T) => c \in T
        BY <1>10
    <2> HIDE DEF T
    <2>2. Condition \subseteq T
        BY <1>4, <2>1, ByRank
    <2> QED
        BY <2>2 DEF T
<1>12. chosen \in [Condition -> BOOLEAN]
    BY <1>5, <1>8, <1>11 DEF Solves
<1> QED
    BY <1>6, <1>9, <1>12

(* A value that is no guess.                                               *)
NoGuess(v, b) == (v = "true" => b) /\ (v = "false" => ~b)

(* Whatever value settles a combination is that of one of its parts, and   *)
(* the other one is that of all of them.                                   *)
LEMMA CombinedIsSound ==
    ASSUME NEW op \in Combining, NEW n \in Nat, NEW parts \in PartValues(n), NEW used \in Nat,
           NEW b \in [1 .. n -> BOOLEAN],
           \A i \in 1 .. n : \A u \in Nat : NoGuess(parts[i][u].value, b[i])
    PROVE  /\ op = "all" => NoGuess(Combined(op, n, parts, used).value, \A i \in 1 .. n : b[i])
           /\ op = "any" => NoGuess(Combined(op, n, parts, used).value, \E i \in 1 .. n : b[i])
<1>1. PICK so : Knows(so, op, n, parts, used) /\ Combined(op, n, parts, used) = so[n]
    BY CombinedWorks
<1> DEFINE Reached(i) ==
              /\ so[i].value = Settles(op) => \E j \in 1 .. i : b[j] = (op = "any")
              /\ so[i].value = Negation(Settles(op)) => \A j \in 1 .. i : b[j] = (op = "all")
           T == {i \in 0 .. n : Reached(i)}
<1>2. Settles(op) \in {"true", "false"} /\ Negation(Settles(op)) \in {"true", "false"}
      /\ Settles(op) # Negation(Settles(op)) /\ (op = "any" <=> op # "all")
      /\ (Settles(op) = "true" <=> op = "any")
    BY DEF Settles, Negation, Combining
<1>3. Reached(0)
    <2>1. so[0].value = Negation(Settles(op))
        BY <1>1 DEF Knows
    <2> QED
        BY <1>2, <2>1
<1>4. ASSUME NEW i \in 1 .. n, Reached(i - 1)
      PROVE  Reached(i)
    <2>1. i - 1 \in 0 .. n /\ so[i - 1] \in Result /\ so[i] = AfterPart(op, so[i - 1], parts[i])
        BY <1>1 DEF Knows
    <2> DEFINE e == parts[i][so[i - 1].used]
    <2>2. e \in Result /\ NoGuess(e.value, b[i])
        BY <2>1 DEF Result, PartValues
    <2>3. \/ so[i - 1].value = Settles(op) /\ so[i].value = Settles(op)
          \/ /\ so[i - 1].value # Settles(op)
             /\ so[i].value = IF e.value = Settles(op) \/ so[i - 1].value # "unknown" THEN e.value ELSE "unknown"
        BY <2>1, <2>2 DEF AfterPart, Result
    <2> HIDE DEF e
    <2>4. \A j \in 1 .. i : j = i \/ j \in 1 .. i - 1
        OBVIOUS
    <2>5. i \in 1 .. i /\ \A j \in 1 .. i - 1 : j \in 1 .. i
        OBVIOUS
    <2>6. CASE so[i - 1].value = Settles(op)
        BY <1>2, <1>4, <2>3, <2>5, <2>6
    <2>7. CASE so[i - 1].value # Settles(op) /\ so[i].value = Settles(op)
        <3>1. e.value = Settles(op)
            BY <1>2, <2>3, <2>7
        <3>2. b[i] = (op = "any")
            BY <1>2, <2>2, <3>1 DEF NoGuess
        <3> QED
            BY <1>2, <2>5, <2>7, <3>2
    <2>8. CASE so[i - 1].value # Settles(op) /\ so[i].value = Negation(Settles(op))
        <3>1. e.value = Negation(Settles(op)) /\ so[i - 1].value # "unknown"
            BY <1>2, <2>3, <2>8
        <3>2. so[i - 1].value = Negation(Settles(op))
            BY <1>2, <2>1, <2>8, <3>1 DEF Result, Tri
        <3>3. b[i] = (op = "all")
            BY <1>2, <2>2, <3>1 DEF NoGuess
        <3> QED
            BY <1>2, <1>4, <2>4, <2>8, <3>2, <3>3
    <2> QED
        BY <2>6, <2>7, <2>8
<1>5. Reached(n)
    <2>1. 0 \in T
        BY <1>3
    <2>2. ASSUME NEW i \in 1 .. n, i - 1 \in T PROVE i \in T
        <3>1. Reached(i - 1)
            BY <2>2
        <3> HIDE DEF Reached
        <3>2. Reached(i)
            BY <1>4, <3>1
        <3> QED
            BY <3>2
    <2> HIDE DEF T
    <2>3. \A i \in 0 .. n : i \in T
        BY <2>1, <2>2, UpTo
    <2> QED
        BY <2>3 DEF T
<1>6. so[n].value \in Tri
    BY <1>1 DEF Knows, Result
<1> QED
    BY <1>1, <1>2, <1>5, <1>6 DEF NoGuess, Settles, Negation

AgreesWith(facts, t) == \A f \in Fact : NoGuess(facts[f], t[f])

(* A condition is never found true or false but when it is.                *)
LEMMA EvaluationIsSound ==
    ASSUME NEW facts \in Facts, NEW t \in [Fact -> BOOLEAN], NEW limit \in Nat, AgreesWith(facts, t)
    PROVE  \A c \in Condition : \A used \in Nat :
              /\ Evaluate(facts, limit)[c][used] \in Result
              /\ NoGuess(Evaluate(facts, limit)[c][used].value, Holds(t)[c])
<1> DEFINE value == Evaluate(facts, limit)
           holds == Holds(t)
           Right(c) == \A used \in Nat : NoGuess(value[c][used].value, holds[c])
           T == {c \in Condition : Right(c)}
<1>1. /\ value \in Values
      /\ \A c \in Condition : \A used \in Nat : value[c][used] = Node(c, used, facts, limit, value)
    BY EvaluateWorks
<1>2. holds \in [Condition -> BOOLEAN] /\ \A c \in Condition : holds[c] = Meaning(c, t, holds)
    BY HoldsWorks
<1> HIDE DEF value, holds
<1>3. ASSUME NEW c \in Condition, \A y \in Condition : Depth[y] < Depth[c] => Right(y)
      PROVE  Right(c)
    <2> SUFFICES ASSUME NEW used \in Nat
                 PROVE  NoGuess(value[c][used].value, holds[c])
        OBVIOUS
    <2>1. value[c][used] = Node(c, used, facts, limit, value) /\ holds[c] = Meaning(c, t, holds)
        BY <1>1, <1>2
    <2>2. used + 1 \in Nat
        OBVIOUS
    <2>3. CASE used + 1 > limit
        BY <2>1, <2>3 DEF Node, NoGuess
    <2>4. CASE used + 1 <= limit /\ c.op = "fact"
        <3>1. c.fact \in Fact
            BY <2>4, ConditionParts DEF Combining
        <3>2. value[c][used].value = facts[c.fact]
            BY <2>1, <2>2, <2>4 DEF Node
        <3>3. holds[c] = t[c.fact]
            BY <2>1, <2>4 DEF Meaning
        <3> QED
            BY <3>1, <3>2, <3>3 DEF AgreesWith
    <2>5. CASE used + 1 <= limit /\ c.op = "not"
        <3> DEFINE part == c.of[1]
        <3>1. part \in Condition /\ Depth[part] < Depth[c]
            BY <2>5, ConditionParts DEF Combining
        <3>2. NoGuess(value[part][used + 1].value, holds[part])
            BY <1>3, <2>2, <3>1
        <3>3. value[part][used + 1] \in Result
            BY <1>1, <2>2, <3>1 DEF Values
        <3>4. value[c][used].value = Negation(value[part][used + 1].value)
            BY <2>1, <2>2, <2>5, <3>3 DEF Node, Result
        <3>5. holds[c] = ~holds[part]
            BY <2>1, <2>5 DEF Meaning
        <3> HIDE DEF part
        <3> QED
            BY <3>2, <3>3, <3>4, <3>5 DEF NoGuess, Negation, Result, Tri
    <2>6. CASE used + 1 <= limit /\ c.op \notin {"fact", "not"}
        <3> DEFINE n == Len(c.of)
                   parts == [i \in 1 .. n |-> value[c.of[i]]]
                   b == [i \in 1 .. n |-> holds[c.of[i]]]
        <3>1. /\ c.op \in Combining /\ n \in Nat /\ DOMAIN c.of = 1 .. n
              /\ \A i \in 1 .. n : c.of[i] \in Condition /\ Depth[c.of[i]] < Depth[c]
            BY <2>6, ConditionParts
        <3>2. parts \in PartValues(n)
            BY <1>1, <3>1 DEF Values, PartValues
        <3>3. b \in [1 .. n -> BOOLEAN]
            BY <1>2, <3>1
        <3>4. \A i \in 1 .. n : \A u \in Nat : NoGuess(parts[i][u].value, b[i])
            BY <1>3, <3>1
        <3>5. value[c][used] = Combined(c.op, n, parts, used + 1)
            BY <2>1, <2>2, <2>6 DEF Node
        <3>6. \A i \in 1 .. n : b[i] = holds[c.of[i]]
            OBVIOUS
        <3> HIDE DEF n, parts, b
        <3>7. /\ c.op = "all" => NoGuess(Combined(c.op, n, parts, used + 1).value, \A i \in 1 .. n : b[i])
              /\ c.op = "any" => NoGuess(Combined(c.op, n, parts, used + 1).value, \E i \in 1 .. n : b[i])
            BY <2>2, <3>1, <3>2, <3>3, <3>4, CombinedIsSound
        <3>8. c.op = "all" => holds[c] = \A i \in 1 .. n : b[i]
            BY <2>1, <3>1, <3>6 DEF Meaning
        <3>9. c.op = "any" => holds[c] = \E i \in 1 .. n : b[i]
            BY <2>1, <3>1, <3>6 DEF Meaning
        <3> QED
            BY <3>1, <3>5, <3>7, <3>8, <3>9 DEF Combining, NoGuess
    <2> QED
        BY <2>2, <2>3, <2>4, <2>5, <2>6
<1>4. Condition \subseteq T
    <2>1. \A c \in Condition : (\A y \in Condition : Depth[y] < Depth[c] => y \in T) => c \in T
        <3> HIDE DEF Right
        <3> QED
            BY <1>3
    <2>2. MaxDepth \in Nat /\ Depth \in [Condition -> 0 .. MaxDepth]
        BY EvaluationAssumption, ConditionAssumption
    <2> HIDE DEF T
    <2> QED
        BY <2>1, <2>2, ByRank
<1>5. \A c \in Condition : \A used \in Nat : value[c][used] \in Result
    BY <1>1 DEF Values
<1> QED
    BY <1>4, <1>5 DEF value, holds

(***************************************************************************)
(* The verdicts of a set of policies.                                      *)
(***************************************************************************)

SoFar == [steps : Nat, verdicts : SUBSET Verdict]

Question == [policies : UNION {[1 .. n -> Policy] : n \in 0 .. MaxPolicies}, action : Action,
             type : Type \cup {NoType}, require : BOOLEAN, base : BOOLEAN]

(* One policy after another.                                               *)
NextVerdicts(so, p, q, facts) == IF p.state = "valid" THEN EvaluatePolicy(so, p, q, facts) ELSE so

Objects(p, t) == Holds(t)[p.condition] = (p.effect = "deny")

(* What one policy adds: a denial is an objection, and a policy that may   *)
(* take part either leaves a doubt or a denial, or does not object.        *)
LEMMA PolicyStep ==
    ASSUME NEW q, NEW facts \in Facts, NEW t \in [Fact -> BOOLEAN], AgreesWith(facts, t),
           NEW p \in Policy, NEW so \in SoFar
    PROVE  LET applies == Applicability(p, q.action, q.type)
               new == EvaluatePolicy(so, p, q, facts)
           IN  /\ new \in SoFar /\ so.verdicts \subseteq new.verdicts
               /\ applies = "no" => new = so
               /\ "deny" \in new.verdicts => "deny" \in so.verdicts \/ (applies = "yes" /\ Objects(p, t))
               /\ applies # "no" => \/ new.verdicts \cap {"deny", "indeterminate"} # {}
                                    \/ applies = "yes" /\ ~Objects(p, t) /\ new.verdicts # {}
<1> DEFINE applies == Applicability(p, q.action, q.type)
           e == Evaluate(facts, so.steps)[p.condition][0]
           new == EvaluatePolicy(so, p, q, facts)
<1>1. applies \in {"yes", "no", "unknown"}
    BY DEF Applicability
<1>2. p.condition \in Condition /\ p.effect \in {"deny", "require"}
    BY PolicyAssumption
<1>3. so.steps \in Nat /\ 0 \in Nat
    BY DEF SoFar
<1>4. e \in Result /\ NoGuess(e.value, Holds(t)[p.condition])
    BY <1>2, <1>3, EvaluationIsSound
<1>5. Holds(t)[p.condition] \in BOOLEAN
    BY <1>2, HoldsWorks
<1> DEFINE v == VerdictOf(p.effect, e.value)
<1>6. /\ v \in Verdict
      /\ v = "deny" => Objects(p, t)
      /\ v = "allow" => ~Objects(p, t)
    BY <1>2, <1>4, <1>5 DEF VerdictOf, Verdict, NoGuess, Objects, Result, Tri
<1>7. /\ applies = "no" => new = so
      /\ applies # "no" /\ so.steps = 0 => new = OutOfSteps(so)
      /\ applies = "unknown" /\ so.steps # 0 => new = [so EXCEPT !.verdicts = so.verdicts \cup {"indeterminate"}]
      /\ applies = "yes" /\ so.steps # 0 =>
            new = [steps |-> IF so.steps > e.used THEN so.steps - e.used ELSE 0, verdicts |-> so.verdicts \cup {v}]
    BY DEF EvaluatePolicy
<1> HIDE DEF applies, e, v, new
<1>8. CASE applies = "no"
    BY <1>7, <1>8 DEF applies, new
<1>9. CASE applies # "no" /\ (so.steps = 0 \/ applies = "unknown")
    <2>1. new = [so EXCEPT !.verdicts = so.verdicts \cup {"indeterminate"}]
        BY <1>1, <1>7, <1>9 DEF OutOfSteps
    <2>2. new \in SoFar /\ new.verdicts = so.verdicts \cup {"indeterminate"}
        BY <2>1 DEF SoFar, Verdict
    <2> QED
        BY <1>9, <2>2 DEF applies, new
<1>10. CASE applies = "yes" /\ so.steps # 0
    <2>1. new \in SoFar
        <3>1. e.used \in Nat
            BY <1>4 DEF Result
        <3>2. (IF so.steps > e.used THEN so.steps - e.used ELSE 0) \in Nat
            BY <1>3, <3>1
        <3> QED
            BY <1>6, <1>7, <1>10, <3>2 DEF SoFar
    <2>2. new.verdicts = so.verdicts \cup {v}
        BY <1>7, <1>10
    <2>3. v \in {"deny", "indeterminate"} \/ v = "allow"
        BY <1>6 DEF Verdict
    <2> QED
        BY <1>6, <1>10, <2>1, <2>2, <2>3 DEF applies, new
<1> QED
    BY <1>1, <1>8, <1>9, <1>10

Judges(so, q, n, facts) ==
    /\ so \in [0 .. n -> SoFar] /\ so[0].verdicts = {}
    /\ \A i \in 1 .. n : so[i] = NextVerdicts(so[i - 1], q.policies[i], q, facts)

LEMMA QuestionPolicies ==
    ASSUME NEW q \in Question
    PROVE  \E n \in Nat : n = Len(q.policies) /\ q.policies \in [1 .. n -> Policy] /\ DOMAIN q.policies = 1 .. n
<1>1. PICK n \in 0 .. MaxPolicies : q.policies \in [1 .. n -> Policy]
    BY DEF Question
<1>2. n \in Nat
    BY EvaluationAssumption
<1>3. q.policies \in Seq(Policy) /\ Len(q.policies) = n
    BY <1>1, <1>2
<1> QED
    BY <1>1, <1>2, <1>3

LEMMA EvaluatedWorks ==
    ASSUME NEW q \in Question, NEW facts \in Facts, NEW t \in [Fact -> BOOLEAN], AgreesWith(facts, t)
    PROVE  \E so : Judges(so, q, Len(q.policies), facts) /\ Evaluated(q, facts) = so[Len(q.policies)].verdicts
<1> DEFINE n == Len(q.policies)
           start == [steps |-> StepBudget, verdicts |-> {}]
           step == [i \in 1 .. n |-> [v \in SoFar |-> NextVerdicts(v, q.policies[i], q, facts)]]
<1>1. n \in Nat /\ q.policies \in [1 .. n -> Policy]
    BY QuestionPolicies
<1>2. start \in SoFar
    BY EvaluationAssumption DEF SoFar
<1>3. \A i \in 1 .. n : \A v \in SoFar : NextVerdicts(v, q.policies[i], q, facts) \in SoFar
    BY <1>1, PolicyStep DEF NextVerdicts
<1>4. step \in Loop(n, SoFar)
    BY <1>3 DEF Loop
<1>5. \A i \in 1 .. n : \A v \in SoFar : step[i][v] = NextVerdicts(v, q.policies[i], q, facts)
    OBVIOUS
<1> DEFINE Body(so) == [i \in 0 .. n |-> IF i = 0 THEN start ELSE NextVerdicts(so[i - 1], q.policies[i], q, facts)]
           chosen == CHOOSE so : so = Body(so)
<1>6. Evaluated(q, facts) = chosen[n].verdicts
    BY DEF Evaluated, NextVerdicts
<1> HIDE DEF n, start, step
<1>7. PICK f : GoesThrough(f, n, SoFar, start, step)
    BY <1>1, <1>2, <1>4, LoopWorks
<1>8. \A i \in 1 .. n : f[i] = NextVerdicts(f[i - 1], q.policies[i], q, facts)
    <2> TAKE i \in 1 .. n
    <2>1. i - 1 \in 0 .. n
        BY <1>1
    <2> QED
        BY <1>5, <1>7, <2>1 DEF GoesThrough
<1>9. f = Body(f)
    BY <1>1, <1>7, <1>8 DEF GoesThrough
<1>10. chosen = Body(chosen)
    <2> HIDE DEF Body
    <2> QED
        BY <1>9
<1> HIDE DEF chosen
<1>11. chosen[0] = start /\ \A i \in 1 .. n : chosen[i] = NextVerdicts(chosen[i - 1], q.policies[i], q, facts)
    BY <1>1, <1>10
<1>12. \A i \in 0 .. n : chosen[i] \in SoFar
    <2> DEFINE T == {i \in 0 .. n : chosen[i] \in SoFar}
    <2>1. 0 \in T
        BY <1>1, <1>2, <1>11
    <2>2. \A i \in 1 .. n : i - 1 \in T => i \in T
        BY <1>1, <1>3, <1>11
    <2> HIDE DEF T
    <2>3. \A i \in 0 .. n : i \in T
        BY <1>1, <2>1, <2>2, UpTo
    <2> QED
        BY <2>3 DEF T
<1>13. chosen \in [0 .. n -> SoFar]
    BY <1>10, <1>12
<1>14. start.verdicts = {}
    BY DEF start
<1> QED
    BY <1>6, <1>11, <1>13, <1>14 DEF Judges, n

(* What the verdicts say of the policies.                                  *)
LEMMA VerdictsAreSound ==
    ASSUME NEW q \in Question, NEW facts \in Facts, NEW t \in [Fact -> BOOLEAN], AgreesWith(facts, t)
    PROVE  /\ Evaluated(q, facts) \subseteq Verdict
           /\ "deny" \in Evaluated(q, facts) =>
                 \E p \in Stored(q) : /\ p.state = "valid" /\ Applicability(p, q.action, q.type) = "yes"
                                      /\ Objects(p, t)
           /\ Evaluated(q, facts) # {} =>
                 \E p \in Stored(q) : p.state = "valid" /\ Applicability(p, q.action, q.type) # "no"
           /\ \A p \in Stored(q) :
                 p.state = "valid" /\ Applicability(p, q.action, q.type) # "no" =>
                    \/ Evaluated(q, facts) \cap {"deny", "indeterminate"} # {}
                    \/ /\ Applicability(p, q.action, q.type) = "yes" /\ ~Objects(p, t)
                       /\ Evaluated(q, facts) # {}
<1> DEFINE n == Len(q.policies)
           applies(i) == Applicability(q.policies[i], q.action, q.type)
           valid(i) == q.policies[i].state = "valid"
           objects(i) == Objects(q.policies[i], t)
<1>1. n \in Nat /\ q.policies \in [1 .. n -> Policy] /\ Stored(q) = {q.policies[i] : i \in 1 .. n}
    BY QuestionPolicies DEF Stored
<1>2. PICK so : Judges(so, q, n, facts) /\ Evaluated(q, facts) = so[n].verdicts
    BY EvaluatedWorks
<1> HIDE DEF n
<1> DEFINE Denied(i) == "deny" \in so[i].verdicts => \E j \in 1 .. i : valid(j) /\ applies(j) = "yes" /\ objects(j)
           Some(i) == so[i].verdicts # {} => \E j \in 1 .. i : valid(j) /\ applies(j) # "no"
           Remains(i, j) == valid(j) /\ applies(j) # "no" =>
                            \/ so[i].verdicts \cap {"deny", "indeterminate"} # {}
                            \/ applies(j) = "yes" /\ ~objects(j) /\ so[i].verdicts # {}
           Reached(i) == Denied(i) /\ Some(i) /\ \A j \in 1 .. i : Remains(i, j)
           T == {i \in 0 .. n : Reached(i)}
<1>3. Reached(0)
    BY <1>2 DEF Judges
<1>4. ASSUME NEW i \in 1 .. n, Reached(i - 1)
      PROVE  Reached(i)
    <2>1. /\ i - 1 \in 0 .. n /\ i \in 1 .. i
          /\ \A j \in 1 .. i : j = i \/ j \in 1 .. i - 1
          /\ \A j \in 1 .. i - 1 : j \in 1 .. i
        BY <1>1
    <2>2. so[i - 1] \in SoFar /\ so[i] = NextVerdicts(so[i - 1], q.policies[i], q, facts) /\ q.policies[i] \in Policy
        BY <1>1, <1>2, <2>1 DEF Judges
    <2>3. CASE ~valid(i)
        BY <1>4, <2>1, <2>2, <2>3 DEF NextVerdicts
    <2>4. CASE valid(i)
        <3>1. so[i] = EvaluatePolicy(so[i - 1], q.policies[i], q, facts)
            BY <2>2, <2>4 DEF NextVerdicts
        <3>2. /\ so[i - 1].verdicts \subseteq so[i].verdicts
              /\ applies(i) = "no" => so[i] = so[i - 1]
              /\ "deny" \in so[i].verdicts => "deny" \in so[i - 1].verdicts \/ (applies(i) = "yes" /\ objects(i))
              /\ applies(i) # "no" => \/ so[i].verdicts \cap {"deny", "indeterminate"} # {}
                                      \/ applies(i) = "yes" /\ ~objects(i) /\ so[i].verdicts # {}
            BY <2>2, <3>1, PolicyStep
        <3> HIDE DEF applies, objects
        <3>3. Denied(i)
            BY <1>4, <2>1, <2>4, <3>2
        <3>4. Some(i)
            BY <1>4, <2>1, <2>4, <3>2
        <3>5. ASSUME NEW j \in 1 .. i PROVE Remains(i, j)
            <4>1. CASE j = i
                BY <3>2, <4>1
            <4>2. CASE j \in 1 .. i - 1
                BY <1>4, <3>2, <4>2
            <4> QED
                BY <2>1, <4>1, <4>2
        <3> QED
            BY <3>3, <3>4, <3>5
    <2> QED
        BY <2>3, <2>4
<1>5. Reached(n)
    <2>1. 0 \in T
        BY <1>1, <1>3
    <2>2. ASSUME NEW i \in 1 .. n, i - 1 \in T PROVE i \in T
        <3>1. Reached(i - 1)
            BY <2>2
        <3> HIDE DEF Reached
        <3>2. Reached(i)
            BY <1>4, <3>1
        <3> QED
            BY <1>1, <3>2
    <2> HIDE DEF T
    <2>3. \A i \in 0 .. n : i \in T
        BY <1>1, <2>1, <2>2, UpTo
    <2> QED
        BY <1>1, <2>3 DEF T
<1>6. so[n] \in SoFar
    BY <1>1, <1>2 DEF Judges
<1>7. so[n].verdicts \subseteq Verdict
    BY <1>6 DEF SoFar
<1> QED
    BY <1>1, <1>2, <1>5, <1>7

(***************************************************************************)
(* The answer.                                                             *)
(***************************************************************************)

(* When a policy may take part in a request about a resource of a type     *)
(* that agrees with the question, and when one surely does.                *)
LEMMA TakesPartMeaning ==
    ASSUME NEW p, NEW type \in IF question.type = NoType THEN Type ELSE {question.type}, NEW broken,
           p.state # "unreadable"
    PROVE  LET applies == Applicability(p, question.action, question.type)
           IN  /\ applies = "yes" => TakesPart(p, type, broken)
               /\ TakesPart(p, type, broken) => applies # "no"
BY DEF TakesPart, Applicability

LEMMA DecisionIsIntended ==
    ASSUME question \in Question, NEW facts \in Facts, truth \in [Fact -> BOOLEAN], AgreesWith(facts, truth),
           Decide(question, facts) \in {"allow", "deny"},
           NEW type \in IF question.type = NoType THEN Type ELSE {question.type},
           NEW broken \in {"nothing", "allow", "object"}
    PROVE  Decide(question, facts) = Intended(type, broken)
<1> DEFINE part == {p \in Stored(question) : TakesPart(p, type, broken)}
           V == Verdicts(question, facts)
           applies(p) == Applicability(p, question.action, question.type)
<1>1. CASE ~question.base \/ question.action \in ProtectedAction
    BY <1>1 DEF Decide, Intended, Question
<1>2. CASE question.base /\ question.action \notin ProtectedAction
    <2>1. Decide(question, facts) = IF V = {} /\ question.require THEN "deny" ELSE CombineVerdicts(V)
        BY <1>2 DEF Decide
    <2>2. Intended(type, broken) = IF \/ part = {} /\ question.require
                                      \/ \E p \in part : ObjectsTo(p, broken)
                                   THEN "deny" ELSE "allow"
        BY <1>2 DEF Intended
    <2> DEFINE E == Evaluated(question, facts)
    <2>3. /\ E \subseteq Verdict
          /\ "deny" \in E => \E p \in Stored(question) : p.state = "valid" /\ applies(p) = "yes" /\ Objects(p, truth)
          /\ E # {} => \E p \in Stored(question) : p.state = "valid" /\ applies(p) # "no"
          /\ \A p \in Stored(question) : p.state = "valid" /\ applies(p) # "no" =>
                \/ E \cap {"deny", "indeterminate"} # {}
                \/ applies(p) = "yes" /\ ~Objects(p, truth) /\ E # {}
        BY VerdictsAreSound
    <2> DEFINE brokenOnes == {p \in Stored(question) : p.state # "valid" /\ BrokenInScope(p, question)}
    <2>4. V = E \cup {"indeterminate" : p \in brokenOnes}
        BY DEF Verdicts
    <2>5. /\ brokenOnes # {} => "indeterminate" \in V
          /\ brokenOnes = {} => V = E
          /\ E \subseteq V /\ ("deny" \in V => "deny" \in E)
        BY <2>4
    <2>6. \A p \in Stored(question) : p.state = "valid" /\ applies(p) = "yes" => p \in part
        BY TakesPartMeaning DEF applies, part
    <2>7. \A p \in part : p \in Stored(question) /\ (p \in brokenOnes \/ (p.state = "valid" /\ applies(p) # "no"))
        BY TakesPartMeaning DEF BrokenInScope, Unreadable
    <2>8. \A p : p.state = "valid" => ObjectsTo(p, broken) = Objects(p, truth)
        BY DEF ObjectsTo, Objects
    <2> HIDE DEF part, V, E, brokenOnes, applies
    <2>9. CASE V = {} /\ question.require
        BY <2>1, <2>2, <2>3, <2>5, <2>7, <2>9
    <2>10. CASE ~(V = {} /\ question.require) /\ "deny" \in V
        <3>1. PICK p \in Stored(question) : p.state = "valid" /\ applies(p) = "yes" /\ Objects(p, truth)
            BY <2>3, <2>5, <2>10
        <3>2. p \in part /\ ObjectsTo(p, broken)
            BY <2>6, <2>8, <3>1
        <3>3. Decide(question, facts) = "deny"
            BY <2>1, <2>10 DEF CombineVerdicts
        <3> QED
            BY <2>2, <3>2, <3>3
    <2>11. CASE ~(V = {} /\ question.require) /\ "deny" \notin V
        <3>1. "indeterminate" \notin V /\ Decide(question, facts) = "allow"
            BY <2>1, <2>11 DEF CombineVerdicts
        <3>2. brokenOnes = {} /\ V = E
            BY <2>5, <3>1
        <3>3. E \cap {"deny", "indeterminate"} = {}
            BY <2>11, <3>1, <3>2
        <3>4. \A p \in Stored(question) : p.state = "valid" /\ applies(p) # "no" =>
                 applies(p) = "yes" /\ ~Objects(p, truth)
            BY <2>3, <3>3
        <3>5. \A p \in part : ~ObjectsTo(p, broken)
            BY <2>7, <2>8, <3>2, <3>4
        <3>6. part = {} => ~question.require
            <4>1. SUFFICES ASSUME part = {}, question.require PROVE FALSE
                BY DEF Question
            <4>2. E # {}
                BY <2>11, <3>2, <4>1
            <4>3. PICK p \in Stored(question) : p.state = "valid" /\ applies(p) # "no"
                BY <2>3, <4>2
            <4> QED
                BY <2>6, <3>4, <4>1, <4>3
        <3> QED
            BY <2>2, <3>1, <3>5, <3>6
    <2> QED
        BY <2>9, <2>10, <2>11
<1> QED
    BY <1>1, <1>2

(* What is known is so.                                                    *)
EvalInv ==
    /\ question \in Question /\ truth \in [Fact -> BOOLEAN] /\ known \in Facts
    /\ AgreesWith(known, truth) /\ AnswersAreNotGuesses

LEMMA EvalBegins == EvalInit => EvalInv
<1> SUFFICES ASSUME EvalInit PROVE EvalInv
    OBVIOUS
<1>1. question \in Question /\ truth \in [Fact -> BOOLEAN] /\ known \in Facts
    BY DEF EvalInit, Question, Facts, Tri
<1>2. AgreesWith(known, truth) /\ AnswersAreNotGuesses
    BY DEF EvalInit, AgreesWith, NoGuess, AnswersAreNotGuesses
<1> QED
    BY <1>1, <1>2 DEF EvalInv

LEMMA EvalStep == EvalInv /\ [EvalNext]_qvars => EvalInv'
<1> SUFFICES ASSUME EvalInv, [EvalNext]_qvars PROVE EvalInv'
    OBVIOUS
<1>1. CASE Answer
    <2>1. UNCHANGED <<question, truth, known>> /\ answer' = Decide(question, known)
        BY <1>1 DEF Answer
    <2>2. AnswersAreNotGuesses'
        <3> SUFFICES ASSUME answer' \in {"allow", "deny"},
                            NEW type \in IF question.type = NoType THEN Type ELSE {question.type},
                            NEW broken \in {"nothing", "allow", "object"}
                     PROVE  answer' = Intended(type, broken)
            BY <2>1 DEF AnswersAreNotGuesses, Intended, TakesPart, ObjectsTo
        <3> QED
            BY <2>1, DecisionIsIntended DEF EvalInv
    <2> QED
        BY <2>1, <2>2 DEF EvalInv, AgreesWith
<1>2. ASSUME NEW f \in Fact, Lookup(f) PROVE EvalInv'
    <2>1. UNCHANGED <<question, truth, answer>>
        BY <1>2 DEF Lookup
    <2>2. PICK v \in {"unknown", IF truth[f] THEN "true" ELSE "false"} : known' = [known EXCEPT ![f] = v]
        BY <1>2 DEF Lookup
    <2>3. v \in Tri /\ NoGuess(v, truth[f])
        BY <2>2 DEF Tri, NoGuess, EvalInv
    <2>4. known' \in Facts
        BY <2>2, <2>3 DEF EvalInv, Facts
    <2>5. AgreesWith(known', truth)
        BY <2>2, <2>3 DEF EvalInv, AgreesWith, Facts
    <2>6. AnswersAreNotGuesses'
        BY <2>1 DEF EvalInv, AnswersAreNotGuesses, Intended, TakesPart, ObjectsTo
    <2> QED
        BY <2>1, <2>4, <2>5, <2>6 DEF EvalInv, AgreesWith
<1>3. CASE UNCHANGED qvars
    BY <1>3 DEF qvars, EvalInv, AgreesWith, AnswersAreNotGuesses, Intended, TakesPart, ObjectsTo
<1> QED
    BY <1>1, <1>2, <1>3 DEF EvalNext

(* An answer is never a guess: whatever failed to be looked up, lay beyond *)
(* the budget or could not be read, "allow" and "deny" are the answers     *)
(* everything known would have given.  For conditions of any shape, any    *)
(* number of policies and any budget.                                      *)
THEOREM DecisionsAreNoGuesses == EvalSpec => []AnswersAreNotGuesses
<1>1. EvalInv => AnswersAreNotGuesses
    BY DEF EvalInv
<1> QED
    BY <1>1, EvalBegins, EvalStep, PTL DEF EvalSpec
=============================================================================
