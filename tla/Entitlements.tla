---------------------------- MODULE Entitlements ----------------------------
(***************************************************************************)
(* One quota of one organization in PostgreSQL: its definition, the limit  *)
(* of the organization's own, what was used of it in each window, and calls *)
(* that take and give back while the host changes all three.               *)
(*                                                                         *)
(* A call reads the clock, then the definition, and then runs its one      *)
(* statement; the statement sees the limit of its snapshot, and the usage  *)
(* as it is once it has the lock of the row.                               *)
(*                                                                         *)
(* A usage of 0 stands for no row as well: both behave alike.  Names, and  *)
(* the status that is read for the answer, are left out.                   *)
(***************************************************************************)
EXTENDS Naturals

CONSTANTS
    Consumer,      \* calls that may be under way at once
    Quota,         \* limits the host may set
    Unlimited,     \* the limit `null`
    Nowhere,       \* no definition, no limit of its own
    MaxAmount,     \* bound: what one call takes or gives back
    DaysPerMonth,
    MaxDay,        \* bound: days
    MaxEdits,      \* bound: changes of definition and limit
    MaxConsumed    \* bound: calls

ASSUME EntitlementAssumption ==
    /\ Quota \subseteq Nat /\ Unlimited \notin Quota \cup {Nowhere} /\ Nowhere \notin Quota
    /\ MaxAmount \in Nat /\ DaysPerMonth \in Nat \ {0}
    /\ MaxDay \in Nat /\ MaxEdits \in Nat /\ MaxConsumed \in Nat

VARIABLES
    definition,    \* [period, limit], or Nowhere
    override,      \* the organization's own limit, or Nowhere
    usage,         \* window -> what was taken in it
    today,         \* the day, from the 1st of some month on
    consumer,      \* call -> how far it is
    edits,         \* changes made (bound)
    consumed       \* calls made (bound)

evars == <<definition, override, usage, today, consumer, edits, consumed>>

Period == {"lifetime", "daily", "monthly"}
Limit == Quota \cup {Unlimited}
Window == 0 .. MaxDay + 1

(* A window is its first day; `lifetime` is the window of the epoch.       *)
entitlementWindow(period, day) ==
    CASE period = "lifetime" -> 0
      [] period = "daily"    -> day + 1
      [] period = "monthly"  -> day - (day % DaysPerMonth) + 1

Defined == definition # Nowhere

LimitInForce == IF override # Nowhere THEN override ELSE definition.limit

AtRest == [pc |-> "idle", op |-> "consume", amount |-> 0, day |-> 0, window |-> 0, limit |-> Unlimited, seen |-> {}]

EntTypeOK ==
    /\ definition \in [period : Period, limit : Limit] \cup {Nowhere}
    /\ override \in Limit \cup {Nowhere}
    /\ usage \in [Window -> Nat]
    /\ today \in 0 .. MaxDay
    /\ consumer \in [Consumer -> [pc : {"idle", "load", "statement", "upsert"}, op : {"consume", "release"},
                                  amount : 0 .. MaxAmount, day : 0 .. MaxDay, window : Window,
                                  limit : Limit, seen : SUBSET Limit]]
    /\ edits \in Nat /\ consumed \in Nat

(***************************************************************************)
(* The host.  `seen` of a call: the limits in force since it began.        *)
(***************************************************************************)
Edited ==
    /\ edits < MaxEdits /\ edits' = edits + 1
    /\ consumer' = [c \in Consumer |->
                       IF consumer[c].pc = "idle" \/ ~Defined' THEN consumer[c]
                       ELSE [consumer[c] EXCEPT !.seen = @ \cup {LimitInForce'}]]
    /\ UNCHANGED <<today, consumed>>

Define(period, limit) ==
    /\ definition' = [period |-> period, limit |-> limit]
    /\ UNCHANGED <<override, usage>> /\ Edited

(* `on delete cascade`: limits and usage go with the definition.           *)
Undefine ==
    /\ Defined /\ definition' = Nowhere /\ override' = Nowhere
    /\ usage' = [w \in Window |-> 0]
    /\ Edited

(* The definition is read first; were it gone by then, the foreign key     *)
(* refuses the row all the same.                                           *)
SetLimit(limit) ==
    /\ Defined /\ override' = limit
    /\ UNCHANGED <<definition, usage>> /\ Edited

ClearLimit ==
    /\ Defined /\ override' = Nowhere
    /\ UNCHANGED <<definition, usage>> /\ Edited

NextDay ==
    /\ today < MaxDay /\ today' = today + 1
    /\ UNCHANGED <<definition, override, usage, consumer, edits, consumed>>

(***************************************************************************)
(* A call.                                                                 *)
(***************************************************************************)
Moves(c, to) ==
    /\ consumer' = [consumer EXCEPT ![c] = to]
    /\ UNCHANGED <<definition, override, today, edits>>

(* The clock is read before anything else.                                 *)
CallEntitlement(c, op, n) ==
    /\ consumer[c].pc = "idle"
    /\ consumed < MaxConsumed /\ consumed' = consumed + 1
    /\ Moves(c, [AtRest EXCEPT !.pc = "load", !.op = op, !.amount = n, !.day = today,
                               !.seen = IF Defined THEN {LimitInForce} ELSE {}])
    /\ UNCHANGED usage

(* An entitlement that is not defined refuses the call.                    *)
Load(c) ==
    /\ consumer[c].pc = "load"
    /\ Moves(c, IF ~Defined THEN AtRest
                ELSE [consumer[c] EXCEPT !.pc = "statement",
                                         !.window = entitlementWindow(definition.period, consumer[c].day)])
    /\ UNCHANGED <<usage, consumed>>

(* The snapshot of the statement that takes: `eff`.                        *)
Snapshot(c) ==
    /\ consumer[c].pc = "statement" /\ consumer[c].op = "consume"
    /\ Moves(c, IF ~Defined THEN AtRest ELSE [consumer[c] EXCEPT !.pc = "upsert", !.limit = LimitInForce])
    /\ UNCHANGED <<usage, consumed>>

Fits_onItsOwn(taken, n, limit) == limit = Unlimited \/ n <= limit      \* mutant

(* Both `where`s: an insertion fits when the amount does, an update when   *)
(* the sum does.                                                           *)
Fits(taken, n, limit) == limit = Unlimited \/ taken + n <= limit

(* The row, under its lock; without a definition the foreign key refuses.  *)
Consume(c) ==
    LET w == consumer[c].window
        n == consumer[c].amount
    IN  /\ consumer[c].pc = "upsert"
        /\ usage' = IF Defined /\ Fits(usage[w], n, consumer[c].limit) THEN [usage EXCEPT ![w] = @ + n] ELSE usage
        /\ Moves(c, AtRest) /\ UNCHANGED consumed

(* Never below 0.                                                          *)
Release(c) ==
    LET w == consumer[c].window
        n == consumer[c].amount
    IN  /\ consumer[c].pc = "statement" /\ consumer[c].op = "release"
        /\ usage' = [usage EXCEPT ![w] = IF @ > n THEN @ - n ELSE 0]
        /\ Moves(c, AtRest) /\ UNCHANGED consumed

EntInit ==
    /\ definition = Nowhere /\ override = Nowhere
    /\ usage = [w \in Window |-> 0]
    /\ today = 0
    /\ consumer = [c \in Consumer |-> AtRest]
    /\ edits = 0 /\ consumed = 0

EntNext ==
    \/ \E period \in Period, limit \in Limit : Define(period, limit)
    \/ \E limit \in Limit : SetLimit(limit)
    \/ Undefine \/ ClearLimit \/ NextDay
    \/ \E c \in Consumer :
          \/ \E op \in {"consume", "release"}, n \in 1 .. MaxAmount : CallEntitlement(c, op, n)
          \/ Load(c) \/ Snapshot(c) \/ Consume(c) \/ Release(c)

EntSpec == EntInit /\ [][EntNext]_evars

(***************************************************************************)
(* Properties.                                                             *)
(***************************************************************************)

(* "Two concurrent requests can't both slip under the limit": a call takes *)
(* only what fits, with everything others took meanwhile, under a limit    *)
(* that was in force during the call; however limits, definition and day   *)
(* change between its reads.                                               *)
TakenFitsALimit ==
    [][\A w \in Window : usage'[w] > usage[w] =>
          \E c \in Consumer : /\ consumer'[c] # consumer[c] /\ consumer[c].window = w
                              /\ \E limit \in consumer[c].seen : limit = Unlimited \/ usage'[w] <= limit]_evars
=============================================================================
