-------------------------- MODULE WebhookDelivery --------------------------
(***************************************************************************)
(* Sending queued webhook deliveries: the dispatcher's deliverDue, run by  *)
(* several processes over one database, the delivery and endpoint tables,  *)
(* the receivers and the operator.                                         *)
(*                                                                         *)
(* Each process claims a batch and works through it with several attempts   *)
(* in flight; `phase` is where its attempt at a delivery stands.  Between   *)
(* two phases of an attempt anything else may happen, a crash included.    *)
(* Secrets, URLs, headers and bodies are not modelled.                     *)
(***************************************************************************)
EXTENDS LeasedQueue, FiniteSets

CONSTANTS
    Endpoint,       \* webhook endpoint ids
    Delivery,       \* delivery ids
    EndpointOf,     \* delivery -> its endpoint
    Worker,         \* dispatcher processes
    Concurrency,    \* attempts one process has in flight at once
    MaxAttempts,    \* attempts before a delivery is parked as dead
    DisableAfter,   \* consecutive failures that switch an endpoint off
    MaxTrouble,     \* bound: crashes and storage errors in a behaviour
    Stalls          \* may a process outlast the lease of what it claimed?

ASSUME EndpointOfAssumption == EndpointOf \in [Delivery -> Endpoint]
ASSUME BoundsAssumption ==
    /\ MaxAttempts \in Nat \ {0} /\ DisableAfter \in Nat \ {0}
    /\ Concurrency \in Nat \ {0} /\ MaxTrouble \in Nat
ASSUME StallsAssumption == Stalls \in BOOLEAN

VARIABLES
    row,            \* delivery -> its row
    endpoint,       \* endpoint -> its row, as far as it steers the dispatcher
    phase,          \* worker -> delivery -> where the attempt stands
    received,       \* deliveries some receiver accepted
    leaseOf,        \* delivery -> workers whose claim of it has not run out
    trouble         \* crashes and storage errors so far

dvars == <<row, endpoint, phase, received, leaseOf, trouble>>

Phases == {"none", "claimed", "sending", "ok", "failed", "slowed", "recordOk", "recordFailed",
           "recordSlowed"}

(* The attempt has not reported to the delivery row yet.                    *)
Holding == {"claimed", "sending", "ok", "failed", "slowed"}

EndpointRow == [status : {"absent", "enabled", "disabled"}, reason : {"none", "operator", "too_many_failures"},
                failures : 0 .. DisableAfter, quiet : BOOLEAN]

TypeOK ==
    /\ row \in [Delivery -> Row(MaxAttempts)]
    /\ endpoint \in [Endpoint -> EndpointRow]
    /\ phase \in [Worker -> [Delivery -> Phases]]
    /\ received \subseteq Delivery
    /\ leaseOf \in [Delivery -> SUBSET Worker]
    /\ trouble \in 0 .. MaxTrouble

FreshEndpoint(status) == [status |-> status, reason |-> "none", failures |-> 0, quiet |-> FALSE]

Init ==
    /\ row = [d \in Delivery |-> NoRow]
    /\ endpoint = [e \in Endpoint |-> FreshEndpoint("enabled")]
    /\ phase = [w \in Worker |-> [d \in Delivery |-> "none"]]
    /\ received = {}
    /\ leaseOf = [d \in Delivery |-> {}]
    /\ trouble = 0

Enabled(d) == endpoint[EndpointOf[d]].status = "enabled"
Known(d) == endpoint[EndpointOf[d]].status # "absent"

MoveTo(w, d, p) == phase' = [phase EXCEPT ![w][d] = p]

-----------------------------------------------------------------------------
(* The fan-out adds a delivery; an endpoint that is gone gets none, and an   *)
(* id that was queued before is ignored.  (Delivered rows are kept longer   *)
(* than an event is fanned out again, so an id does not come back.)         *)
Accepts(d) == Known(d) /\ row[d].status = "none"

Enqueue(d) ==
    /\ Accepts(d)
    /\ row' = [row EXCEPT ![d] = Enqueued]
    /\ UNCHANGED <<endpoint, phase, received, leaseOf, trouble>>

(* One statement takes a batch of what is due: `limit` and `skip locked` may *)
(* leave any part of it for others.  deliverDue waits for the whole batch   *)
(* before it claims again.                                                  *)
Claim(w, batch) ==
    /\ \A d \in Delivery : phase[w][d] = "none"
    /\ batch # {}
    /\ \A d \in batch : Claimable(row[d]) /\ Enabled(d)
    /\ row' = [d \in Delivery |-> IF d \in batch THEN Claimed(row[d], MaxAttempts) ELSE row[d]]
    /\ phase' = [phase EXCEPT ![w] = [d \in Delivery |-> IF d \in batch THEN "claimed" ELSE @[d]]]
    /\ leaseOf' = [d \in Delivery |-> IF d \in batch THEN leaseOf[d] \cup {w} ELSE leaseOf[d]]
    /\ UNCHANGED <<endpoint, received, trouble>>

InFlight(w) == {d \in Delivery : phase[w][d] \notin {"none", "claimed"}}

HasASlot(w, d) == phase[w][d] = "claimed" => Cardinality(InFlight(w)) < Concurrency

(* The endpoint is read again for every delivery; one that was disabled or   *)
(* deleted since the claim is skipped and the claim left to run out.        *)
StartAttempt(w, d) ==
    /\ phase[w][d] = "claimed"
    /\ HasASlot(w, d)
    /\ MoveTo(w, d, IF Enabled(d) THEN "sending" ELSE "none")
    /\ UNCHANGED <<row, endpoint, received, leaseOf, trouble>>

(* What comes of a request: accepted; accepted, but the answer came too late *)
(* or never; refused, or not sent; asked to slow down (`Retry-After`).      *)
Answer(w, d) ==
    /\ phase[w][d] = "sending"
    /\ \/ received' = received \cup {d} /\ MoveTo(w, d, "ok")
       \/ received' = received \cup {d} /\ MoveTo(w, d, "failed")
       \/ UNCHANGED received /\ MoveTo(w, d, "failed")
       \/ UNCHANGED received /\ MoveTo(w, d, "slowed")
    /\ UNCHANGED <<row, endpoint, leaseOf, trouble>>

EndLease(w, d) == leaseOf' = [leaseOf EXCEPT ![d] = @ \ {w}]

(* Mutant: an answer that came too late is taken for a success.              *)
Complete_anyAnswer(w, d) ==
    /\ phase[w][d] \in {"ok", "failed"}
    /\ row' = [row EXCEPT ![d] = Completed(@)]
    /\ MoveTo(w, d, "recordOk")
    /\ EndLease(w, d)
    /\ UNCHANGED <<endpoint, received, trouble>>

Complete(w, d) ==
    /\ phase[w][d] = "ok"
    /\ row' = [row EXCEPT ![d] = Completed(@)]
    /\ MoveTo(w, d, "recordOk")
    /\ EndLease(w, d)
    /\ UNCHANGED <<endpoint, received, trouble>>

Fail(w, d) ==
    /\ phase[w][d] \in {"failed", "slowed"}
    /\ row' = [row EXCEPT ![d] = Failed(@, MaxAttempts)]
    /\ MoveTo(w, d, IF phase[w][d] = "failed" THEN "recordFailed" ELSE "recordSlowed")
    /\ EndLease(w, d)
    /\ UNCHANGED <<endpoint, received, trouble>>

(* recordAttempt, one statement.  The count goes up for every failure; only  *)
(* one that was no request to slow down may switch the endpoint off, and    *)
(* only when there was no success for long enough.                          *)
RecordSuccess(w, d) ==
    LET e == EndpointOf[d] IN
    /\ phase[w][d] = "recordOk"
    /\ endpoint' = IF Known(d) THEN [endpoint EXCEPT ![e].failures = 0, ![e].quiet = FALSE] ELSE endpoint
    /\ MoveTo(w, d, "none")
    /\ UNCHANGED <<row, received, leaseOf, trouble>>

(* Mutant: the statement does not ask for an endpoint that is enabled.       *)
SwitchesOff_anyStatus(e) ==
    /\ endpoint[e].failures + 1 >= DisableAfter
    /\ endpoint[e].quiet

SwitchesOff(e) ==
    /\ endpoint[e].status = "enabled"
    /\ endpoint[e].failures + 1 >= DisableAfter
    /\ endpoint[e].quiet

UpTo(n, max) == IF n < max THEN n ELSE max

RecordFailure(w, d) ==
    LET e   == EndpointOf[d]
        off == phase[w][d] = "recordFailed" /\ SwitchesOff(e)
        ep  == endpoint[e]
    IN
    /\ phase[w][d] \in {"recordFailed", "recordSlowed"}
    /\ endpoint' =
          IF Known(d)
          THEN [endpoint EXCEPT ![e] =
                  [status   |-> IF off THEN "disabled" ELSE ep.status,
                   reason   |-> IF off THEN "too_many_failures" ELSE ep.reason,
                   failures |-> UpTo(ep.failures + 1, DisableAfter),
                   quiet    |-> ep.quiet]]
          ELSE endpoint
    /\ MoveTo(w, d, "none")
    /\ UNCHANGED <<row, received, leaseOf, trouble>>

-----------------------------------------------------------------------------
(* A storage error ends one attempt where it stands; a crash ends them all.  *)
(* The leases stay in the table.                                            *)
StorageError(w, d) ==
    /\ trouble < MaxTrouble
    /\ phase[w][d] \notin {"none", "sending"}
    /\ HasASlot(w, d)
    /\ trouble' = trouble + 1
    /\ MoveTo(w, d, "none")
    /\ UNCHANGED <<row, endpoint, received, leaseOf>>

Crash(w) ==
    /\ trouble < MaxTrouble
    /\ \E d \in Delivery : phase[w][d] # "none"
    /\ trouble' = trouble + 1
    /\ phase' = [phase EXCEPT ![w] = [d \in Delivery |-> "none"]]
    /\ UNCHANGED <<row, endpoint, received, leaseOf>>

(* Time.  A lease is computed to cover the slowest batch, so it outlasts     *)
(* every process that has not crashed, unless processes stall.              *)
Outlasted_always(w, d) == TRUE      \* mutant: a lease shorter than the slowest batch

Outlasted(w, d) == Stalls \/ phase[w][d] \notin Holding

LeaseRunsOut(d, w) ==
    /\ w \in leaseOf[d]
    /\ Outlasted(w, d)
    /\ leaseOf' = [leaseOf EXCEPT ![d] = @ \ {w}]
    /\ row' = IF leaseOf[d] = {w} THEN [row EXCEPT ![d].leased = FALSE] ELSE row
    /\ UNCHANGED <<endpoint, phase, received, trouble>>

RetryFallsDue(d) ==
    /\ row[d].status = "pending" /\ ~row[d].due
    /\ row' = [row EXCEPT ![d].due = TRUE]
    /\ UNCHANGED <<endpoint, phase, received, leaseOf, trouble>>

QuietForLong(e) ==
    /\ endpoint[e].status # "absent" /\ ~endpoint[e].quiet
    /\ endpoint' = [endpoint EXCEPT ![e].quiet = TRUE]
    /\ UNCHANGED <<row, phase, received, leaseOf, trouble>>

-----------------------------------------------------------------------------
(* The operator.                                                             *)
Enable(e) ==
    /\ endpoint[e].status # "absent"
    /\ endpoint' = [endpoint EXCEPT ![e].status = "enabled", ![e].reason = "none", ![e].failures = 0]
    /\ UNCHANGED <<row, phase, received, leaseOf, trouble>>

Disable(e) ==
    /\ endpoint[e].status # "absent"
    /\ endpoint' = [endpoint EXCEPT ![e].status = "disabled", ![e].reason = "operator"]
    /\ UNCHANGED <<row, phase, received, leaseOf, trouble>>

(* `on delete cascade` takes the deliveries.                                 *)
DeleteEndpoint(e) ==
    /\ endpoint[e].status # "absent"
    /\ endpoint' = [endpoint EXCEPT ![e] = FreshEndpoint("absent")]
    /\ row' = [d \in Delivery |-> IF EndpointOf[d] = e /\ Stored(row[d]) THEN Gone ELSE row[d]]
    /\ leaseOf' = [d \in Delivery |-> IF EndpointOf[d] = e THEN {} ELSE leaseOf[d]]
    /\ UNCHANGED <<phase, received, trouble>>

Requeue(d) ==
    /\ row[d].status = "dead"
    /\ row' = [row EXCEPT ![d] = Requeued(@)]
    /\ UNCHANGED <<endpoint, phase, received, leaseOf, trouble>>

(* Housekeeping deletes what was delivered long ago, so no lease is left.    *)
PruneDelivered(d) ==
    /\ row[d].status = "delivered" /\ leaseOf[d] = {}
    /\ row' = [row EXCEPT ![d] = Gone]
    /\ UNCHANGED <<endpoint, phase, received, leaseOf, trouble>>

-----------------------------------------------------------------------------
(* What an attempt does next; each phase has one action.                     *)
Work(w, d) ==
    \/ StartAttempt(w, d) \/ Answer(w, d) \/ Complete(w, d) \/ Fail(w, d)
    \/ RecordSuccess(w, d) \/ RecordFailure(w, d)

(* What happens to deliveries once they are claimed, and around them.         *)
DeliveryStep ==
    \/ \E d \in Delivery : RetryFallsDue(d) \/ Requeue(d) \/ PruneDelivered(d)
    \/ \E w \in Worker, d \in Delivery : Work(w, d) \/ StorageError(w, d) \/ LeaseRunsOut(d, w)
    \/ \E w \in Worker : Crash(w)
    \/ \E e \in Endpoint : QuietForLong(e) \/ Enable(e)

Next ==
    \/ \E d \in Delivery : Enqueue(d)
    \/ \E w \in Worker, batch \in SUBSET Delivery : Claim(w, batch)
    \/ \E e \in Endpoint : Disable(e) \/ DeleteEndpoint(e)
    \/ DeliveryStep

Spec == Init /\ [][Next]_dvars

(* The event loop resumes every attempt, requests have a deadline, clocks     *)
(* advance, and `order by seq` lets a delivery that keeps becoming due be   *)
(* claimed in the end: an older one cannot be due all the time.             *)
ClaimOf(d) == \E w \in Worker, batch \in SUBSET Delivery : d \in batch /\ Claim(w, batch)

Fairness ==
    /\ \A w \in Worker, d \in Delivery : WF_dvars(Work(w, d)) /\ WF_dvars(LeaseRunsOut(d, w))
    /\ \A d \in Delivery : WF_dvars(RetryFallsDue(d)) /\ SF_dvars(ClaimOf(d))

FairSpec == Spec /\ Fairness

-----------------------------------------------------------------------------
(* Processes that keep to their leases never work on the same delivery at    *)
(* once, whatever crashes, disabled endpoints and retries come between.     *)
OneWorkerPerDelivery ==
    \A d \in Delivery, v, w \in Worker :
       phase[v][d] \in Holding /\ phase[w][d] \in Holding => v = w

(* Why: a row is leased exactly while one claim of it runs, and an attempt   *)
(* that has not reported yet is under that claim (or its row was deleted).  *)
LeasesAreKept ==
    /\ \A d \in Delivery :
          /\ row[d].leased <=> leaseOf[d] # {}
          /\ \A v, w \in leaseOf[d] : v = w
    /\ \A w \in Worker, d \in Delivery :
          phase[w][d] \in Holding =>
             \/ row[d].status = "gone"
             \/ row[d].status = "pending" /\ w \in leaseOf[d]

(* A delivered delivery is never sent again, and a dead one only when the    *)
(* operator requeues it: a report that comes late, from a process that      *)
(* outlasted its lease, changes neither.                                    *)
SettledStaysSettled ==
    [][\A d \in Delivery :
          /\ row[d].status = "delivered" => row'[d].status \in {"delivered", "gone"}
          /\ row[d].status = "dead" => row'[d] \in {row[d], Enqueued, Gone}]_dvars

(* Only what a receiver accepted is recorded as delivered.                   *)
DeliveredWasReceived ==
    \A d \in Delivery : row[d].status = "delivered" => d \in received

(* What the operator switched off is not taken for an endpoint that switched *)
(* itself off (which would keep collecting events) by attempts that were    *)
(* under way and fail afterwards.                                           *)
OperatorsDecisionStands ==
    [][\A e \in Endpoint :
          endpoint[e].reason = "operator" =>
             endpoint'[e].reason = "operator" \/ endpoint'[e].status # "disabled"]_dvars

(* Every pending delivery is delivered or given up in the end, unless its    *)
(* endpoint is not enabled.                                                 *)
PendingIsSettled ==
    \A d \in Delivery : row[d].status = "pending" ~> (row[d].status # "pending" \/ ~Enabled(d))
=============================================================================
