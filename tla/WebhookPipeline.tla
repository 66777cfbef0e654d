-------------------------- MODULE WebhookPipeline --------------------------
(***************************************************************************)
(* From a committed event to its receivers: the outbox, the fan-out that    *)
(* turns an event into one delivery per endpoint that wants it, and         *)
(* WebhookDelivery, composed.                                              *)
(*                                                                         *)
(* A process runs rounds: fanOut, then deliverDue.  A fan-out claims a     *)
(* batch of events, lists the endpoints once, queues the deliveries of one  *)
(* event after the other, and completes the whole batch at the end.        *)
(***************************************************************************)
EXTENDS WebhookDelivery

CONSTANTS
    Event,          \* event ids
    NoEvent,
    MaxFanOuts,     \* attempts before an event is parked as dead
    PausedLimit     \* deliveries kept for an endpoint that switched itself off

(* A delivery's id is made of its endpoint and its event; the pairs are those *)
(* the endpoint wants.                                                      *)
ASSUME DeliveriesArePairs ==
    /\ Delivery \subseteq Endpoint \X Event
    /\ \A d \in Delivery : EndpointOf[d] = d[1]
ASSUME FanOutAssumption ==
    NoEvent \notin Event /\ MaxFanOuts \in Nat \ {0} /\ PausedLimit \in Nat \ {0}

VARIABLES
    outbox,         \* event -> its row
    fan,            \* worker -> where its fan-out stands
    steady          \* deliveries whose endpoint was enabled when the event committed, and that the
                    \* operator neither disabled nor deleted nor a fan-out found full since

fvars == <<outbox, fan, steady>>
pvars == <<dvars, fvars>>

NoFanOut == [step |-> "idle", batch |-> {}, done |-> {}, event |-> NoEvent, open |-> {},
             paused |-> {}, todo |-> {}]

FanOuts == [step : {"idle", "listing", "counting", "queueing"}, batch : SUBSET Event, done : SUBSET Event,
            event : Event \cup {NoEvent}, open : SUBSET Endpoint, paused : SUBSET Endpoint,
            todo : SUBSET Endpoint]

PipelineTypeOK ==
    /\ TypeOK
    /\ outbox \in [Event -> Row(MaxFanOuts)]
    /\ fan \in [Worker -> FanOuts]
    /\ steady \subseteq Delivery

PipelineInit ==
    /\ Init
    /\ outbox = [v \in Event |-> NoRow]
    /\ fan = [w \in Worker |-> NoFanOut]
    /\ steady = {}

(* A domain change enqueues its event in its own transaction.                *)
CommitEvent(v) ==
    /\ outbox[v].status = "none"
    /\ outbox' = [outbox EXCEPT ![v] = Enqueued]
    /\ steady' = steady \cup {d \in Delivery : d[2] = v /\ Enabled(d)}
    /\ UNCHANGED <<dvars, fan>>

(* One statement; the round before must be over.                             *)
ClaimEvents(w, batch) ==
    /\ fan[w].step = "idle"
    /\ \A d \in Delivery : phase[w][d] = "none"
    /\ batch # {} /\ \A v \in batch : Claimable(outbox[v])
    /\ outbox' = [v \in Event |-> IF v \in batch THEN Claimed(outbox[v], MaxFanOuts) ELSE outbox[v]]
    /\ fan' = [fan EXCEPT ![w] = [NoFanOut EXCEPT !.step = "listing", !.batch = batch]]
    /\ UNCHANGED <<dvars, steady>>

SwitchedItselfOff(e) == endpoint[e].status = "disabled" /\ endpoint[e].reason = "too_many_failures"

ListEndpoints(w) ==
    /\ fan[w].step = "listing"
    /\ fan' = [fan EXCEPT ![w] = [@ EXCEPT !.step = "counting",
                                           !.open = {e \in Endpoint : endpoint[e].status = "enabled"},
                                           !.paused = {e \in Endpoint : SwitchedItselfOff(e)}]]
    /\ UNCHANGED <<dvars, outbox, steady>>

PendingOf(e) == {d \in Delivery : EndpointOf[d] = e /\ row[d].status = "pending"}

CountPaused(w, e) ==
    /\ fan[w].step = "counting" /\ e \in fan[w].paused
    /\ LET f == fan[w]
           room == Cardinality(PendingOf(e)) < PausedLimit
       IN  /\ fan' = [fan EXCEPT ![w] = [f EXCEPT !.paused = f.paused \ {e},
                                                  !.open = IF room THEN f.open \cup {e} ELSE f.open]]
           /\ steady' = {d \in steady : EndpointOf[d] = e /\ d[2] \in f.batch => room}
    /\ UNCHANGED <<dvars, outbox>>

(* The next event of the batch; its deliveries go to what is open and wants it. *)
TakeEvent(w, v) ==
    /\ \/ fan[w].step = "counting" /\ fan[w].paused = {}
       \/ fan[w].step = "queueing" /\ fan[w].event = NoEvent
    /\ v \in fan[w].batch
    /\ LET f == fan[w]
       IN  fan' = [fan EXCEPT ![w] = [f EXCEPT !.step = "queueing", !.batch = f.batch \ {v}, !.event = v,
                                               !.todo = {e \in f.open : <<e, v>> \in Delivery}]]
    /\ UNCHANGED <<dvars, outbox, steady>>

(* One insertion: nothing when the id is there already or the endpoint gone. *)
QueueDelivery(w, e) ==
    LET d == <<e, fan[w].event>> IN
    /\ e \in fan[w].todo
    /\ fan' = [fan EXCEPT ![w].todo = @ \ {e}]
    /\ IF Accepts(d) THEN Enqueue(d) ELSE UNCHANGED dvars
    /\ UNCHANGED <<outbox, steady>>

FinishEvent(w) ==
    /\ fan[w].step = "queueing" /\ fan[w].event # NoEvent /\ fan[w].todo = {}
    /\ fan' = [fan EXCEPT ![w] = [@ EXCEPT !.event = NoEvent, !.done = fan[w].done \cup {fan[w].event}]]
    /\ UNCHANGED <<dvars, outbox, steady>>

(* Mutant: the error is caught too early, and the event counts as done.      *)
AfterAnError_done(f) == [f EXCEPT !.event = NoEvent, !.todo = {}, !.done = @ \cup {f.event}]

(* An insertion fails.  The event is failed, unless that fails as well, and  *)
(* the fan-out goes on with the next one.                                   *)
AfterAnError(f) == [f EXCEPT !.event = NoEvent, !.todo = {}]

FailEvent(w) ==
    LET v == fan[w].event IN
    /\ trouble < MaxTrouble
    /\ fan[w].todo # {}
    /\ trouble' = trouble + 1
    /\ fan' = [fan EXCEPT ![w] = AfterAnError(@)]
    /\ outbox' \in {outbox, [outbox EXCEPT ![v] = Failed(@, MaxFanOuts)]}
    /\ UNCHANGED <<row, endpoint, phase, received, leaseOf, steady>>

CompleteBatch(w) ==
    /\ fan[w].step = "queueing" /\ fan[w].event = NoEvent /\ fan[w].batch = {}
    /\ outbox' = [v \in Event |-> IF v \in fan[w].done THEN Completed(outbox[v]) ELSE outbox[v]]
    /\ fan' = [fan EXCEPT ![w] = NoFanOut]
    /\ UNCHANGED <<dvars, steady>>

(* The process crashes, or a read or the completion fails and ends the round; *)
(* what was queued stays queued, what was claimed stays leased.             *)
FanOutEnds(w) ==
    /\ trouble < MaxTrouble
    /\ fan[w].step # "idle"
    /\ trouble' = trouble + 1
    /\ fan' = [fan EXCEPT ![w] = NoFanOut]
    /\ UNCHANGED <<row, endpoint, phase, received, leaseOf, outbox, steady>>

-----------------------------------------------------------------------------
(* The lease is a fixed minute, and nothing keeps a fan-out within it: it can *)
(* run out while the fan-out goes on if Stalls.                             *)
Handled(w) == fan[w].batch \cup fan[w].done \cup {fan[w].event}

EventLeaseRunsOut_never(v) == FALSE       \* mutant: claim does not look at when the lease ends

EventLeaseRunsOut(v) ==
    /\ outbox[v].leased
    /\ Stalls \/ \A w \in Worker : v \notin Handled(w)
    /\ outbox' = [outbox EXCEPT ![v].leased = FALSE]
    /\ UNCHANGED <<dvars, fan, steady>>

EventRetryFallsDue(v) ==
    /\ outbox[v].status = "pending" /\ ~outbox[v].due
    /\ outbox' = [outbox EXCEPT ![v].due = TRUE]
    /\ UNCHANGED <<dvars, fan, steady>>

RequeueEvent(v) ==
    /\ outbox[v].status = "dead"
    /\ outbox' = [outbox EXCEPT ![v] = Requeued(@)]
    /\ UNCHANGED <<dvars, fan, steady>>

PruneEvent(v) ==
    /\ outbox[v].status = "delivered"
    /\ outbox' = [outbox EXCEPT ![v] = Gone]
    /\ UNCHANGED <<dvars, fan, steady>>

EndpointTakenAway(e) ==
    /\ Disable(e) \/ DeleteEndpoint(e)
    /\ steady' = {d \in steady : EndpointOf[d] # e}
    /\ UNCHANGED <<outbox, fan>>

(* deliverDue follows fanOut in the same round.                              *)
ClaimDeliveries(w, batch) ==
    /\ fan[w].step = "idle"
    /\ Claim(w, batch)
    /\ UNCHANGED fvars

FanOutWork(w) ==
    \/ ListEndpoints(w) \/ FinishEvent(w) \/ CompleteBatch(w)
    \/ \E e \in Endpoint : CountPaused(w, e) \/ QueueDelivery(w, e)
    \/ \E v \in Event : TakeEvent(w, v)

PipelineNext ==
    \/ \E v \in Event :
          \/ CommitEvent(v) \/ EventLeaseRunsOut(v) \/ EventRetryFallsDue(v)
          \/ RequeueEvent(v) \/ PruneEvent(v)
    \/ \E w \in Worker :
          \/ \E batch \in SUBSET Event : ClaimEvents(w, batch)
          \/ \E batch \in SUBSET Delivery : ClaimDeliveries(w, batch)
          \/ FanOutWork(w) \/ FailEvent(w) \/ FanOutEnds(w)
    \/ \E e \in Endpoint : EndpointTakenAway(e)
    \/ DeliveryStep /\ UNCHANGED fvars

PipelineSpec == PipelineInit /\ [][PipelineNext]_pvars

(* As in WebhookDelivery; `order by seq` lets every due event be claimed too. *)
EventClaim(v) == \E w \in Worker, batch \in SUBSET Event : v \in batch /\ ClaimEvents(w, batch)

DeliveryClaim(d) == \E w \in Worker, batch \in SUBSET Delivery : d \in batch /\ ClaimDeliveries(w, batch)

PipelineFairness ==
    /\ \A w \in Worker : WF_pvars(FanOutWork(w))
    /\ \A v \in Event :
          WF_pvars(EventLeaseRunsOut(v)) /\ WF_pvars(EventRetryFallsDue(v)) /\ SF_pvars(EventClaim(v))
    /\ \A w \in Worker, d \in Delivery :
          WF_pvars(Work(w, d) /\ UNCHANGED fvars) /\ WF_pvars(LeaseRunsOut(d, w) /\ UNCHANGED fvars)
    /\ \A d \in Delivery :
          WF_pvars(RetryFallsDue(d) /\ UNCHANGED fvars) /\ SF_pvars(DeliveryClaim(d))

FairPipeline == PipelineSpec /\ PipelineFairness

-----------------------------------------------------------------------------
(* An event that counts as fanned out was queued for every endpoint that was  *)
(* enabled when it committed and that the operator left alone since, also   *)
(* when the fan-out was repeated, failed halfway or ran in two processes at *)
(* once, and when the endpoint switched itself off in between, as long as   *)
(* no fan-out of the event found too much kept for it.                      *)
NothingMissed ==
    \A d \in steady : outbox[d[2]].status \in {"delivered", "gone"} => row[d].status # "none"

(* From the commit of an event to an end for its deliveries: delivered, given *)
(* up, or kept because the endpoint is not enabled.                         *)
EventsReachTheirReceivers ==
    \A d \in Delivery :
       d \in steady /\ row[d].status = "none" ~>
          \/ row[d].status \notin {"none", "pending"}
          \/ ~Enabled(d)
          \/ outbox[d[2]].status = "dead"
=============================================================================
