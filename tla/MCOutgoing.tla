----------------------------- MODULE MCOutgoing -----------------------------
(* Three models that share no state, for one run of TLC, as in              *)
(* MCRepositories: invitations, the deliveries to one endpoint by processes *)
(* that keep to their leases, and the fan-out of one event to two endpoints. *)
EXTENDS Invitations, WebhookDelivery, TLC

CONSTANTS NoEvent

VARIABLES
    part,           \* which of the three this behaviour is about
    queued, target, stage, accepted, holders, mishaps,          \* the deliveries and
    outbox, fan, steady                                         \* the fan-out of the third

MCEndpointOf == [d \in Delivery |-> CHOOSE e \in Endpoint : TRUE]

(* The two identities are also the deliveries of the second, and the two     *)
(* endpoints of the third: only one part moves, so one symmetry does.       *)
Two == Identity

P == INSTANCE WebhookPipeline WITH
        Endpoint <- Two, Event <- {"event"}, Delivery <- Two \X {"event"},
        EndpointOf <- [d \in Two \X {"event"} |-> d[1]],
        Worker <- {"worker"}, Concurrency <- 1, MaxAttempts <- 1, DisableAfter <- 1, MaxTrouble <- 1,
        Stalls <- TRUE, MaxFanOuts <- 2, PausedLimit <- 1,
        row <- queued, endpoint <- target, phase <- stage, received <- accepted, leaseOf <- holders,
        trouble <- mishaps

MCSymmetry == Permutations(Call) \cup Permutations(Two)

pvars == <<queued, target, stage, accepted, holders, mishaps, outbox, fan, steady>>

(* The third part does not run.                                              *)
NoPipeline ==
    /\ queued = {} /\ target = {} /\ stage = {} /\ accepted = {} /\ holders = {} /\ mishaps = 0
    /\ outbox = {} /\ fan = {} /\ steady = {}

UnionInit ==
    /\ InvInit /\ Init
    /\ \/ part = "invitations" /\ NoPipeline
       \/ part = "dispatch" /\ access /\ NoPipeline
       \/ part = "pipeline" /\ access /\ P!PipelineInit

UnionNext ==
    \/ part = "invitations" /\ InvNext /\ UNCHANGED <<part, dvars, pvars>>
    \/ part = "dispatch" /\ Next /\ UNCHANGED <<part, vars, pvars>>
    \/ part = "pipeline" /\ P!PipelineNext /\ UNCHANGED <<part, vars, dvars>>

UnionSpec == UnionInit /\ [][UnionNext]_<<part, vars, dvars, pvars>>

NothingMissed == part = "pipeline" => P!NothingMissed
=============================================================================
