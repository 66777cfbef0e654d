---------------------------- MODULE SharedLimit ----------------------------
(***************************************************************************)
(* The rate limit of one API key, shared by the processes of the server.   *)
(* The bucket is a row of the storage; a process takes a lease of a tenth  *)
(* of the burst, spends it on its requests and drops what is left when it  *)
(* expires.  Requests of a process that find nothing share one call.  When *)
(* the storage fails, a process falls back to a bucket of its own.         *)
(*                                                                         *)
(* Time is counted in ticks, of which each gives back Rate whole tokens;   *)
(* fractions of a token, and clocks that disagree, are left out.           *)
(***************************************************************************)
EXTENDS Naturals, FiniteSets

CONSTANTS
    Server,
    Request,       \* requests of one process that may be under way at once
    Burst,
    Rate,          \* tokens a tick gives back
    LeaseTtl,      \* ticks a lease is spent for
    EmptyFor,      \* ticks an empty bucket is not asked again
    MaxTicks,      \* bound: ticks
    MaxRequests    \* bound: requests

ASSUME LimitAssumption ==
    /\ Burst \in Nat \ {0} /\ Rate \in Nat \ {0} /\ LeaseTtl \in Nat \ {0} /\ EmptyFor \in Nat
    /\ MaxTicks \in Nat /\ MaxRequests \in Nat /\ IsFiniteSet(Server)

VARIABLES
    bucket,        \* the row: [tokens, at]
    held,          \* process -> its lease
    pending,       \* process -> the call that is under way
    request,       \* process, request -> how far it is
    own,           \* process -> the bucket it falls back to
    ticks,
    made,          \* requests made (bound)
    since          \* history: what was let through since some instant, and of
                   \* the own bucket since it was last forgotten

rvars == <<bucket, held, pending, request, own, ticks, made, since>>

MinOf(m, n) == IF m < n THEN m ELSE n

(* A tenth of the burst, rounded up.                                       *)
Lease == (Burst + 9) \div 10

NoLease == [tokens |-> 0, expiresAt |-> 0, emptyUntil |-> 0]
NoOwn == [tokens |-> Burst, at |-> 0]   \* the first bucket is full
NoRefill == [call |-> "none", granted |-> 0]
Waiting == {"refill", "lastRefill"}

LimitTypeOK ==
    /\ bucket \in [tokens : 0 .. Burst, at : 0 .. MaxTicks]
    /\ held \in [Server -> [tokens : 0 .. Lease, expiresAt : Nat, emptyUntil : Nat]]
    /\ pending \in [Server -> [call : {"none", "asking", "answered"}, granted : 0 .. Lease]]
    /\ request \in [Server -> [Request -> {"idle", "take", "takeAgain", "fallback"} \cup Waiting]]
    /\ \A p \in Server : (\E r \in Request : request[p][r] \in Waiting) => pending[p].call # "none"
    /\ own \in [Server -> [tokens : 0 .. Burst, at : 0 .. MaxTicks]]
    /\ ticks \in 0 .. MaxTicks /\ made \in 0 .. MaxRequests
    /\ since \in [on : BOOLEAN, at : 0 .. MaxTicks, leased : Nat, own : [Server -> Nat]]

(***************************************************************************)
(* A request.                                                              *)
(***************************************************************************)
MayTake(p) == held[p].tokens >= 1 /\ held[p].expiresAt > ticks

KnownEmpty(p) == held[p].tokens < 1 /\ held[p].emptyUntil > ticks

Looking(p, r) == request[p][r] \in {"take", "takeAgain"}

(* A process runs what it has been woken for to the next await before it   *)
(* does anything else, and before time passes.                             *)
Quiet(p) == \A r \in Request : request[p][r] \in {"idle"} \cup Waiting

Counted(n) == IF since.on THEN n + 1 ELSE n

Arrives(p, r) ==
    /\ Quiet(p) /\ request[p][r] = "idle" /\ made < MaxRequests
    /\ made' = made + 1
    /\ request' = [request EXCEPT ![p][r] = "take"]
    /\ UNCHANGED <<bucket, held, pending, own, ticks, since>>

(* Let through on the lease.                                               *)
Take(p, r) ==
    /\ Looking(p, r) /\ MayTake(p)
    /\ held' = [held EXCEPT ![p].tokens = @ - 1]
    /\ request' = [request EXCEPT ![p][r] = "idle"]
    /\ since' = [since EXCEPT !.leased = Counted(@)]
    /\ UNCHANGED <<bucket, pending, own, ticks, made>>

(* The bucket was empty a moment ago.                                      *)
RefuseEmpty(p, r) ==
    /\ Looking(p, r) /\ ~MayTake(p) /\ KnownEmpty(p)
    /\ request' = [request EXCEPT ![p][r] = "idle"]
    /\ UNCHANGED <<bucket, held, pending, own, ticks, made, since>>

(* Ask the storage, or wait for who is asking.                             *)
AskRefill(p, r) ==
    /\ Looking(p, r) /\ ~MayTake(p) /\ ~KnownEmpty(p)
    /\ pending' = [pending EXCEPT ![p] = IF @.call = "none" THEN [NoRefill EXCEPT !.call = "asking"] ELSE @]
    /\ request' = [request EXCEPT ![p][r] = IF @ = "take" THEN "refill" ELSE "lastRefill"]
    /\ UNCHANGED <<bucket, held, own, ticks, made, since>>

(***************************************************************************)
(* The storage: one statement under the lock of the row refills the bucket *)
(* and hands out whole tokens.                                             *)
(***************************************************************************)
Refilled(b) == MinOf(Burst, b.tokens + Rate * (ticks - b.at))

(* Mutant: what is handed out is not taken out of the bucket.              *)
LeftIn_handedOutTwice(b) == Refilled(b)

LeftIn(b) == Refilled(b) - MinOf(Lease, Refilled(b))

LeaseFromBucket(p) ==
    /\ pending[p].call = "asking"
    /\ pending' = [pending EXCEPT ![p] = [call |-> "answered", granted |-> MinOf(Lease, Refilled(bucket))]]
    /\ bucket' = [tokens |-> LeftIn(bucket), at |-> ticks]
    /\ UNCHANGED <<held, request, own, ticks, made, since>>

(* After the answer, those who wait look once more, or, the second time,   *)
(* are refused.                                                            *)
AfterRefill(p) ==
    [r \in Request |-> CASE request[p][r] = "refill" -> "takeAgain"
                         [] request[p][r] = "lastRefill" -> "idle"
                         [] OTHER -> request[p][r]]

Settle(p) ==
    /\ Quiet(p) /\ pending[p].call = "answered"
    /\ held' = [held EXCEPT ![p] = [tokens |-> pending[p].granted, expiresAt |-> ticks + LeaseTtl,
                                    emptyUntil |-> IF pending[p].granted > 0 THEN 0 ELSE ticks + EmptyFor]]
    /\ pending' = [pending EXCEPT ![p] = NoRefill]
    /\ request' = [request EXCEPT ![p] = AfterRefill(p)]
    /\ UNCHANGED <<bucket, own, ticks, made, since>>

(* The process's own bucket, for requests the storage could not answer.    *)
OwnTokens(p) == MinOf(Burst, own[p].tokens + Rate * (ticks - own[p].at))

(* The call fails, before or after its statement: those who waited take    *)
(* from the process's own bucket, one after the other.                     *)
StoreFails(p) ==
    /\ Quiet(p) /\ pending[p].call # "none"
    /\ pending' = [pending EXCEPT ![p] = NoRefill]
    /\ request' = [request EXCEPT ![p] = [r \in Request |-> IF @[r] \in Waiting THEN "fallback" ELSE @[r]]]
    /\ UNCHANGED <<bucket, held, own, ticks, made, since>>

Fallback(p, r) ==
    /\ request[p][r] = "fallback"
    /\ request' = [request EXCEPT ![p][r] = "idle"]
    /\ own' = [own EXCEPT ![p] = [tokens |-> OwnTokens(p) - (IF OwnTokens(p) >= 1 THEN 1 ELSE 0), at |-> ticks]]
    /\ since' = IF OwnTokens(p) >= 1 THEN [since EXCEPT !.own[p] = Counted(@)] ELSE since
    /\ UNCHANGED <<bucket, held, pending, ticks, made>>

(* Other keys push the lease out of the process's map.                     *)
Forget(p) ==
    /\ Quiet(p) /\ held[p] # NoLease
    /\ held' = [held EXCEPT ![p] = NoLease]
    /\ UNCHANGED <<bucket, pending, request, own, ticks, made, since>>

(* They push its own bucket out of the other map: the next one is full.    *)
ForgetOwn(p) ==
    /\ OwnTokens(p) < Burst
    /\ own' = [own EXCEPT ![p] = NoOwn]
    /\ since' = [since EXCEPT !.own[p] = 0]
    /\ UNCHANGED <<bucket, held, pending, request, ticks, made>>

TimePasses ==
    /\ \A p \in Server : Quiet(p)
    /\ ticks < MaxTicks /\ ticks' = ticks + 1
    /\ UNCHANGED <<bucket, held, pending, request, own, made, since>>

(* The instant from which we count.                                        *)
StartCounting ==
    /\ ~since.on
    /\ since' = [since EXCEPT !.on = TRUE, !.at = ticks]
    /\ UNCHANGED <<bucket, held, pending, request, own, ticks, made>>

LimitInit ==
    /\ bucket = [tokens |-> Burst, at |-> 0]
    /\ held = [p \in Server |-> NoLease]
    /\ pending = [p \in Server |-> NoRefill]
    /\ request = [p \in Server |-> [r \in Request |-> "idle"]]
    /\ own = [p \in Server |-> NoOwn]
    /\ ticks = 0 /\ made = 0
    /\ since = [on |-> FALSE, at |-> 0, leased |-> 0, own |-> [p \in Server |-> 0]]

LimitNext ==
    \/ \E p \in Server :
          \/ \E r \in Request : Arrives(p, r) \/ Take(p, r) \/ RefuseEmpty(p, r) \/ AskRefill(p, r) \/ Fallback(p, r)
          \/ LeaseFromBucket(p) \/ Settle(p) \/ StoreFails(p) \/ Forget(p) \/ ForgetOwn(p)
    \/ TimePasses \/ StartCounting

LimitSpec == LimitInit /\ [][LimitNext]_rvars

(***************************************************************************)
(* Properties.                                                             *)
(***************************************************************************)

(* "It never lets N instances each allow the full rate."  From any instant *)
(* on, all processes together let through the burst, what the time gave    *)
(* back and one lease each.  A process that cannot reach the storage lets  *)
(* through, of its own, the burst and what the time gave back; and as much *)
(* again from each time that other keys pushed its bucket out.             *)
TheRateIsKept ==
    since.on =>
        /\ since.leased <= Burst + Rate * (ticks - since.at) + Lease * Cardinality(Server)
        /\ \A p \in Server : since.own[p] <= Burst + Rate * (ticks - since.at)
=============================================================================
