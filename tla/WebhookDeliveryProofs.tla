----------------------- MODULE WebhookDeliveryProofs -----------------------
(***************************************************************************)
(* What is proved of WebhookDelivery, and of WebhookPipeline around it, for *)
(* any number of endpoints, events, deliveries and processes and any bounds. *)
(***************************************************************************)
EXTENDS WebhookPipeline, TLAPS

(* A row that was just put into the queue, or that is not there, is a row.   *)
LEMMA FreshRows ==
    ASSUME NEW max \in Nat \ {0}
    PROVE  NoRow \in Row(max) /\ Gone \in Row(max) /\ Enqueued \in Row(max)
  BY DEF Row, RowStatus, NoRow, Gone, Enqueued, FreshRow

(* claim makes a row of a pending one.                                       *)
LEMMA ClaimedRow ==
    ASSUME NEW max \in Nat \ {0}, NEW r \in Row(max), Claimable(r)
    PROVE  Claimed(r, max) \in Row(max)
<1>0. /\ r.status = "pending" /\ r.attempts \in 0 .. max /\ r.due \in BOOLEAN /\ r \in [status : RowStatus, attempts : 0 .. max, leased : BOOLEAN, due : BOOLEAN]
  BY DEF Row, Claimable
<1>1. (IF r.attempts < max THEN r.attempts + 1 ELSE r.attempts) \in 0 .. max
  BY <1>0
<1>2. Claimed(r, max) \in [status : RowStatus, attempts : 0 .. max, leased : BOOLEAN, due : BOOLEAN]
  BY <1>0, <1>1 DEF Claimed
<1>3. Claimed(r, max).status = "pending"
  BY <1>0 DEF Claimed
<1> QED BY <1>2, <1>3 DEF Row

(* complete makes a row of any row: a delivered one loses its lease.         *)
LEMMA CompletedRow ==
    ASSUME NEW max \in Nat \ {0}, NEW r \in Row(max)
    PROVE  Completed(r) \in Row(max)
<1>0. /\ r.status \in RowStatus /\ r.attempts \in 0 .. max /\ r.due \in BOOLEAN /\ r \in [status : RowStatus, attempts : 0 .. max, leased : BOOLEAN, due : BOOLEAN]
  BY DEF Row
<1>1. CASE r.status = "pending"
  <2>1. Completed(r) = [r EXCEPT !.status = "delivered", !.leased = FALSE]
    BY <1>1 DEF Completed
  <2>2. [r EXCEPT !.status = "delivered", !.leased = FALSE] \in [status : RowStatus, attempts : 0 .. max, leased : BOOLEAN, due : BOOLEAN]
    BY <1>0 DEF RowStatus
  <2>3. [r EXCEPT !.status = "delivered", !.leased = FALSE].leased = FALSE
    BY <1>0
  <2> QED BY <2>1, <2>2, <2>3 DEF Row
<1>2. CASE r.status # "pending"
  BY <1>2 DEF Completed
<1> QED BY <1>1, <1>2

(* Every statement of the queue makes a row of a row.                        *)
LEMMA RowsStayRows ==
    ASSUME NEW max \in Nat \ {0}, NEW r \in Row(max)
    PROVE  /\ NoRow \in Row(max) /\ Gone \in Row(max) /\ Enqueued \in Row(max)
           /\ Claimable(r) => Claimed(r, max) \in Row(max)
           /\ Completed(r) \in Row(max)
           /\ Failed(r, max) \in Row(max)
           /\ Requeued(r) \in Row(max)
<1>1. NoRow \in Row(max) /\ Gone \in Row(max) /\ Enqueued \in Row(max)
  BY FreshRows
<1>2. Claimable(r) => Claimed(r, max) \in Row(max)
  BY ClaimedRow
<1>3. Completed(r) \in Row(max)
  BY CompletedRow
<1>4. Failed(r, max) \in Row(max)
  BY DEF Row, RowStatus, Failed
<1>5. Requeued(r) \in Row(max)
  BY <1>1 DEF Requeued
<1> QED BY <1>1, <1>2, <1>3, <1>4, <1>5

-----------------------------------------------------------------------------
(* An endpoint that was just created, or is gone, is an endpoint row.        *)
LEMMA FreshEndpoints ==
    ASSUME NEW status \in {"absent", "enabled", "disabled"}
    PROVE  FreshEndpoint(status) \in EndpointRow
  BY BoundsAssumption DEF FreshEndpoint, EndpointRow

(* An endpoint whose counter is reset stays an endpoint row.                 *)
LEMMA ResetEndpoints ==
    ASSUME NEW ep \in EndpointRow
    PROVE  /\ [ep EXCEPT !.failures = 0, !.quiet = FALSE] \in EndpointRow
           /\ [ep EXCEPT !.status = "enabled", !.reason = "none", !.failures = 0] \in EndpointRow
<1> DEFINE F == 0 .. DisableAfter
<1>1. 0 \in F
  BY BoundsAssumption
<1>2. EndpointRow = [status : {"absent", "enabled", "disabled"}, reason : {"none", "operator", "too_many_failures"},
                     failures : F, quiet : BOOLEAN]
  BY DEF EndpointRow
<1> HIDE DEF F
<1> QED BY <1>1, <1>2

(* Every step of a delivery keeps the shape of tables, leases and attempts.  *)
LEMMA TypeStep == TypeOK /\ [Next]_dvars => TypeOK'
<1> SUFFICES ASSUME TypeOK, [Next]_dvars PROVE TypeOK'
  OBVIOUS
<1> USE BoundsAssumption, EndpointOfAssumption
<1>1. ASSUME NEW d \in Delivery, Enqueue(d) PROVE TypeOK'
  BY <1>1, RowsStayRows DEF TypeOK, Enqueue, Accepts
<1>2. ASSUME NEW d \in Delivery, RetryFallsDue(d) PROVE TypeOK'
  BY <1>2 DEF TypeOK, RetryFallsDue, Row
<1>3. ASSUME NEW d \in Delivery, Requeue(d) PROVE TypeOK'
  BY <1>3, RowsStayRows DEF TypeOK, Requeue
<1>4. ASSUME NEW d \in Delivery, PruneDelivered(d) PROVE TypeOK'
  BY <1>4, RowsStayRows DEF TypeOK, PruneDelivered
<1>5. ASSUME NEW w \in Worker, NEW batch \in SUBSET Delivery, Claim(w, batch) PROVE TypeOK'
  <2>1. row' \in [Delivery -> Row(MaxAttempts)]
    BY <1>5, RowsStayRows DEF TypeOK, Claim
  <2>2. phase' \in [Worker -> [Delivery -> Phases]]
    BY <1>5 DEF TypeOK, Claim, Phases
  <2> QED BY <1>5, <2>1, <2>2 DEF TypeOK, Claim
<1>6. ASSUME NEW w \in Worker, NEW d \in Delivery, StartAttempt(w, d) PROVE TypeOK'
  BY <1>6 DEF TypeOK, StartAttempt, MoveTo, Phases
<1>7. ASSUME NEW w \in Worker, NEW d \in Delivery, Answer(w, d) PROVE TypeOK'
  <2>1. PICK p \in Phases : MoveTo(w, d, p)
    BY <1>7 DEF Answer, Phases
  <2>2. phase' \in [Worker -> [Delivery -> Phases]]
    BY <2>1 DEF TypeOK, MoveTo
  <2>3. received' \subseteq Delivery
    BY <1>7 DEF TypeOK, Answer
  <2> QED BY <1>7, <2>2, <2>3 DEF TypeOK, Answer
<1>8. ASSUME NEW w \in Worker, NEW d \in Delivery, Complete(w, d) PROVE TypeOK'
  BY <1>8, RowsStayRows DEF TypeOK, Complete, MoveTo, EndLease, Phases
<1>9. ASSUME NEW w \in Worker, NEW d \in Delivery, Fail(w, d) PROVE TypeOK'
  BY <1>9, RowsStayRows DEF TypeOK, Fail, MoveTo, EndLease, Phases
<1>10. ASSUME NEW w \in Worker, NEW d \in Delivery, RecordSuccess(w, d) PROVE TypeOK'
  <2>1. phase' \in [Worker -> [Delivery -> Phases]]
    BY <1>10 DEF TypeOK, RecordSuccess, MoveTo, Phases
  <2> DEFINE e   == EndpointOf[d]
             new == [endpoint[e] EXCEPT !.failures = 0, !.quiet = FALSE]
  <2>2. e \in Endpoint /\ new \in EndpointRow
    BY ResetEndpoints DEF TypeOK
  <2>3. endpoint' \in {endpoint, [endpoint EXCEPT ![e] = new]}
    BY <1>10, <2>2 DEF TypeOK, RecordSuccess
  <2>4. endpoint' \in [Endpoint -> EndpointRow]
    BY <2>2, <2>3 DEF TypeOK
  <2> QED BY <1>10, <2>1, <2>4 DEF TypeOK, RecordSuccess
<1>11. ASSUME NEW w \in Worker, NEW d \in Delivery, RecordFailure(w, d) PROVE TypeOK'
  <2>1. phase' \in [Worker -> [Delivery -> Phases]]
    BY <1>11 DEF TypeOK, RecordFailure, MoveTo, Phases
  <2>2. \A n \in 0 .. DisableAfter : UpTo(n + 1, DisableAfter) \in 0 .. DisableAfter
    BY DEF UpTo
  <2> DEFINE e   == EndpointOf[d]
             off == phase[w][d] = "recordFailed" /\ SwitchesOff(e)
             new == [status   |-> IF off THEN "disabled" ELSE endpoint[e].status,
                     reason   |-> IF off THEN "too_many_failures" ELSE endpoint[e].reason,
                     failures |-> UpTo(endpoint[e].failures + 1, DisableAfter),
                     quiet    |-> endpoint[e].quiet]
  <2>3. e \in Endpoint /\ endpoint[e] \in EndpointRow
    BY DEF TypeOK
  <2>4. new \in EndpointRow
    <3>1. UpTo(endpoint[e].failures + 1, DisableAfter) \in 0 .. DisableAfter
      BY <2>2, <2>3 DEF EndpointRow
    <3> QED BY <2>3, <3>1 DEF EndpointRow
  <2>5. endpoint' \in {endpoint, [endpoint EXCEPT ![e] = new]}
    BY <1>11 DEF RecordFailure
  <2>6. endpoint' \in [Endpoint -> EndpointRow]
    BY <2>3, <2>4, <2>5 DEF TypeOK
  <2> QED BY <1>11, <2>1, <2>6 DEF TypeOK, RecordFailure
<1>12. ASSUME NEW w \in Worker, NEW d \in Delivery, StorageError(w, d) PROVE TypeOK'
  BY <1>12 DEF TypeOK, StorageError, MoveTo, Phases
<1>13. ASSUME NEW w \in Worker, NEW d \in Delivery, LeaseRunsOut(d, w) PROVE TypeOK'
  <2>1. row' \in [Delivery -> Row(MaxAttempts)]
    BY <1>13 DEF TypeOK, LeaseRunsOut, Row
  <2> QED BY <1>13, <2>1 DEF TypeOK, LeaseRunsOut
<1>14. ASSUME NEW w \in Worker, Crash(w) PROVE TypeOK'
  BY <1>14 DEF TypeOK, Crash, Phases
<1>15. ASSUME NEW e \in Endpoint, QuietForLong(e) PROVE TypeOK'
  BY <1>15 DEF TypeOK, QuietForLong, EndpointRow
<1>16. ASSUME NEW e \in Endpoint, Enable(e) PROVE TypeOK'
  <2> DEFINE new == [endpoint[e] EXCEPT !.status = "enabled", !.reason = "none", !.failures = 0]
  <2>1. new \in EndpointRow
    BY ResetEndpoints DEF TypeOK
  <2>2. endpoint' = [endpoint EXCEPT ![e] = new]
    BY <1>16 DEF TypeOK, Enable
  <2>3. endpoint' \in [Endpoint -> EndpointRow]
    BY <2>1, <2>2 DEF TypeOK
  <2> QED BY <1>16, <2>3 DEF TypeOK, Enable
<1>17. ASSUME NEW e \in Endpoint, Disable(e) PROVE TypeOK'
  BY ZenonT(30), <1>17 DEF TypeOK, Disable, EndpointRow
<1>18. ASSUME NEW e \in Endpoint, DeleteEndpoint(e) PROVE TypeOK'
  <2>1. row' \in [Delivery -> Row(MaxAttempts)]
    BY <1>18, RowsStayRows DEF TypeOK, DeleteEndpoint
  <2>2. endpoint' \in [Endpoint -> EndpointRow]
    BY <1>18, FreshEndpoints DEF TypeOK, DeleteEndpoint
  <2> QED BY <1>18, <2>1, <2>2 DEF TypeOK, DeleteEndpoint
<1>19. CASE UNCHANGED dvars
  BY <1>19 DEF TypeOK, dvars
<1> QED
  BY <1>1, <1>2, <1>3, <1>4, <1>5, <1>6, <1>7, <1>8, <1>9, <1>10, <1>11, <1>12, <1>13, <1>14,
     <1>15, <1>16, <1>17, <1>18, <1>19 DEF Next, DeliveryStep, Work

(* The tables, the leases and the attempts of every process keep their       *)
(* shape; only pending rows are leased.                                     *)
THEOREM TypeCorrect == Spec => []TypeOK
<1>1. Init => TypeOK
  BY FreshRows, FreshEndpoints, BoundsAssumption DEF Init, TypeOK, Phases
<1> QED BY <1>1, TypeStep, PTL DEF Spec

-----------------------------------------------------------------------------
(* What a claimed row, a reported one and a requeued one look like.          *)
LEMMA RowEffects ==
    ASSUME NEW max \in Nat \ {0}, NEW r \in Row(max)
    PROVE  /\ Claimable(r) => /\ r.status = "pending" /\ ~r.leased
                              /\ Claimed(r, max).status = "pending" /\ Claimed(r, max).leased
           /\ r.status = "pending" => ~Completed(r).leased /\ ~Failed(r, max).leased
           /\ r.status # "pending" => Completed(r) = r /\ Failed(r, max) = r
           /\ r.leased => r.status = "pending"
<1>1. ASSUME Claimable(r)
      PROVE  r.status = "pending" /\ ~r.leased /\ Claimed(r, max).status = "pending" /\ Claimed(r, max).leased
  BY <1>1 DEF Claimable, Claimed, Row
<1>2. ASSUME r.status = "pending" PROVE ~Completed(r).leased /\ ~Failed(r, max).leased
  BY <1>2 DEF Completed, Failed, Row
<1>3. ASSUME r.status # "pending" PROVE Completed(r) = r /\ Failed(r, max) = r
  BY <1>3 DEF Completed, Failed
<1>4. r.leased => r.status = "pending"
  BY DEF Row
<1> QED BY <1>1, <1>2, <1>3, <1>4

(* Under ~Stalls the leases are kept, and so is one worker per delivery.      *)
LEMMA LeasesStep ==
    ASSUME ~Stalls, TypeOK, LeasesAreKept, OneWorkerPerDelivery, [Next]_dvars
    PROVE  LeasesAreKept' /\ OneWorkerPerDelivery'
<1> USE RowEffects, BoundsAssumption DEF Holding
<1>1. ASSUME NEW d \in Delivery, Enqueue(d) PROVE LeasesAreKept' /\ OneWorkerPerDelivery'
  BY <1>1 DEF TypeOK, LeasesAreKept, OneWorkerPerDelivery, Enqueue, Accepts, Enqueued, FreshRow
<1>2. ASSUME NEW d \in Delivery, RetryFallsDue(d) PROVE LeasesAreKept' /\ OneWorkerPerDelivery'
  BY <1>2 DEF TypeOK, LeasesAreKept, OneWorkerPerDelivery, RetryFallsDue
<1>3. ASSUME NEW d \in Delivery, Requeue(d) PROVE LeasesAreKept' /\ OneWorkerPerDelivery'
  BY <1>3 DEF TypeOK, LeasesAreKept, OneWorkerPerDelivery, Requeue, Requeued, Enqueued, FreshRow
<1>4. ASSUME NEW d \in Delivery, PruneDelivered(d) PROVE LeasesAreKept' /\ OneWorkerPerDelivery'
  BY <1>4 DEF TypeOK, LeasesAreKept, OneWorkerPerDelivery, PruneDelivered, Gone, FreshRow
<1>5. ASSUME NEW w \in Worker, NEW batch \in SUBSET Delivery, Claim(w, batch) PROVE LeasesAreKept' /\ OneWorkerPerDelivery'
  <2>1. \A d \in batch : /\ row[d].status = "pending" /\ leaseOf[d] = {}
                         /\ row'[d].status = "pending" /\ row'[d].leased /\ leaseOf'[d] = {w}
                         /\ \A v \in Worker : phase[v][d] \notin Holding
    BY <1>5 DEF TypeOK, LeasesAreKept, Claim
  <2>2. \A d \in Delivery \ batch : row'[d] = row[d] /\ leaseOf'[d] = leaseOf[d]
    BY <1>5 DEF Claim
  <2>3. \A v \in Worker, d \in Delivery : d \notin batch \/ v # w => phase'[v][d] = phase[v][d]
    BY <1>5 DEF TypeOK, Claim
  <2>4. LeasesAreKept'
    <3>1. ASSUME NEW k \in Delivery
          PROVE  /\ row'[k].leased <=> leaseOf'[k] # {}
                 /\ \A u, v \in leaseOf'[k] : u = v
      BY <2>1, <2>2 DEF LeasesAreKept
    <3>2. ASSUME NEW v \in Worker, NEW k \in Delivery, phase'[v][k] \in Holding
          PROVE  row'[k].status = "gone" \/ (row'[k].status = "pending" /\ v \in leaseOf'[k])
      BY <2>1, <2>2, <2>3, <3>2 DEF LeasesAreKept
    <3> QED BY <3>1, <3>2 DEF LeasesAreKept
  <2>5. OneWorkerPerDelivery'
    BY <2>1, <2>3 DEF OneWorkerPerDelivery
  <2> QED BY <2>4, <2>5
<1>6. ASSUME NEW w \in Worker, NEW d \in Delivery, StartAttempt(w, d) PROVE LeasesAreKept' /\ OneWorkerPerDelivery'
  BY <1>6 DEF TypeOK, LeasesAreKept, OneWorkerPerDelivery, StartAttempt, MoveTo
<1>7. ASSUME NEW w \in Worker, NEW d \in Delivery, Answer(w, d) PROVE LeasesAreKept' /\ OneWorkerPerDelivery'
  <2>1. UNCHANGED <<row, leaseOf>> /\ phase[w][d] = "sending"
    BY <1>7 DEF Answer
  <2>2. \A v \in Worker, k \in Delivery : phase'[v][k] \in Holding => phase[v][k] \in Holding
    BY <1>7 DEF TypeOK, Answer, MoveTo
  <2> QED BY <2>1, <2>2 DEF LeasesAreKept, OneWorkerPerDelivery
<1>8. ASSUME NEW w \in Worker, NEW d \in Delivery, Complete(w, d) PROVE LeasesAreKept' /\ OneWorkerPerDelivery'
  BY <1>8 DEF TypeOK, LeasesAreKept, OneWorkerPerDelivery, Complete, MoveTo, EndLease
<1>9. ASSUME NEW w \in Worker, NEW d \in Delivery, Fail(w, d) PROVE LeasesAreKept' /\ OneWorkerPerDelivery'
  BY <1>9 DEF TypeOK, LeasesAreKept, OneWorkerPerDelivery, Fail, MoveTo, EndLease
<1>10. ASSUME NEW w \in Worker, NEW d \in Delivery, RecordSuccess(w, d) PROVE LeasesAreKept' /\ OneWorkerPerDelivery'
  BY <1>10 DEF TypeOK, LeasesAreKept, OneWorkerPerDelivery, RecordSuccess, MoveTo
<1>11. ASSUME NEW w \in Worker, NEW d \in Delivery, RecordFailure(w, d) PROVE LeasesAreKept' /\ OneWorkerPerDelivery'
  BY <1>11 DEF TypeOK, LeasesAreKept, OneWorkerPerDelivery, RecordFailure, MoveTo
<1>12. ASSUME NEW w \in Worker, NEW d \in Delivery, StorageError(w, d) PROVE LeasesAreKept' /\ OneWorkerPerDelivery'
  BY <1>12 DEF TypeOK, LeasesAreKept, OneWorkerPerDelivery, StorageError, MoveTo
<1>13. ASSUME NEW w \in Worker, NEW d \in Delivery, LeaseRunsOut(d, w) PROVE LeasesAreKept' /\ OneWorkerPerDelivery'
  <2>1. UNCHANGED phase /\ leaseOf[d] = {w} /\ phase[w][d] \notin Holding
    BY <1>13 DEF TypeOK, LeasesAreKept, LeaseRunsOut, Outlasted
  <2>2. row'[d].status = row[d].status /\ ~row'[d].leased /\ leaseOf'[d] = {}
    BY <1>13, <2>1 DEF TypeOK, Row, LeaseRunsOut
  <2>3. \A k \in Delivery \ {d} : row'[k] = row[k] /\ leaseOf'[k] = leaseOf[k]
    BY <1>13 DEF TypeOK, LeaseRunsOut
  <2>4. \A v \in Worker : phase[v][d] \in Holding => row[d].status = "gone"
    BY <2>1 DEF LeasesAreKept
  <2> QED BY <2>1, <2>2, <2>3, <2>4 DEF LeasesAreKept, OneWorkerPerDelivery
<1>14. ASSUME NEW w \in Worker, Crash(w) PROVE LeasesAreKept' /\ OneWorkerPerDelivery'
  BY <1>14 DEF TypeOK, LeasesAreKept, OneWorkerPerDelivery, Crash
<1>15. ASSUME NEW e \in Endpoint, QuietForLong(e) PROVE LeasesAreKept' /\ OneWorkerPerDelivery'
  BY <1>15 DEF TypeOK, LeasesAreKept, OneWorkerPerDelivery, QuietForLong
<1>16. ASSUME NEW e \in Endpoint, Enable(e) PROVE LeasesAreKept' /\ OneWorkerPerDelivery'
  BY <1>16 DEF TypeOK, LeasesAreKept, OneWorkerPerDelivery, Enable
<1>17. ASSUME NEW e \in Endpoint, Disable(e) PROVE LeasesAreKept' /\ OneWorkerPerDelivery'
  BY <1>17 DEF TypeOK, LeasesAreKept, OneWorkerPerDelivery, Disable
<1>18. ASSUME NEW e \in Endpoint, DeleteEndpoint(e) PROVE LeasesAreKept' /\ OneWorkerPerDelivery'
  BY <1>18 DEF TypeOK, LeasesAreKept, OneWorkerPerDelivery, DeleteEndpoint, Gone, FreshRow, Stored
<1>19. CASE UNCHANGED dvars
  BY <1>19 DEF LeasesAreKept, OneWorkerPerDelivery, dvars
<1> QED
  BY <1>1, <1>2, <1>3, <1>4, <1>5, <1>6, <1>7, <1>8, <1>9, <1>10, <1>11, <1>12, <1>13, <1>14, <1>15, <1>16, <1>17, <1>18, <1>19 DEF Next, DeliveryStep, Work

(* Leases are kept and never overlap with processes that keep to them.        *)
LEMMA LeasesAlways == ASSUME ~Stalls PROVE Spec => [](LeasesAreKept /\ OneWorkerPerDelivery)
<1> DEFINE Inv == LeasesAreKept /\ OneWorkerPerDelivery
<1>1. Init => Inv
  BY DEF Init, LeasesAreKept, OneWorkerPerDelivery, NoRow, FreshRow, Holding
<1>2. Inv /\ TypeOK /\ [Next]_dvars => Inv'
  BY LeasesStep
<1>3. Spec => []TypeOK
  BY TypeCorrect
<1> QED BY <1>1, <1>2, <1>3, PTL DEF Spec

(* Processes that keep to their leases never work on one delivery at once.   *)
THEOREM OneAtATime == ASSUME ~Stalls PROVE Spec => []OneWorkerPerDelivery
BY LeasesAlways, PTL

(* A row is leased exactly while one claim of it runs, and an attempt that    *)
(* has not reported is under that claim.                                    *)
THEOREM LeasesHold == ASSUME ~Stalls PROVE Spec => []LeasesAreKept
BY LeasesAlways, PTL

-----------------------------------------------------------------------------
(* No step takes a delivered row back, nor a dead one except by Requeue or   *)
(* with its endpoint, whatever the leases: Stalls is arbitrary.             *)
THEOREM SettledForGood == Spec => SettledStaysSettled
<1> DEFINE Stays(d) ==
              /\ row[d].status = "delivered" => row'[d].status \in {"delivered", "gone"}
              /\ row[d].status = "dead" => row'[d] \in {row[d], Enqueued, Gone}
           AllStay ==
              \A d \in Delivery :
                 /\ row[d].status = "delivered" => row'[d].status \in {"delivered", "gone"}
                 /\ row[d].status = "dead" => row'[d] \in {row[d], Enqueued, Gone}
<1>1. TypeOK /\ [Next]_dvars => AllStay
  <2> SUFFICES ASSUME TypeOK, [Next]_dvars, NEW k \in Delivery PROVE Stays(k)
    OBVIOUS
  <2> USE BoundsAssumption, RowEffects
  <2>1. CASE row'[k] = row[k]
    BY <2>1
  <2>2. ASSUME NEW d \in Delivery, Enqueue(d) PROVE Stays(k)
    BY <2>2 DEF TypeOK, Enqueue, Accepts
  <2>3. ASSUME NEW d \in Delivery, RetryFallsDue(d) PROVE Stays(k)
    BY <2>3 DEF TypeOK, RetryFallsDue
  <2>4. ASSUME NEW d \in Delivery, Requeue(d) PROVE Stays(k)
    BY <2>4 DEF TypeOK, Requeue, Requeued
  <2>5. ASSUME NEW d \in Delivery, PruneDelivered(d) PROVE Stays(k)
    BY <2>5 DEF TypeOK, PruneDelivered, Gone, FreshRow
  <2>6. ASSUME NEW w \in Worker, NEW batch \in SUBSET Delivery, Claim(w, batch) PROVE Stays(k)
    BY <2>6 DEF TypeOK, Claim
  <2>7. ASSUME NEW w \in Worker, NEW d \in Delivery, Complete(w, d) \/ Fail(w, d) PROVE Stays(k)
    BY <2>7 DEF TypeOK, Complete, Fail
  <2>8. ASSUME NEW w \in Worker, NEW d \in Delivery, LeaseRunsOut(d, w) PROVE Stays(k)
    BY <2>8 DEF TypeOK, Row, LeaseRunsOut
  <2>9. ASSUME NEW e \in Endpoint, DeleteEndpoint(e) PROVE Stays(k)
    BY <2>9 DEF TypeOK, DeleteEndpoint, Gone, FreshRow
  <2> QED
    BY <2>1, <2>2, <2>3, <2>4, <2>5, <2>6, <2>7, <2>8, <2>9
       DEF Next, DeliveryStep, Work, StartAttempt, Answer, RecordSuccess, RecordFailure, StorageError, Crash,
           QuietForLong, Enable, Disable, dvars
<1>2. Spec => []TypeOK
  BY TypeCorrect
<1>3. TypeOK /\ [Next]_dvars => [AllStay]_dvars
  BY <1>1
<1> QED BY <1>2, <1>3, PTL DEF Spec, SettledStaysSettled

-----------------------------------------------------------------------------
(* The composition.  A fan-out only queues deliveries of its event.           *)
FanInv ==
    /\ PipelineTypeOK
    /\ \A w \in Worker : \A e \in fan[w].todo : <<e, fan[w].event>> \in Delivery

(* Only the count of what went wrong changes.                                *)
OnlyTrouble == trouble' \in 0 .. MaxTrouble /\ UNCHANGED <<row, endpoint, phase, received, leaseOf>>

(* The fan-out of a process, changed in one place.                           *)
LEMMA FanStep ==
    ASSUME PipelineTypeOK, NEW w \in Worker, NEW f \in FanOuts, fan' = [fan EXCEPT ![w] = f],
           \A e \in f.todo : <<e, f.event>> \in Delivery,
           \A v \in Worker : \A e \in fan[v].todo : <<e, fan[v].event>> \in Delivery
    PROVE  /\ fan' \in [Worker -> FanOuts]
           /\ \A v \in Worker : \A e \in (fan'[v]).todo : <<e, (fan'[v]).event>> \in Delivery
<1>1. fan \in [Worker -> FanOuts]
    BY DEF PipelineTypeOK
<1>2. fan'[w] = f /\ \A v \in Worker \ {w} : fan'[v] = fan[v]
    BY <1>1
<1>3. fan' \in [Worker -> FanOuts]
    BY <1>1
<1> QED
    BY <1>2, <1>3

(* The fields of a fan-out.                                                  *)
LEMMA FanFields ==
    ASSUME NEW f \in FanOuts
    PROVE  /\ DOMAIN f = {"step", "batch", "done", "event", "open", "paused", "todo"}
           /\ f.open \in SUBSET Endpoint /\ f.paused \in SUBSET Endpoint /\ f.batch \in SUBSET Event
           /\ f.done \in SUBSET Event /\ f.event \in Event \cup {NoEvent} /\ f.todo \in SUBSET Endpoint
<1> DEFINE Ends == SUBSET Endpoint
           Evs == SUBSET Event
           Ev == Event \cup {NoEvent}
           Steps == {"idle", "listing", "counting", "queueing"}
<1>1. FanOuts = [step : Steps, batch : Evs, done : Evs, event : Ev, open : Ends, paused : Ends, todo : Ends]
    BY DEF FanOuts
<1> HIDE DEF Ends, Evs, Ev, Steps
<1>3. /\ DOMAIN f = {"step", "batch", "done", "event", "open", "paused", "todo"}
      /\ f.open \in Ends /\ f.paused \in Ends /\ f.batch \in Evs
      /\ f.done \in Evs /\ f.event \in Ev /\ f.todo \in Ends
    BY <1>1
<1> QED
    BY <1>3 DEF Ends, Evs, Ev

(* No fan-out is one.                                                        *)
LEMMA NoFanIsFan == NoFanOut \in FanOuts /\ NoFanOut.todo = {}
<1> DEFINE Ends == SUBSET Endpoint
           Evs == SUBSET Event
           Ev == Event \cup {NoEvent}
           Steps == {"idle", "listing", "counting", "queueing"}
<1>1. FanOuts = [step : Steps, batch : Evs, done : Evs, event : Ev, open : Ends, paused : Ends, todo : Ends]
    BY DEF FanOuts
<1>2. {} \in Ends /\ {} \in Evs /\ NoEvent \in Ev /\ "idle" \in Steps
    OBVIOUS
<1> HIDE DEF Ends, Evs, Ev, Steps
<1> QED
    BY <1>1, <1>2 DEF NoFanOut

(* A fan-out that claims.                                                    *)
LEMMA FanClaimed ==
    ASSUME NEW batch \in SUBSET Event
    PROVE  /\ [NoFanOut EXCEPT !.step = "listing", !.batch = batch] \in FanOuts
           /\ [NoFanOut EXCEPT !.step = "listing", !.batch = batch].todo = {}
<1> DEFINE Ends == SUBSET Endpoint
           Evs == SUBSET Event
           Ev == Event \cup {NoEvent}
           Steps == {"idle", "listing", "counting", "queueing"}
<1>1. FanOuts = [step : Steps, batch : Evs, done : Evs, event : Ev, open : Ends, paused : Ends, todo : Ends]
    BY DEF FanOuts
<1>2. batch \in Evs /\ "listing" \in Steps
    OBVIOUS
<1> HIDE DEF Ends, Evs, Ev, Steps
<1> QED
    BY <1>1, <1>2, NoFanIsFan

(* The same, as an operator.                                                *)
Listing(f, open, paused) == [f EXCEPT !.step = "counting", !.open = open, !.paused = paused]

(* A fan-out that lists the endpoints.                                       *)
LEMMA FanListed ==
    ASSUME NEW f \in FanOuts, NEW open \in SUBSET Endpoint, NEW paused \in SUBSET Endpoint
    PROVE  /\ Listing(f, open, paused) \in FanOuts
           /\ Listing(f, open, paused).todo = f.todo
           /\ Listing(f, open, paused).event = f.event
<1> DEFINE Ends == SUBSET Endpoint
           Evs == SUBSET Event
           Ev == Event \cup {NoEvent}
           Steps == {"idle", "listing", "counting", "queueing"}
<1>1. FanOuts = [step : Steps, batch : Evs, done : Evs, event : Ev, open : Ends, paused : Ends, todo : Ends]
    BY DEF FanOuts
<1>2. open \in Ends /\ paused \in Ends /\ "counting" \in Steps
    OBVIOUS
<1> HIDE DEF Ends, Evs, Ev, Steps
<1> QED
    BY <1>1, <1>2 DEF Listing

(* A fan-out that counts a paused endpoint.                                  *)
LEMMA FanCounted ==
    ASSUME NEW f \in FanOuts, NEW open \in SUBSET Endpoint, NEW paused \in SUBSET Endpoint
    PROVE  /\ [f EXCEPT !.paused = paused, !.open = open] \in FanOuts
           /\ [f EXCEPT !.paused = paused, !.open = open].todo = f.todo
           /\ [f EXCEPT !.paused = paused, !.open = open].event = f.event
<1> DEFINE Ends == SUBSET Endpoint
           Evs == SUBSET Event
           Ev == Event \cup {NoEvent}
           Steps == {"idle", "listing", "counting", "queueing"}
<1>1. FanOuts = [step : Steps, batch : Evs, done : Evs, event : Ev, open : Ends, paused : Ends, todo : Ends]
    BY DEF FanOuts
<1>2. open \in Ends /\ paused \in Ends
    OBVIOUS
<1> HIDE DEF Ends, Evs, Ev, Steps
<1> QED
    BY <1>1, <1>2

(* The same, as an operator.                                                *)
Taking(f, batch, event, todo) == [f EXCEPT !.step = "queueing", !.batch = batch, !.event = event, !.todo = todo]

(* A fan-out that takes an event.                                            *)
LEMMA FanTaken ==
    ASSUME NEW f \in FanOuts, NEW batch \in SUBSET Event, NEW event \in Event, NEW todo \in SUBSET Endpoint
    PROVE  /\ Taking(f, batch, event, todo) \in FanOuts
           /\ Taking(f, batch, event, todo).todo = todo
           /\ Taking(f, batch, event, todo).event = event
<1> DEFINE Ends == SUBSET Endpoint
           Evs == SUBSET Event
           Ev == Event \cup {NoEvent}
           Steps == {"idle", "listing", "counting", "queueing"}
<1>1. FanOuts = [step : Steps, batch : Evs, done : Evs, event : Ev, open : Ends, paused : Ends, todo : Ends]
    BY DEF FanOuts
<1>2. batch \in Evs /\ event \in Ev /\ todo \in Ends /\ "queueing" \in Steps
    OBVIOUS
<1> HIDE DEF Ends, Evs, Ev, Steps
<1> QED
    BY <1>1, <1>2 DEF Taking

(* A fan-out that is done with an event.                                     *)
LEMMA FanDone ==
    ASSUME NEW f \in FanOuts, NEW done \in SUBSET Event
    PROVE  /\ [f EXCEPT !.event = NoEvent, !.done = done] \in FanOuts
           /\ [f EXCEPT !.event = NoEvent, !.done = done].todo = f.todo
<1> DEFINE Ends == SUBSET Endpoint
           Evs == SUBSET Event
           Ev == Event \cup {NoEvent}
           Steps == {"idle", "listing", "counting", "queueing"}
<1>1. FanOuts = [step : Steps, batch : Evs, done : Evs, event : Ev, open : Ends, paused : Ends, todo : Ends]
    BY DEF FanOuts
<1>2. done \in Evs /\ NoEvent \in Ev
    OBVIOUS
<1> HIDE DEF Ends, Evs, Ev, Steps
<1> QED
    BY <1>1, <1>2

(* A fan-out that gives an event up.                                         *)
LEMMA FanDropped ==
    ASSUME NEW f \in FanOuts
    PROVE  /\ [f EXCEPT !.event = NoEvent, !.todo = {}] \in FanOuts
           /\ [f EXCEPT !.event = NoEvent, !.todo = {}].todo = {}
<1> DEFINE Ends == SUBSET Endpoint
           Evs == SUBSET Event
           Ev == Event \cup {NoEvent}
           Steps == {"idle", "listing", "counting", "queueing"}
<1>1. FanOuts = [step : Steps, batch : Evs, done : Evs, event : Ev, open : Ends, paused : Ends, todo : Ends]
    BY DEF FanOuts
<1>2. NoEvent \in Ev /\ {} \in Ends
    OBVIOUS
<1> HIDE DEF Ends, Evs, Ev, Steps
<1> QED
    BY <1>1, <1>2

(* A fan-out with something left to queue.                                   *)
LEMMA FanTodo ==
    ASSUME NEW f \in FanOuts, NEW todo \in SUBSET Endpoint
    PROVE  /\ [f EXCEPT !.todo = todo] \in FanOuts
           /\ [f EXCEPT !.todo = todo].todo = todo
           /\ [f EXCEPT !.todo = todo].event = f.event
<1> DEFINE Ends == SUBSET Endpoint
           Evs == SUBSET Event
           Ev == Event \cup {NoEvent}
           Steps == {"idle", "listing", "counting", "queueing"}
<1>1. FanOuts = [step : Steps, batch : Evs, done : Evs, event : Ev, open : Ends, paused : Ends, todo : Ends]
    BY DEF FanOuts
<1>2. todo \in Ends
    OBVIOUS
<1> HIDE DEF Ends, Evs, Ev, Steps
<1> QED
    BY <1>1, <1>2



(* A step of the fan-out that changes nothing but the fan-out.               *)
LEMMA FanOnly ==
    ASSUME FanInv, NEW w \in Worker,
           \/ \E f \in FanOuts : /\ fan' = [fan EXCEPT ![w] = f]
                                 /\ \A e \in f.todo : <<e, f.event>> \in Delivery,
           UNCHANGED dvars \/ OnlyTrouble \/ [Next]_dvars,
           outbox' \in [Event -> Row(MaxFanOuts)], steady' \subseteq Delivery
    PROVE  FanInv'
<1>1. TypeOK'
  <2>1. CASE OnlyTrouble
    BY <2>1 DEF OnlyTrouble, FanInv, PipelineTypeOK, TypeOK
  <2>2. CASE [Next]_dvars \/ UNCHANGED dvars
    BY <2>2, TypeStep DEF FanInv, PipelineTypeOK
  <2> QED
    BY <2>1, <2>2
<1>2. /\ fan' \in [Worker -> FanOuts]
      /\ \A v \in Worker : \A e \in (fan'[v]).todo : <<e, (fan'[v]).event>> \in Delivery
    BY FanStep DEF FanInv
<1> QED
    BY <1>1, <1>2 DEF FanInv, PipelineTypeOK

(* A step that leaves the fan-outs alone.                                    *)
LEMMA NoFan ==
    ASSUME FanInv, [Next]_dvars, fan' = fan, outbox' \in [Event -> Row(MaxFanOuts)], steady' \subseteq Delivery
    PROVE  FanInv'
BY TypeStep DEF FanInv, PipelineTypeOK

(* Every step of the pipeline is one of the deliveries' tables, or none, or   *)
(* only counts what went wrong; the types are kept.                         *)
LEMMA PipelineStep ==
    ASSUME FanInv, [PipelineNext]_pvars
    PROVE  FanInv' /\ ([Next]_dvars \/ OnlyTrouble)
<1> USE FanOutAssumption
<1>0. /\ outbox \in [Event -> Row(MaxFanOuts)] /\ fan \in [Worker -> FanOuts] /\ steady \subseteq Delivery
      /\ \A w \in Worker : fan[w] \in FanOuts
    BY DEF FanInv, PipelineTypeOK
<1>1. \A v \in Event : /\ Completed(outbox[v]) \in Row(MaxFanOuts) /\ Failed(outbox[v], MaxFanOuts) \in Row(MaxFanOuts)
                       /\ Requeued(outbox[v]) \in Row(MaxFanOuts)
                       /\ Claimable(outbox[v]) => Claimed(outbox[v], MaxFanOuts) \in Row(MaxFanOuts)
    BY <1>0, RowsStayRows
<1>2. Enqueued \in Row(MaxFanOuts) /\ Gone \in Row(MaxFanOuts)
    BY FreshRows
<1>3. ASSUME NEW v \in Event, CommitEvent(v) \/ EventLeaseRunsOut(v) \/ EventRetryFallsDue(v) \/ RequeueEvent(v) \/ PruneEvent(v)
      PROVE  FanInv' /\ [Next]_dvars
  <2>1. outbox' \in [Event -> Row(MaxFanOuts)]
    <3>1. CASE CommitEvent(v)
        BY <1>0, <1>2, <3>1 DEF CommitEvent
    <3>2. CASE EventLeaseRunsOut(v)
        BY <1>0, <3>2 DEF EventLeaseRunsOut, Row
    <3>3. CASE EventRetryFallsDue(v)
        BY <1>0, <3>3 DEF EventRetryFallsDue, Row
    <3>4. CASE RequeueEvent(v)
        BY <1>0, <1>1, <3>4 DEF RequeueEvent
    <3>5. CASE PruneEvent(v)
        BY <1>0, <1>2, <3>5 DEF PruneEvent
    <3> QED
        BY <1>3, <3>1, <3>2, <3>3, <3>4, <3>5
  <2>2. steady' \subseteq Delivery /\ fan' = fan /\ UNCHANGED dvars
    BY <1>0, <1>3 DEF CommitEvent, EventLeaseRunsOut, EventRetryFallsDue, RequeueEvent, PruneEvent
  <2> QED
    BY <2>1, <2>2, NoFan
<1>4. ASSUME NEW w \in Worker, NEW batch \in SUBSET Event, ClaimEvents(w, batch)
      PROVE  FanInv' /\ [Next]_dvars
  <2> DEFINE f == [NoFanOut EXCEPT !.step = "listing", !.batch = batch]
  <2>1. f \in FanOuts /\ f.todo = {}
    BY <1>0, FanClaimed
  <2>2. outbox' \in [Event -> Row(MaxFanOuts)]
    BY <1>0, <1>1, <1>4 DEF ClaimEvents
  <2>3. fan' = [fan EXCEPT ![w] = f] /\ UNCHANGED dvars /\ steady' = steady
    BY <1>4 DEF ClaimEvents
  <2> HIDE DEF f
  <2> QED
    BY <1>0, <2>1, <2>2, <2>3, FanOnly
<1>5. ASSUME NEW w \in Worker, ListEndpoints(w) PROVE FanInv' /\ [Next]_dvars
  <2> DEFINE o == {e \in Endpoint : endpoint[e].status = "enabled"}
             p == {e \in Endpoint : SwitchedItselfOff(e)}
             f == Listing(fan[w], o, p)
  <2>0. p \in SUBSET Endpoint /\ o \in SUBSET Endpoint
    OBVIOUS
  <2> HIDE DEF p, o
  <2>1. f \in FanOuts /\ f.todo = fan[w].todo /\ f.event = fan[w].event
    BY <1>0, <2>0, FanListed
  <2>2. fan' = [fan EXCEPT ![w] = f] /\ UNCHANGED <<dvars, outbox, steady>>
    BY <1>5 DEF ListEndpoints, p, o, Listing
  <2> HIDE DEF f
  <2>3. \A e \in f.todo : <<e, f.event>> \in Delivery
    BY <2>1 DEF FanInv
  <2> QED
    BY <1>0, <2>1, <2>2, <2>3, FanOnly
<1>6. ASSUME NEW w \in Worker, NEW e \in Endpoint, CountPaused(w, e) PROVE FanInv' /\ [Next]_dvars
  <2> DEFINE p == fan[w].paused \ {e}
             o == IF Cardinality(PendingOf(e)) < PausedLimit THEN fan[w].open \cup {e} ELSE fan[w].open
             f == [fan[w] EXCEPT !.paused = p, !.open = o]
  <2>0. p \in SUBSET Endpoint /\ o \in SUBSET Endpoint
    BY <1>0, FanFields
  <2> HIDE DEF p, o
  <2>1. f \in FanOuts /\ f.todo = fan[w].todo /\ f.event = fan[w].event
    BY <1>0, <2>0, FanCounted
  <2>2. fan' = [fan EXCEPT ![w] = f] /\ UNCHANGED <<dvars, outbox>> /\ steady' \subseteq steady
    <3>1. DOMAIN fan[w] = {"step", "batch", "done", "event", "open", "paused", "todo"}
        BY <1>0, FanFields
    <3> QED
        BY <1>6, <3>1 DEF CountPaused, p, o
  <2> HIDE DEF f
  <2>3. \A k \in f.todo : <<k, f.event>> \in Delivery
    BY <2>1 DEF FanInv
  <2> QED
    BY <1>0, <2>1, <2>2, <2>3, FanOnly
<1>7. ASSUME NEW w \in Worker, NEW v \in Event, TakeEvent(w, v) PROVE FanInv' /\ [Next]_dvars
  <2> DEFINE b == fan[w].batch \ {v}
             t == {e \in fan[w].open : <<e, v>> \in Delivery}
             f == Taking(fan[w], b, v, t)
  <2>0. b \in SUBSET Event /\ t \in SUBSET Endpoint /\ \A e \in t : <<e, v>> \in Delivery
    BY <1>0, FanFields
  <2> HIDE DEF b, t
  <2>1. f \in FanOuts /\ f.todo = t /\ f.event = v
    <3>1. fan[w] \in FanOuts
        BY <1>0
    <3> QED
        BY <2>0, <3>1, FanTaken
  <2>2. fan' = [fan EXCEPT ![w] = f] /\ UNCHANGED <<dvars, outbox, steady>>
    <3>1. DOMAIN fan[w] = {"step", "batch", "done", "event", "open", "paused", "todo"}
        BY <1>0, FanFields
    <3> QED
        BY <1>7, <3>1 DEF TakeEvent, b, t, Taking
  <2> HIDE DEF f
  <2> QED
    BY <1>0, <2>0, <2>1, <2>2, FanOnly
<1>8. ASSUME NEW w \in Worker, NEW e \in Endpoint, QueueDelivery(w, e) PROVE FanInv' /\ [Next]_dvars
  <2> DEFINE t == fan[w].todo \ {e}
             f == [fan[w] EXCEPT !.todo = t]
             d == <<e, fan[w].event>>
  <2>0. t \in SUBSET Endpoint /\ e \in fan[w].todo /\ d \in Delivery
    BY <1>0, <1>8, FanFields DEF QueueDelivery, FanInv
  <2> HIDE DEF t
  <2>1. f \in FanOuts /\ f.todo = t /\ f.event = fan[w].event
    BY <1>0, <2>0, FanTodo
  <2>2. fan' = [fan EXCEPT ![w] = f] /\ UNCHANGED <<outbox, steady>>
    BY <1>8 DEF QueueDelivery, t
  <2>3. Enqueue(d) \/ UNCHANGED dvars
    BY <1>8 DEF QueueDelivery
  <2>4. [Next]_dvars
    BY <2>0, <2>3 DEF Next
  <2> HIDE DEF f
  <2>5. \A k \in f.todo : <<k, f.event>> \in Delivery
    BY <2>1 DEF FanInv, t
  <2> QED
    BY <1>0, <2>1, <2>2, <2>4, <2>5, FanOnly
<1>9. ASSUME NEW w \in Worker, FinishEvent(w) PROVE FanInv' /\ [Next]_dvars
  <2> DEFINE c == fan[w].done \cup {fan[w].event}
             f == [fan[w] EXCEPT !.event = NoEvent, !.done = c]
  <2>0. c \in SUBSET Event /\ fan[w].todo = {}
    BY <1>0, <1>9, FanFields DEF FinishEvent
  <2> HIDE DEF c
  <2>1. f \in FanOuts /\ f.todo = {}
    BY <1>0, <2>0, FanDone
  <2>2. fan' = [fan EXCEPT ![w] = f] /\ UNCHANGED <<dvars, outbox, steady>>
    <3>1. DOMAIN fan[w] = {"step", "batch", "done", "event", "open", "paused", "todo"}
        BY <1>0, FanFields
    <3> QED
        BY <1>9, <3>1 DEF FinishEvent, c
  <2> HIDE DEF f
  <2> QED
    BY <1>0, <2>1, <2>2, FanOnly
<1>10. ASSUME NEW w \in Worker, FailEvent(w) PROVE FanInv' /\ OnlyTrouble
  <2> DEFINE f == AfterAnError(fan[w])
  <2>1. f \in FanOuts /\ f.todo = {}
    BY <1>0, FanDropped DEF AfterAnError
  <2>2. fan' = [fan EXCEPT ![w] = f] /\ steady' = steady
    BY <1>10 DEF FailEvent
  <2>3. outbox' \in [Event -> Row(MaxFanOuts)]
    <3>1. outbox' = outbox \/ outbox' = [outbox EXCEPT ![fan[w].event] = Failed(@, MaxFanOuts)]
        BY <1>10 DEF FailEvent
    <3> QED
        BY <1>0, <1>1, <3>1
  <2>4. OnlyTrouble
    BY <1>10, BoundsAssumption DEF FailEvent, OnlyTrouble, FanInv, PipelineTypeOK, TypeOK
  <2> HIDE DEF f
  <2> QED
    BY <1>0, <2>1, <2>2, <2>3, <2>4, FanOnly
<1>11. ASSUME NEW w \in Worker, CompleteBatch(w) PROVE FanInv' /\ [Next]_dvars
  <2>1. outbox' \in [Event -> Row(MaxFanOuts)]
    BY <1>0, <1>1, <1>11 DEF CompleteBatch
  <2>2. NoFanOut \in FanOuts /\ NoFanOut.todo = {}
    BY NoFanIsFan
  <2> QED
    BY <1>0, <1>11, <2>1, <2>2, FanOnly DEF CompleteBatch
<1>12. ASSUME NEW w \in Worker, FanOutEnds(w) PROVE FanInv' /\ OnlyTrouble
  <2>1. NoFanOut \in FanOuts /\ NoFanOut.todo = {}
    BY NoFanIsFan
  <2>2. OnlyTrouble
    BY <1>12, BoundsAssumption DEF FanOutEnds, OnlyTrouble, FanInv, PipelineTypeOK, TypeOK
  <2> QED
    BY <1>0, <1>12, <2>1, <2>2, FanOnly DEF FanOutEnds
<1>13. ASSUME NEW w \in Worker, NEW batch \in SUBSET Delivery, ClaimDeliveries(w, batch) PROVE FanInv' /\ [Next]_dvars
  <2>1. [Next]_dvars
    BY <1>13 DEF ClaimDeliveries, Next
  <2> QED
    BY <1>0, <1>13, <2>1, NoFan DEF ClaimDeliveries, fvars
<1>14. ASSUME NEW e \in Endpoint, EndpointTakenAway(e) PROVE FanInv' /\ [Next]_dvars
  <2>1. [Next]_dvars
    BY <1>14 DEF EndpointTakenAway, Next
  <2> QED
    BY <1>0, <1>14, <2>1, NoFan DEF EndpointTakenAway
<1>15. CASE DeliveryStep /\ UNCHANGED fvars
  <2>1. [Next]_dvars
    BY <1>15 DEF Next
  <2> QED
    BY <1>0, <1>15, <2>1, NoFan DEF fvars
<1>16. CASE UNCHANGED pvars
    BY <1>0, <1>16, NoFan DEF pvars, fvars
<1> QED
    BY <1>3, <1>4, <1>5, <1>6, <1>7, <1>8, <1>9, <1>10, <1>11, <1>12, <1>13, <1>14, <1>15, <1>16
       DEF PipelineNext, FanOutWork

(* The types of the composition are kept, and a fan-out only queues           *)
(* deliveries of its event.                                                 *)
LEMMA PipelineAlways == PipelineSpec => []FanInv
<1>1. PipelineInit => FanInv
  <2> SUFFICES ASSUME PipelineInit PROVE FanInv
    OBVIOUS
  <2>1. TypeOK
    BY FreshRows, FreshEndpoints, BoundsAssumption DEF PipelineInit, Init, TypeOK, Phases
  <2>2. NoRow \in Row(MaxFanOuts) /\ NoFanOut \in FanOuts /\ NoFanOut.todo = {}
    BY FreshRows, FanOutAssumption DEF NoFanOut, FanOuts
  <2> QED
    BY <2>1, <2>2 DEF PipelineInit, FanInv, PipelineTypeOK
<1>2. FanInv /\ [PipelineNext]_pvars => FanInv'
    BY PipelineStep
<1> QED
    BY <1>1, <1>2, PTL DEF PipelineSpec

(* The types of the composition are kept.                                    *)
THEOREM PipelineTypeCorrect == PipelineSpec => []PipelineTypeOK
<1>1. FanInv => PipelineTypeOK
    BY DEF FanInv
<1> QED
    BY <1>1, PipelineAlways, PTL

(* An attempt that may report a success was accepted.                        *)
AcceptedFirst ==
    /\ DeliveredWasReceived
    /\ \A w \in Worker, d \in Delivery : phase[w][d] = "ok" => d \in received

LEMMA AcceptedStep ==
    ASSUME TypeOK, AcceptedFirst, [Next]_dvars \/ OnlyTrouble
    PROVE  AcceptedFirst'
<1> USE RowEffects, BoundsAssumption
<1>1. ASSUME NEW d \in Delivery, Enqueue(d) PROVE AcceptedFirst'
  BY <1>1 DEF TypeOK, AcceptedFirst, DeliveredWasReceived, Enqueue, Enqueued, FreshRow
<1>2. ASSUME NEW d \in Delivery, RetryFallsDue(d) PROVE AcceptedFirst'
  BY <1>2 DEF TypeOK, AcceptedFirst, DeliveredWasReceived, RetryFallsDue, Row
<1>3. ASSUME NEW d \in Delivery, Requeue(d) PROVE AcceptedFirst'
  BY <1>3 DEF TypeOK, AcceptedFirst, DeliveredWasReceived, Requeue, Requeued, Enqueued, FreshRow
<1>4. ASSUME NEW d \in Delivery, PruneDelivered(d) PROVE AcceptedFirst'
  BY <1>4 DEF TypeOK, AcceptedFirst, DeliveredWasReceived, PruneDelivered, Gone, FreshRow
<1>5. ASSUME NEW w \in Worker, NEW batch \in SUBSET Delivery, Claim(w, batch) PROVE AcceptedFirst'
  <2>1. \A d \in batch : row'[d].status = "pending"
    BY <1>5 DEF TypeOK, Claim
  <2>2. \A d \in Delivery \ batch : row'[d] = row[d]
    BY <1>5 DEF Claim
  <2>3. \A v \in Worker, d \in Delivery : phase'[v][d] = "ok" => phase[v][d] = "ok"
    BY <1>5 DEF TypeOK, Claim
  <2> QED BY <1>5, <2>1, <2>2, <2>3 DEF Claim, AcceptedFirst, DeliveredWasReceived
<1>6. ASSUME NEW w \in Worker, NEW d \in Delivery, StartAttempt(w, d) PROVE AcceptedFirst'
  BY <1>6 DEF TypeOK, AcceptedFirst, DeliveredWasReceived, StartAttempt, MoveTo
<1>7. ASSUME NEW w \in Worker, NEW d \in Delivery, Answer(w, d) PROVE AcceptedFirst'
  <2>1. UNCHANGED row /\ received \subseteq received'
    BY <1>7 DEF Answer
  <2>2. \A v \in Worker, k \in Delivery : phase'[v][k] = "ok" => phase[v][k] = "ok" \/ k \in received'
    BY <1>7 DEF TypeOK, Answer, MoveTo
  <2> QED BY <2>1, <2>2 DEF AcceptedFirst, DeliveredWasReceived
<1>8. ASSUME NEW w \in Worker, NEW d \in Delivery, Complete(w, d) PROVE AcceptedFirst'
  BY <1>8 DEF TypeOK, AcceptedFirst, DeliveredWasReceived, Complete, MoveTo
<1>9. ASSUME NEW w \in Worker, NEW d \in Delivery, Fail(w, d) PROVE AcceptedFirst'
  <2>1. row'[d].status = "delivered" => row[d].status = "delivered"
    <3>1. row'[d] = row[d] \/ row'[d] = Failed(row[d], MaxAttempts)
        BY <1>9 DEF TypeOK, Fail
    <3>2. Failed(row[d], MaxAttempts).status = "delivered" => row[d].status = "delivered"
        <4> DEFINE after == IF row[d].attempts >= MaxAttempts THEN "dead" ELSE "pending"
        <4>1. row[d] \in Row(MaxAttempts) /\ after # "delivered"
            BY DEF TypeOK
        <4>2. DOMAIN row[d] = {"status", "attempts", "leased", "due"}
            BY <4>1 DEF Row
        <4>3. Failed(row[d], MaxAttempts)
                 = IF row[d].status = "pending"
                   THEN [row[d] EXCEPT !.status = after, !.leased = FALSE, !.due = FALSE]
                   ELSE row[d]
            BY DEF Failed
        <4> HIDE DEF after
        <4>4. [row[d] EXCEPT !.status = after, !.leased = FALSE, !.due = FALSE].status = after
            BY <4>2
        <4> QED
            BY <4>1, <4>3, <4>4
    <3> QED
        BY <3>1, <3>2
  <2>2. \A k \in Delivery \ {d} : row'[k] = row[k]
    BY <1>9 DEF TypeOK, Fail
  <2>3. \A v \in Worker, k \in Delivery : phase'[v][k] = "ok" => phase[v][k] = "ok"
    BY <1>9 DEF TypeOK, Fail, MoveTo
  <2> QED BY <1>9, <2>1, <2>2, <2>3 DEF Fail, AcceptedFirst, DeliveredWasReceived
<1>10. ASSUME NEW w \in Worker, NEW d \in Delivery, RecordSuccess(w, d) PROVE AcceptedFirst'
  BY <1>10 DEF TypeOK, AcceptedFirst, DeliveredWasReceived, RecordSuccess, MoveTo
<1>11. ASSUME NEW w \in Worker, NEW d \in Delivery, RecordFailure(w, d) PROVE AcceptedFirst'
  BY <1>11 DEF TypeOK, AcceptedFirst, DeliveredWasReceived, RecordFailure, MoveTo
<1>12. ASSUME NEW w \in Worker, NEW d \in Delivery, StorageError(w, d) PROVE AcceptedFirst'
  BY <1>12 DEF TypeOK, AcceptedFirst, DeliveredWasReceived, StorageError, MoveTo
<1>13. ASSUME NEW w \in Worker, NEW d \in Delivery, LeaseRunsOut(d, w) PROVE AcceptedFirst'
  <2>1. \A k \in Delivery : row'[k].status = row[k].status
    BY <1>13 DEF TypeOK, Row, LeaseRunsOut
  <2> QED BY <1>13, <2>1 DEF LeaseRunsOut, AcceptedFirst, DeliveredWasReceived
<1>14. ASSUME NEW w \in Worker, Crash(w) PROVE AcceptedFirst'
  BY <1>14 DEF TypeOK, AcceptedFirst, DeliveredWasReceived, Crash
<1>15. ASSUME NEW e \in Endpoint, QuietForLong(e) \/ Enable(e) \/ Disable(e) PROVE AcceptedFirst'
  BY <1>15 DEF AcceptedFirst, DeliveredWasReceived, QuietForLong, Enable, Disable
<1>16. ASSUME NEW e \in Endpoint, DeleteEndpoint(e) PROVE AcceptedFirst'
  BY <1>16 DEF TypeOK, AcceptedFirst, DeliveredWasReceived, DeleteEndpoint, Gone, FreshRow
<1>17. CASE UNCHANGED dvars \/ OnlyTrouble
  BY <1>17 DEF AcceptedFirst, DeliveredWasReceived, dvars, OnlyTrouble
<1> QED
  BY <1>1, <1>2, <1>3, <1>4, <1>5, <1>6, <1>7, <1>8, <1>9, <1>10, <1>11, <1>12, <1>13, <1>14, <1>15, <1>16, <1>17
     DEF Next, DeliveryStep, Work

(* In the composition, too, only what a receiver accepted is recorded as      *)
(* delivered.                                                               *)
THEOREM NothingInvented == PipelineSpec => []DeliveredWasReceived
<1>1. PipelineInit => AcceptedFirst
  BY DEF PipelineInit, Init, AcceptedFirst, DeliveredWasReceived, NoRow, FreshRow
<1>2. FanInv /\ AcceptedFirst /\ [PipelineNext]_pvars => AcceptedFirst'
  BY PipelineStep, AcceptedStep DEF FanInv, PipelineTypeOK
<1>3. AcceptedFirst => DeliveredWasReceived
  BY DEF AcceptedFirst
<1> QED
  BY <1>1, <1>2, <1>3, PipelineAlways, PTL DEF PipelineSpec

-----------------------------------------------------------------------------
(* Whose deliveries are collected: an endpoint that is enabled or that        *)
(* switched itself off.                                                     *)
Collects(e) == endpoint[e].status = "enabled" \/ SwitchedItselfOff(e)

(* A fan-out that has an event in hand and has not queued the delivery d of  *)
(* it yet will come to it before it calls the event done.                   *)
OnItsWay(w, d) ==
    LET f == fan[w] IN
    /\ d[2] \notin f.done
    /\ d[2] \in f.batch /\ f.step = "counting" => d[1] \in f.open \cup f.paused
    /\ d[2] \in f.batch /\ f.step = "queueing" => d[1] \in f.open
    /\ d[2] = f.event => d[1] \in f.todo

NotMissed(d) ==
    row[d].status = "none" =>
       /\ outbox[d[2]].status \notin {"delivered", "gone"}
       /\ \A w \in Worker : OnItsWay(w, d)

(* What is in hand was committed.                                            *)
InHand(w) == \A v \in Event : v \in Handled(w) => outbox[v].status # "none"

NoneMissed ==
    /\ \A d \in steady : Collects(d[1]) /\ outbox[d[2]].status # "none" /\ NotMissed(d)
    /\ \A w \in Worker : InHand(w)

(* A reason is given for what is switched off only.                          *)
ReasonsFit == \A e \in Endpoint : endpoint[e].reason = "operator" => endpoint[e].status = "disabled"

(* What is queued is never unqueued, and only the operator takes an endpoint *)
(* from those that are collected for.                                       *)
LEMMA QueuedStays ==
    ASSUME TypeOK, [Next]_dvars \/ OnlyTrouble
    PROVE  \A d \in Delivery : row[d].status # "none" => row'[d].status # "none"
<1> SUFFICES ASSUME NEW k \in Delivery, row[k].status # "none" PROVE row'[k].status # "none"
    OBVIOUS
<1>0. row \in [Delivery -> Row(MaxAttempts)]
    BY DEF TypeOK
<1>1. \A d \in Delivery : /\ Completed(row[d]).status # "none" \/ row[d].status = "none"
                          /\ Failed(row[d], MaxAttempts).status # "none" \/ row[d].status = "none"
                          /\ Claimable(row[d]) => Claimed(row[d], MaxAttempts).status # "none"
                          /\ Requeued(row[d]).status # "none" \/ row[d].status = "none"
    <2> SUFFICES ASSUME NEW d \in Delivery
                 PROVE  /\ Completed(row[d]).status # "none" \/ row[d].status = "none"
                        /\ Failed(row[d], MaxAttempts).status # "none" \/ row[d].status = "none"
                        /\ Claimable(row[d]) => Claimed(row[d], MaxAttempts).status # "none"
                        /\ Requeued(row[d]).status # "none" \/ row[d].status = "none"
        OBVIOUS
    <2> DEFINE after == IF row[d].attempts >= MaxAttempts THEN "dead" ELSE "pending"
    <2>1. DOMAIN row[d] = {"status", "attempts", "leased", "due"} /\ after # "none"
        BY <1>0 DEF Row
    <2>2. Failed(row[d], MaxAttempts)
             = IF row[d].status = "pending"
               THEN [row[d] EXCEPT !.status = after, !.leased = FALSE, !.due = FALSE]
               ELSE row[d]
        BY DEF Failed
    <2> HIDE DEF after
    <2>3. [row[d] EXCEPT !.status = after, !.leased = FALSE, !.due = FALSE].status = after
        BY <2>1
    <2>4. Completed(row[d]).status # "none" \/ row[d].status = "none"
        BY <2>1 DEF Completed
    <2>5. Claimable(row[d]) => Claimed(row[d], MaxAttempts).status # "none"
        BY <1>0, RowEffects, BoundsAssumption
    <2> QED
        BY <2>1, <2>2, <2>3, <2>4, <2>5 DEF Requeued, Enqueued, FreshRow
<1>2. CASE row'[k] = row[k]
    BY <1>2
<1>3. ASSUME NEW d \in Delivery, Enqueue(d) \/ RetryFallsDue(d) \/ Requeue(d) \/ PruneDelivered(d)
      PROVE  row'[k].status # "none"
    BY <1>0, <1>1, <1>3 DEF Enqueue, RetryFallsDue, Requeue, PruneDelivered, Enqueued, Gone, FreshRow, Row
<1>4. ASSUME NEW w \in Worker, NEW batch \in SUBSET Delivery, Claim(w, batch) PROVE row'[k].status # "none"
    BY <1>1, <1>4 DEF Claim
<1>5. ASSUME NEW w \in Worker, NEW d \in Delivery, Complete(w, d) \/ Fail(w, d) PROVE row'[k].status # "none"
    BY <1>0, <1>1, <1>5 DEF Complete, Fail
<1>6. ASSUME NEW w \in Worker, NEW d \in Delivery, LeaseRunsOut(d, w) PROVE row'[k].status # "none"
    BY <1>0, <1>6 DEF LeaseRunsOut, Row
<1>7. ASSUME NEW e \in Endpoint, DeleteEndpoint(e) PROVE row'[k].status # "none"
    BY <1>0, <1>7 DEF DeleteEndpoint, Gone, FreshRow
<1> QED
    BY ZenonT(30), <1>2, <1>3, <1>4, <1>5, <1>6, <1>7
       DEF Next, DeliveryStep, Work, OnlyTrouble, dvars, StartAttempt, Answer, RecordSuccess, RecordFailure,
           StorageError, Crash, QuietForLong, Enable, Disable

(* What a step does to the endpoints.                                        *)
EndpointsAsTheyWere == \A e \in Endpoint : /\ Collects(e) => Collects(e)'
                                           /\ endpoint[e].reason = "operator" =>
                                                 endpoint'[e].reason = "operator" \/ endpoint'[e].status # "disabled"

LEMMA EndpointsStay ==
    ASSUME TypeOK, ReasonsFit, DeliveryStep \/ UNCHANGED endpoint
    PROVE  ReasonsFit' /\ EndpointsAsTheyWere
<1>0. endpoint \in [Endpoint -> EndpointRow]
    BY DEF TypeOK
<1>1. CASE UNCHANGED endpoint
    BY <1>1 DEF ReasonsFit, EndpointsAsTheyWere, Collects, SwitchedItselfOff
<1>2. ASSUME NEW w \in Worker, NEW d \in Delivery, RecordSuccess(w, d)
      PROVE  ReasonsFit' /\ EndpointsAsTheyWere
  <2>1. \A e \in Endpoint : endpoint'[e].status = endpoint[e].status /\ endpoint'[e].reason = endpoint[e].reason
    BY <1>0, <1>2 DEF RecordSuccess, EndpointRow
  <2> QED
    BY <2>1 DEF ReasonsFit, EndpointsAsTheyWere, Collects, SwitchedItselfOff
<1>3. ASSUME NEW w \in Worker, NEW d \in Delivery, RecordFailure(w, d)
      PROVE  ReasonsFit' /\ EndpointsAsTheyWere
  <2>1. \A e \in Endpoint : \/ endpoint'[e].status = endpoint[e].status /\ endpoint'[e].reason = endpoint[e].reason
                            \/ /\ endpoint[e].status = "enabled"
                               /\ endpoint'[e].status = "disabled" /\ endpoint'[e].reason = "too_many_failures"
    BY <1>0, <1>3 DEF RecordFailure, SwitchesOff
  <2> QED
    BY <2>1 DEF ReasonsFit, EndpointsAsTheyWere, Collects, SwitchedItselfOff
<1>4. ASSUME NEW e \in Endpoint, QuietForLong(e) PROVE ReasonsFit' /\ EndpointsAsTheyWere
  <2>1. \A k \in Endpoint : endpoint'[k].status = endpoint[k].status /\ endpoint'[k].reason = endpoint[k].reason
    BY <1>0, <1>4 DEF QuietForLong, EndpointRow
  <2> QED
    BY <2>1 DEF ReasonsFit, EndpointsAsTheyWere, Collects, SwitchedItselfOff
<1>5. ASSUME NEW e \in Endpoint, Enable(e) PROVE ReasonsFit' /\ EndpointsAsTheyWere
  <2>1. \A k \in Endpoint : \/ endpoint'[k].status = endpoint[k].status /\ endpoint'[k].reason = endpoint[k].reason
                            \/ endpoint'[k].status = "enabled" /\ endpoint'[k].reason = "none"
    BY <1>0, <1>5 DEF Enable, EndpointRow
  <2> QED
    BY <2>1 DEF ReasonsFit, EndpointsAsTheyWere, Collects, SwitchedItselfOff
<1> QED
    BY <1>1, <1>2, <1>3, <1>4, <1>5
       DEF DeliveryStep, Work, RetryFallsDue, Requeue, PruneDelivered, StartAttempt, Answer, Complete, Fail,
           StorageError, LeaseRunsOut, Crash

(* The operator's own steps, at one endpoint.                                *)
LEMMA OperatorSteps ==
    ASSUME TypeOK, ReasonsFit, NEW e \in Endpoint, Disable(e) \/ DeleteEndpoint(e)
    PROVE  /\ ReasonsFit' /\ \A k \in Endpoint \ {e} : endpoint'[k] = endpoint[k]
           /\ \A k \in Endpoint : endpoint[k].reason = "operator" =>
                                     endpoint'[k].reason = "operator" \/ endpoint'[k].status # "disabled"
<1>1. endpoint \in [Endpoint -> EndpointRow]
    BY DEF TypeOK
<1>2. \A k \in Endpoint \ {e} : endpoint'[k] = endpoint[k]
    BY <1>1 DEF Disable, DeleteEndpoint
<1>3. \/ endpoint'[e].status = "disabled" /\ endpoint'[e].reason = "operator"
      \/ endpoint'[e].status = "absent" /\ endpoint'[e].reason = "none"
    BY <1>1 DEF Disable, DeleteEndpoint, FreshEndpoint, EndpointRow
<1> QED
    BY <1>2, <1>3 DEF ReasonsFit

-----------------------------------------------------------------------------
(* A fan-out changes in one place, and nothing is missed there.              *)
LEMMA MissesNothing ==
    ASSUME FanInv, NoneMissed, NEW w \in Worker,
           \A u \in Worker \ {w} : fan'[u] = fan[u],
           steady' \subseteq steady, endpoint' = endpoint,
           \A d \in Delivery : row[d].status # "none" => row'[d].status # "none",
           \A v \in Event : /\ outbox[v].status # "none" => outbox'[v].status # "none"
                            /\ outbox'[v].status \in {"delivered", "gone"} =>
                                  outbox[v].status \in {"delivered", "gone"} \/ v \in fan[w].done,
           \A d \in steady' : row'[d].status = "none" => OnItsWay(w, d)',
           InHand(w)'
    PROVE  NoneMissed'
<1>1. \A d \in steady' : d \in steady /\ d \in Delivery /\ d[1] \in Endpoint /\ d[2] \in Event
    BY DeliveriesArePairs DEF FanInv, PipelineTypeOK
<1>2. ASSUME NEW d \in steady' PROVE Collects(d[1])' /\ outbox'[d[2]].status # "none"
    BY <1>1 DEF NoneMissed, Collects, SwitchedItselfOff
<1>3. ASSUME NEW d \in steady' PROVE NotMissed(d)'
  <2> SUFFICES ASSUME row'[d].status = "none"
               PROVE  outbox'[d[2]].status \notin {"delivered", "gone"} /\ \A u \in Worker : OnItsWay(u, d)'
    BY DEF NotMissed
  <2>1. row[d].status = "none" /\ NotMissed(d)
    BY <1>1 DEF NoneMissed
  <2>2. \A u \in Worker : OnItsWay(u, d)'
    BY <2>1 DEF NotMissed, OnItsWay
  <2>3. d[2] \notin fan[w].done
    BY <2>1 DEF NotMissed, OnItsWay
  <2> QED
    BY <1>1, <2>1, <2>2, <2>3 DEF NotMissed
<1>4. \A u \in Worker : InHand(u)'
    BY DEF NoneMissed, InHand, Handled
<1> QED
    BY <1>2, <1>3, <1>4 DEF NoneMissed

(* The steps outside the fan-outs.                                           *)
LEMMA ElsewhereMissesNothing ==
    ASSUME FanInv, NoneMissed, UNCHANGED fan, steady' \subseteq steady,
           \A e \in Endpoint : (\E d \in steady' : d[1] = e) /\ Collects(e) => Collects(e)',
           \A d \in Delivery : row[d].status # "none" => row'[d].status # "none",
           \A v \in Event : /\ outbox[v].status # "none" => outbox'[v].status # "none"
                            /\ outbox'[v].status \in {"delivered", "gone"} =>
                                  outbox[v].status \in {"delivered", "gone"}
    PROVE  NoneMissed'
<1>1. \A d \in steady' : d \in steady /\ d \in Delivery /\ d[1] \in Endpoint /\ d[2] \in Event
    BY DeliveriesArePairs DEF FanInv, PipelineTypeOK
<1>2. \A d \in steady' : Collects(d[1])' /\ outbox'[d[2]].status # "none"
    BY <1>1 DEF NoneMissed
<1>3. \A d \in steady' : NotMissed(d)'
    BY <1>1 DEF NoneMissed, NotMissed, OnItsWay
<1>4. \A u \in Worker : InHand(u)'
    BY DEF NoneMissed, InHand, Handled
<1> QED
    BY <1>2, <1>3, <1>4 DEF NoneMissed

LEMMA NoneMissedStep ==
    ASSUME FanInv, FanInv', NoneMissed, ReasonsFit, [PipelineNext]_pvars, [Next]_dvars \/ OnlyTrouble
    PROVE  NoneMissed' /\ ReasonsFit'
<1> USE FanOutAssumption
<1>0. /\ outbox \in [Event -> Row(MaxFanOuts)] /\ fan \in [Worker -> FanOuts] /\ steady \subseteq Delivery
      /\ TypeOK /\ \A w \in Worker : fan[w] \in FanOuts
    BY DEF FanInv, PipelineTypeOK
<1>1. \A d \in Delivery : row[d].status # "none" => row'[d].status # "none"
    BY <1>0, QueuedStays
<1>2. \A d \in steady : d \in Delivery /\ d[1] \in Endpoint /\ d[2] \in Event /\ EndpointOf[d] = d[1]
                        /\ Collects(d[1]) /\ outbox[d[2]].status # "none" /\ NotMissed(d)
    BY <1>0, DeliveriesArePairs DEF NoneMissed
<1>3. UNCHANGED endpoint => ReasonsFit'
    BY DEF ReasonsFit
<1>4. \A w \in Worker : DOMAIN fan[w] = {"step", "batch", "done", "event", "open", "paused", "todo"}
    BY <1>0, FanFields
<1>5. ASSUME NEW v \in Event, CommitEvent(v) PROVE NoneMissed' /\ ReasonsFit'
  <2>1. /\ outbox[v].status = "none" /\ outbox' = [outbox EXCEPT ![v] = Enqueued]
        /\ steady' = steady \cup {d \in Delivery : d[2] = v /\ Enabled(d)} /\ UNCHANGED <<dvars, fan>>
    BY <1>5 DEF CommitEvent
  <2>2. outbox'[v].status = "pending" /\ \A u \in Event \ {v} : outbox'[u] = outbox[u]
    BY <1>0, <2>1 DEF Enqueued, FreshRow
  <2>3. \A w \in Worker : v \notin Handled(w)
    BY <2>1 DEF NoneMissed, InHand
  <2>4. \A w \in Worker : InHand(w)'
    BY <2>1, <2>2, <2>3 DEF NoneMissed, InHand, Handled
  <2>5. ASSUME NEW d \in steady' PROVE Collects(d[1])' /\ outbox'[d[2]].status # "none" /\ NotMissed(d)'
    <3>1. CASE d \in steady
        BY <1>2, <2>1, <2>2, <3>1 DEF NotMissed, OnItsWay, Collects, SwitchedItselfOff, dvars
    <3>2. CASE d \in Delivery /\ d[2] = v /\ Enabled(d)
      <4>1. Collects(d[1])'
        BY <2>1, <3>2, DeliveriesArePairs DEF Enabled, Collects, dvars
      <4>2. \A w \in Worker : OnItsWay(w, d)'
        BY <2>1, <2>3, <3>2 DEF OnItsWay, Handled
      <4> QED
        BY <2>2, <3>2, <4>1, <4>2 DEF NotMissed
    <3> QED
        BY <2>1, <3>1, <3>2
  <2> QED
    BY <1>3, <2>1, <2>4, <2>5 DEF NoneMissed, dvars
<1>6. ASSUME NEW v \in Event, EventLeaseRunsOut(v) \/ EventRetryFallsDue(v) \/ RequeueEvent(v) \/ PruneEvent(v)
      PROVE  NoneMissed' /\ ReasonsFit'
  <2>1. UNCHANGED <<dvars, fan, steady>>
    BY <1>6 DEF EventLeaseRunsOut, EventRetryFallsDue, RequeueEvent, PruneEvent
  <2>2. \A u \in Event \ {v} : outbox'[u] = outbox[u]
    BY <1>0, <1>6 DEF EventLeaseRunsOut, EventRetryFallsDue, RequeueEvent, PruneEvent
  <2>3. /\ outbox[v].status # "none" => outbox'[v].status # "none"
        /\ outbox'[v].status \in {"delivered", "gone"} => outbox[v].status \in {"delivered", "gone"}
    BY <1>0, <1>6 DEF EventLeaseRunsOut, EventRetryFallsDue, RequeueEvent, PruneEvent, Row, Requeued, Enqueued,
                      Gone, FreshRow
  <2>4. \A e \in Endpoint : Collects(e) => Collects(e)'
    BY <2>1 DEF dvars, Collects, SwitchedItselfOff
  <2> QED
    BY <1>1, <1>3, <2>1, <2>2, <2>3, <2>4, ElsewhereMissesNothing DEF dvars
<1>7. ASSUME NEW w \in Worker, NEW batch \in SUBSET Event, ClaimEvents(w, batch) PROVE NoneMissed' /\ ReasonsFit'
  <2>1. /\ UNCHANGED <<dvars, steady>> /\ \A u \in Worker \ {w} : fan'[u] = fan[u]
        /\ \A v \in batch : Claimable(outbox[v])
        /\ outbox' = [v \in Event |-> IF v \in batch THEN Claimed(outbox[v], MaxFanOuts) ELSE outbox[v]]
    BY <1>0, <1>7 DEF ClaimEvents
  <2>2. /\ fan'[w].step = "listing" /\ fan'[w].batch = batch /\ fan'[w].done = {} /\ fan'[w].event = NoEvent
    BY <1>0, <1>7 DEF ClaimEvents, NoFanOut
  <2>3. \A v \in Event : outbox'[v].status = outbox[v].status
    BY <1>0, <2>1, RowEffects
  <2>4. \A d \in steady' : OnItsWay(w, d)'
    BY <1>2, <2>1, <2>2 DEF OnItsWay
  <2>5. InHand(w)'
    BY <2>1, <2>2, <2>3 DEF InHand, Handled, Claimable
  <2> QED
    BY <1>1, <1>3, <2>1, <2>3, <2>4, <2>5, MissesNothing DEF dvars
<1>8. ASSUME NEW w \in Worker, ListEndpoints(w) PROVE NoneMissed' /\ ReasonsFit'
  <2> DEFINE o == {e \in Endpoint : endpoint[e].status = "enabled"}
             p == {e \in Endpoint : SwitchedItselfOff(e)}
  <2>1. /\ UNCHANGED <<dvars, outbox, steady>> /\ \A u \in Worker \ {w} : fan'[u] = fan[u]
        /\ fan'[w] = [fan[w] EXCEPT !.step = "counting", !.open = o, !.paused = p]
    BY <1>0, <1>8 DEF ListEndpoints
  <2>2. \A d \in steady : d[1] \in o \cup p
    BY <1>2 DEF Collects
  <2> HIDE DEF o, p
  <2>3. /\ fan'[w].step = "counting" /\ fan'[w].batch = fan[w].batch /\ fan'[w].done = fan[w].done
        /\ fan'[w].event = fan[w].event /\ fan'[w].open = o /\ fan'[w].paused = p /\ fan'[w].todo = fan[w].todo
    BY <1>4, <2>1
  <2>4. \A d \in steady' : row'[d].status = "none" => OnItsWay(w, d)'
    BY <1>2, <2>1, <2>2, <2>3 DEF OnItsWay, NotMissed, dvars
  <2>5. InHand(w)'
    BY <2>1, <2>3 DEF NoneMissed, InHand, Handled
  <2> QED
    BY <1>1, <1>3, <2>1, <2>4, <2>5, MissesNothing DEF dvars
<1>9. ASSUME NEW w \in Worker, NEW e \in Endpoint, CountPaused(w, e) PROVE NoneMissed' /\ ReasonsFit'
  <2> DEFINE room == Cardinality(PendingOf(e)) < PausedLimit
             p == fan[w].paused \ {e}
             o == IF room THEN fan[w].open \cup {e} ELSE fan[w].open
  <2>1. /\ UNCHANGED <<dvars, outbox>> /\ \A u \in Worker \ {w} : fan'[u] = fan[u]
        /\ fan'[w] = [fan[w] EXCEPT !.paused = p, !.open = o]
        /\ steady' = {d \in steady : EndpointOf[d] = e /\ d[2] \in fan[w].batch => room}
        /\ fan[w].step = "counting"
    BY <1>0, <1>9 DEF CountPaused
  <2>2. \A d \in steady' : d \in steady /\ (d[2] \in fan[w].batch /\ d[1] \in fan[w].open \cup fan[w].paused
                                              => d[1] \in o \cup p)
    BY <1>2, <2>1
  <2> HIDE DEF o, p, room
  <2>3. /\ fan'[w].step = "counting" /\ fan'[w].batch = fan[w].batch /\ fan'[w].done = fan[w].done
        /\ fan'[w].event = fan[w].event /\ fan'[w].open = o /\ fan'[w].paused = p /\ fan'[w].todo = fan[w].todo
    BY <1>4, <2>1
  <2>4. \A d \in steady' : row'[d].status = "none" => OnItsWay(w, d)'
    BY <1>2, <2>1, <2>2, <2>3 DEF OnItsWay, NotMissed, dvars
  <2>5. InHand(w)'
    BY <2>1, <2>3 DEF NoneMissed, InHand, Handled
  <2> QED
    BY <1>1, <1>3, <2>1, <2>4, <2>5, MissesNothing DEF dvars
<1>10. ASSUME NEW w \in Worker, NEW v \in Event, TakeEvent(w, v) PROVE NoneMissed' /\ ReasonsFit'
  <2> DEFINE b == fan[w].batch \ {v}
             t == {e \in fan[w].open : <<e, v>> \in Delivery}
  <2>1. /\ UNCHANGED <<dvars, outbox, steady>> /\ \A u \in Worker \ {w} : fan'[u] = fan[u]
        /\ fan'[w] = [fan[w] EXCEPT !.step = "queueing", !.batch = b, !.event = v, !.todo = t]
        /\ v \in fan[w].batch
        /\ \/ fan[w].step = "counting" /\ fan[w].paused = {}
           \/ fan[w].step = "queueing"
    BY <1>0, <1>10 DEF TakeEvent
  <2>2. \A d \in Delivery : d[2] = v /\ d[1] \in fan[w].open => d[1] \in t
    BY DeliveriesArePairs
  <2>3. b \subseteq fan[w].batch
    OBVIOUS
  <2> HIDE DEF b, t
  <2>4. /\ fan'[w].step = "queueing" /\ fan'[w].batch = b /\ fan'[w].done = fan[w].done
        /\ fan'[w].event = v /\ fan'[w].open = fan[w].open /\ fan'[w].todo = t
    BY <1>4, <2>1
  <2>5. \A d \in steady' : row'[d].status = "none" => OnItsWay(w, d)'
    <3> SUFFICES ASSUME NEW d \in steady, row[d].status = "none" PROVE OnItsWay(w, d)'
        BY <2>1 DEF dvars
    <3>1. OnItsWay(w, d)
        BY <1>2 DEF NotMissed
    <3>2. d[2] \in fan[w].batch => d[1] \in fan[w].open
        BY <2>1, <3>1 DEF OnItsWay
    <3> QED
        BY <1>2, <2>1, <2>2, <2>3, <2>4, <3>1, <3>2 DEF OnItsWay
  <2>6. InHand(w)'
    BY <2>1, <2>3, <2>4 DEF NoneMissed, InHand, Handled
  <2> QED
    BY <1>1, <1>3, <2>1, <2>5, <2>6, MissesNothing DEF dvars
<1>11. ASSUME NEW w \in Worker, NEW e \in Endpoint, QueueDelivery(w, e) PROVE NoneMissed' /\ ReasonsFit'
  <2> DEFINE t == fan[w].todo \ {e}
             k == <<e, fan[w].event>>
  <2>1. /\ UNCHANGED <<endpoint, outbox, steady>> /\ \A u \in Worker \ {w} : fan'[u] = fan[u]
        /\ fan'[w] = [fan[w] EXCEPT !.todo = t]
        /\ IF Accepts(k) THEN Enqueue(k) ELSE UNCHANGED dvars
    BY <1>0, <1>11 DEF QueueDelivery, Enqueue, dvars
  <2>2. k \in Delivery
    BY <1>11 DEF QueueDelivery, FanInv
  <2> HIDE DEF t, k
  <2>3. /\ fan'[w].step = fan[w].step /\ fan'[w].batch = fan[w].batch /\ fan'[w].done = fan[w].done
        /\ fan'[w].event = fan[w].event /\ fan'[w].open = fan[w].open /\ fan'[w].paused = fan[w].paused
        /\ fan'[w].todo = t
    BY <1>4, <2>1
  <2>4. k \in steady => row'[k].status # "none"
    <3> SUFFICES ASSUME k \in steady PROVE row'[k].status # "none"
        OBVIOUS
    <3>1. Known(k)
        BY <1>2 DEF Collects, SwitchedItselfOff, Known
    <3>2. CASE Accepts(k)
        BY <1>0, <2>1, <2>2, <3>2 DEF Enqueue, Enqueued, FreshRow, TypeOK
    <3>3. CASE ~Accepts(k)
        BY <1>1, <2>2, <3>1, <3>3 DEF Accepts
    <3> QED
        BY <3>2, <3>3
  <2>5. \A d \in steady' : row'[d].status = "none" => OnItsWay(w, d)'
    <3> SUFFICES ASSUME NEW d \in steady, row'[d].status = "none" PROVE OnItsWay(w, d)'
        BY <2>1
    <3>1. OnItsWay(w, d)
        BY <1>1, <1>2 DEF NotMissed
    <3>2. d[2] = fan[w].event => d[1] # e
        BY <1>2, <2>4, DeliveriesArePairs DEF k
    <3> QED
        BY <2>3, <3>1, <3>2 DEF OnItsWay, t
  <2>6. InHand(w)'
    BY <2>1, <2>3 DEF NoneMissed, InHand, Handled
  <2> QED
    BY <1>1, <1>3, <2>1, <2>5, <2>6, MissesNothing
<1>12. ASSUME NEW w \in Worker, FinishEvent(w) PROVE NoneMissed' /\ ReasonsFit'
  <2> DEFINE c == fan[w].done \cup {fan[w].event}
  <2>1. /\ UNCHANGED <<dvars, outbox, steady>> /\ \A u \in Worker \ {w} : fan'[u] = fan[u]
        /\ fan'[w] = [fan[w] EXCEPT !.event = NoEvent, !.done = c]
        /\ fan[w].todo = {} /\ fan[w].event # NoEvent
    BY <1>0, <1>12 DEF FinishEvent
  <2> HIDE DEF c
  <2>2. /\ fan'[w].step = fan[w].step /\ fan'[w].batch = fan[w].batch /\ fan'[w].done = c
        /\ fan'[w].event = NoEvent /\ fan'[w].open = fan[w].open /\ fan'[w].paused = fan[w].paused
        /\ fan'[w].todo = fan[w].todo
    BY <1>4, <2>1
  <2>3. \A d \in steady' : row'[d].status = "none" => OnItsWay(w, d)'
    <3> SUFFICES ASSUME NEW d \in steady, row[d].status = "none" PROVE OnItsWay(w, d)'
        BY <2>1 DEF dvars
    <3>1. OnItsWay(w, d)
        BY <1>2 DEF NotMissed
    <3> QED
        BY <1>2, <2>1, <2>2, <3>1 DEF OnItsWay, c
  <2>4. InHand(w)'
    BY <2>1, <2>2 DEF NoneMissed, InHand, Handled, c
  <2> QED
    BY <1>1, <1>3, <2>1, <2>3, <2>4, MissesNothing DEF dvars
<1>13. ASSUME NEW w \in Worker, FailEvent(w) PROVE NoneMissed' /\ ReasonsFit'
  <2>1. /\ UNCHANGED <<row, endpoint, steady>> /\ \A u \in Worker \ {w} : fan'[u] = fan[u]
        /\ fan'[w] = [fan[w] EXCEPT !.event = NoEvent, !.todo = {}]
        /\ outbox' = outbox \/ outbox' = [outbox EXCEPT ![fan[w].event] = Failed(@, MaxFanOuts)]
    BY <1>0, <1>13 DEF FailEvent, AfterAnError
  <2>2. /\ fan'[w].step = fan[w].step /\ fan'[w].batch = fan[w].batch /\ fan'[w].done = fan[w].done
        /\ fan'[w].event = NoEvent /\ fan'[w].open = fan[w].open /\ fan'[w].paused = fan[w].paused
    BY <1>4, <2>1
  <2>3. \A v \in Event : /\ outbox[v].status # "none" => outbox'[v].status # "none"
                         /\ outbox'[v].status \in {"delivered", "gone"} => outbox[v].status \in {"delivered", "gone"}
    <3> SUFFICES ASSUME NEW v \in Event
                 PROVE  /\ outbox[v].status # "none" => Failed(outbox[v], MaxFanOuts).status # "none"
                        /\ Failed(outbox[v], MaxFanOuts).status \in {"delivered", "gone"} =>
                              outbox[v].status \in {"delivered", "gone"}
        BY <1>0, <2>1
    <3> DEFINE after == IF outbox[v].attempts >= MaxFanOuts THEN "dead" ELSE "pending"
    <3>1. DOMAIN outbox[v] = {"status", "attempts", "leased", "due"} /\ after \notin {"none", "delivered", "gone"}
        BY <1>0 DEF Row
    <3>2. Failed(outbox[v], MaxFanOuts)
             = IF outbox[v].status = "pending"
               THEN [outbox[v] EXCEPT !.status = after, !.leased = FALSE, !.due = FALSE]
               ELSE outbox[v]
        BY DEF Failed
    <3> HIDE DEF after
    <3>3. [outbox[v] EXCEPT !.status = after, !.leased = FALSE, !.due = FALSE].status = after
        BY <3>1
    <3> QED
        BY <3>1, <3>2, <3>3
  <2>4. \A d \in steady' : row'[d].status = "none" => OnItsWay(w, d)'
    BY <1>2, <2>1, <2>2 DEF OnItsWay, NotMissed
  <2>5. InHand(w)'
    BY <2>2, <2>3 DEF NoneMissed, InHand, Handled
  <2> QED
    BY <1>1, <1>3, <2>1, <2>3, <2>4, <2>5, MissesNothing
<1>14. ASSUME NEW w \in Worker, CompleteBatch(w) PROVE NoneMissed' /\ ReasonsFit'
  <2>1. /\ UNCHANGED <<dvars, steady>> /\ \A u \in Worker \ {w} : fan'[u] = fan[u] /\ fan'[w] = NoFanOut
        /\ outbox' = [v \in Event |-> IF v \in fan[w].done THEN Completed(outbox[v]) ELSE outbox[v]]
    BY <1>0, <1>14 DEF CompleteBatch
  <2>2. /\ fan'[w].step = "idle" /\ fan'[w].batch = {} /\ fan'[w].done = {} /\ fan'[w].event = NoEvent
    BY <1>0, <1>14 DEF CompleteBatch, NoFanOut
  <2>3. \A v \in Event : outbox[v].status # "none" => outbox'[v].status # "none"
    BY <1>0, <2>1 DEF Completed, Row
  <2>4. \A v \in Event : v \notin fan[w].done => outbox'[v] = outbox[v]
    BY <2>1
  <2>5. \A d \in steady' : OnItsWay(w, d)'
    BY <1>2, <2>1, <2>2 DEF OnItsWay
  <2>6. InHand(w)'
    BY <2>2 DEF InHand, Handled
  <2> QED
    BY <1>1, <1>3, <2>1, <2>3, <2>4, <2>5, <2>6, MissesNothing DEF dvars
<1>15. ASSUME NEW w \in Worker, FanOutEnds(w) PROVE NoneMissed' /\ ReasonsFit'
  <2>1. /\ UNCHANGED <<row, endpoint, outbox, steady>> /\ \A u \in Worker \ {w} : fan'[u] = fan[u]
    BY <1>0, <1>15 DEF FanOutEnds
  <2>2. /\ fan'[w].step = "idle" /\ fan'[w].batch = {} /\ fan'[w].done = {} /\ fan'[w].event = NoEvent
    BY <1>0, <1>15 DEF FanOutEnds, NoFanOut
  <2>3. \A d \in steady' : OnItsWay(w, d)'
    BY <1>2, <2>1, <2>2 DEF OnItsWay
  <2>4. InHand(w)'
    BY <2>2 DEF InHand, Handled
  <2> QED
    BY <1>1, <1>3, <2>1, <2>3, <2>4, MissesNothing
<1>16. ASSUME NEW e \in Endpoint, EndpointTakenAway(e) PROVE NoneMissed' /\ ReasonsFit'
  <2>1. /\ UNCHANGED <<outbox, fan>> /\ steady' = {d \in steady : EndpointOf[d] # e}
        /\ Disable(e) \/ DeleteEndpoint(e)
    BY <1>16 DEF EndpointTakenAway
  <2>2. ReasonsFit' /\ \A k \in Endpoint \ {e} : endpoint'[k] = endpoint[k]
    BY <1>0, <2>1, OperatorSteps
  <2>3. \A k \in Endpoint : (\E d \in steady' : d[1] = k) /\ Collects(k) => Collects(k)'
    BY <1>2, <2>1, <2>2 DEF Collects, SwitchedItselfOff
  <2> QED
    BY <1>1, <2>1, <2>2, <2>3, ElsewhereMissesNothing
<1>17. ASSUME \/ DeliveryStep /\ UNCHANGED fvars
              \/ \E w \in Worker, batch \in SUBSET Delivery : ClaimDeliveries(w, batch)
              \/ UNCHANGED pvars
       PROVE  NoneMissed' /\ ReasonsFit'
  <2>1. UNCHANGED <<outbox, fan, steady>> /\ (DeliveryStep \/ UNCHANGED endpoint)
    BY <1>17 DEF ClaimDeliveries, Claim, pvars, dvars, fvars
  <2>2. ReasonsFit' /\ \A e \in Endpoint : Collects(e) => Collects(e)'
    BY <1>0, <2>1, EndpointsStay DEF EndpointsAsTheyWere
  <2> QED
    BY <1>1, <2>1, <2>2, ElsewhereMissesNothing
<1> QED
    BY <1>5, <1>6, <1>7, <1>8, <1>9, <1>10, <1>11, <1>12, <1>13, <1>14, <1>15, <1>16, <1>17
       DEF PipelineNext, FanOutWork

LEMMA NoneMissedAlways == PipelineSpec => [](NoneMissed /\ ReasonsFit)
<1>1. PipelineInit => NoneMissed /\ ReasonsFit
    BY FanOutAssumption DEF PipelineInit, Init, NoneMissed, ReasonsFit, InHand, Handled, NoFanOut, FreshEndpoint
<1>2. FanInv /\ FanInv' /\ NoneMissed /\ ReasonsFit /\ [PipelineNext]_pvars => NoneMissed' /\ ReasonsFit'
    BY PipelineStep, NoneMissedStep
<1> QED
    BY <1>1, <1>2, PipelineAlways, PTL DEF PipelineSpec

(* An event that counts as fanned out was queued for every endpoint that was  *)
(* enabled when it committed and that was left alone and had room since, for *)
(* any number of processes, crashes, errors and leases that run out under   *)
(* the fan-out.                                                             *)
THEOREM NothingIsMissed == PipelineSpec => []NothingMissed
<1>1. NoneMissed => NothingMissed
    BY DEF NoneMissed, NotMissed, NothingMissed
<1> QED
    BY <1>1, NoneMissedAlways, PTL

(* What the operator switched off is not taken for an endpoint that switched *)
(* itself off: recordAttempt only switches off what is enabled.             *)
THEOREM OperatorDecides == PipelineSpec => OperatorsDecisionStands
<1> DEFINE Stands == \A e \in Endpoint : endpoint[e].reason = "operator" =>
                        endpoint'[e].reason = "operator" \/ endpoint'[e].status # "disabled"
<1>1. TypeOK /\ ReasonsFit /\ ([Next]_dvars \/ OnlyTrouble) => Stands
  <2> SUFFICES ASSUME TypeOK, ReasonsFit, [Next]_dvars \/ OnlyTrouble PROVE Stands
    OBVIOUS
  <2>1. CASE DeliveryStep \/ UNCHANGED endpoint
    BY <2>1, EndpointsStay DEF EndpointsAsTheyWere
  <2>2. ASSUME NEW e \in Endpoint, Disable(e) \/ DeleteEndpoint(e) PROVE Stands
    BY <2>2, OperatorSteps
  <2> QED
    BY <2>1, <2>2 DEF Next, OnlyTrouble, dvars, Enqueue, Claim
<1>2. FanInv /\ ReasonsFit /\ [PipelineNext]_pvars => [Stands]_dvars
    BY <1>1, PipelineStep DEF FanInv, PipelineTypeOK
<1> QED
    BY <1>2, PipelineAlways, NoneMissedAlways, PTL DEF PipelineSpec, OperatorsDecisionStands
=============================================================================
