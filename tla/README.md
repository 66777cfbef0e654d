# uniora in TLA+

Models of [uniora](../src/README.md), the parts of it in which several actors
change the same rows: memberships and the protected Owner role, delegated
administration, invitations, teams, platform operators and their support access,
contextual policies, identity links, entitlements, shared rate limits, the outbox and
webhook pipeline, and the executor that shares one SQLite connection.  Each module is
translated from the TypeScript and SQL it names in `PROJECT.json` (`map`); TLC
checks small instances, TLAPS proves the main theorems for every value of the
constants.

## The system

uniora keeps organizations, memberships, roles, teams, policies and what goes
with them for a host application.  `packages/core` holds the domain (services
over repository interfaces), `packages/database/{postgres,sqlite}` and core's
memory storage implement the repositories, `packages/server` adds HTTP, rate
limits and the webhook dispatcher.  Nearly every business rule that must hold
*between* calls is enforced in the SQL of a repository; services decide from what
they read before.

| Component | State | Operations | What makes it correct |
|---|---|---|---|
| Memberships, Owner role | rows of `memberships`, `membership_roles` | create, (un)assignOwnerRole, block, suspend, unblock, delete, transfer, leave | an organization always has an Owner who can act; sanctions only harden; calls that keep to the order of ids do not deadlock |
| Outbox | rows of `outbox` | enqueue (inside the domain's transaction), claim, complete, fail, requeue, prune | a committed event reaches every endpoint that wants it |
| Webhook queue and dispatcher | `webhook_deliveries`, `webhook_endpoints`, processes | fanOut, deliverDue, recordAttempt, housekeeping, the operator's calls | one process per delivery while leases hold; outcomes are final; the operator's decision stands |
| SQLite executor | the connection, its queue, savepoints | `atomic`, single statements | callers never share a transaction; all or nothing; every caller gets a turn |
| PostgreSQL storage | transactions, row and advisory locks | `transaction`, retries of serialization failures | as the repositories need |
| Invitations | rows of `invitations`, memberships, advisory locks | invite, resend, revoke, accept, expire | one acceptance, by the current link; the rate limit; retries are safe; nobody gives what they may not |
| Access service, roles and permissions | role assignments, keys of roles, the implications between keys | (un)assign, block, suspend, unblock, remove, create, change, clone and delete roles on someone's behalf | nobody gives what they do not hold; the gate and the rules agree about what that is |
| Teams | the tree; the members of teams | create, move, edit, archive, restore, delete; add, invite, change, move, remove | no loops, bounded depth, nothing active under something archived; statuses follow their course |
| Platform administration, support grants | operators, platform roles, grants | bootstrap, every change of roles and operators, open and end support | support access outlives nothing: not the right to open it |
| Contextual policies | policies, their versions, the number of the set, the cache of an engine | create, update, activate, disable, retire, delete; decide | separation of duties; what is enforced was published; answers come from a set in force and are no guesses |
| Authorization engine | none but the cache | `can`, policies over it | as above |
| Identity links | links, memberships | link, unlink against creation of memberships | one identity is not two; no chains |
| Entitlements | definitions, own limits, counters per window | define, limit, consume, release | never above a limit in force |
| Rate limits | a bucket, leases of servers, buckets of their own | take, lease, fall back | all servers together stay within the rate plus a lease each |
| Audit log, migrations, HTTP, client, adapters, Studio | see `PROJECT.json` | | not modelled |

How they interact: core's services call repositories, most through
`storage.transaction`; a service that changes the domain enqueues its event in
the same transaction (`outbox.enqueue`); the dispatcher is the only reader of
the outbox, and runs in every server process.  Everything over SQLite goes through one
executor, so an SQLite call is atomic; over PostgreSQL, calls interleave statement
by statement at READ COMMITTED, except where a repository asks for more.

What is hard to test here, each at its line, is listed under `hazards` in
`PROJECT.json`: statements of two connections between snapshot, row lock and
write; what is decided under a lock next to what changes the same without it; suspensions that
end by themselves; workers that crash, stall past their leases and report late; a fan-out or
a search for grants that fails halfway; a cache read next to the changes it caches; operations
of one callback that overlap on one connection.

## The modules

```
component                       proofs                    instance for TLC
Ownership                       OwnershipProofs           MCRepositories
   ^ refines
PgOwnership                     PgOwnershipProofs         MCPgOwnership
LeasedQueue
   | EXTENDS
WebhookDelivery
   | EXTENDS
WebhookPipeline                 WebhookDeliveryProofs     MCOutgoing; MCWebhookPipeline
AtomicTransactions
   ^ refines
SqliteExecutor                  SqliteExecutorProofs      MCSqliteExecutor
Invitations                     InvitationsProofs         MCOutgoing
AccessService, Policies         GovernanceProofs          MCGovernance
TeamPlacement
   | EXTENDS
AtomicTeams
   ^ refines
TeamTree, PlatformSupport       AdministrationProofs      MCAdministration
AtomicLinks
   ^ refines
IdentityLinks                   StorageProofs             MCRepositories; MCIdentityLinks
TeamMembers, Entitlements,
SharedLimit, PolicyEvaluation   StorageProofs             MCRepositories
```

Four modules are specifications of what a component promises: **Ownership**, **AtomicLinks** and **AtomicTeams**, with one step
per call, and **AtomicTransactions**, with one for its beginning and one for its end.  The detailed module instantiates the abstract one over its own rows, and the
abstract specification is a property of its run and a theorem.  The first is the SQLite repository; the second and the third
are the in-memory storage (`core/src/storage/memory.ts`), in which nothing runs between the checks of a call and its
write; the last is what `storage.transaction(callback)` is for.

**Ownership** is the abstract specification and, at the same time, the SQLite
repository: each operation of `sqlite/src/repositories/membership.ts` runs in one
`begin immediate` transaction and is one action.  State: which organizations exist
(`founded`), the organization of each membership (`org`), who holds the Owner
role (`owner`), `status` and `blocked_until` as stored, and the database clock.
`Effective` is the code's `effectiveStatus`: a suspension whose end has passed
is active although nobody rewrote the row.  `Delete` takes the roles along, as the
foreign key's cascade does.

**PgOwnership** models the same operations over PostgreSQL.  A guarded call is
three steps or more: it begins and takes its snapshot (`Begin`), it locks the rows of
the Owners in order of id (`LockHolder`, the `locked` CTE with `order by ... for
update`), and it writes (`WriteBlock`, `WriteDelete`, `WriteUnassign`).  Writing waits
for the lock of the target row, which is a new one to lock where the target lost the Owner role meanwhile, and re-checks the target's own columns but not
what the statement read of other tables: `sawOwner` is kept from the snapshot
on purpose.  `at` is the start of the transaction, which is what `now()` returns.
`transferOwnership` is one transaction of four steps that keeps its locks until
`TransferCommit`; its insertion is visible only to itself until then.  Every
behaviour has one mix of calls (`calls`), so that one run can look at several
combinations without the product of all of them.

**LeasedQueue** has the statements `outbox` and `webhook_deliveries` share, as
operators from row to row.  Time is abstracted to what the statements compare:
`leased` (`locked_until` lies ahead) and `due` (`available_at` is reached).

**WebhookDelivery** is `deliverDue` and `deliverOne` in several processes over the
queue: claim a batch, work through it with at most `Concurrency` attempts at a time,
read the endpoint again, send, report to the delivery row (`Complete`, `Fail`),
record the attempt at the endpoint (`RecordSuccess`, `RecordFailure`).  `phase`
says between which two awaits an attempt stands.  A storage error ends an attempt
there, a crash ends all attempts of a process, and the leases remain.  The
receiver may accept and answer too late.  `Stalls` says whether a process may
outlast the lease of what it claimed.  That the lease computed in `deliverDue` is long enough for a process that merely is slow
is assumed where it may not; the formula is not computed.

**WebhookPipeline** extends it with the outbox and `fanOut`: a process claims a
batch of events, lists the endpoints once, counts what is queued for those that
switched themselves off, queues delivery by delivery, and completes the
batch at the end.  `steady` is history: the deliveries an event owes since it committed, without those of
endpoints the operator touched since and of those that were full when they were counted.

**SqliteExecutor** is `sqlite/src/executor.ts`: the queue of callers, the transaction
of the one whose turn it is, the operations of its callback, which join under
savepoints, and the moment between the end of a transaction and the end of the turn
in which the chain still counts as the owner.  `savepoint` and `depth` are the stack of savepoints in force,
`pending` the writes of the open transaction, each with the depth it was made at, so that releasing
(`Released`) or rolling back (`RolledBack`) a savepoint does what SQLite does: later savepoints, and what
was written under them, go with it.  `overlapped` and `strays` are history:
which callbacks ran operations at the same time, and which operations a promise
nobody awaited started after the end.

**AtomicTransactions** is what the caller sees of it: a call begins when no other is open, operations resolve in it,
and it is kept, with all the writes of what resolved and no others, or undone.  `Outcome` maps the stages of
a call to these; `Awaited` says that callbacks await what they start, without which the promise is not kept.

**Invitations** is the invitation service over PostgreSQL for one address in one
organization.  A call of `invite` reads, takes its advisory locks (`LockInvites`),
decides (`DecideInvite`: may they, was the key used, is it too many) and inserts
(`Create`); then it mails, and `RecordDelivery` notes that it did.  `accept` finds the
invitation by its link, decides under the access lock what the inviter can give now
(`DecideAccept`), and claims the invitation and the membership in one transaction
(`ClaimInvitation`), which `markAccepted`'s condition on the link decides.  `resend` replaces the link
(`Rotate`).  Links and invitations are named after the calls that made them.  Time is
abstracted to what is compared: `lapsed`, `recent` (within the hour), `lately`
(within the cooldown).  `access` says whether the service decides who may give what or
the host does.  Around it, members come, go and are given roles, mostly under the
access lock; those who leave of their own accord do not take it, and `left` remembers
that the inviter did.  In-process serialization of `invite` is left out: it allows less, and
other processes do not have it.

**AccessService** is the administration of one organization on someone's behalf.  A
call is two steps in one transaction: `Ask...` takes the organization's advisory lock, passes the
gate (`Can`, the engine's `decideCan`) and the rules (`HoldingsOf`, `Covers`, `CanTouchMember`:
`power.ts`), and remembers what its actor could do (`may`); `Do...` writes what was decided and
commits.  `NoLock` is the code that changes power without that lock and may come in between:
transfers of ownership, people who leave or join, suspensions that end, support grants, the
status of the organization.  `origin` is history: the keys an Owner, a template or a
grant has put in circulation.  Gates and rules are two computations over the same rows, the
first upwards through the implications from the key that is asked, the second downwards from
the keys that are held; both are translated as they are.

**TeamTree** is `createTeam`, `updateTeam`, `archiveTeam`, `restoreTeam` and `deleteTeam`, statement by
statement.  There are two locks: the service's (`treeLock`) and the repository's (`rowsLock`),
which has the same name under another hash function.  `mutate` reads the row, the callback takes the
lock and checks the place, the write is guarded by the version that was read, and a
write that missed starts over, holding the lock it has.  The recursive queries of `placementFacts` are
`Above`, the least set of teams that has a given one and the parents of all its members, without recursion so that
it can be reasoned about.  **TeamPlacement** has these facts and the rule over them (`Fits`, `assertTeamPlacement`), which all
storages share; **AtomicTeams** has the calls in one step each, with status and parent of a team and without versions, locks and retries.

**TeamMembers** has the rows of one member of the organization, one per team, and the
transactions that change them.  `place` is what is committed, `mine` what a transaction has written
and nobody else sees; a row written by an open transaction is locked (`Free`).  `add`
inserts a row (`InsertPlace`) or revives one that was removed (`Revive`); an update that missed is not noticed as such, and a row that
is one version ahead is taken for its own, whoever wrote it (`MissToRevive`).  `setStatus`, the role calls and `moveMember` go through
`mutate`.  A move is `add` and then `setStatus`, in one transaction that undoes the first when
the second is refused.  `found` is history: the versions of the two rows that a move has looked at.

**PlatformSupport** has platform operators, roles and the support grants they open for themselves.  A
change of operators or roles is one transaction under the global lock and one action; what follows
in the other store (`endSupportOf`: ask, search, revoke one by one; for `updateRole`, for
each holder of the role) are steps of a `call`, between which others run and which may break off
(`Breaks`; `cut` remembers for whom).  `grantSupportAccess` checks, creates, checks again under the
lock and takes back what it created.

**Policies** is the life cycle of policies: the service checks permissions and reads the row
without a lock (`ReadForUpdate`, `ReadForActivate`), the repository writes under the lock of the
organization, pinned to the version that was read.  Beside it the engine of one process: several
questions share a cache, each reads the number of the set, then number and set again in
separate statements, stores them and answers.  `seen` is history, the sets that were in force since a
question was asked; the organization may be deleted and created again.

**PolicyEvaluation** is one decision: `Evaluate` is the evaluation of a condition in three-valued
logic under a budget of steps, `EvaluatePolicy` and `Verdicts` go through the policies on what is left of
the budget, `CombineVerdicts` and `Decide` make the answer; the facts are looked up one by one, each
may fail, and no more than `Lookups` of them are asked.  A condition is one of a set (`Condition`) that contains the
parts of its members, each with fewer levels (`Depth`) and no more than `MaxDepth`, as `parseCondition` admits them
(`definition.ts:327`); `Evaluate` and `Holds` are recursive functions over that set, with the budget a condition starts on as a
second argument, since what a part finds depends on what those before it used.  The reference it is compared with (`Intended`) is
two-valued: the set of answers over all ways the unknown facts might be, without budget or order.

**IdentityLinks** is `link` against the creation of memberships.  At the top level both are
serializable transactions with a number of attempts; inside a transaction of the caller
(`Inside`) they run at READ COMMITTED.  A session has a `view` from its first statement; `later` are
the serializable transactions that committed since, and `MustAbort` is PostgreSQL's refusal of a
transaction with a conflict in and one out.  It is the least the database refuses;
`SerializationFailure` lets it refuse anything else too.  **AtomicLinks** has the same calls in one step each.

**Entitlements** is one quota of one organization.  A call reads the clock, loads the definition and
runs one statement: its snapshot has the limit (`Snapshot`), its row lock the usage (`Consume`).
The host changes definition, period and limits in between, and days pass.

**SharedLimit** is the limit of one key: a bucket in the storage (`LeaseFromBucket`), a lease per
process that requests spend (`Take`), a refill that requests share (`AskRefill`, `AfterRefill`), a store that
fails (`StoreFails`) and the process's own bucket then (`Fallback`).  Other keys push a lease (`Forget`) or an own bucket
(`ForgetOwn`) out of the maps of the process; the next own bucket is full.  `since` is history: what was let
through since an instant picked at will, and from an own bucket since it was last pushed out.

## The runs

| Run | Instance | Shows |
|---|---|---|
| `pg_ownership` | 3 connections, 3 members, clock 0..1, four mixes of calls | the Owner invariant, no deadlock of orderly calls, and refinement of Ownership, statement by statement |
| `pg_transfer_orphans` | 2 connections | *violation*: a transfer to somebody who is being deleted |
| `pg_deadlock` | 3 connections, 2 members | *violation*: a deletion and a transfer wait for each other |
| `outgoing` | Invitations: 3 calls, 2 identities, 1 role, 1 key, limit 1. WebhookDelivery: 2 processes, 2 deliveries, 2 attempts, 2 errors or crashes. WebhookPipeline: 2 endpoints, 1 event, 1 process, room for 1 delivery of an endpoint that switched itself off | the rate limit, one acceptance per invitation, replay of retries, roles within the inviter's power; one process per delivery while leases hold; no endpoint is missed when a fan-out fails halfway |
| `pipeline_processes` | 1 endpoint, 1 event, 2 processes, stalls, fairness | late reports undo nothing; nothing is missed by two fan-outs at once; the event gets its delivery and the delivery an end |
| `sqlite_executor` | 2 calls, 3 operations of 2 statements, fairness | nobody writes in another's transaction; all or nothing; every call settles; refinement of AtomicTransactions |
| `executor_partial` | the same | *violation*: operations that overlap undo, or keep, each other's writes |
| `governance` | AccessService: 3 people, 2 roles, 3 keys, 2 calls, 1 step without the lock. Policies: 2 actors, 2 policies, 2 calls and questions under way | no escalation, the gate and the rules agree, decisions stand until they are written; separation of duties, what is enforced was published, answers from a set in force |
| `administration` | TeamTree: 3 teams, 2 levels, 2 transactions, 3 calls. PlatformSupport: 2 operators, 2 processes, 4 calls, 1 that breaks. Fairness | the tree stays a tree, nothing active under something archived, calls end, refinement of AtomicTeams; support access ends with the right to it |
| `repositories` | Ownership: 2 organizations, 3 members, clock 0..2. TeamMembers: 2 teams, 2 transactions, 4 calls. Entitlements: 2 calls, 2 limits, months of 2 days. IdentityLinks: 3 identities, 3 transactions. SharedLimit: 2 processes of 2 requests. PolicyEvaluation: none to two policies, 3 facts, conditions of 2 levels | the Owner invariant for atomic operations; statuses follow their course and moves are whole; limits hold; nobody is two, refinement of AtomicLinks and so no chains; the rate; no guesses |
| `identity_ambiguous` | IdentityLinks with memberships created inside transactions of the caller | *violation*: linked away and a member |
| `team_move_lost` | TeamMembers: 2 teams, 2 transactions, 4 calls | *violation*: a move out of one team that does not arrive in the other |

`outgoing`, `governance`, `administration` and `repositories` each hold modules that share no state: the first state says which one runs (`part`), the
others rest, and the graph is the union of theirs, not the product.  In `outgoing` the two identities, the two deliveries and
the two endpoints share their names, so that one symmetry serves.  Properties of a module say something
in its part only.  A module that should be looked at alone can be: its own specification is in it, and
the constants are in the `.cfg`.

Why these bounds are enough for the cases meant: three members allow an
organization with two Owners besides one who becomes or ceases to be one;
three connections allow a circle of waiting and two changes committed while a
third statement waits; the clock needs one tick for a suspension to lapse between
a snapshot and a write, and two in Ownership to tell ends apart.  Two processes
are needed for every race of the dispatcher.  Two attempts tell a retry from
the last try.  `MaxTrouble` bounds crashes and errors together.  In the executor
two operations with two statements each are the least that can be interleaved
with a failure between statements, and the second call is the one that could
be drawn in.  For invitations, three calls are an invitation and two that
compete over it (two acceptances; an acceptance and a resend; a retry and one
more invitation), for two identities with the same verified address; one role is enough
to tell what may be given from what may not, since powers are sets of roles;
with a limit of one, two calls that count at once break it.

In `governance` an Owner, two administrators and two roles are what it takes to give, through a
second administrator or a second role, what one does not hold; `write` implies `read`, so that the two
directions of the closure differ; one step without the lock fits into every gap.  `TwoAtATime` (a
constraint) lets two calls and questions about policies be under way together, the pairs every race there is made
of, and `OneFromOutside` either a change of what an actor may do or a new life of the organization; questions
are asked only where no powers changed and duties are not separate, neither of which the engine looks at.  In
`administration` three teams are a loop and a path too deep; two operators are one who loses a right and
one who takes it, the second process is what runs in between, and four calls are a role, its giving, a grant
and the loss.  In `repositories` a third transaction is the one PostgreSQL's refusal may hinge on; three
identities are a chain; two requests share a refill and two processes share a bucket; one token per lease is
the least that can be counted twice; four calls about a member of a team are an addition, a removal, a move and the call that
comes between its reading and its write; a budget of four steps runs out inside the second policy, and two look-ups leave
one of three facts out.

The mixes of `pg_ownership` keep apart the calls that do break the Owner guard together (`SafeMix` in
`PgOwnershipProofs`).  They are of two kinds.  The first is the finding of `pg_transfer_orphans`:
a grant of the Owner role (by `transferOwnership` or `assignOwnerRole`) that commits between the
snapshot of a `block`, `suspend` or `delete` of the same member and its write.
The second are suspensions that lapse while a statement waits for its locks, since the statement decides by `now()`, the
start of its transaction.  The escalation of a suspension to a block has no Owner guard at all, because the member is
inactive already; `delete` and `unassignOwnerRole` let go of an Owner who is inactive as long as somebody else holds
the role, active or not.  If the suspension has lapsed since and another call suspended that other Owner,
counting the first as active, none is left who can act.  Each pair that `SafeMix` excludes was seen to
break the invariant alone, with two or three connections and up to two ticks (the last two need an end that
lies ahead after the first tick), so the condition cannot be weakened pair by pair.  The access service takes an
advisory lock first, `transferOwnership` does not: the first kind may happen between the two, the second takes direct calls
of the repository.

`NobodyWaitsInACircle` has a condition of its own, `Orderly`, because the comment it is about ("always contend for the SAME lock in
the SAME order — no deadlock", `membership.ts:774-776`) is true only under one.  A `block`, `suspend` or `delete` whose
target was an Owner when it took its list, and is none when the rows are locked, locks the target last, whatever its id; that
closes a circle with a transfer that gave the target the role again, or with another such call that locks it by an
`assignOwnerRole` in between.  So it takes all three: a call that takes the role away, one that gives it, and a
sanction or deletion.  A mix without one of the three is orderly, and so are all that `pg_ownership` runs; each least mix with all
three was seen to deadlock, also the one of `transferOwnership` and `delete` alone.  `pg_deadlock` is the run with the fewest connections and members.

In the same way `repositories` has links and memberships created at the top level only
(`Inside = {}`); the finding of `identity_ambiguous` is what happens otherwise.

TLC's own deadlock is checked in `pg_ownership`.  It is not in the runs that may
legitimately stop: all endpoints deleted and nothing left to do, all calls
settled, every member removed (`pg_deadlock`), or a bound reached.  No liveness is claimed of invitations: a call that crashes after its commit has
sent nothing, and its retry sends nothing either.

### Fairness

`pipeline_processes`: weak fairness of every step of an attempt and of a fan-out
(the event loop resumes promises, requests have a deadline), of leases running
out and retries falling due (clocks advance), and strong fairness of the claims that contain a
given delivery or event: claims are made in the order of `seq`, and an older
row cannot be due all the time, since a claim leases it and an outcome settles or
postpones it.  Nothing is assumed of commits, of the operator, of crashes or of pruning.
`sqlite_executor`: weak fairness of each call's turn and each operation's next
step: promises that can resume do, and callbacks come to an end.  Nothing is
assumed of callers.
`administration`: strong fairness of the steps of each transaction at the tree, since PostgreSQL serves
those who wait for an advisory lock in turn and a transaction that gets it goes on; weak fairness of
the steps of each process that follows up a change of the platform (promises that can resume
do), none of `Breaks`, of `GivesUp` or of new calls.

## The proofs

For any sets of organizations, members, teams, operators, policies, processes, deliveries and endpoints and
any bounds, from the assumptions on constants stated in the modules.  Four of those say more than what kind of
value a constant is, because the program is not correct or not defined without them: the trees
an organization starts with are trees (`TreeAssumption`), and the servers of one limit (`LimitAssumption`) and the teams of an
organization are finitely many.  Conditions are of finitely many levels (`ConditionAssumption`), as the parser makes sure.  Some theorems state a hypothesis of their own, named with them below.

- `OwnershipProofs!AlwaysAnActiveOwner`.  The invariant is inductive together with
  `TypeOK` (which says that only existing memberships hold the role).  Each action
  is shown to leave, in every organization, an active Owner it does not
  touch (`SomeoneStays`); such an Owner stays active since time only lifts
  sanctions (`UntouchedStaysActive`).  For removals the guard names that Owner
  (`RemovalLeavesAnother`); a removed Owner who was not active cannot have been the one
  the invariant promised.
- `OwnershipProofs!SanctionsNeverSoften`, an action property, from `TypeOK`.
- `PgOwnershipProofs`.  `LocksAreKept` holds in every mix of calls: what a statement has locked is
  exactly its list of Owners and the row it granted, and two calls never lock one row (`Sound`).  The last two assume
  `MixesAreSafe`: no behaviour makes both of two kinds of calls that do break the Owner guard together (`SafeMix`; the runs
  `pg_ownership` and `pg_transfer_orphans` are one on either side of it).  `NoDeadlockOfOrderlyCalls`, for finitely many connections and the
  mixes that are `Orderly`, assuming nothing else of the mixes:
  who waits with rows locked waits for a row with a greater id than all of its own, so following the waits climbs, and in a
  finite set of connections it ends.  The row that is written last could break that; `Listed` says that in an orderly mix
  it is locked already with the list, or not there any more.  `StatementsImplementOwnership`: each statement that writes is a step
  of `Ownership`, because the Owner a verdict found besides the target is locked, still is one, and has not
  been sanctioned since (`StaysActive`, `Known`); every other statement changes nothing `Ownership` sees.  `AnOwnerCanAlwaysAct` is
  `AlwaysAnActiveOwner` carried over by that refinement, not proved again.
- `WebhookDeliveryProofs!OneAtATime` and `LeasesHold`, assuming `~Stalls`.  "One worker per delivery" is not
  inductive: nothing in it says why a claim finds nobody at work.  The
  strengthening `LeasesAreKept` does: a row is leased exactly while one claim of it runs,
  and an attempt that has not reported is under that claim (or its row was deleted
  with the endpoint).  Lemma `LeasesStep` proves the conjunction preserved.
- `WebhookDeliveryProofs!SettledForGood`, an action property, with stalls or without.
- `WebhookDeliveryProofs!NothingInvented`, of the whole pipeline: no delivery counts as delivered that its receiver did not
  accept.  Its strengthening `AcceptedFirst` also covers the attempts on their way to report.
- `WebhookDeliveryProofs!NothingIsMissed`, of the whole pipeline.  Its strengthening (`NoneMissed`) says of every delivery owed
  that either its row exists, or the event is not yet recorded as fanned out, and then each process
  that has the event in its batch still has that delivery before it, so that whoever completes the event has queued it.
- `WebhookDeliveryProofs!OperatorDecides`, an action property, with stalls or without: the reason stored with an endpoint
  always fits its status (`ReasonsFit`), and `recordAttempt` switches off only what is enabled.
- `SqliteExecutorProofs`.  `TheQueueIsKept` says of every caller that it is in the queue exactly while it
  waits or has its turn.  `CallersAreKeptApart`: while no stray operation exists, everything the connection holds belongs to
  the call at the head of the queue (`Private`).  `AtomicIsAllOrNothing`: as long as callbacks await
  their operations, at most one runs, its savepoint is the last one (`OneAtATime`), and what is pending is exactly
  what the resolved operations and the running one have written (`InPending`), so a rollback takes
  just its own and a commit everything that was resolved (`InDatabase`).  The attempt to prove it showed that `Undoes`
  was written as a `CASE` whose guards overlapped, so that TLA+ does not say which one counts; it now has one disjunct per case.
- `SqliteExecutorProofs!ExecutorImplementsTransactions`, while callbacks await what they start: a step of the connection is
  a step of `AtomicTransactions` or none.  Once it is known that what was committed is exactly what the calls that ended well
  resolved (`Told`, which follows from the invariants above), only the commit and the turn of the queue
  need an argument: the commit adds just its call's operations, and a call begins when it has the turn, which a call
  whose transaction is open would have.
- `InvitationsProofs!RateLimit`.  The limit is not inductive: the strengthening
  `RoomIsLeft` says that a call about to insert still finds room, and `LocksHeld` that
  it has held the lock since it counted, so nobody else is about to insert
  (`RoomStaysLeft`).  Lemma `OnlyCreateAddsRows` shows that no other step makes an invitation recent.
- `InvitationsProofs!Retries`, an action property, from `LocksHeld` and `KeysAreFree` (a key stays
  unused between decision and insertion).
- `InvitationsProofs!OneJoins`, inductive with `UnusedIds` and `Accepting`: what is accepted
  stays as it is (`AcceptedStays`), and only a claim that finds its link makes it so
  (`OnlyClaimsAccept`, `ClaimJoins`).
- `InvitationsProofs!WithinPower`: `Entitled` keeps what was decided true until the claim; the
  lock keeps everyone out who could change it (`PowerStays`), except those who leave.
- `GovernanceProofs`, of the access service: `GateAndHoldingsAgree` follows from the closure of the implications alone
  (`UpIsDown`: a key is implied by one that is held exactly when it is among what the held ones bring).
  `NoEscalation`, `DecisionsStand` and `NothingUnheldIsGiven` rest on one invariant: at most one call is between
  decision and write (`Alone`), what it decided is still covered by the power it was taken with (`Decided`),
  and every key in a role or a grant has a source (`Sourced`).  The code that takes no lock keeps them because it
  neither gives ordinary roles nor fills them.
- `AdministrationProofs!MovesKeepTheTree`.  The state alone is not inductive: a move that has checked its place is still to come.
  The strengthening `Forest` adds that the place found then is a place still (`PlaceHolds`): no loop, and not too deep, now.
  Three facts of `Above` carry it: what is above a team is a chain (`AboveIsAChain`), a move changes only what is above the
  teams under the one that moved (`MoveElsewhere`, `MoveUnder`), and a move to the top, which takes no lock of the repository,
  only makes paths shorter (`MoveToTop`, `TreeToTop`), so it spoils no place that was checked (`PlacedStays`).
- `AdministrationProofs!TeamsImplementAtomicTeams`: a call takes effect with its write.  By then what it checked is true
  still (`Checked`, `PlaceHolds`) and the row is the one that it read (`SeenIsOld`), so the write is that call of
  `AtomicTeams` over the rows of that moment (`WriteIsACall`); an edit, a restoring of what is active and every
  step that does not write are none.  `PlaceFound` says that the rule by depth and height (`Fits`) and the one the invariant uses
  for every team below (`Placed`) are the same, in both directions.
- `AdministrationProofs!NoActiveTeamUnderAnArchivedOne`: what a transaction found when it checked the place stays true until it
  writes, because whoever could spoil it needs the repository's lock (`Checked`), and the row it writes
  over is the one it read (`SeenIsOld`: versions only grow).
- `AdministrationProofs!SupportOutlivesNothing`: every active grant of somebody without the right is in the
  hands of a call that has not dealt with it yet (`Covered`, `InCharge`).
- `GovernanceProofs`, of policies: `NobodyPublishesTheirOwn` and `OnlyPublishersChangeWhatIsEnforced` from versions (a call whose version
  is still the row's knows the row: `CallIsPinned`), `AnswersAreNeverStale` from numbers (a number names one set as long as
  it is the organization's and is never given twice: `Names`, `AskIsSound`).
- `StorageProofs`: `NobodySlipsUnderTheLimit` (the limit in force is always among those a call has seen),
  `CoursesAreFollowed` and `MovesAreOfOnePiece` (what a transaction has written follows the committed row until it commits,
  since a row of one transaction is nobody else's: `Sound`, `Apart`; a move that wrote nothing in the destination found a newer version there).
- `StorageProofs!LinkedOrMember` and `LinksNeverChain`, assuming `Inside = {}` (every transaction is serializable; the run
  `identity_ambiguous` is the other case).  Neither holds by locks: two transactions may each find that the other's row is not there.
  The strengthening `SeesEnough` says what a running transaction has found in its view, and that a row its view does not
  have was written by one of the serializable transactions that committed since (`later`); so of two that each
  missed the other's row, the second conflicts both ways and is refused (`MustAbort`).
- `StorageProofs!LinksImplementAtomicLinks`, under the same condition: a commit is one call of `AtomicLinks` over
  the rows of that moment, though the transaction read an older view.  `StillAsFound` is the reason: whatever was
  committed since against what the transaction has found is a conflict out of it, and its own write one into it, so that
  PostgreSQL refuses it (`MustAbort`); what it found is then still so when it commits.
- `StorageProofs!TheRateIsAlwaysKept`: what is left in the bucket and what is out in leases together fit the budget since
  any instant (`LimitKept`).  The sum over processes is the cardinality of a set of numbered tokens (`Out`), so that handing out and
  spending one is adding and removing elements, not induction over a sum.  Of a bucket of a process's own the bound is from the instant, or from when
  it was last pushed out by other keys, which nothing bounds.
- `StorageProofs!DecisionsAreNoGuesses`, for any conditions, policies and budgets.  `Evaluate`, `Holds`, `Combined` and
  `Evaluated` are recursive functions, and TLA+ promises of such a definition only that it is a function with the equation if there is
  one.  That there is one is proved by induction on a rank (`RecursionWorks` for functions of conditions, by
  levels; `LoopWorks` for loops over a sequence), with sets instead of operators as the hypothesis, so that no theorem with an operator
  parameter is needed (`ByRank`).  `EvaluationIsSound` then says, by levels again, that a value other than "unknown" is what
  `Holds` gives under every truth that agrees with what is known, whatever the budget; `CombinedIsSound` is the loop of `all` and `any` in it.
  `VerdictsAreSound` is the loop over the policies: every verdict comes from a policy that certainly or possibly
  takes part, and a policy that takes part leaves a verdict that does not contradict it.  So whatever the facts that are
  missing and the policies that cannot be read may be, an answer is the one intended (`DecisionIsIntended`).  The invariant (`EvalInv`)
  is that what a look-up gave is so.
- the type invariants of the modules, which the others rest on.  No run spends a property on
  them, since the theorems say it for every instance.

Only model-checked: all liveness (`PendingIsSettled`, `EventsReachTheirReceivers`, `EveryCallSettles`, `TreeCallsEnd`,
`SupportEnds`): the prover handles neither fairness nor ENABLED here.  Every safety property of the passing runs is proved.

## Disagreements with the documentation

Five are kept as runs (`findings` in `PROJECT.json`):

- `pg_transfer_orphans`: a transfer to a member whose deletion has taken its snapshot leaves no Owner.
- `pg_deadlock`: "no deadlock" (`membership.ts:774-776`) holds of orderly calls only.
- `team_move_lost`: a move may take the row that another call wrote for its own.  Where an invitation revived it, the member is out of
  the source and only invited to the destination; where a role was given to the removed row, the member is in neither team.
- `executor_partial`: operations that overlap in one callback undo, or keep, each other's writes.
- `identity_ambiguous`: an identity is linked away and has a membership.

Seen while modelling, with no run:

- `webhooks.ts:333`: `fail` and `complete` go by id and status, not by the claim they report.  A process that outlasted its lease
  ends the lease of the one at work now, and a third may be given the delivery; `webhook/repository.ts:118` says
  that "Concurrent workers never receive the same delivery while its lease holds."  (With `Stalls`,
  `OneWorkerPerDelivery` does not hold; `SettledStaysSettled` does.)
- `dispatcher.ts:178` says that an answer with `Retry-After` does not count towards
  switching the feed off; `recordAttempt` adds it to the count that the next ordinary failure is compared with.
- `dispatcher.ts:76` bounds what is queued for an endpoint that switched itself off;
  the count is compared once per batch and per process, so the bound is exceeded by up to a batch.
- `invitation/service.ts:520` refuses a retry with a known key when the address belongs to a member by then; lines 139-141
  say that such a call returns the invitation.
- `invitation/service.ts:53` calls `resendCooldownMs` the minimum time between two sends; it is
  compared before the transaction with what is recorded after the mail, so resends at the
  same time, or during the first mail, are not kept apart.
- `ownership.ts:9` requires that a transfer comes from somebody who holds the role; of
  two concurrent transfers both may commit, the second when its giver has lost it.
- `ownership.ts:82`: `leaveOrganization` and `transferOwnership` do not take the access lock, which
  `access/permissions.ts:21` calls "The advisory lock every change of who holds which power takes".  Roles may be given in the name
  of somebody who left a moment ago.
- `executor.ts:133` says that statements of different callers never meet in one
  transaction; an operation that a forgotten promise starts between `commit` and the
  end of the turn opens a transaction that the next caller joins (`strays`).
- `team/service.ts:68-72` says that nobody touches a team member who holds more power; `moveMember` removes one without
  asking (line 336).  Two moves of one member from the same team to two others both take effect when the first is committed
  before the second reads for its removal: the member is in both.
- `team/service.ts:224`: `current.parentId` is read before the lock; when the team is moved to that parent's side meanwhile, the permission
  over the destination is not asked.
- `team-membership.ts`: a removed member is revived without another look at the team's status, and the roles of a team may be assigned to
  a row that was removed meanwhile, although removing one drops its roles (line 269).
- `shared-limit.ts:41-57`: a request goes round twice and is then refused, even if the process has been given a new lease that
  others of its requests spent; `guides/server.md:521` promises one budget for all instances, which is kept, but not that none of it is left.
- `core/entitlement/repository.ts:44` says that changing the period starts a new window; going back to a period finds the
  window, and the usage, it left.
- Platform support "outlives nothing" (`platform/service.ts:194`) once the call that took the right away has ended, not at once, and
  not when that call breaks off.
- A deleted and recreated organization has revision 0 until its first change of policies, as every organization without
  policies; a cached set of number 0 is always the empty one, unless a question read the number before and the set after a
  change.  `AnswersAreInForce` leaves number 0 out.

## Assumed, and not modelled

- The Owner role itself is never deleted nor given to another organization (the role
  repositories refuse).  Membership ids are random and never reused.
- Row versions, profiles, ordinary roles, searches, texts; signing, HTTP, `sendTest`,
  the back-off of the loop; creating and editing endpoints; endpoint and event
  filters (every endpoint wants every event in the instances).
- Clocks of processes that differ: the database's clock decides, and a slow
  process is a stall.
- In Invitations: several addresses or organizations and the limits over them, teams,
  previews, audit and outbox events, roles deleted after they were offered, an inviter who
  accepts their own invitation, and the text of the delivery status.  Members' roles
  are regular ones; the Owner role is in Ownership.  The inviter's power also depends on support
  grants, identity links and the organization's status, which change without the access
  lock; they would act as `InviterStepsDown` does.  The back office's trusted storage is
  assumed to take the lock.  The clocks of processes agree.
- In the executor: operations inside operations, and statements outside any transaction.
- In AccessService and Policies: the token that carries a decision to the guarded storage, row versions a caller names, names and
  texts, the audit entries; what a policy's condition says of a request is PolicyEvaluation's, where
  what makes a comparison true, false or unknown (types, attributes, the clock and time zones) is a fact with a value.
- In AtomicLinks and AtomicTeams: what else a call changes (names, versions, audit entries), and that the in-memory storage lets an
  id be used again.  In the teams: permissions (each is granted or refused), responsibilities, invitations by e-mail.  In PlatformSupport: operated
  organizations, the expiry of grants, more than a page of them.
- In SharedLimit: fractions of a token, clocks that disagree, other keys but for the lease and the own bucket they push out.
- What PostgreSQL's serializable isolation refuses is its own (`external` in `map`), after its documentation.
- `partly` and `not_modelled` components are listed in `PROJECT.json` with the reason.

## Not modelled, and why

- **Audit log**: the hash chain is computed by SQL functions and triggers over the text of each entry; what could be said
  (each entry names the one before) holds by the lock those triggers take.
- **Migrations**: one process at a time under an advisory lock, one transaction per migration.
- **In-memory storage**, but for links and teams, and the **conformance suite**: a double for tests and the tests that compare it with the
  databases; no transactions run next to each other there.
- **HTTP server, client, CLI, framework and provider adapters, mailer, Studio, playground, site**: parsing, rendering, generated code and
  thin layers over the API.  They make most of the repository's lines, and no state of several actors.
- **Organizations, features, profiles, identities**: validation and single rows.

## Plan

1. (done) Ownership, PgOwnership, the webhook modules, SqliteExecutor, Invitations.
2. (done) AccessService, TeamTree, TeamMembers, PlatformSupport, Policies, PolicyEvaluation, IdentityLinks, Entitlements, SharedLimit, with
   the proofs above.
3. An abstract specification of "nobody gives what they do not hold" that AccessService and Invitations
   both implement, and the service with the lock that leaving and transfers take in it.
4. (done) Proofs of every safety property the runs check, and of the refinements of Ownership, AtomicLinks, AtomicTeams
   and AtomicTransactions.
5. The chain of the audit log under pruning; migrations that run against older servers.
