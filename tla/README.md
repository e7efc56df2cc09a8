# BigFleet in TLA+

BigFleet is a fleet autoscaler. A replicated *coordinator* assigns capacity
domains to *shards*; each shard runs a decision cycle over its inventory of
machines and drives them through an out-of-tree *capacity provider*; each
Kubernetes cluster runs a *Pod controller*, which turns pending Pods into
CapacityRequests, and an *operator*, which holds one session with its shard, sends
the requests as full-replacement roll-ups and is told what happens to its nodes.
This directory holds TLA+ models of that code, the TLC configurations that check
them, and proofs checked by TLAPS.

Paths below are relative to the repository root (`pkg/...` is `src/pkg/...` in
`PROJECT.json`).

## 1. Inventory

| component | state | operations | talks to | hard because |
|---|---|---|---|---|
| machine state machine (`pkg/machine`) | eight states | transition table, structural invariant | inventory, provider | both sides validate against it separately |
| inventory (`pkg/inventory`) | record per machine, idle-since stamps, indexes of a snapshot | Insert, Apply, Remove, Snapshot | cycle, workers, session | many writers, read-modify-write over two locks |
| provider (`pkg/provider`, fake as conformance reference) | record per machine, operation ids, change log, fence marks | Create, Configure, Drain, Delete, List | workers, reconcile | asynchronous completion, idempotent replay, lost answers, host loss |
| shard cycle (`pkg/shard/shard.go`, `reconcile.go`) | cursor, pending ledger, action queue, parking ages | reconcile, snapshot, phases 1-3, rails, emission | everything | decides on a snapshot while workers change the live state |
| execute workers (`pkg/shard/execute.go`) | the action in hand | provision, bootstrap, drain, delete | provider, operator session, inventory | four-step protocols that can stop at any step |
| session and roll-up ingest (`pkg/shard/session.go`, `safety.go`) | session per cluster, roll-up slot, guard counters, needs table, first-rollup gate | install, replace, remove, enqueue and apply a roll-up | operator, cycle | reconnects race the old session's worker |
| node-state sync and hints (`shard.go` notifyNodeState, `available_capacity.go`, `pkg/operator/stream.go`, `upcoming.go`, `reclaim.go`, `bootstrap.go`) | frames in flight, coalescing slot per machine, dispatch semaphore, UpcomingNode objects, hint cache | notify, resync, coalesce, upsert, drain, render | shard, operator, API server | best-effort frames, coalescing, a phase that depends on the previous one |
| Phase 1 (`pkg/decision/occ`) | claimed set, bucket sequence numbers, work queue | seed, find candidates, propose, displace, requeue | snapshot | optimistic concurrency between workers of one cycle |
| Phases 2 and 3, normalization, parking (`pkg/decision`, `shard.go`) | parking ages | fold gangs, choose a domain, choose victims, reclaim, release | Phase 1's result | attribution must be shared or capacity is drained and rebought |
| fencing (`pkg/fencing`, `fake.checkFence`) | epoch file, sequence, high-water marks | LoadEpoch, Next, Validate, checkFence | provider, coordinator | zombies and delayed messages |
| coordinator (`pkg/coordinator`) | Raft state: shards, clusters, domains; snapshots and archives | FSM commands, admin RPCs, snapshot, export, restore | shards | replicas rebuilt in different ways must agree |
| reports and instructions (`pkg/shard/coordclient`, `report.go`, `grpc_server.go`) | instruction queue per leader, acks, term mark | ReportShard, EnqueueInstruction, handleInstruction | coordinator, shard | leader change loses soft state, instructions are redelivered |
| Pod controller, operator roll-up (`pkg/controller/cr`, `pkg/operator/rollup.go`, `pkg/needs`, `pkg/conv`) | informer caches, CapacityRequests, the roll-up on its way | reconcile, roll-up, acknowledge, decode | API server, shard | stale caches, retries, unconditional patches |

What makes each correct, in one line each: a record never leaves the transition
table and a bound machine is never released (machine, inventory); a machine has
one action at a time, and what a worker started is finished or rolled back
(cycle, workers); what the shard believes of a settled machine is what the
provider has, across restarts (reconcile); the demand decided on becomes the
newest the cluster sent (ingest); a node's UpcomingNode ends where its machine did
(sync); claims pass only upward and nobody who could be served is left short
(Phase 1); with steady demand the loop comes to rest, with nobody starved and no
excess kept (phases together); an old process changes nothing after a new one
(fencing); a domain has one owner and replicas agree on it (coordinator); an
instruction is run once, in order, and settled (reports); the shard ends up with
exactly the demand of the running Pods (controller, roll-up).

The things that are hard to test are the `hazards` of `PROJECT.json`, each at
its line and with the properties that would catch it.

## 2. Modules

### The shard and its provider

* `MachineLifecycle` — states, `validTransitions`, `CanTransition`, `Invariant`
  of `pkg/machine/machine.go`. No variables.
* `CapacityProvider` — the provider as the fake implements it: `prov` (records
  with the shard_metadata echo), `ops` (which kinds have an operation id),
  `delta` (changed since the stored cursor). `StagedOps` names the operations
  acknowledged in their transitional state.
* `Inventory` — `inv` and the two ways it is written. A machine the inventory
  does not have has state `"Absent"`; writing it is Insert, otherwise Apply.
  A refused write leaves `inv` alone, as the callers that drop the error do.
* `ShardActuation` — composes the three with the cycle goroutine, the action
  queue, the pending ledger and the worker pool. One action per stretch of code
  between two points where another goroutine can be seen: reconcile record by
  record, emission action by action, the four executors with their bootstrap
  wait, provider call and commit; sessions come and go, the provider completes,
  fails or loses a machine, the process restarts with empty memory. Decision
  phases are the set of actions a snapshot can justify (`Decide`), a superset of
  what they emit. A Need stands for profile, gang, priority and penalties at
  once: `need` is the attribution, `prot` the protection filled from it.

### The decision

* `OccCycle` — one call of `occ.RunCycle`: `claimedBy`, `claimedByNeed`,
  `bucketSeq` and `sameDomain` are the fields of `SharedState`, `work` and `wg`
  the channel and the WaitGroup, `wk` the locals of each worker's `processNeed`,
  `consumed` the pre-pass's ledger; `spent` and `requeues` are history. A
  resource vector is a number of units, and profile matching and the MinUnit
  floor are applied in the input. A plain Need walks its pool twice (`FindBasic`),
  a gang ranks domains (`FindSame`), a Need with a strict spread picks
  alternately (`FindSpread`, `SpreadPicks`).
* `SameBuckets` — the order in which a gang ranks domains (`ChooseSameBucket`),
  shared by `OccCycle` and `DecisionCycle`.
* `Profiles` — which machines a Profile's requirements admit, and the instance
  types it is confined to, which decide the index bucket that is searched.
* `DecisionCycle` — the closed loop: roll-ups, normalization, seeding, parking,
  Phase 1's outcome (any that the barrier allows), Phase 2, Phase 3, the reclaim
  cap and the release of idle machines, then the machines' own transitions while
  further cycles look on. A cycle is one step, since what happens inside one is
  the subject of the two modules above.

### Between shard and cluster

* `RollupIngest` — connections, the operator's send slot, the shard's session
  registry, roll-up queue and worker, the empty roll-up guard, the needs table
  with its cached snapshot, the first-rollup gate, shard restarts. `ApplyRollup` is
  three steps, as no lock spans them: the guard's decision (`Admit`), the table
  (`Replace`) and the gate (`MarkFirstRollupReceived`); the workers of two sessions
  may be in it together, and `crossed` records that they were between the first two.
  Hellos are handled in any order.
* `NodeStateSync` — node state frames, replay on a new session, the operator's
  coalescer, dispatch semaphore and outbox, bootstrap and reclaim requests, the
  UpcomingNode's phase; capacity hints with cache, rate limit and upserts. The
  operator's client reads from an informer cache (`cmd/operator/main.go:133`) and
  writes to the API server: `un` is the phase there, `seen` the cache's, `watch` the
  versions that have not reached it; `acSeen` says the same of the hint. A handler
  decides on what is cached: it may create what exists, skip what it takes for no
  change, or conflict. `missed` records an update that left a wrong phase that way,
  `raced` a hint that was lost. The API call of a handler that a break cancels lands
  before the break or not at all.
* `DemandRules` — the pure rules: a Pod's peak resources, penalties and their
  buckets, requirements and spreads, Profile and Need, aggregation into rows,
  the enum numbers of the wire form and their decoding.
* `DemandPipeline` — the processes around those rules: reconcile in several API
  calls against lagging caches, roll-up, acknowledgement, failures and restarts.

### The coordinator

* `Coordinator` — replicas with FSM, snapshot and term over one committed log;
  the RPCs that commit, heartbeats beside the log, snapshots, installs, export
  and disaster restore. hashicorp/raft appears as this code sees it: one log,
  leaders that may be deposed without knowing, `Apply` errors for entries that
  are committed all the same.
* `Assignment` — the abstract specification of ownership. `Coordinator` is shown
  to implement it (`ImplementsAssignment`, `INSTANCE ... WITH` the assignment
  that the read RPC shows of the newest committed state).
* `ShardReports` — reports, acks, instruction queues of leaders and deposed
  leaders, the term mark of the shard, restarts on both sides.
* `Fencing` — incarnations of a shard, `LoadEpoch` with its crash points,
  stamped calls, per-machine marks.

`MC*` are the model-checking instances. The theorems are in modules of their own:
`ShardActuationProofs` (types, ledger, commits, who writes a record, bindings),
`OccCycleProofs` (types, indexes, barrier, evictions, what a cycle leaves behind),
`DecisionCycleProofs` (types, reclaim), `AuthorityProofs` (who may speak: the
coordinator's terms, the shard's epochs; it extends `Coordinator` and `Fencing`,
which is why the latter's specification is `FencingSpec`), `RollupIngestProofs`,
`ShardReportsProofs`, `NodeStateSyncProofs` and `DemandPipelineProofs`.
Definitions whose comment begins "Faulty variant" or "A faulty form" are seeded
faults: each property of each passing run is violated when the definition it
names is replaced by one of them. Times are nondeterminism throughout: a wait may
end by its answer or by its deadline.

## 3. Runs

| run | instance | asks | result |
|---|---|---|---|
| `actuation_sync` | 1 machine, 2 workers, 2 clusters, all kinds, all faults | a worker's commit is never refused; binding and protection match the provider; Delete only for unbound hosts | holds |
| `actuation_pool` | 2 machines, 2 workers, queue of 1 | the ledger is exact; only the driving worker writes its machine | holds |
| `actuation_async` | 1 machine, 1 worker, every operation staged, all faults, fairness | every action ends; every transitional state is left | holds |
| `actuation_incremental_stuck` | staged Configure, IncrementalReconcile, fairness | every transitional state is left | violated (finding) |
| `occ` | 3 Needs, 4 machines, 2 workers, 2 retries, 7 contended, 25 gang and 4 spread calls, fairness | the claim indexes agree; the barrier is quiet; no short Need leaves a machine it could have; a gang stays in the domain recorded for it; re-queues are bounded by machines lost; claims pass upward; the cycle returns | holds |
| `cycle` | 6 fleets of 4 machines and 2 clusters, one change of demand or rollback | the loop comes to rest; nobody starves; gangs assemble; reclaim never goes below demand; excess is given back | holds |
| `ingest` | 2 connections, 1 change of demand, 2 wrong roll-ups or 1 and a restart, fairness | crossed workers apart, at most one blind cycle and a large demand is not wiped; demand converges unless the connection was overtaken | holds |
| `nodesync` | 1 machine bound once over 2 sessions with 1 API fault, or bound twice; or 3 changes of capacity over 3 sessions; informer up to 2 versions behind, fairness | the settled UpcomingNode is right, or its last update was missed; it settles; bootstrap is answered; hints converge, lost upserts and dead sessions apart | holds |
| `demand` | 4 cases of 1 or 2 Pods, 3 CapacityRequests, 2 faults | the request is the Pod's peak; requests follow Pods; the shard's demand is the requests'; acks stick; acks only for what is reported | holds |
| `coordinator` | 2 replicas, 2 shards, 1 cluster, 1 domain, 4 entries, 2 terms | replicas agree; terms grow across a restore; the log implements `Assignment` | holds |
| `reports` | 2 replicas, 2 instructions, 3 terms, 1 report in flight, 1 restart | run once and in order; dropped only when handled; settled | holds |
| `fencing` | 2 machines, 3 incarnations, 2 calls each | epochs grow; calls pass in order; nobody is fenced without cause | holds |

Every module also states its `TypeOK` (`FencingTypeOK` in `Fencing`), and
`NodeStateSync` who holds the dispatch semaphore (`SlotsHeld`). All are theorems; they
also hold in the same instances (add the name to the INVARIANTS of the configuration)
and are not part of the runs.

### Bounds

The safety hazards of actuation are between one machine's worker, the cycle and
the provider, so one machine with two workers and two clusters reaches them all;
two machines with a queue of one make the queue full while another worker is
busy. Nothing else is bounded there: cycles repeat for ever.

A conflict in Phase 1 needs two workers and two Needs; a displacement cascade
needs three Needs at three levels; a search that goes on in the second state needs
one Speculative machine beside two Idle ones. `Retries` = 2 lets a budget run out.
The channel has `Needs * (Retries + 2)` places as the code computes it (the code's
floor of 64 is out of reach of three Needs). A gang wants at least two machines,
as `NormalizeDemand` folds smaller ones. A spread of skew 1 and of skew 2 over two
domains, the cheap machines in one of them, pick different machines; one or both of
the plain Needs beside it take some of them away while it chooses.

In `cycle`, `Budget` counts changes of demand and rolled-back bootstraps; the fleets
are chosen so that preemption, parking and probing, folding, rivalry for a domain
and the reclaim cap each decide the outcome. In `ingest` the guard keeps its real
constants (10 rows, a tenth, 3 confirmations), so rows are 1 or 11; two sessions are
a reconnect, and their two workers all that can cross. Two wrong roll-ups are as
many as the guard tolerates; `Spent` has a behaviour do without one of them or
without the restart, since all together are too many states for liveness. In
`nodesync`, `Budgets` are three cases for the same reason: two bindings make an
update of the first meet the second, a reconnect meets the replay and a failing
call, and capacity changes often enough to go unnoticed. An outbox and a semaphore
of one are full at once: a drain waits for a node update's handler, a hint for the
one before it, and two hints never run at the same time there. `MaxLag` = 2 is the
create and the status patch of one handler, the most it writes: the next handler
finds the cache before, between or after them. What two bindings over two sessions
would add is left to the theorem `SettledIsShown`. In `demand` a third
CapacityRequest is the duplicate or the retry. Two replicas and four entries let a
replica be rebuilt in each of the four ways and lag behind the other: the two shards
are registered at the start, by the leader of the first term, and two more commands
follow, under it or under a successor while it does not know yet. In `reports` three
terms are a leader, its successor, and the first one again. Three incarnations are a
crash inside `LoadEpoch` between two others, or two zombies.

### Fairness

* Actuation: the cycle runs on a ticker (weak fairness of its steps); List may
  fail but not for ever (strong fairness of `ListProvider`); every wait of a
  worker is bounded by `BootstrapTimeout` or `ExecuteTimeout`; a provider
  completes what it acknowledged. None of sessions, faults or decisions.
* `OccCycle`: every goroutine that can run does. Go's mutexes and channels serve
  every waiter, and a blocked send or receive is not enabled.
* `DecisionCycle`: the cycle's ticker, the workers, the provider's completions,
  the hold timer, and a first roll-up of every cluster. A cycle is taken only
  when queued actions have been taken up (`Started`, see disagreement 8).
* `RollupIngest`: the operator's loops reconnect and roll up on tickers, correct
  roll-ups keep coming, the shard's handler, workers and cycle run. A Hello is
  handled in the end while its stream lives; that of a broken one at any time or
  never.
* `NodeStateSync`: both ends' loops and handlers run; API calls return, failing
  a bounded number of times; informers catch up. None of sessions or bindings.
* `DemandPipeline`: informers catch up, queued Pods are reconciled, calls return,
  roll-ups are taken and delivered on their ticker.
* `ShardReports`: the client's ticker and steps; a deposed leader notices (its
  lease); a report that is repeated for ever reaches the newest leader and its
  answer arrives (strong fairness: each single one may be lost).
* `Coordinator`, `Fencing`: safety only.

## 4. Disagreements met

One is a run of its own and a `finding` of `PROJECT.json`:

1. *Incremental mode loses a completion* (`reconcile.go:129`). A List sees the
   machine settled while its ledger entry is still there; the record is skipped,
   the cursor advances, and no later List returns it.

The others are behaviours of the models, and of the code, that its comments or
docs do not lead one to expect. The properties are stated so that they hold with
them. Where a statement "fails" below, it is a definition beside the property that
the runs check, and TLC finds the trace within seconds when it is named in the
configuration instead: `WipeHeld` for `WipeHeldUncrossed`, `GateMeansDemand` for
`BlindAtMostOnce` and `Converges` for `ConvergesUnlessOvertaken` in `ingest.cfg`,
`SettledAlwaysShown` for `SettledShown` and `HintAlwaysConverges` for `HintConverges`
in `nodesync.cfg`, and `SameInOneDomain` for `SameConfined` in `occ.cfg` with the
inputs `ScatteredInputs` and a third worker.

2. *A stale List undoes an asynchronous Configure*: listed Idle before the call,
   merged after the worker finished; the machine comes back Configured without
   its assignment, and a later Delete meets a bound host (`reconcile.go:132`;
   `BindingExact` and `DeleteOnlyUnbound` fail with staged Configure, and are
   proved without it).
3. *A session closed under the bootstrap costs the machine*: the send error is
   not a context error, so there is no rollback (`execute.go:327`), and *Failed is
   for ever*: no transition leaves it.
4. *Two workers fill one deficit* (`occ/cycle.go:286`): both read the same
   deficit of a re-queued Need, and the sequence number does not cover it.
5. *A gang is scattered* when virtual consumption by earlier gangs leaves it
   without a recorded domain: its Idle and its Speculative search choose one each
   (`SameInOneDomain` fails), against `docs/internals/decision-engine.md:85`, by which the
   pre-pass records a domain and confines the gang to it.
6. *Re-queues exceed the bound stated* at the channel's capacity: every claim
   carries its own budget. What holds is one per machine lost
   (`RequeuedOncePerMachine`).
7. *Fencing is per machine*: a zombie is not stopped for machines its successor
   has not touched, although `fencing.go:15` describes a mark per shard; a mark
   per shard would fence a live shard's concurrent workers. A crash between
   truncation and write of the epoch file leaves a shard that refuses to start.
8. *Queued actions are invisible to Phase 1* (`shard.go:908`): while the queue
   stands, the same Need is given further machines, which later cycles reclaim;
   with a queue that never empties the exchange is endless.
9. *Phase 2 preempts again* for a deficit whose victims are still draining, may
   pick victims of the preemptor's own cluster or ones Phase 3 reclaims anyway,
   and *never preempts in a fleet whose Configured machines have no instance
   type* (`inventory.go:307`: the lowest priority is computed only for states with
   a typed machine, against the comment "Account for state machines without
   instance type").
10. A plain Need recognises the machine created for it by fingerprint alone
    (`occ/seed.go:124`): of two clusters with one Profile the wrong one may be
    credited. The drain grace is an `int32` difference that wraps (`cost.go:102`).
11. *The first-rollup gate is read after the demand snapshot*: one cycle can
    reclaim on demand it has not heard (`BlindAtMostOnce` bounds it to one).
    *Roll-up workers cross* (`shard.go:460-483`): the worker of a replaced session
    can be between guard and table while the new one's is. A truncated roll-up that
    was admitted before there was a baseline then replaces a large table (`WipeHeld`
    fails), against `shard.go:448-451`, "the previous demand stays active — until
    consecutive roll-ups confirm the drop"; or a held one opens the gate over an empty
    table for as long as the other worker stalls (`GateMeansDemand` fails), against
    `shard.go:453-456`, by which the demand is then "real previously-reported state".
    *A late Hello wins* (`session.go:159`): handled after that of a later connection
    it closes the session that lives, whose stream stays up and whose roll-ups are
    dropped from then on (`Converges` of `RollupIngest` fails), although
    `docs/internals/static-stability.md:96` has the fresh demand back once the operator
    has reconnected.
12. *A frame of the replay can overtake a live one*, coalesced Draining and Idle
    updates leave the UpcomingNode Launched, machines unbound while there is no
    session are never replayed, and an update whose retries all fail is gone. The
    history variable `stale` marks all but the second, which `Shown` allows.
    *An update is lost to a lagging cache* (`upcoming.go:114`, `:204`): its handler
    finds no UpcomingNode although there is one, and the refetch after AlreadyExists
    reads the same cache; or it takes an old phase for the current one and writes
    nothing. Nobody sends it again (`SettledAlwaysShown` fails; `missed` marks it).
13. *A hint is lost to a lagging cache*: the upsert's Update conflicts, or its Create
    meets AlreadyExists, which counts as success (`upcoming.go:271`, `:283`); the
    shard has recorded the hint as sent (`HintAlwaysConverges` fails). The hint cache can
    also be poisoned by a send to a session that has just gone, and two concurrent
    handlers can leave the older hint (`raced` marks all three). The reclaim
    handler's phase patches match by NodeRef, which the shard never fills in, so
    they do nothing; its background drain goes by node name and may meet a
    rebound node.
14. *A Pod can have two CapacityRequests* (stale cache, generated names), against
    "one CR per Pod"; its demand counts twice until it is deleted. The phase can go
    Pending, Acknowledged, Pending, Acknowledged, against "single transition per
    CR". A request with Gt or Lt affinity is skipped in every roll-up.
15. A shard that reports no shortfalls keeps its old ones at the coordinator
    (`grpc_server.go:200`); a restarted shard forgets its domains and is not told
    again.

16. *A spread is kept within one proposal only*: `FindSpread` counts from zero in
    each call, so what the pre-pass credited, the Idle and the Speculative
    proposal, and a proposal after a displacement may add up to more than the skew.
    No property claims more.
17. `MatchProfile` accepts an instance type that a machine carries as a label only
    (`occ/match.go:69`), but a pinned Need's pool lists machines by
    `Profile.InstanceType` (`occ/poolcache.go:88`): such a machine is credited when
    bound and never acquired.

## 5. Proofs

The runs check small instances; the theorems below hold for every value of the
constants. Each follows the same pattern: an invariant that is inductive, checked
by TLC on the run's instance before it was proved, one lemma per action or group
of actions, and a temporal step at the end.

### Actuation

For every number of machines, workers, clusters and Needs, any queue capacity,
both reconcile modes, any set of staged operations and any faults:

* `TypeCorrect` — `TypeOK` of `ShardActuation` is an invariant.
* `LedgerIsExact` — `LedgerExact` is an invariant. It is inductive given
  `TypeOK`: the cycle adds an entry together with its queue element, a worker
  carries the element, and only `Finish` takes the entry back.
* `CommitsAreAccepted` — `CommitAccepted` is an invariant. It is not inductive;
  `InFlightInv` is: a worker past its opening write finds its machine in the
  transitional state it wrote, or dropped; every stored record satisfies the
  structural invariant; the ack it holds is one its operation can produce, with
  a host where the state demands one. The step cases rest on `LedgerExact`:
  reconcile leaves a driven machine alone because the ledger names it, and no
  other worker holds it. The consequence is that the `errProvisionRacedToIdle`
  branch of `executeBootstrap` is dead code since the skip of pending machines.
* `DriverWritesAlone` — the action property `OnlyDriverWrites`, from the ledger
  and `WriterMoves`: whoever writes a record moves its own program counter.

For a provider that completes Configure before it answers (`SyncConfigure`; any
other operation may be staged):

* `DeletesOnlyUnbound`, `BindingsAreExact` — `DeleteOnlyUnbound` and
  `BindingExact` are invariants. `BindingInv` follows what is known of a binding
  on its way: at the provider (`ProviderBinding`), in a List that is not merged
  yet (`ListedBinding`: where reconcile would still store a listed record, it is
  right about the binding, however old it is), in the inventory (`ShownBinding`)
  and in a worker's hands (`WorkerBinding`). Without the hypothesis both fail,
  by disagreement 2.

### Phase 1

For any Needs, machines, profiles, domains, workers, retries, channel capacity
and inputs of `OccCycle`:

* `OccTypeCorrect` — `TypeOK` is an invariant. It needs `BudgetLeft`: a proposal
  and a recorded claim have a retry left, so a decremented budget is a number.
* `ClaimIndexesAgree` — `IndexesAgree` is an invariant. The pre-pass credits only
  free machines (`SeededFree`), and what a commit wins was free or belonged to a
  Need whose reverse entry the commit removes (`PlanType`).
* `BarrierIsQuiet` — `BarrierQuiet` is an invariant. Inductive are `WgExact` (the
  WaitGroup counts queued Needs plus busy workers) and `DoneIsFinal`.
* `EvictionsGoUp` — the action property `EvictionOnlyUpward`: the claims change
  only by a pre-pass credit or a commit (`ClaimChange`).
* `PriorityDecides` — `NoInversion` is an invariant. From `EvictionsGoUp` a
  machine that is out of a Need's reach stays out of it (`Monotone`), so what a
  worker has read of its pool without a lock remains true (`SearchSound`, with
  `Walked` for the part of a walk that is behind it). `NobodyForgotten` is the
  invariant: a fed plain Need with a retry left is covered, has nothing left to
  take, or is queued, in a worker's hands or on a worker's list to be queued. Past
  the barrier the last three are impossible. That a Need is put on that list
  whenever a commit takes from it is `LossReported`.
* `RequeuesAreBounded` — `RequeuedOncePerMachine` is an invariant. For each Need,
  the re-queues done and those about to be done are at most the machines that are
  `Beyond` its reach (`LostForGood`), and machines never leave that set.
* `GangsConfined` — `SameConfined` is an invariant: a gang with a domain recorded by
  the pre-pass holds machines of that domain only, all through the cycle. Without
  the condition it is `SameInOneDomain`, which fails (disagreement 5).

### The closed loop

For any fleet at rest, any Needs, Profiles, priorities and roll-ups, and any
reclaim cap:

* `DecisionTypeCorrect` — `TypeOK` of `DecisionCycle` is an invariant. It is
  inductive with two additions: an age stays below the probe that wraps it, and a
  machine that is being created or configured has the action that says for whom.
* `ReclaimsLeaveDemandCovered` — the action property `ReclaimsOnlyExcess`. A
  machine that a cycle reclaims is claimed by nobody, so the walk of every plain
  row that could have been credited with it stopped before it, and the Configured
  machines the row took first cover it (`WalkCovers`, `StepCovers`). They stay
  claimed while the fold goes on (`CoverStays`), and the fold comes to every row
  (`EveryRowHasItsTurn`), since no two rows share a place (`RowsAre`,
  `FoldedApart`). No machine is claimed for two rows (`Exclusive`), so what covers
  the rows one by one covers them together (`CoveredTogether`, an injection of the
  units wanted into the units bound).

### Fencing

For any number of machines, incarnations and calls:

* `FencingTypeCorrect`, `EpochsAlwaysGrow`, `OnlyOvertakenFenced` and the action
  property `CallsPassInOrder`. `EpochsGrow` is inductive with `StartOrder` (one
  process at a time is in `LoadEpoch`, later ones have not started) and `EpochTop`
  (no epoch is above the file, or above the value read by the process that has
  emptied it). `CallsStamped`, `NumbersFresh` and `MarkIsTop` then make the order
  of tokens the order of calls (`TokenOrder`), from which both statements about
  `checkFence` follow.

### Coordinator

For any replicas, shards, clusters and domains, any founding fleet, any number of
entries and elections:

* `CoordinatorTyped`, `ReplicasNeverDisagree`, `LogTermsGrow`. The history of
  states is the log replayed from the empty state (`Replayed`), and every snapshot
  and the archive are those of the entry they name (`SnapshotsFaithful`). That
  `Restore` gives back the state a snapshot was taken of needs `WellFormed`: every
  binding is to a registered shard, otherwise `Restore`, which drops the error of
  the assignments it replays, would lose it.
* `CoordinatorImplementsAssignment` — `ImplementsAssignment`, the refinement of
  `Assignment`. Each command maps to an abstract step or a stutter, and a restore
  from the archive to `Rollback`, since the archive is a past state.

### Ingest

For any number of rows, sessions, generations, restarts, and any threshold,
fraction and count of confirmations of the guard:

* `IngestTyped`, `BlindOnce` (`BlindAtMostOnce`). Unless workers have crossed, the
  gate opens over a table that is filled and marked dirty (`GateAfterReport`,
  `SnapshotFresh`), so the next cycle reads it (`BlindThenSeen`): a roll-up is held
  only against a baseline, and the baseline is the table's (`BaselineInForce`).
* `LargeDemandKept` — the action property `WipeHeldUncrossed`, from the assumption that
  wrong roll-ups are fewer than the confirmations asked for. Every truncated roll-up on
  the way, and every one the guard has counted, is a fault of its own
  (`WipedWereFaults`, `HeldWereWiped`), and a correct one never has fewer rows than
  the smallest demand there was (`lowest`, `Truthful`). Between the guard and the
  table the decision must stay good: without a crossing one worker is there
  (`OneInside`), what it carries has been compared with the table that it will
  replace (`AdmittedConfirmed`), and guard and table agree when nobody is. `crossed`
  ends when a worker that is alone stores the roll-up the baseline is of.

### Reports

For any replicas, instructions, terms, reports in flight and restarts:

* `ReportsTyped`, `InstructionsInOrder` (`ExecutedInOrder`). What has not run is
  numbered after everything of its term that has (`OrderLeft`); it is inductive
  because an answer holds everything its leader had queued (`AnswerComplete`), the
  client has one report under way (`LiveOne`), the term mark stops a deposed
  leader's instructions and `handledIDs` the repeated ones.
* `InstructionsNotLost` — the action property `DroppedOnlyWhenHandled`. `clearAcked`
  compares ids only; that suffices because every ack under way, late or repeated,
  was earned (`AcksEarned`).

### Node updates

For any machines, sessions, bindings and failing API calls, and any sizes of the
semaphore, the outbox and the stream:

* `SettledIsShown` — `SettledShown` is an invariant, for any lag of the cache. It
  speaks only of a machine with nothing on its way; the inductive invariant speaks of
  all of them. A machine's updates reach the API server in the order stream,
  coalescer, worker, and the last one in that order is right (`LastRight`, a statement
  on the last frame of the machine on the stream, and without one on what is behind
  it): a transition leaves its update to notify, which supersedes all others
  (`NotifiesLast`), a replayed frame is right unless the machine has moved, and then
  either that update is still to come or `stale` says so, and a break loses only what
  `stale` records (`AllRight`, `DownQuiet`). The lemmas on the stream (`AppendOwn`,
  `TailOwn`, `AbandonedKeeps`) say what becomes of the last frame when one is added,
  taken or given up.
* `SyncTypeCorrect`, `SemaphoreHeld` — `TypeOK` and `SlotsHeld` are invariants. The
  semaphore's bound is not inductive without knowing who holds it: `SlotInv` counts
  the workers, the reclaim handlers and the hints, and says that a machine is marked
  in flight exactly while it has a worker (`Marked`), so that coalescing never takes
  a second place; a hint that is handled leaves one less (`RemoveOne`).
* `MissedOnlyBehind` — an update is missed only by a handler that runs while the
  informer is behind, so with a current cache `SettledShown` holds without exception.
  `CacheInv`: what the cache has and the versions on their way lead to what the API
  server has.

### Demand

For any Pods and any specs the API server admits — any number of containers, init
containers and sidecars, any resources, requirements, gangs and penalties — any
bound on CapacityRequests and any faults:

* `DemandTypeCorrect` — `TypeOK` of `DemandPipeline` is an invariant.
* `RequestsArePeak` — `RequestIsPeak` is an invariant. A request exists only for a
  Pod with a spec (`OnlyPods`), so this is a statement about the translation: what
  `initStages` returns is the sum of the sidecars and the greatest of the stages
  (`InitStagesAre`), sums of vectors are sums of numbers (`AddIs`, `AddAllIs`), and
  the walk of `BucketForDollars` ends at the least bucket that holds the penalty
  (`WalkIs`, `BucketIs`).
* `AcksAreReported` — the action property `AcknowledgedWhenReported`. Whatever
  `acknowledgeAll` has yet to acknowledge is in the demand on its way to the shard,
  or there (`PendingReported`). It is when the roll-up is built, because every
  request is on the list (`ListedAre`), every Need finds a row of `Aggregate` that
  covers it (`AggregateIs`), and the shard decodes the rows it was sent, refusing none
  (`RoundTrip`, where the bucket bounds above are needed again); it remains so since
  a new request has a fresh id (`NextIdIs`) and a lost session forgets what was
  pending together with the roll-up.

Recursive functions are chosen functions to the prover. A solution of the equation
is built step by step (`Recursion`), so that the chosen function satisfies it, and
inductions over sets of numbers (`StepInduction`) say what it computes; `SumIsCount`
does the same for the sums of the community modules.

### Assumptions, and what is left to TLC

The assumptions are the named `ASSUME`s of the modules: `None` is no cluster, no
Need and no shard, capacities and budgets are positive numbers, sets of workers
and machines are finite where they are counted, bounds are numbers, an input of
Phase 1 does not list a machine both as credited and as a candidate, the fleet
`DecisionCycle` starts from is at rest with exactly its Configured machines bound, in
`RollupIngest` `MaxFaults < Consecutive`, and in `DemandPipeline` Pods are such as
the API server admits (`IsPod`: requests are not negative, `whenUnsatisfiable` is one
of its two values) and `Nil` is no resource vector.

Only model-checked: all liveness properties, since fairness is out of the prover's
reach; `BindingExact` and `DeleteOnlyUnbound` for a staged Create, Drain or Delete
are proved, for a staged Configure they are false. `crossed` and `missed` except from
the theorems about ingest and nodes what disagreements 11 and 12 describe.

## 6. Plan

1. Spread Needs in `DecisionCycle` (Phase 2 and 3 treat them as plain ones), and a
   vector of two resources in `OccCycle`.

## 7. Not modelled

* `EnqueueInstruction` stamps and stores an instruction in one step of `ShardReports`.
  In the code two concurrent callers with a report between them could have the second
  one run first; nothing calls it yet, and ADR-0055 plans a single caller.
* The epoch file survives a crash of the process, not necessarily of the host:
  `LoadEpoch` does not sync it (`Fencing` has the process crashes only). A shard's
  restart in `ShardActuation` drops the provider calls it had in flight.
* TLS and identities, metrics, the read APIs and views, provisioning-latency
  bookkeeping, command-line wiring: they change no state the properties are about.
* Raft itself and its membership changes, the Kubernetes API server, pods and
  Node objects: external, modelled only as far as this code sees them.
* Shard summaries and shortfalls, which are only displayed; labels and resources
  of an UpcomingNode's spec; grace periods and other durations.
* The field-by-field conversion of machines, the scale-test simulator (`sim/`,
  `pkg/scaletest`) and generated code.
