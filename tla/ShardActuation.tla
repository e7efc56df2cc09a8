--------------------------- MODULE ShardActuation ---------------------------
(***************************************************************************)
(* How one shard turns decisions into machines: the cycle goroutine        *)
(* (pkg/shard/shard.go runCycleCapturing, reconcile.go), the bounded       *)
(* action queue with its pendingActions ledger, and the pool of execute    *)
(* workers (execute.go), all writing one inventory and calling one         *)
(* capacity provider.                                                      *)
(*                                                                         *)
(* Threads.  The cycle and every worker are separate goroutines.  A step   *)
(* here is what a goroutine does between two points where another one can  *)
(* be seen: a provider call, a wait for a bootstrap blob, a lock released. *)
(* The three decision phases are abstracted to the actions they may emit   *)
(* on the snapshot they saw; the rails that only drop actions (reclaim     *)
(* cap, MaxActionsPerCycle, pause, dry run) are the cycle ending early.    *)
(*                                                                         *)
(* cycle    where the cycle is: "sleep", "apply" (List returned, records   *)
(*          being merged), "decide", "emit" and "enqueue" (an action found *)
(*          applicable, the ledger not yet looked at).                     *)
(* listed   the records of the last List not yet merged; seen, all of them.*)
(* plan     the <<machine, kind>> pairs the snapshot still justifies.      *)
(* emitting the action between its two emission checks.                    *)
(* pending  pendingActions: machines with an action queued or in flight.   *)
(* worker   what each execute worker is doing.                             *)
(* session  which clusters have a live operator session.                   *)
(***************************************************************************)
EXTENDS CapacityProvider, Inventory, Sequences, FiniteSets, Integers

CONSTANTS Workers,      \* ExecuteConcurrency goroutines
          QueueCap,     \* cap(actionQueue)
          Incremental,  \* Config.IncrementalReconcile
          Emits,        \* the kinds of action the decision phases emit
          Faults        \* which of "fail", "remove", "crash" may happen

ASSUME QueueAssumption == QueueCap \in Nat \ {0}

ASSUME FaultsAssumption == Faults \subseteq { "fail", "remove", "crash" }

VARIABLES cycle, listed, seen, plan, emitting, pending, queue, worker, session

cycleVars == << cycle, listed, seen, plan, emitting >>

vars == << prov, ops, delta, inv, cycle, listed, seen, plan, emitting,
           pending, queue, worker, session >>

-----------------------------------------------------------------------------
Kinds == { "Bootstrap", "Provision", "Preempt", "Reclaim", "Delete" }

ASSUME EmitsAssumption == Emits \subseteq Kinds

\* decision.Action; a drain or a delete is for no Need.
Assigning == { "Bootstrap", "Provision" }

Action == [ kind : Assigning, m : Machines, cluster : Clusters, need : Needs ]
            \cup [ kind : Kinds \ Assigning, m : Machines, cluster : { None }, need : { None } ]

NoAction == [ kind |-> "none" ]

\* The state the phases select each kind of action on, which is also what
\* actionStillApplicable re-checks.
StartState(k) ==
  CASE k = "Bootstrap" -> "Idle"
    [] k = "Provision" -> "Speculative"
    [] k \in { "Preempt", "Reclaim" } -> "Configured"
    [] k = "Delete"    -> "Idle"

WorkerPCs == { "idle", "begin", "bootstrap", "blob", "call", "ack", "err", "finish" }

IdleWorker == [ pc |-> "idle", act |-> NoAction, op |-> "Create", ack |-> NoListing ]

WorkerRecord == [ pc : WorkerPCs, act : Action \cup { NoAction },
                  op : Ops, ack : ProvRecord ]

Busy == { w \in Workers : worker[w].pc # "idle" }

Queued == { queue[i].m : i \in DOMAIN queue }

Driven == { worker[w].act.m : w \in Busy }

\* Every variable has its type, and a worker has an action while it is busy.
TypeOK ==
  /\ ProvTypeOK
  /\ InvTypeOK
  /\ cycle \in { "sleep", "apply", "decide", "emit", "enqueue" }
  /\ listed \in [ Machines -> ProvRecord ]
  /\ seen \subseteq Machines
  /\ plan \subseteq Machines \X Kinds
  /\ emitting \in Action \cup { NoAction }
  /\ cycle = "enqueue" => emitting \in Action
  /\ pending \subseteq Machines
  /\ queue \in Seq(Action)
  /\ worker \in [ Workers -> WorkerRecord ]
  /\ \A w \in Busy : worker[w].act \in Action
  /\ session \in [ Clusters -> BOOLEAN ]

\* A process that has just started: New and Run.  Nothing is known until the
\* first List, whose cursor is empty and so returns everything.
Fresh(i, c, l, s, p, e, pend, q, wk, sess) ==
  /\ i = [ m \in Machines |-> NoRecord ]
  /\ c = "sleep"
  /\ l = [ m \in Machines |-> NoListing ]
  /\ s = {}
  /\ p = {}
  /\ e = NoAction
  /\ pend = {}
  /\ q = << >>
  /\ wk = [ w \in Workers |-> IdleWorker ]
  /\ sess = [ cl \in Clusters |-> FALSE ]

Init ==
  /\ ProvInit
  /\ Fresh(inv, cycle, listed, seen, plan, emitting, pending, queue, worker, session)

-----------------------------------------------------------------------------
(* The cycle goroutine. *)

\* What the List call of the configured mode returns for m: with a cursor only
\* what changed since, and never a machine the provider no longer has.
Returned(m) == prov[m].state # "Absent" /\ (Incremental => m \in delta)

\* reconcileFull / reconcileIncremental, the List call.  The cursor is stored
\* once the records are merged; nothing reads it in between.
ListProvider ==
  /\ cycle = "sleep"
  /\ cycle' = "apply"
  /\ listed' = [ m \in Machines |-> IF Returned(m) THEN prov[m] ELSE NoListing ]
  /\ seen' = { m \in Machines : Returned(m) }
  /\ delta' = {}
  /\ UNCHANGED << prov, ops, inv, plan, emitting, pending, queue, worker, session >>

\* The List call fails: the cycle goes on with what it has, the cursor stays.
ListFails ==
  /\ cycle = "sleep"
  /\ cycle' = "decide"
  /\ UNCHANGED << prov, ops, delta, inv, listed, seen, plan, emitting,
                  pending, queue, worker, session >>

\* Faulty variant of Ingested: the echo is not decoded.
IngestedNoDecode(m, dm) ==
  [ inv[m] EXCEPT !.state = dm.state, !.host = dm.host, !.cluster = dm.cluster,
                  !.lastError = IF dm.state = "Failed" THEN "provider" ELSE None ]

\* The record applyReconciledMachine stores for dm.  For a machine it knows
\* the assignment stays while the machine is bound and goes otherwise; for one
\* it does not know the assignment is decoded from the provider's echo.
Ingested(m, dm) ==
  LET known  == inv[m].state # "Absent"
      kept(x) == IF dm.state \in Bound THEN x ELSE None
  IN  [ state     |-> dm.state,
        host      |-> dm.host,
        cluster   |-> dm.cluster,
        need      |-> IF known THEN kept(inv[m].need) ELSE dm.meta,
        prot      |-> IF known THEN kept(inv[m].prot) ELSE dm.meta,
        lastError |-> IF dm.state = "Failed" THEN "provider" ELSE None ]

\* Faulty variants of Reconciled: no skip of pending machines; a skip of every
\* machine the shard has in a transitional state.
ReconciledUnguarded(m) ==
  IF inv[m].state = listed[m].state THEN inv ELSE Written(m, Ingested(m, listed[m]))

ReconciledSkipsInFlight(m) ==
  IF m \in pending \/ inv[m].state \in Transitional \cup { listed[m].state } THEN inv
  ELSE Written(m, Ingested(m, listed[m]))

\* applyReconciledMachine: skip a machine with an action pending, skip a
\* machine already in that state, otherwise try to write the record.
Reconciled(m) ==
  IF m \in pending \/ inv[m].state = listed[m].state THEN inv
  ELSE Written(m, Ingested(m, listed[m]))

ApplyReconciledMachine(m) ==
  /\ cycle = "apply"
  /\ listed[m].state # "Absent"
  /\ inv' = Reconciled(m)
  /\ listed' = [ listed EXCEPT ![m] = NoListing ]
  /\ UNCHANGED << prov, ops, delta, cycle, seen, plan, emitting,
                  pending, queue, worker, session >>

\* The end of reconcile.  The full mode drops every machine the List did not
\* name, in flight or not; the incremental mode drops none.
ReconcileDone ==
  /\ cycle = "apply"
  /\ \A m \in Machines : listed[m].state = "Absent"
  /\ cycle' = "decide"
  /\ inv' = IF Incremental THEN inv ELSE Pruned(seen)
  /\ seen' = {}
  /\ UNCHANGED << prov, ops, delta, listed, plan, emitting,
                  pending, queue, worker, session >>

\* Snapshot and phases 1 to 3: every action the snapshot could justify.
Decide ==
  /\ cycle = "decide"
  /\ cycle' = "emit"
  /\ plan' = { p \in Machines \X Emits : inv[p[1]].state = StartState(p[2]) }
  /\ UNCHANGED << prov, ops, delta, inv, listed, seen, emitting,
                  pending, queue, worker, session >>

\* Phase 1 claims a machine once and Phase 3 leaves claimed machines alone, so
\* a machine gets one action a cycle; only a Phase 2 victim may be reclaimed
\* by Phase 3 as well.
Rest(m, k) ==
  { p \in plan : p[1] # m \/ (k = "Preempt" /\ p[2] = "Reclaim") }

actionStillApplicable(m, k) == inv[m].state \in { "Absent", StartState(k) }

\* The live-state guard of the emission loop.
CheckApplicable(m, k) ==
  /\ cycle = "emit"
  /\ << m, k >> \in plan
  /\ plan' = Rest(m, k)
  /\ IF actionStillApplicable(m, k)
     THEN /\ cycle' = "enqueue"
          /\ IF k \in Assigning
             THEN \E c \in Clusters, n \in Needs :
                    emitting' = [ kind |-> k, m |-> m, cluster |-> c, need |-> n ]
             ELSE emitting' = [ kind |-> k, m |-> m, cluster |-> None, need |-> None ]
     ELSE UNCHANGED << cycle, emitting >>
  /\ UNCHANGED << prov, ops, delta, inv, listed, seen,
                  pending, queue, worker, session >>

\* Faulty variant of Enqueue: the ledger entry stays when the queue is full.
EnqueueLeaksEntry ==
  /\ cycle = "enqueue"
  /\ cycle' = "emit"
  /\ emitting' = NoAction
  /\ pending' = pending \cup { emitting.m }
  /\ queue' = IF emitting.m \notin pending /\ Len(queue) < QueueCap
              THEN Append(queue, emitting) ELSE queue
  /\ UNCHANGED << prov, ops, delta, inv, listed, seen, plan, worker, session >>

\* The ledger check and the non-blocking send: a machine already pending is
\* skipped, and when the queue is full the ledger entry is taken back.
Enqueue ==
  /\ cycle = "enqueue"
  /\ cycle' = "emit"
  /\ emitting' = NoAction
  /\ IF emitting.m \notin pending /\ Len(queue) < QueueCap
     THEN /\ pending' = pending \cup { emitting.m }
          /\ queue' = Append(queue, emitting)
     ELSE UNCHANGED << pending, queue >>
  /\ UNCHANGED << prov, ops, delta, inv, listed, seen, plan, worker, session >>

EndCycle ==
  /\ cycle = "emit"
  /\ cycle' = "sleep"
  /\ plan' = {}
  /\ UNCHANGED << prov, ops, delta, inv, listed, seen, emitting,
                  pending, queue, worker, session >>

-----------------------------------------------------------------------------
(* The execute workers. *)

\* Where worker w goes, and what it writes to its machine's record.
Goto(w, pc) == worker' = [ worker EXCEPT ![w].pc = pc ]

Target(w) == worker[w].act.m

Record(w) == inv[Target(w)]

\* A step of worker w that involves neither the provider nor the ledger.
Local == UNCHANGED << prov, ops, delta, cycle, listed, seen, plan, emitting,
                      pending, queue, session >>

\* executeWorker receives an action.
Take(w) ==
  /\ worker[w].pc = "idle"
  /\ queue # << >>
  /\ worker' = [ worker EXCEPT ![w] = [ IdleWorker EXCEPT !.pc = "begin", !.act = Head(queue) ] ]
  /\ queue' = Tail(queue)
  /\ UNCHANGED << prov, ops, delta, inv, cycle, listed, seen, plan, emitting,
                  pending, session >>

\* The opening of every executor: the machine must be in the state the action
\* starts from, then its transitional record r is written and the worker goes
\* on to pc for operation op.  In any other state the executor returns.
Open(w, start, r, op, pc) ==
  /\ IF Record(w).state = start /\ Accepted(Target(w), r)
     THEN /\ inv' = Written(Target(w), r)
          /\ worker' = [ worker EXCEPT ![w].pc = pc, ![w].op = op ]
     ELSE /\ UNCHANGED inv
          /\ Goto(w, "finish")
  /\ Local

\* executeProvision up to provider.Create.
executeProvision(w) ==
  /\ worker[w].pc = "begin"
  /\ worker[w].act.kind = "Provision"
  /\ Open(w, "Speculative",
          [ Record(w) EXCEPT !.state = "Creating", !.need = worker[w].act.need ],
          "Create", "call")

\* executeBootstrap up to the blob: for a Bootstrap action, and as the second
\* half of a Provision whose Create reached Idle.  Already configured for the
\* same cluster and Need is a success, any other state but Idle an error; both
\* return.
executeBootstrap(w) ==
  /\ \/ worker[w].pc = "begin" /\ worker[w].act.kind = "Bootstrap"
     \/ worker[w].pc = "bootstrap"
  /\ Open(w, "Idle",
          [ Record(w) EXCEPT !.state = "Configuring", !.cluster = worker[w].act.cluster,
                             !.need = worker[w].act.need ],
          "Configure", "blob")

\* executeDrain up to provider.Drain.
executeDrain(w) ==
  /\ worker[w].pc = "begin"
  /\ worker[w].act.kind \in { "Preempt", "Reclaim" }
  /\ Open(w, "Configured", [ Record(w) EXCEPT !.state = "Draining" ], "Drain", "call")

\* executeDelete up to provider.Delete.
executeDelete(w) ==
  /\ worker[w].pc = "begin"
  /\ worker[w].act.kind = "Delete"
  /\ Open(w, "Idle", [ Record(w) EXCEPT !.state = "Deleting" ], "Delete", "call")

-----------------------------------------------------------------------------
(* The bootstrap blob. *)

\* No operator session for the cluster, or the wait ran into the context's
\* deadline: roll back to Idle.  The assignment stamps are left as they are.
RolledBack(w) == [ Record(w) EXCEPT !.state = "Idle", !.cluster = None, !.lastError = None ]

BlobUnavailable(w) ==
  /\ worker[w].pc = "blob"
  /\ inv' = Written(Target(w), RolledBack(w))
  /\ Goto(w, "finish")
  /\ Local

\* requestBootstrap returns an error that is not the context's: the operator
\* answered with one, or the session was closed between lookup and send.
BlobRefused(w, why) ==
  /\ worker[w].pc = "blob"
  /\ session[worker[w].act.cluster]
  /\ inv' = Written(Target(w), [ Record(w) EXCEPT !.state = "Failed", !.lastError = why ])
  /\ Goto(w, "finish")
  /\ Local

BlobArrives(w) ==
  /\ worker[w].pc = "blob"
  /\ session[worker[w].act.cluster]
  /\ Goto(w, "call")
  /\ UNCHANGED inv
  /\ Local

-----------------------------------------------------------------------------
(* The provider call and what the executor makes of its outcome. *)

Serving(w) ==
  Serve(Target(w), worker[w].op, worker[w].act.cluster, worker[w].act.need)

CallServed(w) ==
  /\ worker[w].pc = "call"
  /\ Serving(w)
  /\ worker' = [ worker EXCEPT ![w].pc = "ack", ![w].ack = prov'[Target(w)] ]
  /\ UNCHANGED << inv, cycle, listed, seen, plan, emitting, pending, queue, session >>

\* The provider refuses (unknown machine, invalid transition, fenced, an
\* injected failure), or the request never reaches it.
CallRefused(w) ==
  /\ worker[w].pc = "call"
  /\ Goto(w, "err")
  /\ UNCHANGED inv
  /\ Local

\* The provider did the work, the answer did not come back before
\* ExecuteTimeout (or a Create ack failed validation): an error all the same.
AnswerLost(w) ==
  /\ worker[w].pc = "call"
  /\ Serving(w)
  /\ Goto(w, "err")
  /\ UNCHANGED << inv, cycle, listed, seen, plan, emitting, pending, queue, session >>

\* Faulty variant of CommitFailure: a failed Configure is rolled back to Idle
\* although the provider may have done it.
CommitFailureRollsBack(w) ==
  /\ worker[w].pc = "err"
  /\ inv' = Written(Target(w),
             IF worker[w].op = "Configure" THEN RolledBack(w)
             ELSE [ Record(w) EXCEPT !.state = "Failed", !.lastError = "provider" ])
  /\ Goto(w, "finish")
  /\ Local

CommitFailure(w) ==
  /\ worker[w].pc = "err"
  /\ inv' = Written(Target(w), [ Record(w) EXCEPT !.state = "Failed", !.lastError = "provider" ])
  /\ Goto(w, "finish")
  /\ Local

\* The record each executor writes for its ack.  executeBootstrap takes the
\* cluster from the action, not from the ack.
Acked(w) ==
  LET a == worker[w].ack  r == Record(w)
  IN  CASE worker[w].op = "Create" ->
             [ r EXCEPT !.state = a.state, !.host = a.host ]
        [] worker[w].op = "Configure" ->
             [ r EXCEPT !.state = a.state, !.host = a.host, !.cluster = worker[w].act.cluster,
                        !.need = worker[w].act.need, !.prot = worker[w].act.need ]
        [] worker[w].op = "Drain" ->
             [ r EXCEPT !.state = "Idle", !.host = (@ \/ a.host), !.cluster = None,
                        !.need = None, !.prot = None ]
        [] worker[w].op = "Delete" ->
             IF a.state = "Speculative"
             THEN [ r EXCEPT !.state = a.state, !.host = FALSE, !.cluster = None ]
             ELSE [ r EXCEPT !.state = a.state ]

\* A Drain acknowledged in Draining writes nothing: reconcile finishes it.
WritesAck(w) == worker[w].op = "Drain" => worker[w].ack.state = "Idle"

CommitAck(w) ==
  /\ worker[w].pc = "ack"
  /\ inv' = IF WritesAck(w) THEN Written(Target(w), Acked(w)) ELSE inv
  /\ worker' = [ worker EXCEPT
       ![w].ack = NoListing,
       ![w].pc  = IF /\ worker[w].op = "Create"
                     /\ worker[w].ack.state = "Idle"
                     /\ Accepted(Target(w), Acked(w))
                  THEN "bootstrap" ELSE "finish" ]
  /\ Local

\* Faulty variant of Finish: the ledger entry goes only on success.
FinishOnSuccessOnly(w) ==
  /\ worker[w].pc = "finish"
  /\ pending' = IF Record(w).state = "Failed" THEN pending ELSE pending \ { Target(w) }
  /\ worker' = [ worker EXCEPT ![w] = IdleWorker ]
  /\ UNCHANGED << prov, ops, delta, inv, cycle, listed, seen, plan, emitting,
                  queue, session >>

\* The executor has returned, whatever its result: the ledger entry goes.
Finish(w) ==
  /\ worker[w].pc = "finish"
  /\ pending' = pending \ { Target(w) }
  /\ worker' = [ worker EXCEPT ![w] = IdleWorker ]
  /\ UNCHANGED << prov, ops, delta, inv, cycle, listed, seen, plan, emitting,
                  queue, session >>

-----------------------------------------------------------------------------
(* The surroundings. *)

\* installSession and removeSession.
SessionChange(c) ==
  /\ session' = [ session EXCEPT ![c] = ~@ ]
  /\ UNCHANGED << prov, ops, delta, inv, cycle, listed, seen, plan, emitting,
                  pending, queue, worker >>

\* Out-of-band provider steps.
ProviderCompletes(m) ==
  /\ CompleteStaged(m)
  /\ UNCHANGED << inv, cycle, listed, seen, plan, emitting, pending, queue, worker, session >>

ProviderFails(m) ==
  /\ "fail" \in Faults
  /\ FailMachine(m)
  /\ UNCHANGED << inv, cycle, listed, seen, plan, emitting, pending, queue, worker, session >>

ProviderLoses(m) ==
  /\ "remove" \in Faults
  /\ RemoveMachine(m)
  /\ UNCHANGED << inv, cycle, listed, seen, plan, emitting, pending, queue, worker, session >>

\* The process dies and a new one starts: memory is gone, the cursor is empty.
Restart ==
  /\ "crash" \in Faults
  /\ Fresh(inv', cycle', listed', seen', plan', emitting', pending', queue', worker', session')
  /\ delta' = Machines
  /\ UNCHANGED << prov, ops >>

-----------------------------------------------------------------------------
CycleStep ==
  \/ ListProvider
  \/ ListFails
  \/ \E m \in Machines : ApplyReconciledMachine(m)
  \/ ReconcileDone
  \/ Decide
  \/ \E m \in Machines, k \in Kinds : CheckApplicable(m, k)
  \/ Enqueue
  \/ EndCycle

\* What a worker does once it has an action; each of its waits is bounded by
\* BootstrapTimeout or ExecuteTimeout.
ExecuteStep(w) ==
  \/ executeProvision(w)
  \/ executeBootstrap(w)
  \/ executeDrain(w)
  \/ executeDelete(w)
  \/ BlobUnavailable(w)
  \/ \E why \in { "operator", "session" } : BlobRefused(w, why)
  \/ BlobArrives(w)
  \/ CallServed(w)
  \/ CallRefused(w)
  \/ AnswerLost(w)
  \/ CommitFailure(w)
  \/ CommitAck(w)
  \/ Finish(w)

WorkerStep(w) == Take(w) \/ ExecuteStep(w)

Environment ==
  \/ \E c \in Clusters : SessionChange(c)
  \/ \E m \in Machines : ProviderCompletes(m) \/ ProviderFails(m) \/ ProviderLoses(m)
  \/ Restart

Next == CycleStep \/ (\E w \in Workers : WorkerStep(w)) \/ Environment

Spec == Init /\ [][Next]_vars

\* The cycle fires on a ticker and the workers run, a List does not fail for
\* ever, and a provider finishes what it has acknowledged.
FairSpec ==
  /\ Spec
  /\ WF_vars(CycleStep)
  /\ SF_vars(ListProvider)
  /\ \A w \in Workers : WF_vars(WorkerStep(w))
  /\ \A m \in Machines : WF_vars(ProviderCompletes(m))
-----------------------------------------------------------------------------
(* Safety. *)

\* pendingActions is exact: a machine is in it just when an action for it is
\* queued or being executed, and there is never a second one.  Everything the
\* reconcile and emission paths conclude from isPending rests on this; it
\* would be lost by an entry not taken back on a full queue (a machine never
\* touched again) or taken back too early (two workers on one machine).
LedgerExact ==
  /\ pending = Queued \cup Driven
  /\ Queued \cap Driven = {}
  /\ \A i, j \in DOMAIN queue : queue[i].m = queue[j].m => i = j
  /\ \A v, w \in Busy : worker[v].act.m = worker[w].act.m => v = w

\* The transition an executor commits after its provider call is never refused
\* by the state machine while the machine is still in the inventory: the
\* errProvisionRacedToIdle branch of executeBootstrap and its post-Create,
\* post-Drain and post-Delete siblings are not reached.
CommitAccepted ==
  \A w \in Busy : Record(w).state # "Absent" =>
    /\ worker[w].pc = "ack" /\ WritesAck(w) => Accepted(Target(w), Acked(w))
    /\ worker[w].pc = "err" => CanTransition(Record(w).state, "Failed")

\* Why CommitAccepted holds, as an invariant of every step.  A worker past its
\* opening write finds its machine in the transitional state it wrote, or
\* dropped; the ack it holds is one its operation can produce; only an action
\* with a cluster reaches Create or Configure.
HostOf(state, host) ==
  state \in States \ { "Failed" } => (host <=> state \notin { "Speculative", "Creating" })

InFlight(w) ==
  /\ worker[w].pc = "blob" => worker[w].op = "Configure"
  /\ worker[w].pc \in { "blob", "call", "ack", "err" } =>
       Record(w).state \in { "Absent", TransitionalOf(worker[w].op) }
  /\ worker[w].pc = "bootstrap" => worker[w].act.kind \in Assigning
  /\ worker[w].pc \in { "blob", "call", "ack" } /\ worker[w].op \in { "Create", "Configure" } =>
       worker[w].act.kind \in Assigning
  /\ worker[w].pc = "ack" =>
       /\ worker[w].ack.state \in { TransitionalOf(worker[w].op), StableOf(worker[w].op) }
       /\ HostOf(worker[w].ack.state, worker[w].ack.host)

InFlightInv ==
  /\ \A m \in Machines : HostOf(prov[m].state, prov[m].host)
  /\ \A m \in Machines : inv[m].state # "Absent" =>
       Invariant(inv[m].state, inv[m].host, inv[m].cluster, inv[m].lastError)
  /\ \A w \in Busy : InFlight(w)

\* What the shard believes of a machine no worker is driving is what the
\* provider has: the cluster it joined and the protection state echoed in
\* shard_metadata, across restarts ("write-once keeps the provider copy exact,
\* with no drift window", executeBootstrap).
BindingExact ==
  \A m \in Machines \ pending :
    inv[m].state = "Configured" /\ prov[m].state = "Configured" =>
      /\ inv[m].cluster = prov[m].cluster
      /\ inv[m].need = prov[m].meta
      /\ inv[m].prot = prov[m].meta

\* provider.Delete releases a host, so it is only ever called for a machine
\* the provider has bound to no cluster: executeDelete judged that by the
\* shard's own record.
DeleteOnlyUnbound ==
  \A w \in Busy : worker[w].pc = "call" /\ worker[w].op = "Delete" =>
    prov[Target(w)].cluster = None

-----------------------------------------------------------------------------
(* What a step may never do. *)

\* While a worker is driving a machine, its record is written by that worker
\* alone, unless the machine is dropped from the inventory: reconcile's stale
\* List never reaches it (the skip in applyReconciledMachine), and no other
\* worker does.
OnlyDriverWrites ==
  [][ \A w \in Workers :
        w \in Busy /\ inv'[Target(w)] # inv[Target(w)] =>
          worker'[w] # worker[w] \/ inv'[Target(w)].state = "Absent" ]_vars

-----------------------------------------------------------------------------
(* Liveness. *)

\* An accepted action is executed and its ledger entry cleared.
PendingDrains == \A m \in Machines : m \in pending ~> m \notin pending

\* No machine stays in a transitional state: what an executor leaves to be
\* completed out of band is picked up by a later reconcile.
InFlightResolves ==
  \A m \in Machines : inv[m].state \in Transitional ~> inv[m].state \notin Transitional
=============================================================================
