---------------------------- MODULE NodeStateSync ----------------------------
(***************************************************************************)
(* What a cluster learns of its machines: the shard notifies the operator  *)
(* of every transition of a bound machine (shard.go notifyNodeState), asks *)
(* it for bootstrap blobs, tells it to drain and hints at free capacity;   *)
(* the operator's receive loop (operator/stream.go) coalesces node updates,*)
(* bounds the handlers that write to the API server, and keeps one         *)
(* UpcomingNode per machine (upcoming.go) and one AvailableCapacity.       *)
(*                                                                         *)
(*   inv       the machine's state in the shard's inventory; it is bound   *)
(*             to the cluster unless Idle                                  *)
(*   tosend    applied by a transition and not yet notified                *)
(*   boot      the executor's wait for a bootstrap blob                    *)
(*   up, conn  whether the session lives, and its number                   *)
(*   resync    what the session's replay has read and not yet sent         *)
(*   wire      frames on the stream to the operator                        *)
(*   pendingUpd, inFlight, worker   nodeStatePending, nodeStateInFlight    *)
(*             and the goroutine they are for                              *)
(*   slots     occupied places of dispatchSem                              *)
(*   rendering, reclaiming, hints   the other running handlers             *)
(*   evicting  nodes a background drain works on                           *)
(*   outbox    the operator's frames to the shard                          *)
(*   un        phase of the UpcomingNode at the API server; none when there*)
(*             is none                                                     *)
(*   seen, watch   its phase in the operator's informer cache, from which  *)
(*             every Get is served, and the versions still to reach it     *)
(*   avail     free capacity of the one profile; ac the operator's CR;     *)
(*   acSeen    whether the cache has that CR as it is                      *)
(*   acCache, window   last hint and its rate limit; emitting: the session *)
(*             the cycle looked up; forgetDue: removeSession is still to run*)
(*   faults    bound: API calls that failed                                *)
(*   budget    bound: bindings and changes of capacity still to come       *)
(*   stale     history: an update of the machine was lost, or overtaken by *)
(*             an older one of the replay, and none has been sent since    *)
(*   missed    history: the last update handled changed nothing, though the*)
(*             UpcomingNode did not show it                                *)
(*   raced     history: a hint was lost, or may have been overwritten by an*)
(*             older one, and none has been sent since                     *)
(***************************************************************************)
EXTENDS Naturals, SequencesExt

CONSTANTS Machines,
          Slots,         \* dispatchConcurrency
          OutboxCap,     \* outboxCap
          MaxWire,       \* bound: frames the stream buffers
          MaxLag,        \* bound: versions of a CR that its informer is behind
          Budgets        \* bound: how often machines are bound, capacity changes, sessions
                         \* connect and API calls fail, and whether there is demand for
                         \* the profile

ASSUME SyncAssumption ==
  /\ Slots \in Nat \ {0} /\ OutboxCap \in Nat \ {0}
  /\ MaxWire \in Nat /\ MaxLag \in Nat
  /\ \A b \in Budgets : /\ { b.binds, b.changes, b.sessions, b.faults } \subseteq Nat
                         /\ b.demand \in BOOLEAN

VARIABLES inv, tosend, boot, up, conn, resync, wire,
          pendingUpd, inFlight, worker, slots, rendering, reclaiming, hints, evicting, outbox,
          un, seen, watch, missed, faults, budget, stale,
          avail, ac, acSeen, acCache, window, emitting, forgetDue, raced

shardVars == << inv, tosend, boot >>
recvVars == << pendingUpd, inFlight, worker, slots, rendering, reclaiming, hints, evicting, outbox >>
unVars == << un, seen, watch, missed >>
capVars == << avail, ac, acSeen, acCache, window, emitting, forgetDue, raced >>
vars == << shardVars, up, conn, resync, wire, recvVars, unVars, faults, budget, stale, capVars >>

States == { "Idle", "Configuring", "Configured", "Draining", "Failed" }

upcomingNodePhase(st) ==
  [ Idle |-> "Launched", Configuring |-> "Registered", Configured |-> "Ready",
    Draining |-> "Draining", Failed |-> "Failed" ][st]

\* "" is an UpcomingNode created without its status.
Phases == { "none", "", "Launched", "Registered", "Ready", "Draining", "Failed" }

\* The confidence of a hint: free machines or none.
Counts == { "NONE", "HIGH" }

NodeFrame(m, st) == [ kind |-> "node", machine |-> m, st |-> st ]
Frame(kind, m) == [ kind |-> kind, machine |-> m ]
HintFrame(v) == [ kind |-> "hint", count |-> v ]

\* An update of m is on its way to the API server.
InTransit(m) ==
  \/ resync[m] # "none" \/ pendingUpd[m] # "none" \/ worker[m] # "none"
  \/ \E i \in 1 .. Len(wire) : wire[i].kind = "node" /\ wire[i].machine = m

-----------------------------------------------------------------------------
(* The shard's executors and reconcile: one transition, then its update. *)

\* applyTransition: the inventory first, the notification after it.
applyTransition(m, st) ==
  /\ inv' = [ inv EXCEPT ![m] = st ]
  /\ tosend' = [ tosend EXCEPT ![m] = st ]

\* Faulty variant of notifyNodeState: an update of a machine that the transition
\* unbound has no cluster to go to.
notifyNodeStateBound(m) ==
  /\ tosend[m] # "none"
  /\ tosend' = [ tosend EXCEPT ![m] = "none" ]
  /\ IF up /\ tosend[m] # "Idle"
     THEN /\ Len(wire) < MaxWire
          /\ wire' = Append(wire, NodeFrame(m, tosend[m]))
     ELSE UNCHANGED wire
  /\ stale' = [ stale EXCEPT ![m] = ~ up ]
  /\ UNCHANGED << inv, boot, up, conn, resync, recvVars, unVars, faults, budget, capVars >>

\* notifyNodeState: to the cluster the machine is bound to, or was bound to
\* before the transition; dropped when no session lives.
notifyNodeState(m) ==
  /\ tosend[m] # "none"
  /\ tosend' = [ tosend EXCEPT ![m] = "none" ]
  /\ IF up
     THEN /\ Len(wire) < MaxWire
          /\ wire' = Append(wire, NodeFrame(m, tosend[m]))
     ELSE UNCHANGED wire
  /\ stale' = [ stale EXCEPT ![m] = ~ up ]
  /\ UNCHANGED << inv, boot, up, conn, resync, recvVars, unVars, faults, budget, capVars >>

\* executeBootstrap: Idle to Configuring.
Bind(m) ==
  /\ inv[m] = "Idle" /\ tosend[m] = "none"
  /\ budget.binds > 0 /\ budget' = [ budget EXCEPT !.binds = @ - 1 ]
  /\ applyTransition(m, "Configuring")
  /\ UNCHANGED << boot, up, conn, resync, wire, recvVars, unVars, faults, stale, capVars >>

\* requestBootstrap: send the request and wait.
requestBootstrap(m) ==
  /\ inv[m] = "Configuring" /\ tosend[m] = "none" /\ boot[m] = "none"
  /\ up /\ Len(wire) < MaxWire
  /\ wire' = Append(wire, Frame("boot", m))
  /\ boot' = [ boot EXCEPT ![m] = "asked" ]
  /\ UNCHANGED << inv, tosend, up, conn, resync, recvVars, unVars, faults, budget, stale, capVars >>

\* A request nobody waits for: its answer will be dropped.
Abandoned(s, m) ==
  [ i \in DOMAIN s |-> IF s[i] = Frame("boot", m) THEN Frame("late", m) ELSE s[i] ]

\* handleBootstrapBlobErr: no session, the deadline passed, or the operator
\* answered with an error.  Back to Idle and unbound, or Failed.
handleBootstrapBlobErr(m, st) ==
  /\ inv[m] = "Configuring" /\ tosend[m] = "none" /\ boot[m] # "answered"
  /\ st \in { "Idle", "Failed" }
  /\ applyTransition(m, st)
  /\ boot' = [ boot EXCEPT ![m] = "none" ]
  /\ wire' = Abandoned(wire, m)
  /\ rendering' = { IF f = Frame("boot", m) THEN Frame("late", m) ELSE f : f \in rendering }
  /\ outbox' = Abandoned(outbox, m)
  /\ UNCHANGED << up, conn, resync, pendingUpd, inFlight, worker, slots, reclaiming, hints, evicting,
                  unVars, faults, budget, stale, capVars >>

\* The provider's Configure succeeds or fails.
Configured(m, st) ==
  /\ inv[m] = "Configuring" /\ tosend[m] = "none" /\ boot[m] = "answered"
  /\ st \in { "Configured", "Failed" }
  /\ applyTransition(m, st)
  /\ boot' = [ boot EXCEPT ![m] = "none" ]
  /\ UNCHANGED << up, conn, resync, wire, recvVars, unVars, faults, budget, stale, capVars >>

\* executeDrain: the instruction to the operator, then Draining.
executeDrain(m) ==
  /\ inv[m] = "Configured" /\ tosend[m] = "none"
  /\ IF up
     THEN /\ Len(wire) < MaxWire
          /\ wire' = Append(wire, Frame("reclaim", m))
     ELSE UNCHANGED wire
  /\ applyTransition(m, "Draining")
  /\ UNCHANGED << boot, up, conn, resync, recvVars, unVars, faults, budget, stale, capVars >>

\* The provider has drained the machine (by its answer or seen by reconcile).
Drained(m, st) ==
  /\ inv[m] = "Draining" /\ tosend[m] = "none"
  /\ st \in { "Idle", "Failed" }
  /\ applyTransition(m, st)
  /\ UNCHANGED << boot, up, conn, resync, wire, recvVars, unVars, faults, budget, stale, capVars >>

-----------------------------------------------------------------------------
(* Sessions. *)

\* Neither the cache nor the API server has an UpcomingNode of m.
NoNode(m) == seen[m] = "none" /\ un[m] = "none"

\* Session: install, acknowledge, and read what resyncNodeState will replay.
Connect ==
  /\ ~ up /\ conn < budget.sessions
  /\ up' = TRUE /\ conn' = conn + 1
  /\ resync' = [ m \in Machines |-> IF inv[m] = "Idle" THEN "none" ELSE inv[m] ]
  /\ stale' = [ m \in Machines |-> stale[m] /\ inv[m] = "Idle" ]
  /\ UNCHANGED << shardVars, wire, recvVars, unVars, faults, budget, capVars >>

\* resyncNodeState: one frame of the replay.  It is out of date when the machine
\* has moved since, and wrong for good when that update has gone out already.
resyncNodeState(m) ==
  /\ up /\ resync[m] # "none" /\ Len(wire) < MaxWire
  /\ wire' = Append(wire, NodeFrame(m, resync[m]))
  /\ resync' = [ resync EXCEPT ![m] = "none" ]
  /\ stale' = [ stale EXCEPT ![m] = @ \/ (inv[m] # resync[m] /\ tosend[m] = "none") ]
  /\ UNCHANGED << shardVars, up, conn, recvVars, unVars, faults, budget, capVars >>

\* The stream breaks: frames and handlers of the session are gone, a handler perhaps
\* between creating an UpcomingNode and giving it its phase.  A drain starts whatever
\* becomes of its ack, and executors waiting for a blob wait for their deadline.
Break(made) ==
  /\ up
  /\ \A m \in made : worker[m] \in States /\ NoNode(m) /\ Len(watch[m]) < MaxLag
  /\ un' = [ m \in Machines |-> IF m \in made THEN "" ELSE un[m] ]
  /\ watch' = [ m \in Machines |-> IF m \in made THEN Append(watch[m], "") ELSE watch[m] ]
  /\ up' = FALSE
  /\ stale' = [ m \in Machines |-> stale[m] \/ InTransit(m) ]
  /\ wire' = << >> /\ outbox' = << >> /\ hints' = << >> /\ rendering' = {} /\ slots' = 0
  /\ resync' = [ m \in Machines |-> "none" ]
  /\ pendingUpd' = [ m \in Machines |-> "none" ]
  /\ inFlight' = [ m \in Machines |-> FALSE ]
  /\ worker' = [ m \in Machines |-> "none" ]
  /\ evicting' = evicting \cup reclaiming /\ reclaiming' = {}
  /\ boot' = [ m \in Machines |-> IF boot[m] = "asked" THEN "orphaned" ELSE boot[m] ]
  /\ forgetDue' = budget.demand   \* without demand nothing was ever cached
  /\ UNCHANGED << inv, tosend, conn, seen, missed, faults, budget, avail, ac, acSeen, acCache, window,
                  emitting, raced >>

\* availableCapacityCache.forget.
forget == acCache' = "none"

\* Faulty variant of removeSession: the hints of the session stay cached.
removeSessionKeeps ==
  /\ forgetDue /\ forgetDue' = FALSE
  /\ UNCHANGED acCache
  /\ UNCHANGED << shardVars, up, conn, resync, wire, recvVars, unVars, faults, budget, stale,
                  avail, ac, acSeen, window, emitting, raced >>

\* removeSession, which may run after the next session is installed.
removeSession ==
  /\ forgetDue /\ forgetDue' = FALSE
  /\ forget
  /\ UNCHANGED << shardVars, up, conn, resync, wire, recvVars, unVars, faults, budget, stale,
                  avail, ac, acSeen, window, emitting, raced >>

-----------------------------------------------------------------------------
(* The operator's receive loop and its node update workers. *)

\* coalesceNodeStateUpdate: the newest update of a machine replaces one that waits.
coalesceNodeStateUpdate(u) ==
  /\ pendingUpd' = [ pendingUpd EXCEPT ![u.machine] = u.st ]
  /\ inFlight' = [ inFlight EXCEPT ![u.machine] = TRUE ]

\* recvLoop, a node update: a worker is started when the machine has none, for
\* which the loop waits until the semaphore has room.
RecvNodeState ==
  /\ up /\ wire # << >> /\ Head(wire).kind = "node"
  /\ coalesceNodeStateUpdate(Head(wire))
  /\ LET m == Head(wire).machine
     IN IF inFlight[m]
        THEN UNCHANGED << worker, slots >>
        ELSE /\ slots < Slots
             /\ slots' = slots + 1
             /\ worker' = [ worker EXCEPT ![m] = "looping" ]
  /\ wire' = Tail(wire)
  /\ UNCHANGED << shardVars, up, conn, resync, rendering, reclaiming, hints, evicting, outbox,
                  unVars, faults, budget, stale, capVars >>

\* recvLoop, the other frames: each its own goroutine, those that write to the API
\* server bounded by the semaphore (needsBoundedDispatch).
RecvOther ==
  /\ up /\ wire # << >>
  /\ LET f == Head(wire)
     IN \/ /\ f.kind \in { "boot", "late" }
           /\ rendering' = rendering \cup { f }
           /\ UNCHANGED << slots, reclaiming, hints, raced >>
        \/ /\ f.kind = "reclaim" /\ f.machine \notin reclaiming
           /\ slots < Slots /\ slots' = slots + 1
           /\ reclaiming' = reclaiming \cup { f.machine }
           /\ UNCHANGED << rendering, hints, raced >>
        \/ /\ f.kind = "hint"
           /\ slots < Slots /\ slots' = slots + 1
           /\ hints' = Append(hints, f.count)
           /\ raced' = (raced \/ hints # << >>)
           /\ UNCHANGED << rendering, reclaiming >>
  /\ wire' = Tail(wire)
  /\ UNCHANGED << shardVars, up, conn, resync, pendingUpd, inFlight, worker, evicting, outbox,
                  unVars, faults, budget, stale, avail, ac, acSeen, acCache, window, emitting, forgetDue >>

\* Faulty variant of takeNextNodeStateUpdate: a worker that finds nothing returns
\* and leaves the machine marked in flight.
takeNextLeavesFlag(m) ==
  /\ worker[m] = "looping"
  /\ IF pendingUpd[m] = "none"
     THEN /\ worker' = [ worker EXCEPT ![m] = "none" ]
          /\ slots' = slots - 1
          /\ UNCHANGED << inFlight, pendingUpd >>
     ELSE /\ worker' = [ worker EXCEPT ![m] = pendingUpd[m] ]
          /\ pendingUpd' = [ pendingUpd EXCEPT ![m] = "none" ]
          /\ UNCHANGED << inFlight, slots >>
  /\ UNCHANGED << shardVars, up, conn, resync, wire, rendering, reclaiming, hints, evicting, outbox,
                  unVars, faults, budget, stale, capVars >>

\* Faulty variant of takeNextNodeStateUpdate: the worker returns without giving
\* its place in the semaphore back.
takeNextKeepsSlot(m) ==
  /\ worker[m] = "looping"
  /\ IF pendingUpd[m] = "none"
     THEN /\ worker' = [ worker EXCEPT ![m] = "none" ]
          /\ inFlight' = [ inFlight EXCEPT ![m] = FALSE ]
          /\ UNCHANGED << slots, pendingUpd >>
     ELSE /\ worker' = [ worker EXCEPT ![m] = pendingUpd[m] ]
          /\ pendingUpd' = [ pendingUpd EXCEPT ![m] = "none" ]
          /\ UNCHANGED << inFlight, slots >>
  /\ UNCHANGED << shardVars, up, conn, resync, wire, rendering, reclaiming, hints, evicting, outbox,
                  unVars, faults, budget, stale, capVars >>

\* takeNextNodeStateUpdate: the worker goes on with the update that waits, or drops
\* the machine's flag and returns.
takeNextNodeStateUpdate(m) ==
  /\ worker[m] = "looping"
  /\ IF pendingUpd[m] = "none"
     THEN /\ worker' = [ worker EXCEPT ![m] = "none" ]
          /\ inFlight' = [ inFlight EXCEPT ![m] = FALSE ]
          /\ slots' = slots - 1
          /\ UNCHANGED pendingUpd
     ELSE /\ worker' = [ worker EXCEPT ![m] = pendingUpd[m] ]
          /\ pendingUpd' = [ pendingUpd EXCEPT ![m] = "none" ]
          /\ UNCHANGED << inFlight, slots >>
  /\ UNCHANGED << shardVars, up, conn, resync, wire, rendering, reclaiming, hints, evicting, outbox,
                  unVars, faults, budget, stale, capVars >>

\* The versions of the UpcomingNode that a handler writes, one after another.
Write(m, versions) ==
  /\ Len(watch[m]) + Len(versions) <= MaxLag
  /\ un' = [ un EXCEPT ![m] = IF versions = << >> THEN @ ELSE Last(versions) ]
  /\ watch' = [ watch EXCEPT ![m] = @ \o versions ]

\* The cache has none, and there is none: create it, then patch its status.
CreateNode(m, phase) ==
  /\ NoNode(m)
  /\ Write(m, << "", phase >>)
  /\ missed' = [ missed EXCEPT ![m] = FALSE ]

\* The cache has none yet: Create fails with AlreadyExists, the refetch reads the
\* same cache, and the update is given up.
CreateMeetsNode(m) ==
  /\ seen[m] = "none" /\ un[m] # "none"
  /\ Write(m, << >>)
  /\ missed' = [ missed EXCEPT ![m] = TRUE ]

\* The phase an existing UpcomingNode is taken to have: the cache's, or that of the
\* API server's answer when the spec had to be patched.
Existing(m) == IF seen[m] = "none" THEN {} ELSE { seen[m] } \cup ({ un[m] } \ { "none" })

AtDrained(phase, was) == phase = "Launched" /\ was = "Draining"

\* Idle after Draining is Drained, at which the UpcomingNode is deleted, whatever
\* phase it has by then.
DeleteNode(m, phase, was) ==
  /\ AtDrained(phase, was)
  /\ Write(m, IF un[m] = "none" THEN << >> ELSE << "none" >>)
  /\ missed' = [ missed EXCEPT ![m] = FALSE ]

\* Skip the write when the phase is what it was taken to be, or patch it: a patch of
\* an UpcomingNode that is gone fails, and one of what is there makes no version.
PatchNode(m, phase, was) ==
  /\ ~ AtDrained(phase, was)
  /\ Write(m, IF was = phase \/ un[m] \in { "none", phase } THEN << >> ELSE << phase >>)
  /\ missed' = [ missed EXCEPT ![m] = un'[m] # phase ]

\* handleNodeStateUpdateOnce.  None of its errors here is a Conflict, so that
\* RetryOnConflict repeats nothing.
handleNodeStateUpdate(m) ==
  /\ worker[m] \in States
  /\ LET phase == upcomingNodePhase(worker[m])
     IN \/ CreateNode(m, phase) \/ CreateMeetsNode(m)
        \/ \E was \in Existing(m) : DeleteNode(m, phase, was) \/ PatchNode(m, phase, was)
  /\ worker' = [ worker EXCEPT ![m] = "looping" ]
  /\ UNCHANGED << shardVars, up, conn, resync, wire, pendingUpd, inFlight, slots, rendering, reclaiming,
                  hints, evicting, outbox, seen, faults, budget, stale, capVars >>

\* An API call fails: the update is logged and lost, after the create at worst.
handleNodeStateUpdateFails(m) ==
  /\ worker[m] \in States
  /\ faults < budget.faults /\ faults' = faults + 1
  /\ Write(m, << >>) \/ (NoNode(m) /\ Write(m, << "" >>))
  /\ worker' = [ worker EXCEPT ![m] = "looping" ]
  /\ stale' = [ stale EXCEPT ![m] = TRUE ]
  /\ UNCHANGED << shardVars, up, conn, resync, wire, pendingUpd, inFlight, slots, rendering, reclaiming,
                  hints, evicting, outbox, seen, missed, budget, capVars >>

\* The informer applies the next version of an UpcomingNode to the cache.
InformerSees(m) ==
  /\ watch[m] # << >>
  /\ seen' = [ seen EXCEPT ![m] = Head(watch[m]) ]
  /\ watch' = [ watch EXCEPT ![m] = Tail(@) ]
  /\ UNCHANGED << shardVars, up, conn, resync, wire, recvVars, un, missed, faults, budget, stale, capVars >>

-----------------------------------------------------------------------------
(* The other handlers, and the operator's answers. *)

\* session.enqueue: a full outbox drops the new frame.
enqueue(f) == outbox' = IF Len(outbox) < OutboxCap THEN Append(outbox, f) ELSE outbox

\* handleBootstrapRequest: render and answer.
handleBootstrapRequest(f) ==
  /\ f \in rendering
  /\ rendering' = rendering \ { f }
  /\ enqueue(f)
  /\ boot' = IF Len(outbox) >= OutboxCap /\ f.kind = "boot"
             THEN [ boot EXCEPT ![f.machine] = "orphaned" ] ELSE boot
  /\ UNCHANGED << inv, tosend, up, conn, resync, wire, pendingUpd, inFlight, worker, slots, reclaiming,
                  hints, evicting, unVars, faults, budget, stale, capVars >>

\* handleReclaimInstruction: cordon, acknowledge, drain in the background.
handleReclaimInstruction(m) ==
  /\ m \in reclaiming
  /\ reclaiming' = reclaiming \ { m }
  /\ slots' = slots - 1
  /\ enqueue(Frame("ack", m))
  /\ evicting' = evicting \cup { m }
  /\ UNCHANGED << shardVars, up, conn, resync, wire, pendingUpd, inFlight, worker, rendering, hints,
                  unVars, faults, budget, stale, capVars >>

\* drainNodesInBackground: the pods have left or the grace period is over.  The
\* phase it then patches is that of the UpcomingNode with the node's reference,
\* and updates carry no node name: there is none.
drainNodesInBackground(m) ==
  /\ m \in evicting
  /\ evicting' = evicting \ { m }
  /\ UNCHANGED << shardVars, up, conn, resync, wire, pendingUpd, inFlight, worker, slots, rendering,
                  reclaiming, hints, outbox, unVars, faults, budget, stale, capVars >>

\* sendLoop, and deliverBootstrapResponse at the shard: only a request that is
\* still waited for takes its answer.
Deliver ==
  /\ up /\ outbox # << >>
  /\ outbox' = Tail(outbox)
  /\ boot' = IF Head(outbox).kind = "boot"
             THEN [ boot EXCEPT ![Head(outbox).machine] = "answered" ] ELSE boot
  /\ UNCHANGED << inv, tosend, up, conn, resync, wire, pendingUpd, inFlight, worker, slots, rendering,
                  reclaiming, hints, evicting, unVars, faults, budget, stale, capVars >>

-----------------------------------------------------------------------------
(* Hints of free capacity. *)

AvailChanges ==
  /\ budget.changes > 0 /\ budget' = [ budget EXCEPT !.changes = @ - 1 ]
  /\ avail' \in Counts \ { avail }
  /\ UNCHANGED << shardVars, up, conn, resync, wire, recvVars, unVars, faults, stale,
                  ac, acSeen, acCache, window, emitting, forgetDue, raced >>

\* emitAvailableCapacity, once per cycle: when the cluster demands the profile,
\* look its session up ...
LookupSession ==
  /\ emitting = 0 /\ up /\ budget.demand
  /\ emitting' = conn
  /\ UNCHANGED << shardVars, up, conn, resync, wire, recvVars, unVars, faults, budget, stale,
                  avail, ac, acSeen, acCache, window, forgetDue, raced >>

\* availableCapacityCache.shouldEmit: a changed value, outside the rate limit.
shouldEmit == acCache = "none" \/ (acCache # avail /\ ~ window)

\* ... and send the value unless the cache says it is known.  The cache takes it
\* before the send, which fails on a session that is gone.
emitAvailableCapacity ==
  /\ emitting # 0
  /\ emitting' = 0
  /\ IF shouldEmit
     THEN /\ acCache' = avail /\ window' = TRUE
          /\ IF up /\ emitting = conn
             THEN /\ Len(wire) < MaxWire
                  /\ wire' = Append(wire, HintFrame(avail))
                  /\ raced' = FALSE
             ELSE /\ raced' = TRUE
                  /\ UNCHANGED wire
     ELSE UNCHANGED << acCache, window, wire, raced >>
  /\ UNCHANGED << shardVars, up, conn, resync, recvVars, unVars, faults, budget, stale, avail, ac, acSeen, forgetDue >>

WindowElapses ==
  /\ window /\ window' = FALSE
  /\ UNCHANGED << shardVars, up, conn, resync, wire, recvVars, unVars, faults, budget, stale,
                  avail, ac, acSeen, acCache, emitting, forgetDue, raced >>

\* handleAvailableCapacityUpdate: a create when there is no CR, or an update, both on
\* what the cache has.  When the cache is behind, Create meets AlreadyExists, which is
\* swallowed, or Update a Conflict, which is not retried: the hint is lost.
handleAvailableCapacityUpdate(i) ==
  /\ IF acSeen
     THEN /\ ac' = hints[i] /\ acSeen' = (ac = hints[i])
          /\ UNCHANGED raced
     ELSE /\ raced' = (raced \/ ac # hints[i])
          /\ UNCHANGED << ac, acSeen >>
  /\ hints' = RemoveAt(hints, i)
  /\ slots' = slots - 1
  /\ UNCHANGED << shardVars, up, conn, resync, wire, pendingUpd, inFlight, worker, rendering, reclaiming,
                  evicting, outbox, unVars, faults, budget, stale, avail, acCache, window, emitting,
                  forgetDue >>

handleAvailableCapacityUpdateFails(i) ==
  /\ faults < budget.faults /\ faults' = faults + 1
  /\ hints' = RemoveAt(hints, i)
  /\ slots' = slots - 1
  /\ raced' = TRUE
  /\ UNCHANGED << shardVars, up, conn, resync, wire, pendingUpd, inFlight, worker, rendering, reclaiming,
                  evicting, outbox, unVars, budget, stale, avail, ac, acSeen, acCache, window, emitting,
                  forgetDue >>

\* The informer has caught up with the CR.
InformerSeesHint ==
  /\ ~ acSeen /\ acSeen' = TRUE
  /\ UNCHANGED << shardVars, up, conn, resync, wire, recvVars, unVars, faults, budget, stale,
                  avail, ac, acCache, window, emitting, forgetDue, raced >>

-----------------------------------------------------------------------------
Init ==
  /\ inv = [ m \in Machines |-> "Idle" ]
  /\ tosend = [ m \in Machines |-> "none" ] /\ boot = [ m \in Machines |-> "none" ]
  /\ up = FALSE /\ conn = 0 /\ resync = [ m \in Machines |-> "none" ] /\ wire = << >>
  /\ pendingUpd = [ m \in Machines |-> "none" ] /\ inFlight = [ m \in Machines |-> FALSE ]
  /\ worker = [ m \in Machines |-> "none" ] /\ slots = 0
  /\ rendering = {} /\ reclaiming = {} /\ hints = << >> /\ evicting = {} /\ outbox = << >>
  /\ un = [ m \in Machines |-> "none" ] /\ seen = [ m \in Machines |-> "none" ]
  /\ watch = [ m \in Machines |-> << >> ] /\ missed = [ m \in Machines |-> FALSE ]
  /\ faults = 0 /\ budget \in Budgets /\ stale = [ m \in Machines |-> FALSE ]
  /\ avail = "HIGH" /\ ac = "none" /\ acSeen = TRUE /\ acCache = "none" /\ window = FALSE /\ emitting = 0
  /\ forgetDue = FALSE /\ raced = FALSE

Executor(m) ==
  \/ Bind(m) \/ requestBootstrap(m) \/ executeDrain(m)
  \/ \E st \in States : handleBootstrapBlobErr(m, st) \/ Configured(m, st) \/ Drained(m, st)

Worker(m) == takeNextNodeStateUpdate(m) \/ handleNodeStateUpdate(m)

HintHandlers == \E i \in DOMAIN hints : handleAvailableCapacityUpdate(i)

Faults ==
  \/ \E m \in Machines : handleNodeStateUpdateFails(m)
  \/ \E i \in DOMAIN hints : handleAvailableCapacityUpdateFails(i)
  \/ \E made \in SUBSET Machines : Break(made)

Next ==
  \/ \E m \in Machines : \/ Executor(m) \/ notifyNodeState(m) \/ resyncNodeState(m) \/ Worker(m)
                         \/ handleReclaimInstruction(m) \/ drainNodesInBackground(m)
                         \/ InformerSees(m)
  \/ Connect \/ removeSession \/ RecvNodeState \/ RecvOther \/ Deliver
  \/ \E f \in rendering : handleBootstrapRequest(f)
  \/ AvailChanges \/ LookupSession \/ emitAvailableCapacity \/ WindowElapses \/ HintHandlers
  \/ InformerSeesHint
  \/ Faults

\* Goroutines that can run do, cycles keep coming, and informers catch up.
\* Machines need not move, and nothing is promised about breaks and deadlines.
Fairness ==
  /\ \A m \in Machines : /\ WF_vars(notifyNodeState(m)) /\ WF_vars(resyncNodeState(m))
                         /\ WF_vars(Worker(m)) /\ WF_vars(handleReclaimInstruction(m))
                         /\ WF_vars(InformerSees(m))
                         /\ WF_vars(\E f \in rendering : f.machine = m /\ handleBootstrapRequest(f))
  /\ WF_vars(RecvNodeState) /\ WF_vars(RecvOther) /\ WF_vars(Deliver) /\ WF_vars(removeSession)
  /\ WF_vars(LookupSession) /\ WF_vars(emitAvailableCapacity) /\ WF_vars(WindowElapses)
  /\ WF_vars(HintHandlers) /\ WF_vars(InformerSeesHint)

Spec == Init /\ [][Next]_vars /\ Fairness

-----------------------------------------------------------------------------
\* Types: among them, the receive loop's semaphore is neither overfilled nor given
\* back more often than taken.
TypeOK ==
  /\ inv \in [ Machines -> States ]
  /\ tosend \in [ Machines -> States \cup { "none" } ]
  /\ boot \in [ Machines -> { "none", "asked", "orphaned", "answered" } ]
  /\ conn \in Nat /\ Len(wire) <= MaxWire /\ Len(outbox) <= OutboxCap
  /\ worker \in [ Machines -> States \cup { "none", "looping" } ]
  /\ un \in [ Machines -> Phases ] /\ seen \in [ Machines -> Phases ]
  /\ \A m \in Machines : Len(watch[m]) <= MaxLag
  /\ ac \in Counts \cup { "none" } /\ acCache \in Counts \cup { "none" }
  /\ slots \in 0 .. Slots

\* A place in the semaphore for each handler that runs and for nothing else: none
\* is taken twice, kept by a handler that has returned or lost with a session.
SlotsHeld ==
  slots = Cardinality({ m \in Machines : worker[m] # "none" })
            + Cardinality(reclaiming) + Len(hints)

\* The cluster's view of m is right: a bound machine's phase, and for one that has
\* been unbound no node at all, or one waiting to be bound (an Idle update that
\* overtook Draining, or a bootstrap that was rolled back), never one in use.
Shown(m) ==
  IF inv[m] = "Idle" THEN un[m] \in { "none", "Launched" } ELSE un[m] = upcomingNodePhase(inv[m])

\* Nothing of m is on its way on a live session, and no update of it was dropped for
\* want of a session, failed at the API server or overtaken by the replay.
Settled(m) == up /\ ~ stale[m] /\ tosend[m] = "none" /\ ~ InTransit(m)

\* A settled machine's UpcomingNode shows the inventory unless its last update was
\* missed: coalescing, bounded dispatch, replay and the routing of unbinding updates
\* (shard.go:1496) lose nothing by themselves, and no update handled on an old version
\* of the UpcomingNode leaves a wrong phase behind without being missed.
SettledShown == \A m \in Machines : Settled(m) => missed[m] \/ Shown(m)

\* The same with nothing missed: an update that finds the UpcomingNode made already is
\* written to it (upcoming.go:111-113, "Fetch the existing object so the status update
\* below operates on the right ResourceVersion"), and one writes nothing only if
\* nothing changed (upcoming.go:209).  The code keeps neither: both reads are cached.
SettledAlwaysShown == \A m \in Machines : Settled(m) => Shown(m)

\* A machine that stays as it is on a live session is eventually shown as it is,
\* for good: no update waits for ever in the coalescer for a worker nobody starts.
Converges ==
  \A m \in Machines, st \in States :
    <>[](up /\ inv[m] = st) => <>[](stale[m] \/ missed[m] \/ Shown(m))

\* A bootstrap request is answered however busy the API server's handlers are,
\* unless its session breaks or the outbox is full (stream.go:272, 333).
BootstrapAnswered == \A m \in Machines : boot[m] = "asked" ~> boot[m] # "asked"

\* Free capacity that stays as it is on a live session is eventually what the
\* cluster's hint says, unless a hint was handled while the cache lagged, while
\* another one was, or sent to a session that had just gone: coalescing and rate
\* limit do not freeze the hint, and a reconnect only through those
\* (available_capacity.go:75, session.go:180-186).
HintConverges ==
  \A v \in Counts : <>[](up /\ avail = v /\ budget.demand) => <>[](raced \/ ac = v)

\* The same without exception: the hint is eventually consistent
\* (available_capacity.go:109).  The code does not keep it: a hint whose upsert fails
\* on an old version is remembered by the shard as known.
HintAlwaysConverges ==
  \A v \in Counts : <>[](up /\ avail = v /\ budget.demand) => <>[](ac = v)

=============================================================================
