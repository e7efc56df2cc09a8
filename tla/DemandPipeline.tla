--------------------------- MODULE DemandPipeline ---------------------------
(***************************************************************************)
(* How the Pods of one cluster become the demand its shard works on: the   *)
(* Pod controller (pkg/controller/cr) keeps a CapacityRequest per Pod, the *)
(* operator (pkg/operator/rollup.go) lists them, sends the roll-up and     *)
(* acknowledges what it has sent.                                          *)
(*                                                                         *)
(* Both processes read informer caches that lag behind the API server and  *)
(* write to the API server itself.  (The operator reads its cache once, at *)
(* the start of a roll-up: a cache that lags is a roll-up that takes       *)
(* longer.)  A reconcile is several API calls; the work queue never hands  *)
(* one Pod to two workers.  A CapacityRequest's spec is a function of its  *)
(* Pod's, which does not change.  The stream, the empty roll-up guard and  *)
(* the needs table are RollupIngest's subject: with so few rows the guard  *)
(* admits every roll-up.                                                   *)
(***************************************************************************)
EXTENDS DemandRules

CONSTANTS Pods, MaxCRs,  \* bound: CapacityRequests ever created
          Inputs         \* the cases explored: the Pods' specs, Nil for a Pod that
                         \* never comes, and a bound on faults and spurious events

\* The Pods are ones that the API server admits.
ASSUME BoundAssumption == MaxCRs \in Nat
ASSUME InputsAssumption ==
    \A i \in DOMAIN Inputs :
        /\ Inputs[i].budget \in Nat
        /\ \A p \in Pods : Inputs[i].specs[p] = Nil \/ IsPod(Inputs[i].specs[p])

VARIABLES
    in,       \* which of Inputs it is
    pods,     \* the Pods at the API server
    crs,      \* the CapacityRequests at the API server: id, Pod, status.phase
    nextId,   \* GenerateName's next suffix
    podSeen, crSeen,  \* the controller's caches; of a CapacityRequest, id and Pod
    queue,    \* the controller's work queue
    work,     \* the reconcile of each Pod: the API call it is about to make
    pending,  \* ids that acknowledgeAll has yet to acknowledge
    slot,     \* the roll-up waiting to be sent
    shard,    \* the demand of the last roll-up the shard received
    left      \* what is left of the bound on faults

apiVars == <<in, pods, crs, nextId>>
ctlVars == <<podSeen, crSeen, queue, work>>
opVars == <<pending, slot, shard>>
vars == <<apiVars, ctlVars, opVars, left>>

PodPhases == {"none", "running", "terminal", "gone"}
Phases == {"", "Pending", "Acknowledged"}
CRs == [id : 1 .. MaxCRs, pod : Pods, phase : Phases]

Idle == [pc |-> "idle", id |-> 0]
Calls == [pc : {"idle", "create", "patch", "delete"}, id : 0 .. MaxCRs]

Fault == left > 0 /\ left' = left - 1

\* The spec of a CapacityRequest, and its Need, which is absent when its profile
\* is refused.
Requests ==
    [i \in DOMAIN Inputs |->
        [p \in Pods |-> IF Inputs[i].specs[p] = Nil THEN Nil ELSE buildCRForPod(Inputs[i].specs[p])]]
CR(c) == Requests[in][c.pod]

RawNeeds ==
    [i \in DOMAIN Inputs |->
        [p \in Pods |-> IF Requests[i][p] # Nil /\ Supported(Requests[i][p])
                       THEN NeedOf(Requests[i][p]) ELSE Nil]]
Need(c) == RawNeeds[in][c.pod]
Good(cs) == {c \in cs : Need(c) # Nil}

Of(p) == {c \in crs : c.pod = p}

-----------------------------------------------------------------------------
(* The cluster.                                                            *)

\* Pods finish and go.  (They come when the controller first sees them.)
PodStep(p, phase) ==
    /\ \/ pods[p] = "running" /\ phase \in {"terminal", "gone"}
       \/ pods[p] = "terminal" /\ phase = "gone"
    /\ pods' = [pods EXCEPT ![p] = phase]
    /\ UNCHANGED <<in, crs, nextId, ctlVars, opVars, left>>

\* The garbage collector removes what a deleted Pod owned.
CollectGarbage(p) ==
    /\ pods[p] = "gone" /\ Of(p) # {}
    /\ crs' = crs \ Of(p)
    /\ UNCHANGED <<in, pods, nextId, ctlVars, opVars, left>>

-----------------------------------------------------------------------------
(* The Pod controller.                                                     *)

\* The Pod informer catches up and enqueues the Pod.
PodEvent(p) ==
    /\ podSeen[p] # pods[p]
    /\ podSeen' = [podSeen EXCEPT ![p] = pods[p]]
    /\ queue' = queue \cup {p}
    /\ UNCHANGED <<apiVars, crSeen, work, opVars, left>>

\* A status update of a Pod enqueues it too.
PodTouched(p) ==
    /\ Fault
    /\ podSeen[p] = "running"
    /\ queue' = queue \cup {p}
    /\ UNCHANGED <<apiVars, podSeen, crSeen, work, opVars>>

Ids(cs) == {[id |-> c.id, pod |-> c.pod] : c \in cs}

CRInformer ==
    /\ crSeen # Ids(crs)
    /\ crSeen' = Ids(crs)
    /\ UNCHANGED <<apiVars, podSeen, queue, work, opVars, left>>

crExistsForPod(p) == \E c \in crSeen : c.pod = p

Goes(p, call) == work' = [work EXCEPT ![p] = call]

\* Reconcile up to its first write: the Pod and the list of its CapacityRequests
\* both come from the caches.
Reconcile(p) ==
    /\ p \in queue /\ work[p] = Idle
    /\ queue' = queue \ {p}
    /\ CASE podSeen[p] = "terminal"                     -> Goes(p, [pc |-> "delete", id |-> 0])
         [] podSeen[p] = "running" /\ ~crExistsForPod(p) -> Goes(p, [pc |-> "create", id |-> 0])
         [] OTHER -> UNCHANGED work
    /\ UNCHANGED <<apiVars, podSeen, crSeen, opVars, left>>

\* A faulty form of Fails: the error is logged and forgotten.
FailsForgotten(p) ==
    /\ Goes(p, Idle)
    /\ UNCHANGED queue

\* An error: the Pod comes back to the queue.
Fails(p) ==
    /\ Goes(p, Idle)
    /\ queue' = queue \cup {p}

DeleteAllOf(p) ==
    /\ work[p].pc = "delete"
    /\ \/ Goes(p, Idle) /\ crs' = crs \ Of(p) /\ UNCHANGED <<queue, left>>
       \/ Fault /\ Fails(p) /\ UNCHANGED crs
    /\ UNCHANGED <<in, pods, nextId, podSeen, crSeen, opVars>>

\* The name is generated, so that Create never finds that it exists.  The
\* answer can be an error although the request went through.
Create(p) ==
    /\ work[p].pc = "create"
    /\ \/ /\ nextId <= MaxCRs
          /\ crs' = crs \cup {[id |-> nextId, pod |-> p, phase |-> ""]}
          /\ nextId' = nextId + 1
          /\ \/ Goes(p, [pc |-> "patch", id |-> nextId]) /\ UNCHANGED <<queue, left>>
             \/ Fault /\ Fails(p)
       \/ Fault /\ Fails(p) /\ UNCHANGED <<crs, nextId>>
    /\ UNCHANGED <<in, pods, podSeen, crSeen, opVars>>

\* A merge patch of the status: no precondition, nothing when it is gone.
StatusPatch(id, phase) ==
    crs' = {IF c.id = id THEN [c EXCEPT !.phase = phase] ELSE c : c \in crs}

patchInitialPending(p) ==
    /\ work[p].pc = "patch"
    /\ Goes(p, Idle)
    /\ \/ StatusPatch(work[p].id, "Pending") /\ UNCHANGED left
       \/ Fault /\ UNCHANGED crs
    /\ UNCHANGED <<in, pods, nextId, podSeen, crSeen, queue, opVars>>

\* The process restarts: its caches are filled before the first reconcile, and
\* every Pod is an event.
Restart ==
    /\ Fault
    /\ podSeen' = pods
    /\ crSeen' = Ids(crs)
    /\ queue' = {p \in Pods : pods[p] \in {"running", "terminal"}}
    /\ work' = [p \in Pods |-> Idle]
    /\ UNCHANGED <<apiVars, opVars>>

-----------------------------------------------------------------------------
(* The operator.                                                           *)

\* The Needs of what the List returned, oldest first.
Listed(cs) ==
    LET nth(k) == CHOOSE c \in cs : Cardinality({x \in cs : x.id < c.id}) = k - 1
    IN [k \in 1 .. Cardinality(cs) |-> Need(nth(k))]

\* Faulty forms of PendingOf: those in phase Pending count as done; those that
\* were skipped are acknowledged with the others.
PendingOfNew(cs) == {c.id : c \in {x \in Good(cs) : x.phase = ""}}
PendingOfAll(cs) == {c.id : c \in {x \in cs : x.phase # "Acknowledged"}}

PendingOf(cs) == {c.id : c \in {x \in Good(cs) : x.phase # "Acknowledged"}}

buildRollup(cs) ==
    CHOOSE wire \in {[k \in DOMAIN rows |-> needToCapacityNeed(rows[k])] :
                         rows \in {Aggregate(Listed(Good(cs)))}} : TRUE

NoRollup == [none |-> TRUE]

\* runRollup up to the acknowledgements; the slot is overwritten.
runRollup ==
    /\ pending = {}
    /\ slot' = [rows |-> buildRollup(crs)]
    /\ pending' = PendingOf(crs)
    /\ UNCHANGED <<apiVars, ctlVars, shard, left>>

\* One of acknowledgeAll's workers; an error is only logged.
markAcknowledged(id) ==
    /\ id \in pending
    /\ pending' = pending \ {id}
    /\ \/ StatusPatch(id, "Acknowledged") /\ UNCHANGED left
       \/ Fault /\ UNCHANGED crs
    /\ UNCHANGED <<in, pods, nextId, ctlVars, slot, shard>>

\* The roll-up is sent, decoded and replaces the cluster's demand; one with a
\* bucket or an operator out of range would be refused whole.
Deliver ==
    /\ slot # NoRollup
    /\ slot' = NoRollup
    /\ shard' = IF \A k \in DOMAIN slot.rows :
                     BucketsInRange(slot.rows[k]) /\ OperatorsKnown(slot.rows[k])
                THEN {NeedsFromRollup(slot.rows[k]) : k \in DOMAIN slot.rows}
                ELSE shard
    /\ UNCHANGED <<apiVars, ctlVars, pending, left>>

\* The session ends: the roll-up is lost, acknowledgeAll is cancelled, and the
\* next session begins with a roll-up.
SessionBreaks ==
    /\ Fault
    /\ slot' = NoRollup
    /\ pending' = {}
    /\ UNCHANGED <<apiVars, ctlVars, shard>>

-----------------------------------------------------------------------------
Init ==
    /\ in \in DOMAIN Inputs
    /\ pods = [p \in Pods |-> IF Inputs[in].specs[p] = Nil THEN "gone" ELSE "running"]
    /\ crs = {} /\ nextId = 1
    /\ podSeen = [p \in Pods |-> "none"] /\ crSeen = {} /\ queue = {} /\ work = [p \in Pods |-> Idle]
    /\ pending = {} /\ slot = NoRollup /\ shard = {}
    /\ left = Inputs[in].budget

Next ==
    \/ \E p \in Pods :
        \/ \E phase \in {"terminal", "gone"} : PodStep(p, phase)
        \/ CollectGarbage(p) \/ PodEvent(p) \/ PodTouched(p) \/ Reconcile(p)
        \/ DeleteAllOf(p) \/ Create(p) \/ patchInitialPending(p)
    \/ CRInformer \/ Restart
    \/ runRollup \/ Deliver \/ SessionBreaks
    \/ \E id \in 1 .. MaxCRs : markAcknowledged(id)

Spec == Init /\ [][Next]_vars

\* Informers catch up, the work queue is worked off, API calls end, the roll-up
\* ticker fires, the stream sends, garbage is collected.
Fairness ==
    /\ \A p \in Pods :
        /\ WF_vars(CollectGarbage(p)) /\ WF_vars(PodEvent(p)) /\ WF_vars(Reconcile(p))
        /\ WF_vars(DeleteAllOf(p)) /\ WF_vars(Create(p)) /\ WF_vars(patchInitialPending(p))
    /\ WF_vars(CRInformer) /\ WF_vars(runRollup) /\ WF_vars(Deliver)
    /\ \A id \in 1 .. MaxCRs : WF_vars(markAcknowledged(id))

FairSpec == Spec /\ Fairness

-----------------------------------------------------------------------------
(* Properties.                                                             *)

\* The pipeline's state has its declared shape, and no two CapacityRequests
\* share a name.
TypeOK ==
    /\ pods \in [Pods -> PodPhases] /\ podSeen \in [Pods -> PodPhases]
    /\ crs \subseteq CRs
    /\ nextId \in 1 .. MaxCRs + 1
    /\ \A c, d \in crs : c.id = d.id => c = d
    /\ \A c \in crs : c.id < nextId
    /\ crSeen \subseteq Ids(CRs)
    /\ queue \subseteq Pods
    /\ work \in [Pods -> Calls]
    /\ pending \subseteq 1 .. MaxCRs
    /\ left \in 0 .. Inputs[in].budget

\* A CapacityRequest asks for what its Pod needs at its peak (resourcesFromPod:
\* init containers run before, sidecars beside the main ones), in every
\* dimension, and its penalties fall into the tightest bucket.
RequestIsPeak ==
    \A c \in crs :
        /\ \A d \in Dims : Qty(CR(c).resources, d) = PeakOf(Inputs[in].specs[c.pod], d)
        /\ c \in Good(crs) =>
             /\ Need(c).profile.interruption = BucketOf(CR(c).interruption)
             /\ Need(c).profile.reclamation = BucketOf(CR(c).reclamation)

\* In the end exactly the running Pods have a CapacityRequest: none is lost to a
\* failed call, a lagging cache or a restart, and none outlives its Pod's work (a
\* terminal Pod stays at the API server: its request is the controller's to delete).
RequestsFollowPods == <>[](\A p \in Pods : pods[p] = "running" <=> Of(p) # {})

\* The CapacityRequests of one row of the demand: one Profile and one gang.
RowOf(r) == {c \in Good(crs) : Need(c).profile = r.profile /\ Need(c).group = r.group}

\* In the end the shard works on exactly the cluster's CapacityRequests: a row
\* for each Profile and gang, with the sum of the requests and the largest one.
DemandCurrent ==
    <>[]/\ \A c \in Good(crs) : \E r \in shard : c \in RowOf(r)
        /\ \A r \in shard :
              /\ RowOf(r) # {}
              /\ \A d \in Dims :
                   /\ Qty(r.agg, d) = MapThenSumSet(LAMBDA c : Qty(CR(c).resources, d), RowOf(r))
                   /\ Qty(r.minUnit, d) = Max({Qty(CR(c).resources, d) : c \in RowOf(r)})

\* In the end every request that can be rolled up is Acknowledged: the initial
\* Pending of a controller that is slower than the operator does not stick.
AcksStick == <>[](\A c \in Good(crs) : c.phase = "Acknowledged")

\* A request is acknowledged only when the roll-up on its way, or arrived last,
\* has its row.
AcknowledgedWhenReported ==
    [][\A c \in crs :
         c.phase # "Acknowledged" /\ [c EXCEPT !.phase = "Acknowledged"] \in crs'
           => LET rows == IF slot = NoRollup THEN shard
                          ELSE {NeedsFromRollup(slot.rows[k]) : k \in DOMAIN slot.rows}
              IN \E r \in rows : c \in RowOf(r) /\ Covers(r.agg, Need(c).agg)]_crs

=============================================================================
