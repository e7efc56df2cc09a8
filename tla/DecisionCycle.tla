--------------------------- MODULE DecisionCycle ---------------------------
(***************************************************************************)
(* The closed loop of one shard: every cycle looks at the inventory and at *)
(* the demand the clusters rolled up, folds the small gangs, credits what  *)
(* is bound, buys or bootstraps what is missing (Phase 1), preempts for    *)
(* what is still missing (Phase 2), reclaims and releases what nobody      *)
(* needs (Phase 3); the machines then move while further cycles look at    *)
(* them half way.  pkg/decision, and runCycleCapturing of shard.go.        *)
(*                                                                         *)
(* Abstractions.  A cycle is one step: what can change between its         *)
(* snapshot and its emission is ShardActuation's subject, and so are the   *)
(* queue bound and MaxActionsPerCycle, which only drop actions.  The       *)
(* worker race of Phase 1 is OccCycle's subject: here its outcome is any   *)
(* that OccCycle's properties of the barrier allow.  A resource vector is  *)
(* a number of units, a Profile is a class with a priority and the         *)
(* requirements of module Profiles, and the number of a machine is its     *)
(* place in the price order.  Penalties are equal; TopologySpread Needs    *)
(* are left out.                                                           *)
(***************************************************************************)
EXTENDS SameBuckets, Profiles, FiniteSets

CONSTANTS
    Machines,   \* 1 .. k, in SortedClusterStateBucket's order
    Needs,      \* 1 .. n, rows of the needs table
    Clusters,   \* cluster IDs, as numbers
    Classes,    \* Profiles without their Same requirement
    Domains,    \* values of the Same key
    ParkAfter, Reprobe,  \* parkAfterCycles, reprobeEveryCycles
    CapNum, CapDen,      \* ReclaimCapFraction
    MaxAlloc,   \* bound on a machine's units
    Budget,     \* how many roll-ups and rollbacks the environment makes
    Inputs      \* the fleets and demands explored

NoCluster == 0
States == {"Speculative", "Creating", "Idle", "Configuring", "Configured",
           "Draining", "Deleting"}

\* The attribution a machine carries: the fingerprint (class, Same or not) and
\* the gang of the Need it was acquired for.
Owners == Classes \X BOOLEAN \X (Needs \cup {0})
NoOwner == <<0, FALSE, 0>>

\* The labels a machine may carry.
Labels == [{} -> STRING] \cup [{"pool"} -> STRING]

\* What does not change: which Profile a row has, what a machine is.
InputType ==
    [cluster : [Needs -> Clusters], class : [Needs -> Classes],
     same : SUBSET Needs, prio : [Classes -> Nat],
     reqs : [Classes -> Seq([key : STRING, op : STRING, values : SUBSET STRING])],
     attrs : [Machines -> [type : STRING, zone : STRING, labels : Labels]],
     wants : [Needs -> SUBSET Nat],        \* the aggregates its roll-ups report
     alloc : [Machines -> 1 .. MaxAlloc], dom : [Machines -> Domains],
     elastic : SUBSET Machines,            \* OnDemand or Spot
     st : [Machines -> {"Speculative", "Idle", "Configured"}], bind : [Machines -> Clusters \cup {NoCluster}],
     aprio : [Machines -> Nat]]

ASSUME NumbersAssumption ==
    Machines \cup Needs \cup Clusters \cup Classes \cup Domains \subseteq Nat \ {0}
ASSUME ParkAssumption == ParkAfter \in Nat \ {0} /\ Reprobe \in Nat \ {0}
ASSUME CapAssumption == CapNum \in Nat /\ CapDen \in Nat \ {0}
ASSUME BoundsAssumption ==
    IsFiniteSet(Machines) /\ IsFiniteSet(Needs) /\ MaxAlloc \in Nat /\ Budget \in Nat

\* A fleet at rest, whose bound machines are those in use.
ASSUME InputsAssumption ==
    Inputs \subseteq {i \in InputType :
        \A m \in Machines : i.bind[m] # NoCluster <=> i.st[m] = "Configured"}

Actions ==
    [kind : {"Bootstrap", "Provision"}, cluster : Clusters, prio : Nat, owner : Owners]
    \cup [kind : {"Preempt", "Reclaim", "Delete", "none"}]

NoAction == [kind |-> "none"]

VARIABLES
    in,      \* the fleet
    st,      \* machine.State
    bind,    \* Machine.Cluster
    aprio,   \* AssignedPriority, stamped when Configured, 0 otherwise
    owner,   \* AssignedNeedFingerprint and AssignedGroup
    expired, \* Idle machines whose IdleSince is older than their hold
    act,     \* the queued or executing action of each machine (pendingActions)
    demand,  \* AggregateResources of each row, 0 when the row is absent
    ready,   \* FirstRollupReceived
    age,     \* unsatSameAge
    left     \* what is left of Budget

machines == <<st, bind, aprio, owner, expired>>
vars == <<in, machines, act, demand, ready, age, left>>

-----------------------------------------------------------------------------
(* Quantities and walks.                                                   *)

\* The units a set of machines provides, counted one by one.
Alloc(ms) == Cardinality({u \in ms \X (1 .. MaxAlloc) : u[2] <= in.alloc[u[1]]})
SubResources(a, b) == IF a > b THEN a - b ELSE 0

InState(s) == {m \in Machines : st[m] = s}

\* Where a search for a class starts: the machines of its instance types when
\* it is pinned, all of the state otherwise.
Listed(c, s) ==
    {m \in InState(s) : in.pinned[c] # {} => in.attrs[m].type \in in.pinned[c]}

Of(c, s) == {m \in InState(s) : bind[m] = c}

\* What a stop-when-covered walk over ms takes when it goes by rank and, within
\* a rank, by number.
Walk(ms, rank, amount) ==
    {m \in ms : Alloc({x \in ms : rank[x] < rank[m] \/ (rank[x] = rank[m] /\ x < m)}) < amount}

ByNumber == [m \in Machines |-> 0]

-----------------------------------------------------------------------------
(* NormalizeDemand: the rows the phases work on.                           *)

\* What anybody could get: the candidates of a class.
Offered(c) == Listed(c, "Idle") \cup Listed(c, "Speculative")

Covering(ms, n) ==
    {m \in ms \cap in.match[in.class[n]] : in.alloc[m] >= demand[n]}

\* One machine that the cluster has, or that anybody could get, holds the gang.
foldable(n) ==
    LET c == in.cluster[n]
        clusterHasFit == Covering(Of(c, "Configured") \cup Of(c, "Configuring"), n) # {}
        shardHasFit   == Covering(Offered(in.class[n]), n) # {}
    IN clusterHasFit \/ shardHasFit

Live == {n \in Needs : demand[n] > 0}
Folded == {n \in Live \cap in.same : foldable(n)}

\* A faulty form of PassedRow: a parked gang is never probed again.
PassedRowNeverProbed(n, pos) ==
    [pos |-> pos, cluster |-> in.cluster[n], class |-> in.class[n], same |-> n \in in.same,
     group |-> IF n \in in.same THEN n ELSE 0, want |-> demand[n], unit |-> 1,
     parked |-> n \in in.same /\ age[n] >= ParkAfter]

\* A row that passes through; MinUnit is one unit.  stampParkedNeeds marks the
\* gangs that have been stuck for long enough, except when their age calls for
\* a probe.
PassedRow(n, pos) ==
    [pos     |-> pos, cluster |-> in.cluster[n], class |-> in.class[n],
     same    |-> n \in in.same,
     group   |-> IF n \in in.same THEN n ELSE 0,
     want    |-> demand[n], unit |-> 1,
     parked  |-> n \in in.same /\ age[n] >= ParkAfter /\ age[n] % Reprobe # 0]

\* The gangs of one cluster, class and size as one plain row that only counts
\* machines holding a whole gang.  Such rows come last.
FoldKey(n) == <<in.cluster[n], in.class[n], demand[n]>>
KeyLess(a, b) ==
    \/ a[1] < b[1]
    \/ a[1] = b[1] /\ a[2] < b[2]
    \/ a[1] = b[1] /\ a[2] = b[2] /\ a[3] < b[3]

FoldedRow(k) ==
    [pos |-> Cardinality(Needs) + 1 + Cardinality({n \in Folded : KeyLess(FoldKey(n), k)}),
     cluster |-> k[1], class |-> k[2], same |-> FALSE, group |-> 0,
     want |-> k[3] * Cardinality({n \in Folded : FoldKey(n) = k}),
     unit |-> k[3], parked |-> FALSE]

\* Snapshot: by priority, then by the time of the cluster's last roll-up.  The
\* operators send one every RollupInterval, changed or not, so that clusters of
\* equal priority overtake each other all the time.
Snapshots ==
    {f \in [Needs -> 1 .. Cardinality(Needs)] :
        \A n, q \in Needs :
            /\ f[n] = f[q] => n = q
            /\ in.prio[in.class[n]] > in.prio[in.class[q]] => f[n] < f[q]}

NormalizeDemand(order) ==
    {PassedRow(n, order[n]) : n \in Live \ Folded} \cup {FoldedRow(FoldKey(n)) : n \in Folded}

-----------------------------------------------------------------------------
(* Phase 1, the pre-pass: SeedConfiguredSupply.                            *)

Priority(r) == in.prio[r.class]
Fits(r) == {m \in in.match[r.class] : in.alloc[m] >= r.unit}
Owner(r) == <<r.class, r.same, r.group>>
InDomain(d) == {m \in Machines : in.dom[m] = d}

\* Claims are pairs of a machine and the row that has it.
Claimed(claims) == {c[1] : c \in claims}
ClaimedFor(claims, r) == {c[1] : c \in {x \in claims : x[2] = r}}
Deficit(claims, r) == SubResources(r.want, Alloc(ClaimedFor(claims, r)))

\* The domain the pre-pass recorded for a row: none or one.
DomainOf(s, r) == {p[1] : p \in {x \in s.dom : x[2] = r}}

\* What is bound to the row's cluster, and what is being created for the row;
\* a plain row recognises the latter by its fingerprint alone.
OwnCreating(r) ==
    {m \in InState("Creating") :
        IF r.same THEN owner[m] = Owner(r)
        ELSE owner[m][1] = r.class /\ ~owner[m][2]}

Creditable(r, s) ==
    {m \in Of(r.cluster, "Configured") \cup Of(r.cluster, "Configuring") \cup OwnCreating(r) :
        m \in Fits(r) \ Claimed(s.claims)}

\* The order of the credit walk.
KeepRank ==
    [m \in Machines |->
        CASE st[m] = "Configured" -> 1 [] st[m] = "Configuring" -> 2 [] OTHER -> 3]

Available == InState("Idle") \cup InState("Speculative")

\* What anybody could get and no earlier gang counts on (AcquirableTotals).
Acquirable(r, s) == IF r.parked THEN {} ELSE (Offered(r.class) \cap Fits(r)) \ s.consumed

SameBucket(r, cred, acq, d) ==
    LET here == cred \cap InDomain(d)
        all  == here \cup (acq \cap InDomain(d))
        Capped(ms) == IF Alloc(ms) > r.want THEN r.want ELSE Alloc(ms)
    IN [sat |-> Alloc(all) >= r.want, cred |-> Capped(here),
        own |-> Capped({m \in here : owner[m] = Owner(r)}),
        total |-> Alloc(all), count |-> Cardinality(all)]

\* The domain of the best bucket, with its bucket: none or one.
ChooseSameBucket(r, cred, acq) ==
    LET present == {b \in {<<d, SameBucket(r, cred, acq, d)>> : d \in Domains} : b[2].count > 0}
    IN {b \in present : \A e \in present \ {b} : BetterBucket(b[1], b[2], e[1], e[2])}

\* What the workers will take from the chosen domain for what the credit leaves
\* missing: later gangs do not count on it.
ConsumeAcquirable(s, r, d, remaining) ==
    s.consumed \cup Walk(Acquirable(r, s) \cap InDomain(d), ByNumber, remaining)

\* seedSameProfile: one domain, the gang's own machines first, and what the
\* workers will take from the domain is consumed.  The results are a set: empty
\* when no domain has supply.
SeedSame(s, r) ==
    {LET taken == Walk(cred \cap InDomain(b[1]),
                       [m \in Machines |-> IF owner[m] = Owner(r) THEN KeepRank[m] ELSE 3 + KeepRank[m]],
                       r.want)
     IN [claims   |-> s.claims \cup (taken \X {r}),
         dom      |-> s.dom \cup {<<b[1], r>>},
         sat      |-> IF b[2].sat THEN s.sat \cup {r} ELSE s.sat,
         consumed |-> ConsumeAcquirable(s, r, b[1], SubResources(r.want, Alloc(taken)))] :
       cred \in {Creditable(r, s)},
       b \in ChooseSameBucket(r, Creditable(r, s), Acquirable(r, s))}

SeedPlain(s, r) ==
    [s EXCEPT !.claims = @ \cup (Walk(Creditable(r, s), KeepRank, r.want) \X {r})]

SeedRow(s, r) ==
    IF ~r.same THEN SeedPlain(s, r)
    ELSE IF SeedSame(s, r) = {} THEN s ELSE CHOOSE x \in SeedSame(s, r) : TRUE

\* By descending priority, stable in the rows' order.
Precedes(r, q) == Priority(r) > Priority(q) \/ (Priority(r) = Priority(q) /\ r.pos < q.pos)
Nth(rows, k) == CHOOSE r \in rows : Cardinality({q \in rows : Precedes(q, r)}) = k - 1

\* The rows one after the other (each result is a set of one, so that it is
\* computed once).
SeedConfiguredSupply(rows) ==
    LET after[k \in 0 .. Cardinality(rows)] ==
          IF k = 0 THEN {[claims |-> {}, dom |-> {}, sat |-> {}, consumed |-> {}]}
          ELSE {SeedRow(s, Nth(rows, k)) : s \in after[k - 1]}
    IN after[Cardinality(rows)]

-----------------------------------------------------------------------------
(* Phase 1, the workers: what the barrier may find.                        *)

\* Where a row looks: nowhere when parked, in its domain when it has one.
Pool(seed, r) ==
    IF r.parked THEN {}
    ELSE {m \in Offered(r.class) \cap Fits(r) :
            DomainOf(seed, r) # {} => in.dom[m] \in DomainOf(seed, r)}

NoRow == [pos |-> 0]

\* Machine m is taken by a row that r cannot displace.
Holds(got, m, r) == got[m] # NoRow /\ Priority(got[m]) >= Priority(r)

\* What row r has taken: no more than it was missing, Speculative only when it
\* could not have Idle, a gang without a recorded domain one domain per state,
\* and short only when what it looked at is held by rows it cannot displace.
RowOutcome(seed, got, r) ==
    LET pool  == Pool(seed, r)
        taken == {m \in Available : got[m] = r}
        short == Deficit(seed.claims, r) > Alloc(taken)
        roams == r.same /\ DomainOf(seed, r) = {}
    IN /\ taken \subseteq pool
       /\ taken # {} => \E last \in taken : Alloc(taken \ {last}) < Deficit(seed.claims, r)
       /\ roams => \A a, b \in taken : st[a] = st[b] => in.dom[a] = in.dom[b]
       /\ ~roams /\ (\E m \in taken : st[m] = "Speculative")
            => \A m \in pool \cap InState("Idle") : Holds(got, m, r)
       /\ short /\ (roams => taken = {}) => \A m \in pool : Holds(got, m, r)

\* Nobody is interested in a machine that no short row looks at.
Outcomes(rows, seed) ==
    LET short == {r \in rows : Deficit(seed.claims, r) > 0}
        asked == {m \in Available : \E r \in short : m \in Pool(seed, r)}
    IN {got \in [Available -> short \cup {NoRow}] :
          /\ \A m \in Available \ asked : got[m] = NoRow
          /\ \A r \in short : RowOutcome(seed, got, r)}

\* The claims of the barrier, RunCycle's Claimed.
Claims(seed, got) ==
    seed.claims \cup {<<m, got[m]>> : m \in {x \in Available : got[x] # NoRow}}

Unsatisfied(rows, claims) == {r \in rows : Deficit(claims, r) > 0}

\* recordUnsatSameAges: a gang ages while it is short, gets nothing and has no
\* domain that could hold it.  Ages that differ by a whole number of probe
\* periods are the same.
Aged(a) == IF a + 1 = ParkAfter + Reprobe THEN ParkAfter ELSE a + 1

recordUnsatSameAges(rows, seed, claims) ==
    [n \in Needs |->
        IF \E r \in Unsatisfied(rows, claims) :
             /\ r.same /\ r.group = n
             /\ r \notin seed.sat
             /\ ClaimedFor(claims, r) \cap Available = {}
        THEN Aged(age[n]) ELSE 0]

-----------------------------------------------------------------------------
(* Phase 2 and Phase 3.                                                    *)

\* The machines behind the snapshot's lowest AssignedPriority of a state: all of
\* them, but the entry exists only when one of them has an instance type.
minPriorityByState(s) == IF \E m \in InState(s) : in.attrs[m].type # "" THEN InState(s) ELSE {}

\* The short-circuit before the walk: by type for a pinned Need.
phase2BucketHasNoVictim(r) ==
    \A m \in IF in.pinned[r.class] = {} THEN minPriorityByState("Configured")
             ELSE Listed(r.class, "Configured") : aprio[m] >= Priority(r)

\* Faulty forms of Victims: equals are victims too; only the cluster's own are.
VictimsEqual(seed, r) ==
    {m \in Listed(r.class, "Configured") \cap Fits(r) :
        aprio[m] <= Priority(r) /\ (r.same => in.dom[m] \in DomainOf(seed, r))}

VictimsOwnCluster(seed, r) ==
    {m \in Of(r.cluster, "Configured") \cap Fits(r) :
        aprio[m] < Priority(r) /\ (r.same => in.dom[m] \in DomainOf(seed, r))}

\* Configured machines of lower priority that would be of use to row r.  Best
\* first is, with equal penalties, the widest priority gap.
Victims(seed, r) ==
    {m \in Listed(r.class, "Configured") \cap Fits(r) :
        /\ ~phase2BucketHasNoVictim(r)
        /\ aprio[m] < Priority(r)
        /\ r.same => in.dom[m] \in DomainOf(seed, r)}

VictimRank == [m \in Machines |-> aprio[m]]

\* Every short row, the highest first, takes victims until they cover it; a
\* parked gang takes none (and one without a domain finds none).
Phase2(rows, seed, claims) ==
    LET short == Unsatisfied(rows, claims)
        after[k \in 0 .. Cardinality(short)] ==
          IF k = 0 THEN {{}}
          ELSE {LET r == Nth(short, k)
                IN IF r.parked THEN taken
                   ELSE taken \cup Walk(Victims(seed, r) \ taken, VictimRank, Deficit(claims, r)) :
                  taken \in after[k - 1]}
    IN UNION after[Cardinality(short)]

\* A faulty form of Excess: claims are not looked at.
ExcessUnclaimed(c, claims) == IF c \in ready THEN Of(c, "Configured") ELSE {}

\* The excess of a cluster that has reported: bound, and claimed by nobody.
Excess(c, claims) == IF c \in ready THEN Of(c, "Configured") \ Claimed(claims) ELSE {}

\* A faulty form of reclaimCap: rounds down to nothing.
reclaimCapRounded(c) == (CapNum * Cardinality(Of(c, "Configured"))) \div CapDen

reclaimCap(c) ==
    LET share == (CapNum * Cardinality(Of(c, "Configured"))) \div CapDen
    IN IF share < 1 THEN 1 ELSE share

\* Phase 3's first half behind capReclaims: the head of the emission order.
Phase3Reclaims(claims) ==
    UNION {{m \in Excess(c, claims) :
              Cardinality({x \in Excess(c, claims) : x < m}) < reclaimCap(c)} : c \in Clusters}

\* Its second half: unclaimed elastic machines that were Idle for too long.
Phase3Releases(claims) == (InState("Idle") \cap in.elastic \cap expired) \ Claimed(claims)

-----------------------------------------------------------------------------
(* The cycle.                                                              *)

\* Phase 1's action for a machine that row r has claimed.
Acquire(m, r) ==
    [kind |-> IF st[m] = "Idle" THEN "Bootstrap" ELSE "Provision",
     cluster |-> r.cluster, prio |-> Priority(r), owner |-> Owner(r)]

\* All actions in one list, Phase 1's first; a machine that has an action
\* queued or executing gets no second one.
Emitted(rows, seed, claims) ==
    LET preempt == Phase2(rows, seed, claims)
        reclaim == Phase3Reclaims(claims)
        release == Phase3Releases(claims)
    IN [m \in Machines |->
          IF act[m] # NoAction THEN act[m]
          ELSE CASE m \in Available \cap Claimed(claims) ->
                      Acquire(m, (CHOOSE c \in claims : c[1] = m)[2])
                 [] m \in preempt           -> [kind |-> "Preempt"]
                 [] m \in reclaim \ preempt -> [kind |-> "Reclaim"]
                 [] m \in release           -> [kind |-> "Delete"]
                 [] OTHER                   -> NoAction]

\* The state in which a queued action has not been taken up by a worker yet.
StartState(k) ==
    CASE k \in {"Bootstrap", "Delete"} -> "Idle"
      [] k = "Provision"              -> "Speculative"
      [] k \in {"Preempt", "Reclaim"} -> "Configured"
      [] k = "none"                   -> "none"

\* The workers keep up: what earlier cycles queued has been taken up.  (A cycle
\* does not credit a queued action, so with a standing queue the same Need may
\* be given a second machine, and the next cycles take one away again.)
Started == \A m \in Machines : st[m] # StartState(act[m].kind)

runCycle ==
    /\ Started
    /\ \E order \in Snapshots :
       \E rows \in {NormalizeDemand(order)} :
       \E seed \in SeedConfiguredSupply(rows) :
       \E got \in Outcomes(rows, seed) :
       \E claims \in {Claims(seed, got)} :
         /\ age' = recordUnsatSameAges(rows, seed, claims)
         /\ act' = Emitted(rows, seed, claims)
    /\ UNCHANGED <<in, machines, demand, ready, left>>

-----------------------------------------------------------------------------
(* The execute workers and the provider, when all goes well.               *)

\* A machine moves to state s; only a bound machine keeps a cluster, and what
\* an Idle machine is stamped with is never read.
Move(m, s) ==
    /\ st' = [st EXCEPT ![m] = s]
    /\ expired' = expired \ {m}
    /\ bind' = IF s \in {"Idle", "Speculative"} THEN [bind EXCEPT ![m] = NoCluster] ELSE bind
    /\ owner' = IF s \in {"Idle", "Speculative"} THEN [owner EXCEPT ![m] = NoOwner] ELSE owner
    /\ aprio' = IF s \in {"Idle", "Speculative"} THEN [aprio EXCEPT ![m] = 0] ELSE aprio

\* executeBootstrap up to the blob: bound and stamped before the node exists.
OpenBootstrap(m) ==
    /\ st' = [st EXCEPT ![m] = "Configuring"]
    /\ bind' = [bind EXCEPT ![m] = act[m].cluster]
    /\ owner' = [owner EXCEPT ![m] = act[m].owner]
    /\ expired' = expired \ {m}
    /\ UNCHANGED aprio

\* executeProvision up to the provider call.
OpenProvision(m) ==
    /\ st' = [st EXCEPT ![m] = "Creating"]
    /\ owner' = [owner EXCEPT ![m] = act[m].owner]
    /\ UNCHANGED <<bind, aprio, expired>>

execute(m) ==
    /\ \/ act[m].kind = "Bootstrap" /\ st[m] = "Idle" /\ OpenBootstrap(m)
       \/ act[m].kind = "Provision" /\ st[m] = "Speculative" /\ OpenProvision(m)
       \/ act[m].kind \in {"Preempt", "Reclaim"} /\ st[m] = "Configured" /\ Move(m, "Draining")
       \/ act[m].kind = "Delete" /\ st[m] = "Idle" /\ Move(m, "Deleting")
    /\ UNCHANGED <<in, act, demand, ready, age, left>>

Done(m) == act' = [act EXCEPT ![m] = NoAction]

\* The Create ack is Idle: the worker goes on to executeBootstrap.
CreatedAndBootstraps(m) ==
    /\ st[m] = "Creating"
    /\ OpenBootstrap(m)
    /\ UNCHANGED <<in, act, demand, ready, age, left>>

\* The provider creates in its own time: the machine turns up Idle later.
CreatedLater(m) ==
    /\ st[m] = "Creating"
    /\ Move(m, "Idle")
    /\ Done(m)
    /\ UNCHANGED <<in, demand, ready, age, left>>

\* Configuring ends: the workload's priority is stamped.
Configured(m) ==
    /\ st[m] = "Configuring"
    /\ st' = [st EXCEPT ![m] = "Configured"]
    /\ aprio' = [aprio EXCEPT ![m] = act[m].prio]
    /\ Done(m)
    /\ UNCHANGED <<in, bind, owner, expired, demand, ready, age, left>>

DrainedOrDeleted(m) ==
    /\ \/ st[m] = "Draining" /\ Move(m, "Idle")
       \/ st[m] = "Deleting" /\ Move(m, "Speculative")
    /\ Done(m)
    /\ UNCHANGED <<in, demand, ready, age, left>>

complete(m) ==
    \/ CreatedAndBootstraps(m) \/ CreatedLater(m) \/ Configured(m) \/ DrainedOrDeleted(m)

\* No blob in time: executeBootstrap rolls back to Idle.
BootstrapRollsBack(m) ==
    /\ st[m] = "Configuring" /\ left > 0
    /\ Move(m, "Idle")
    /\ Done(m)
    /\ left' = left - 1
    /\ UNCHANGED <<in, demand, ready, age>>

HoldExpires(m) ==
    /\ st[m] = "Idle" /\ m \in in.elastic \ expired
    /\ expired' = expired \cup {m}
    /\ UNCHANGED <<in, st, bind, aprio, owner, act, demand, ready, age, left>>

\* A roll-up replaces the rows of its cluster.
Rollup(c) ==
    /\ c \in ready => left > 0
    /\ left' = IF c \in ready THEN left - 1 ELSE left
    /\ ready' = ready \cup {c}
    /\ \E d \in [{n \in Needs : in.cluster[n] = c} -> UNION {in.wants[n] : n \in Needs}] :
         /\ \A n \in DOMAIN d : d[n] \in in.wants[n]
         /\ demand' = [n \in Needs |-> IF n \in DOMAIN d THEN d[n] ELSE demand[n]]
    /\ UNCHANGED <<in, machines, act, age>>

-----------------------------------------------------------------------------
\* A fleet with what the requirements of each class come to: the machines it
\* admits and the instance types it is pinned to.
Indexed(i) ==
    [f \in DOMAIN i \cup {"match", "pinned"} |->
        CASE f = "match"  -> [c \in Classes |-> {m \in Machines : MatchProfile(i.reqs[c], i.attrs[m])}]
          [] f = "pinned" -> [c \in Classes |-> pinnedInstanceTypes(i.reqs[c])]
          [] OTHER        -> i[f]]

\* A shard that has just read its fleet; no cluster has reported yet.
Init ==
    /\ in \in {Indexed(i) : i \in Inputs}
    /\ st = in.st
    /\ bind = in.bind
    /\ owner = [m \in Machines |-> NoOwner]
    /\ aprio = in.aprio
    /\ expired = {}
    /\ act = [m \in Machines |-> NoAction]
    /\ demand = [n \in Needs |-> 0]
    /\ ready = {}
    /\ age = [n \in Needs |-> 0]
    /\ left = Budget

Next ==
    \/ runCycle
    \/ \E m \in Machines : execute(m) \/ complete(m) \/ BootstrapRollsBack(m) \/ HoldExpires(m)
    \/ \E c \in Clusters : Rollup(c)

Spec == Init /\ [][Next]_vars

\* The cycle timer fires, queued actions are executed and providers answer
\* (ShardActuation), holds run out, and every operator reports once.
Fairness ==
    /\ WF_vars(runCycle)
    /\ \A m \in Machines : WF_vars(execute(m)) /\ WF_vars(complete(m)) /\ WF_vars(HoldExpires(m))
    /\ \A c \in Clusters : WF_vars(c \notin ready /\ Rollup(c))

FairSpec == Spec /\ Fairness

-----------------------------------------------------------------------------
(* Properties.                                                             *)

\* The loop's state has its declared shape, a machine has a cluster exactly
\* while it is bound, and one that moves is being moved by an action.
TypeOK ==
    /\ st \in [Machines -> States]
    /\ bind \in [Machines -> Clusters \cup {NoCluster}]
    /\ \A m \in Machines : bind[m] # NoCluster <=> st[m] \in {"Configuring", "Configured", "Draining"}
    /\ \A m \in Machines : st[m] \in {"Creating", "Configuring", "Draining", "Deleting"} => act[m] # NoAction
    /\ owner \in [Machines -> Owners \cup {NoOwner}]
    /\ aprio \in [Machines -> Nat]
    /\ expired \subseteq InState("Idle")
    /\ act \in [Machines -> Actions]
    /\ demand \in [Needs -> Nat]
    /\ ready \subseteq Clusters
    /\ age \in [Needs -> 0 .. ParkAfter + Reprobe]
    /\ left \in 0 .. Budget

Quiet == \A m \in Machines : act[m] = NoAction

\* When demand stops changing the loop comes to rest: no cycle of reclaiming
\* and bootstrapping again, of preempting back and forth, or of releasing and
\* buying (phase3_reclaim.go: "At steady demand ... Phase 3 emits nothing").
Stabilises == <>[]Quiet

Bound(c) == Of(c, "Configured") \cup Of(c, "Configuring")

\* Short whatever the other rows of its cluster need.
ClearlyShort(n) ==
    demand[n] > Alloc({m \in Bound(in.cluster[n]) : m \in in.match[in.class[n]]})

\* In the end a plain Need that is short has nothing to hope for: no machine of
\* its shape is Idle or Speculative, and none serves a lower priority.
NoneStarved ==
    <>[](\A n \in Needs \ in.same : ClearlyShort(n) =>
            \A m \in in.match[in.class[n]] :
                /\ m \notin Available
                /\ st[m] = "Configured" => aprio[m] >= in.prio[in.class[n]])

\* In the end a gang is together in one domain, unless no domain has room:
\* parking never becomes permanent once there is supply again.
GangsAssemble ==
    <>[](\A n \in in.same :
            LET usable(d) == {m \in in.match[in.class[n]] \cap InDomain(d) :
                                m \in Available \cup Bound(in.cluster[n])}
            IN (\E d \in Domains : Alloc(usable(d)) >= demand[n])
                 => \E d \in Domains :
                      Alloc(usable(d) \cap Bound(in.cluster[n])) >= demand[n])

Wanted(ns) == Cardinality({u \in ns \X (1 .. Cardinality(Machines) * MaxAlloc) : u[2] <= demand[u[1]]})

\* The plain Needs of cluster c that machine m could serve.
ServedBy(c, m) ==
    {n \in Needs \ in.same : in.cluster[n] = c /\ m \in in.match[in.class[n]]}

\* A cycle never reclaims below demand: whatever machine it reclaims, all that
\* it leaves bound to the cluster still covers the Needs that machine could serve.
ReclaimsOnlyExcess ==
    [][LET gone == {m \in Machines : act[m] = NoAction /\ act'[m].kind = "Reclaim"} IN
       \A m \in gone :
         LET ns == ServedBy(bind[m], m)
         IN Alloc({x \in Bound(bind[m]) \ gone : \E n \in ns : x \in in.match[in.class[n]]})
              >= Wanted(ns)]_act

\* In the end no cluster keeps what it could give back, a machine that cheaper
\* ones make unnecessary: the cap only spreads a drain over time.
ExcessReleased ==
    <>[](\A c \in Clusters : {n \in in.same : in.cluster[n] = c} = {} =>
            \A m \in Bound(c) :
                Alloc({x \in Bound(c) : x < m}) < Wanted({n \in Needs : in.cluster[n] = c}))

=============================================================================
