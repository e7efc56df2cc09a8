------------------------------ MODULE OccCycle ------------------------------
(***************************************************************************)
(* One Phase 1 cycle of a shard: pkg/decision/occ, from RunCycle's entry   *)
(* to its return.  The main goroutine credits existing supply Need by Need *)
(* (seed.go), feeds the work channel and waits; a pool of workers takes    *)
(* queued Needs, walks a price-sorted pool for candidates and proposes     *)
(* them to the broker, which commits, displaces or refuses under a mutex.  *)
(*                                                                         *)
(* One action per stretch of code between two acquisitions of the mutex of *)
(* SharedState: a worker reads its deficit, then every pool member, then   *)
(* the bucket's sequence number, each under a lock of its own.             *)
(*                                                                         *)
(* Abstractions.  A resource vector is a number of units.  matchProfile    *)
(* and the MinUnit floor are applied in the input: credit[n] and           *)
(* pool[n][st] hold only machines that match n, in the order the code      *)
(* walks them, and prices are distinct, so a walk's order is the price     *)
(* order.  The two penalty buckets of a Precedence are one number.  A Need *)
(* has at most one topology key, the one of its Same requirement or else   *)
(* of its DoNotSchedule spread, and dom is the machines' value of it.      *)
(***************************************************************************)
EXTENDS SameBuckets, Sequences, FiniteSets

CONSTANTS
    Needs,      \* positions of allNeeds, a finite set of positive numbers
    Machines,   \* machine IDs of the snapshot
    Profiles,   \* profile fingerprints, as numbers
    Domains,    \* values of the Same key, as numbers; 0 is the empty string
    Workers,    \* goroutines of the pool
    MaxAlloc,   \* bound on a machine's units
    Retries,    \* Config.Retries
    QueueBuf,   \* capacity of the work channel
    Inputs      \* the arguments RunCycle may be called with

\* The acquirable states, in the order processNeed tries them.
States == {"Idle", "Speculative"}

\* RunCycle's arguments: the Needs, and the snapshot as the Needs see it.
InputType ==
    [demand : [Needs -> Nat \ {0}],              \* AggregateResources
     prio   : [Needs -> Nat],                    \* Profile.Priority
     pen    : [Needs -> Nat],                    \* the penalty buckets
     fp     : [Needs -> Profiles],               \* Profile.Fingerprint
     same   : SUBSET Needs,                      \* carries a Same requirement
     spread : SUBSET (Needs \X (Nat \ {0})),     \* StrictSpread: the Need, max(1, MaxSkew)
     gang   : SUBSET Needs,                      \* modeFor = ModeAllOrNothing
     parked : SUBSET Needs,                      \* AcquisitionParked
     credit : [Needs -> Seq(Machines)],          \* Configured, Configuring, own Creating
     pool   : [Needs -> [States -> Seq(Machines)]],
     own    : [Machines -> Needs \cup {0}],      \* the Need a machine is stamped with
     dom    : [Machines -> Domains],
     alloc  : [Machines -> 0 .. MaxAlloc]]       \* EffectiveAllocatable

ASSUME NeedsAssumption == Needs \subseteq Nat \ {0} /\ IsFiniteSet(Needs)
ASSUME DomainsAssumption == Domains \subseteq Nat \ {0}
ASSUME FiniteAssumption == IsFiniteSet(Workers) /\ IsFiniteSet(Machines)
ASSUME BoundsAssumption == Retries \in Nat \ {0} /\ QueueBuf \in Nat \ {0} /\ MaxAlloc \in Nat
ASSUME InputsAssumption == Inputs \subseteq InputType
\* A machine has one state in the snapshot: what is credited is not acquired.
ASSUME SupplyAssumption ==
    \A a \in Inputs : \A n, o \in Needs, st \in States :
        \A i \in DOMAIN a.credit[n], j \in DOMAIN a.pool[o][st] :
            a.credit[n][i] # a.pool[o][st][j]

VARIABLES
    in,             \* the arguments of this call
    claimedBy,      \* SharedState.claimedBy: machine -> [need, ret], need 0 when unclaimed
    claimedByNeed,  \* SharedState.claimedByNeed: Need -> set of machines
    bucketSeq,      \* SharedState.bucketSeq
    sameDomain,     \* SharedState.sameDomain, 0 when none was recorded
    consumed,       \* the pre-pass's virtual-consumption ledger
    main,           \* where RunCycle is: "seed", "feed", "wait" or "done"
    todo,           \* Needs the current loop of RunCycle has not reached
    work,           \* the work channel
    wg,             \* the WaitGroup's counter
    wk,             \* worker -> locals of processNeed
    spent,          \* history: Needs that ran out of retries somewhere
    requeues        \* history: how often a Need was re-queued by displacement

state == <<claimedBy, claimedByNeed, bucketSeq, sameDomain>>
vars == <<in, state, consumed, main, todo, work, wg, wk, spent, requeues>>

Unclaimed == [need |-> 0, ret |-> 0]
Claims == [need : Needs \cup {0}, ret : Nat]
QueuedNeed == [need : Needs, ret : Nat]
Buckets == States \X Profiles \X (Domains \cup {0})

\* The locals of a worker; this is one blocked in its receive from the work channel.
Resting == [pc |-> "rest", need |-> 0, ret |-> 0, st |-> "Idle", left |-> 0,
            pass |-> "unclaimed", i |-> 1, cands |-> {}, dom |-> 0, obs |-> 0,
            disp |-> {}]

-----------------------------------------------------------------------------
(* Quantities and precedence.                                              *)

\* The units a set of machines provides, counted one by one.
Sum(ms) == Cardinality({u \in ms \X (1 .. MaxAlloc) : u[2] <= in.alloc[u[1]]})
SubResources(a, b) == IF a > b THEN a - b ELSE 0

\* Precedence.Less: n's claim gives way to o's.
Less(n, o) ==
    \/ in.prio[n] < in.prio[o]
    \/ in.prio[n] = in.prio[o] /\ in.pen[n] < in.pen[o]

computeDeficit(n) == SubResources(in.demand[n], Sum(claimedByNeed[n]))

IsClaimed(m) == claimedBy[m].need # 0
DisplaceableBy(m, n) == IsClaimed(m) => Less(claimedBy[m].need, n)

\* The other half of hasTopologyConstraint: the Needs with a strict spread.
Spreads == {p[1] : p \in in.spread}

Elems(s) == {s[i] : i \in DOMAIN s}

\* What a stop-when-covered walk of s takes when it skips what is not in ok:
\* every member that the ones taken before it have not made unnecessary.
Walk(s, ok, amount) ==
    {s[i] : i \in {j \in DOMAIN s :
        s[j] \in ok /\ Sum({s[k] : k \in 1 .. j - 1} \cap ok) < amount}}

-----------------------------------------------------------------------------
(* The pre-pass, SeedConfiguredSupply.                                     *)

\* Existing supply of n that no earlier Need holds.
Creditable(n) == {m \in Elems(in.credit[n]) : ~IsClaimed(m)}

\* The members SameSupplyIndex has for n, and the ones AcquirableTotals counts.
\* (The index is not price-sorted; no property depends on the order here.)
Supply(n) == in.pool[n]["Idle"] \o in.pool[n]["Speculative"]
Acquirable(n) ==
    {m \in Elems(Supply(n)) : n \notin in.parked /\ m \notin consumed /\ ~IsClaimed(m)}

InDomain(d) == {m \in Machines : in.dom[m] = d}

\* One SameBucket: creditable and acquirable supply of a domain together.
SameBucket(n, d) ==
    LET cred == Creditable(n) \cap InDomain(d)
        all  == cred \cup (Acquirable(n) \cap InDomain(d))
        want == in.demand[n]
        Capped(ms) == IF Sum(ms) > want THEN want ELSE Sum(ms)
    IN [sat   |-> Sum(all) >= want,
        cred  |-> Capped(cred),
        own   |-> Capped({m \in cred : in.own[m] = n}),
        total |-> Sum(all),
        count |-> Cardinality(all)]

\* The domains ChooseSameBucket returns for n: at most one.
ChooseSameBucket(n) ==
    LET b == [d \in Domains |-> SameBucket(n, d)]
        present == {d \in Domains : b[d].count > 0}
    IN {d \in present : \A e \in present \ {d} : BetterBucket(d, b[d], e, b[e])}

\* The claim loop over incumbentFirst: the gang's own machines, then the rest.
ClaimIncumbentFirst(n, d) ==
    LET ok   == Creditable(n) \cap InDomain(d)
        mine == Walk(in.credit[n], {m \in ok : in.own[m] = n}, in.demand[n])
    IN mine \cup Walk(in.credit[n], {m \in ok : in.own[m] # n},
                      SubResources(in.demand[n], Sum(mine)))

\* SeedClaim for every machine of ms.
SeedClaims(n, ms) ==
    /\ claimedBy' = [m \in Machines |->
                        IF m \in ms THEN [need |-> n, ret |-> Retries] ELSE claimedBy[m]]
    /\ claimedByNeed' = [claimedByNeed EXCEPT ![n] = @ \cup ms]

\* The plain arm of SeedConfiguredSupply.
SeedPlain(n) ==
    /\ n \notin in.same
    /\ SeedClaims(n, Walk(in.credit[n], Creditable(n), in.demand[n]))
    /\ UNCHANGED <<sameDomain, consumed>>

\* seedSameProfile when some domain has supply: choose it, credit within it,
\* and consume what the workers will take from it.
SeedSame(n) ==
    /\ n \in in.same
    /\ \E d \in ChooseSameBucket(n) :
         LET taken == ClaimIncumbentFirst(n, d)
             remaining == SubResources(in.demand[n], Sum(taken))
         IN /\ sameDomain' = [sameDomain EXCEPT ![n] = d]
            /\ SeedClaims(n, taken)
            /\ consumed' = consumed \cup
                 Walk(Supply(n), Acquirable(n) \cap InDomain(d), remaining)

\* seedSameProfile when no domain has any: nothing is recorded.
SeedNowhere(n) ==
    /\ n \in in.same
    /\ ChooseSameBucket(n) = {}
    /\ UNCHANGED <<claimedBy, claimedByNeed, sameDomain, consumed>>

\* The pre-pass takes the Needs by descending priority, stable in position.
SeedConfiguredSupply(n) ==
    /\ main = "seed"
    /\ n \in todo
    /\ \A o \in todo \ {n} :
         in.prio[n] > in.prio[o] \/ (in.prio[n] = in.prio[o] /\ n < o)
    /\ SeedPlain(n) \/ SeedSame(n) \/ SeedNowhere(n)
    /\ todo' = IF todo = {n} THEN Needs ELSE todo \ {n}
    /\ main' = IF todo = {n} THEN "feed" ELSE "seed"
    /\ UNCHANGED <<in, bucketSeq, work, wg, wk, spent, requeues>>

-----------------------------------------------------------------------------
(* The work channel and the barrier.                                       *)

\* RunCycle's push closure: count, then send; the send blocks when full.
Push(qn) ==
    /\ Len(work) < QueueBuf
    /\ work' = Append(work, qn)
    /\ wg' = wg + 1

\* The seeding loop queues every Need the pre-pass left short, in order.  The
\* workers already run, but a Need that was not queued yet holds only what the
\* pre-pass credited, which no pool contains: its deficit is the pre-pass's.
Feed(n) ==
    /\ main = "feed"
    /\ n \in todo
    /\ \A o \in todo : n <= o
    /\ IF computeDeficit(n) = 0
       THEN UNCHANGED <<work, wg>>
       ELSE Push([need |-> n, ret |-> Retries])
    /\ todo' = todo \ {n}
    /\ main' = IF todo = {n} THEN "wait" ELSE "feed"
    /\ UNCHANGED <<in, state, consumed, wk, spent, requeues>>

\* Faulty variant of Barrier: no wg.Wait.
BarrierOpen ==
    /\ main = "wait"
    /\ main' = "done"
    /\ UNCHANGED <<in, state, consumed, todo, work, wg, wk, spent, requeues>>

\* wg.Wait returns; what follows reads the claims single-threaded.
Barrier ==
    /\ main = "wait"
    /\ wg = 0
    /\ main' = "done"
    /\ UNCHANGED <<in, state, consumed, todo, work, wg, wk, spent, requeues>>

\* RunCycle has returned and the workers have left their loops.
Returned ==
    /\ main = "done"
    /\ UNCHANGED vars

-----------------------------------------------------------------------------
(* The workers: processNeed.                                               *)

AtPC(w, pc) == wk[w].pc = pc

\* Nothing but worker w's locals changes.
LocalStep(w, r) ==
    /\ wk' = [wk EXCEPT ![w] = r]
    /\ UNCHANGED <<in, state, consumed, main, todo, work, wg, spent, requeues>>

\* A worker receives a queued Need and starts processNeed.
Take(w) ==
    /\ AtPC(w, "rest")
    /\ work # <<>>
    /\ wk' = [wk EXCEPT ![w] = [Resting EXCEPT !.pc = "check",
                                               !.need = Head(work).need,
                                               !.ret = Head(work).ret]]
    /\ work' = Tail(work)
    /\ UNCHANGED <<in, state, consumed, main, todo, wg, spent, requeues>>

\* Faulty variant of FirstPass: the recorded domain is not looked up.
FirstPassRepicks(n) == IF n \in in.same THEN "score" ELSE "unclaimed"

\* findCandidatesFor's routing: the first pass over the pool.
FirstPass(n) ==
    IF n \notin in.same THEN IF n \in Spreads THEN "spread" ELSE "unclaimed"
    ELSE IF sameDomain[n] # 0 THEN "domain" ELSE "score"

\* The head of the retry loop: return when the budget or the deficit is zero,
\* else start a candidate search for what is still missing.
CheckDeficit(w) ==
    LET r == wk[w] IN
    /\ AtPC(w, "check")
    /\ LocalStep(w,
         IF r.ret = 0 \/ computeDeficit(r.need) = 0
         THEN [r EXCEPT !.pc = "finish"]
         ELSE [r EXCEPT !.pc = "scan", !.left = computeDeficit(r.need),
                        !.pass = FirstPass(r.need), !.i = 1, !.cands = {},
                        !.dom = sameDomain[r.need]])

\* The pool a search walks; a parked Same Need does not acquire.
PoolOf(r) == IF r.need \in in.same \cap in.parked THEN <<>> ELSE in.pool[r.need][r.st]

\* Which machine a pass of a search adds, read at this moment.  "score" and
\* "spread" collect what FindSame and FindSpread choose from, "domain" takes
\* from one domain.
\* (The scoring reads domain by domain; the pools of the instances list the
\* machines of a domain together, so the walk is in that order too.)
Picks(r, m) ==
    CASE r.pass = "unclaimed"    -> ~IsClaimed(m)
      [] r.pass = "displaceable" -> IsClaimed(m) /\ DisplaceableBy(m, r.need)
      [] r.pass \in {"score", "spread"} -> DisplaceableBy(m, r.need)
      [] r.pass = "domain"       -> DisplaceableBy(m, r.need) /\ in.dom[m] = r.dom

PassEnded(r) == r.left = 0 \/ r.i > Len(PoolOf(r))

\* One machine of the walk.
ScanMachine(w) ==
    LET r == wk[w]
        m == PoolOf(r)[r.i]
    IN
    /\ AtPC(w, "scan")
    /\ ~PassEnded(r)
    /\ LocalStep(w,
         IF ~Picks(r, m) THEN [r EXCEPT !.i = @ + 1]
         ELSE [r EXCEPT !.i = @ + 1, !.cands = @ \cup {m},
                        !.left = IF r.pass \in {"score", "spread"} THEN @
                                 ELSE SubResources(@, in.alloc[m])])

\* FindBasic's second pass, when the first did not cover the deficit.
SecondPass(w) ==
    /\ AtPC(w, "scan")
    /\ wk[w].pass = "unclaimed" /\ PassEnded(wk[w]) /\ wk[w].left > 0
    /\ LocalStep(w, [wk[w] EXCEPT !.pass = "displaceable", !.i = 1])

\* FindSame's fallback ranks a domain by the machines it counted there: one
\* that covers the deficit first, then by cheapest head; short ones by count.
BetterFallback(r, d, e) ==
    LET In(x)     == {m \in r.cands : in.dom[m] = x}
        Atomic(x) == Sum(In(x)) >= r.left
        Cheaper   == \E i \in DOMAIN PoolOf(r) :
                        /\ PoolOf(r)[i] \in In(d)
                        /\ \A j \in 1 .. i : PoolOf(r)[j] \notin In(e)
    IN \/ Atomic(d) /\ ~Atomic(e)
       \/ Atomic(d) /\ Atomic(e) /\ Cheaper
       \/ /\ ~Atomic(d) /\ ~Atomic(e)
          /\ \/ Cardinality(In(d)) > Cardinality(In(e))
             \/ Cardinality(In(d)) = Cardinality(In(e)) /\ Cheaper

\* The scoring is done: walk the best domain again and take from it.
ChooseFallback(w) ==
    LET r == wk[w]
        seen == {in.dom[m] : m \in r.cands}
    IN
    /\ AtPC(w, "scan")
    /\ r.pass = "score" /\ PassEnded(r)
    /\ \E d \in seen :
         /\ \A e \in seen \ {d} : BetterFallback(r, d, e)
         /\ LocalStep(w, [r EXCEPT !.pass = "domain", !.i = 1, !.cands = {}, !.dom = d])

\* FindSpread's greedy choice among the machines it collected: the cheapest one
\* of a domain that is not ahead of the emptiest by the skew, until the deficit
\* is covered or every such domain is used up.
SpreadPicks(r) ==
    LET pool == PoolOf(r)
        counts(ms, m) == Cardinality({x \in ms : in.dom[x] = in.dom[m]})
        Eligible(ms) ==
            {i \in DOMAIN pool :
                /\ pool[i] \in r.cands \ ms
                /\ \A p \in in.spread, x \in r.cands :
                     p[1] = r.need => counts(ms, pool[i]) < counts(ms, x) + p[2]}
        Step(ms) ==
            LET best == {i \in Eligible(ms) : \A j \in Eligible(ms) : i <= j}
            IN IF Sum(ms) >= r.left THEN ms ELSE ms \cup {pool[i] : i \in best}
        outs[k \in 0 .. Cardinality(r.cands)] ==
            IF k = 0 THEN {{}} ELSE {Step(ms) : ms \in outs[k - 1]}
    IN {m \in r.cands : \E out \in outs[Cardinality(r.cands)] : m \in out}

\* The end of FindSpread: the choice is one proposal, in a bucket without a value.
ChooseSpread(w) ==
    LET r == wk[w] IN
    /\ AtPC(w, "scan")
    /\ r.pass = "spread" /\ PassEnded(r) /\ r.cands # {}
    /\ LocalStep(w, [r EXCEPT !.pass = "domain", !.cands = SpreadPicks(r)])

\* Back to the head of the retry loop for a state, with a budget.
Retry(r, st, ret) ==
    [Resting EXCEPT !.pc = "check", !.need = r.need, !.st = st, !.ret = ret]

\* The `break` out of the retry loop of one state.
NextState(r) ==
    IF r.st = "Idle" THEN Retry(r, "Speculative", r.ret) ELSE [r EXCEPT !.pc = "finish"]

\* Faulty variant of NoCandidates: it goes round the retry loop again.
NoCandidatesContinues(w) ==
    /\ AtPC(w, "scan")
    /\ wk[w].pass # "unclaimed" /\ PassEnded(wk[w]) /\ wk[w].cands = {}
    /\ LocalStep(w, Retry(wk[w], wk[w].st, wk[w].ret))

\* The last pass found nothing.
NoCandidates(w) ==
    /\ AtPC(w, "scan")
    /\ wk[w].pass # "unclaimed" /\ PassEnded(wk[w]) /\ wk[w].cands = {}
    /\ LocalStep(w, NextState(wk[w]))

Bucket(r) == <<r.st, in.fp[r.need], r.dom>>

\* state.BucketSeq, read once the candidates are known.
ReadBucketSeq(w) ==
    /\ AtPC(w, "scan")
    /\ PassEnded(wk[w]) /\ wk[w].cands # {}
    /\ wk[w].pass \in {"displaceable", "domain"} \/ wk[w].left = 0
    /\ LocalStep(w, [wk[w] EXCEPT !.pc = "propose", !.obs = bucketSeq[Bucket(wk[w])]])

-----------------------------------------------------------------------------
(* Broker.Propose.                                                         *)

newClaim(r) == {m \in r.cands : ~IsClaimed(m)}

\* Faulty variant of displace: equal precedence displaces too.
displaceEqual(r) == {m \in r.cands : IsClaimed(m) /\ ~Less(r.need, claimedBy[m].need)}

displace(r) == {m \in r.cands : IsClaimed(m) /\ Less(claimedBy[m].need, r.need)}
conflicted(r) == r.cands \ (newClaim(r) \cup displace(r))

\* Steps 1 and 3 of Propose: the sequence number moved, or the mode aborts.
Refused(r) ==
    \/ bucketSeq[Bucket(r)] # r.obs
    \/ r.need \in in.gang /\ conflicted(r) # {}
    \/ r.need \notin in.gang /\ newClaim(r) \cup displace(r) = {}

\* Result.Displaced: one entry per evicted Need, with the smallest budget among
\* the claims it loses, less one.
Displaced(r) ==
    LET least == {m \in displace(r) : \A x \in displace(r) :
                    claimedBy[x].need = claimedBy[m].need => claimedBy[m].ret <= claimedBy[x].ret}
    IN {[need |-> claimedBy[m].need, ret |-> claimedBy[m].ret - 1] : m \in least}

\* Faulty variant of Commit: the evicted Need keeps its reverse entries.
CommitKeepsReverse(r) ==
    LET won == newClaim(r) \cup displace(r) IN
    /\ claimedBy' = [m \in Machines |->
                        IF m \in won THEN [need |-> r.need, ret |-> r.ret] ELSE claimedBy[m]]
    /\ claimedByNeed' = [claimedByNeed EXCEPT ![r.need] = @ \cup won]
    /\ bucketSeq' = [bucketSeq EXCEPT ![Bucket(r)] = @ + 1]

\* Step 4: release the evicted claims, record the new ones, move the number.
Commit(r) ==
    LET won == newClaim(r) \cup displace(r) IN
    /\ claimedBy' = [m \in Machines |->
                        IF m \in won THEN [need |-> r.need, ret |-> r.ret] ELSE claimedBy[m]]
    /\ claimedByNeed' = [n \in Needs |->
                            IF n = r.need THEN claimedByNeed[n] \cup won
                            ELSE claimedByNeed[n] \ {m \in displace(r) : claimedBy[m].need = n}]
    /\ bucketSeq' = [bucketSeq EXCEPT ![Bucket(r)] = @ + 1]

\* A refused proposal costs one retry.
ProposeConflict(w) ==
    LET r == wk[w] IN
    /\ AtPC(w, "propose")
    /\ Refused(r)
    /\ wk' = [wk EXCEPT ![w] = Retry(r, r.st, r.ret - 1)]
    /\ spent' = IF r.ret = 1 THEN spent \cup {r.need} ELSE spent
    /\ UNCHANGED <<in, state, consumed, main, todo, work, wg, requeues>>

\* Faulty variant of ProposeCommit: nobody re-queues the displaced Needs.
ProposeCommitForgets(w) ==
    LET r == wk[w] IN
    /\ AtPC(w, "propose")
    /\ ~Refused(r)
    /\ Commit(r)
    /\ wk' = [wk EXCEPT ![w] = [Retry(r, r.st, r.ret) EXCEPT !.pc = "push"]]
    /\ UNCHANGED <<in, sameDomain, consumed, main, todo, work, wg, spent, requeues>>

\* A commit; a displaced Need without budget left is not queued again.
ProposeCommit(w) ==
    LET r == wk[w]
        out == Displaced(r)
    IN
    /\ AtPC(w, "propose")
    /\ ~Refused(r)
    /\ Commit(r)
    /\ wk' = [wk EXCEPT ![w] = [Retry(r, r.st, r.ret) EXCEPT !.pc = "push",
                                         !.disp = {q \in out : q.ret > 0}]]
    /\ spent' = spent \cup {q.need : q \in {x \in out : x.ret = 0}}
    /\ UNCHANGED <<in, sameDomain, consumed, main, todo, work, wg, requeues>>

\* One push of a displaced Need, in the map's order; blocks on a full channel.
PushDisplaced(w) ==
    /\ AtPC(w, "push")
    /\ \E q \in wk[w].disp :
         /\ Push(q)
         /\ wk' = [wk EXCEPT ![w].disp = @ \ {q}]
         /\ requeues' = [requeues EXCEPT ![q.need] = @ + 1]
    /\ UNCHANGED <<in, state, consumed, main, todo, spent>>

\* After the pushes: a Need with a topology constraint leaves this state, the
\* others search again.
AfterCommit(w) ==
    /\ AtPC(w, "push")
    /\ wk[w].disp = {}
    /\ LocalStep(w, IF wk[w].need \in in.same \cup Spreads THEN NextState(wk[w])
                    ELSE Retry(wk[w], wk[w].st, wk[w].ret))

\* processNeed returns, wg.Done.
Finish(w) ==
    /\ AtPC(w, "finish")
    /\ wk' = [wk EXCEPT ![w] = Resting]
    /\ wg' = wg - 1
    /\ UNCHANGED <<in, state, consumed, main, todo, work, spent, requeues>>

-----------------------------------------------------------------------------
Init ==
    /\ in \in Inputs
    /\ claimedBy = [m \in Machines |-> Unclaimed]
    /\ claimedByNeed = [n \in Needs |-> {}]
    /\ bucketSeq = [b \in Buckets |-> 0]
    /\ sameDomain = [n \in Needs |-> 0]
    /\ consumed = {}
    /\ main = "seed"
    /\ todo = Needs
    /\ work = <<>>
    /\ wg = 0
    /\ wk = [w \in Workers |-> Resting]
    /\ spent = {}
    /\ requeues = [n \in Needs |-> 0]

RunCycle ==
    \/ \E n \in Needs : SeedConfiguredSupply(n) \/ Feed(n)
    \/ Barrier

processNeed(w) ==
    \/ Take(w)
    \/ CheckDeficit(w)
    \/ ScanMachine(w)
    \/ SecondPass(w)
    \/ ChooseFallback(w)
    \/ ChooseSpread(w)
    \/ NoCandidates(w)
    \/ ReadBucketSeq(w)
    \/ ProposeConflict(w)
    \/ ProposeCommit(w)
    \/ PushDisplaced(w)
    \/ AfterCommit(w)
    \/ Finish(w)

Next == RunCycle \/ (\E w \in Workers : processNeed(w)) \/ Returned

Spec == Init /\ [][Next]_vars

\* Every goroutine that can run does: the Go scheduler, and channels and
\* mutexes whose waiters are all served.
Fairness == WF_vars(RunCycle) /\ \A w \in Workers : WF_vars(processNeed(w))

FairSpec == Spec /\ Fairness

-----------------------------------------------------------------------------
(* Properties.                                                             *)

WorkerType ==
    [pc    : {"rest", "check", "scan", "propose", "push", "finish"},
     need  : Needs \cup {0},
     ret   : Nat,
     st    : States,
     left  : Nat,
     pass  : {"unclaimed", "displaceable", "score", "spread", "domain"},
     i     : Nat \ {0},
     cands : SUBSET Machines,
     dom   : Domains \cup {0},
     obs   : Nat,
     disp  : SUBSET QueuedNeed]

\* The state of the cycle has its declared shape, a worker that holds work
\* holds a Need of the call, and only such a worker has claims or pushes to
\* make (SharedState, QueuedNeed, processNeed's locals).
TypeOK ==
    /\ in \in Inputs
    /\ claimedBy \in [Machines -> Claims]
    /\ claimedByNeed \in [Needs -> SUBSET Machines]
    /\ bucketSeq \in [Buckets -> Nat]
    /\ sameDomain \in [Needs -> Domains \cup {0}]
    /\ consumed \subseteq Machines
    /\ main \in {"seed", "feed", "wait", "done"}
    /\ todo \subseteq Needs
    /\ work \in Seq(QueuedNeed)
    /\ wg \in Nat
    /\ wk \in [Workers -> WorkerType]
    /\ \A w \in Workers : wk[w].pc # "rest" => wk[w].need \in Needs
    /\ spent \subseteq Needs
    /\ requeues \in [Needs -> Nat]

\* The forward and the reverse index of the claimed set agree (state.go says
\* the broker keeps them in sync): the deficits and results of RunCycle are
\* read from the reverse index, the broker's decisions from the forward one.
\* So no machine is handed to two Needs.
IndexesAgree ==
    \A m \in Machines, n \in Needs :
        m \in claimedByNeed[n] <=> claimedBy[m].need = n

\* A claim is only ever taken over by a Need of strictly higher precedence,
\* and a claimed machine never becomes free again within the cycle: this is
\* what makes a candidate walk that reads machine after machine sound.
EvictionOnlyUpward ==
    [][\A m \in Machines :
         IsClaimed(m) /\ claimedBy'[m] # claimedBy[m]
            => claimedBy'[m].need # 0 /\ Less(claimedBy[m].need, claimedBy'[m].need)]_vars

\* Priority decides (bigfleet.md section 16): when the cycle returns, a plain
\* Need that is short and never ran out of retries has, in none of its pools,
\* a machine that is free or held by a Need it outranks.
NoInversion ==
    main = "done" =>
        \A n \in Needs \ (in.same \cup Spreads \cup spent) :
            computeDeficit(n) > 0 =>
                \A st \in States : \A m \in Elems(in.pool[n][st]) : ~DisplaceableBy(m, n)

\* The claims RunCycle reports are read only when no worker runs and nothing
\* is queued: the barrier on the WaitGroup covers work that work creates.
BarrierQuiet ==
    main = "done" => work = <<>> /\ \A w \in Workers : wk[w].pc = "rest"

\* The WaitGroup counts the queued Needs and the workers that hold one.
WgExact == wg = Len(work) + Cardinality({w \in Workers : wk[w].pc # "rest"})

\* Nothing runs after the barrier has been passed.
DoneIsFinal == main = "done" => wg = 0

\* A search, a proposal and a recorded claim have a retry left to give up.
BudgetLeft ==
    /\ \A w \in Workers : wk[w].pc \in {"scan", "propose", "push"} => wk[w].ret > 0
    /\ \A m \in Machines : IsClaimed(m) => claimedBy[m].ret > 0

\* A gang for which the pre-pass recorded a domain holds machines of that domain
\* only, whether they were credited, taken Idle or taken Speculative, and whatever
\* it loses and takes again.
SameConfined ==
    \A n \in in.same : sameDomain[n] # 0 =>
        \A m \in claimedByNeed[n] : in.dom[m] = sameDomain[n]

\* What the docs say of every gang: crediting and acquisition are confined to one
\* domain, so that when the cycle returns its machines share it.
SameInOneDomain ==
    main = "done" =>
        \A n \in in.same : \A a, b \in claimedByNeed[n] : in.dom[a] = in.dom[b]

\* A Need is pushed again by displacement at most once per machine it lost, and
\* what it lost to a higher Need it never gets back within the cycle.  (The
\* comment at the channel's capacity says at most Retries times, which is not
\* so: every claim carries a retry budget of its own.)
RequeuedOncePerMachine ==
    \A n \in Needs : requeues[n] + Cardinality(claimedByNeed[n]) <= Cardinality(Machines)

\* The cycle ends: retries are finite and displacement only goes upward.
CycleEnds == <>(main = "done")

=============================================================================
